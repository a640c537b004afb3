SPECIFICATION FairSpec
CONSTANTS
  Empty = Empty
  Padding = Padding
  Missing = Missing
  NoSource = NoSource
  Content <- MCContent
  Bindings <- MCBindings
  CompileErrors <- MCCompileErrors
  InvalidSpirv <- MCInvalidSpirv
  MetalSlots = 3
  Builder = {b1}
  Requests <- EveryRequest
  Backends <- AllBackends
  Path <- MCPath
  InitialFiles <- MCFiles
  CrossErrors <- MCCrossErrors
  WholeWrites = TRUE
  MaxBuilds = 2
  MaxEdits = 1
  MaxClears = 1
INVARIANTS
  TypeOK
  EntriesLink
  CompiledCoherent
PROPERTIES
  AnswersAsUncached
  BuildsReturn
CHECK_DEADLOCK FALSE
