SPECIFICATION Spec
CONSTANTS
  Empty = Empty
  Padding = Padding
  Missing = Missing
  NoSource = NoSource
  Content <- MCContent
  Bindings <- MCBindings
  CompileErrors <- MCCompileErrors
  InvalidSpirv <- MCInvalidSpirv
  MetalSlots = 3
  Builder = {b1, b2}
  Requests <- SharingRequests
  Backends <- FullBackend
  Path <- NoPath
  InitialFiles <- NoFiles
  CrossErrors <- MCCrossErrors
  WholeWrites = TRUE
  MaxBuilds = 3
  MaxEdits = 0
  MaxClears = 1
INVARIANTS
  CacheSound
  Transparent
  SlotsAgree
\* Every build that was asked for has ended.
CHECK_DEADLOCK FALSE
