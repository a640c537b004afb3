SPECIFICATION Spec
CONSTANTS
  Empty = Empty
  Padding = Padding
  Missing = Missing
  NoSource = NoSource
  Content <- MCContent
  Bindings <- MCBindings
  CompileErrors <- MCCompileErrors
  InvalidSpirv <- MCInvalidSpirv
  MetalSlots = 3
  Builder = {b1}
  Requests <- FileRequests
  Backends <- FullBackend
  Path <- MCPath
  InitialFiles <- MCFiles
  CrossErrors <- NoCrossErrors
  WholeWrites = TRUE
  MaxBuilds = 2
  MaxEdits = 1
  MaxClears = 0
INVARIANT FreshSources
CHECK_DEADLOCK FALSE
