SPECIFICATION Spec
CONSTANTS
  Empty = Empty
  Padding = Padding
  Missing = Missing
  NoSource = NoSource
  Content <- MCContent
  Bindings <- MCBindings
  CompileErrors <- MCCompileErrors
  InvalidSpirv <- MCInvalidSpirv
  MetalSlots = 3
  Builder = {b1}
  Requests <- ValidationRequests
  Backends <- FullBackend
  Path <- NoPath
  InitialFiles <- NoFiles
  CrossErrors <- NoCrossErrors
  WholeWrites = TRUE
  MaxBuilds = 2
  MaxEdits = 0
  MaxClears = 0
INVARIANT OutputValidated
CHECK_DEADLOCK FALSE
