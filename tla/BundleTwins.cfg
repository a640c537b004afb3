SPECIFICATION Spec
CONSTANTS
  Truncated = Truncated
  Cut = Cut
  NoFile = NoFile
  Unreadable = Unreadable
  Job = {j1}
  Manifests <- TwinManifests
  Naga = FALSE
  FlushFails = FALSE
  MaxRuns = 1
INVARIANT StageFilesOwn
\* Every run that was asked for has ended.
CHECK_DEADLOCK FALSE
