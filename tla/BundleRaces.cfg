SPECIFICATION Spec
CONSTANTS
  Truncated = Truncated
  Cut = Cut
  NoFile = NoFile
  Unreadable = Unreadable
  Job = {j1, j2}
  Manifests <- RacingManifests
  Naga = TRUE
  FlushFails = TRUE
  MaxRuns = 2
INVARIANT NamedFilesExist
\* Every run that was asked for has ended.
CHECK_DEADLOCK FALSE
