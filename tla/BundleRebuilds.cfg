SPECIFICATION Spec
CONSTANTS
  Truncated = Truncated
  Cut = Cut
  NoFile = NoFile
  Unreadable = Unreadable
  Job = {j1}
  Manifests <- MCManifests
  Naga = TRUE
  FlushFails = FALSE
  MaxRuns = 3
INVARIANTS
  TypeOK
  FirstBundleConsistent
  ReportedComplete
PROPERTY FirstRunPublishes
\* Every run that was asked for has ended.
CHECK_DEADLOCK FALSE
