SPECIFICATION FairSpec
CONSTANTS
  FrontEnd = {f1, f2, f3}
  NoOne = NoOne
  MaxConstructions = 5
INVARIANTS
  TypeOK
  CompilesInitialized
  CountsUsers
PROPERTIES
  Alternate
  FinallyOff
  LibraryShared
\* Every front end is gone and no more are constructed.
CHECK_DEADLOCK FALSE
