SPECIFICATION FairSpec
CONSTANTS
  Key <- MCKey
  StageModules <- MCStageModules
  NumStages = 2
  BufferBases <- MCBufferBases
  IndexMod = 16
  MaxBufferIndex = 3
  MaxSamplerIndex = 2
  MaxTextureIndex = 2
INVARIANTS
  TypeOK
  AcceptedProgramFits
  SamplerPinned
  MatchesClosedForm
PROPERTY Terminates
\* The construction is over when every loop has run.
CHECK_DEADLOCK FALSE
