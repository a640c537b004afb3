SPECIFICATION Spec
CONSTANTS
  Absent = Absent
  Invalid = Invalid
  Missing = Missing
  NoReflection = Missing
  NoSlot = Missing
  SizeMod = 1024
  IndexMod = 1024
  Version = 196608
  MaxProgramStageCount = 2
  MaxBindingCount = 5
  MaxStructMemberCount = 2
  MaxInvocations = 2
  LongName = LongName
  LongStrings = {LongName}
  FormatNames <- MCFormatNames
  IndexLimits <- MCIndexLimits
  InstanceName <- MCInstanceName
  RegistryFiles <- MCRegistryFiles
  Modules <- MCModules
  FrontEnd <- MCFrontEnd
  InvalidSpirv = {"invalid"}
  TintEnabled = {TRUE, FALSE}
  Invocations <- MCInvocations
INVARIANTS
  TypeOK
  BundlesFresh
  PublishedAsWritten
  LayoutsHold
  DeclsOfSchemaOwner
  ReflectionLoads
  
CHECK_DEADLOCK FALSE
