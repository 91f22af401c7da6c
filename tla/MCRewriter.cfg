SPECIFICATION Spec
CONSTANTS
  Radix = 4
  Programs <- ProgramsImpl
  Fields <- FieldsImpl
  Types <- TypesImpl
  Methods <- MethodsImpl
  Steps = 6
INVARIANTS
  InstructionsMeanTheSource
  StatePointsFollow
  TryBlocksFollow
CHECK_DEADLOCK FALSE
