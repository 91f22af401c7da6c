SPECIFICATION Spec
CONSTANTS
  Radix = 4
  Programs <- ProgramsImpl
  Fields <- FieldsImpl
  Types <- TypesImpl
  Methods <- MethodsImpl
  Steps = 6
INVARIANT TryBlocksAreHalfOpen
CHECK_DEADLOCK FALSE
