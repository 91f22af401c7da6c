SPECIFICATION Spec
CONSTANTS
  Threads = {t1}
  Primitives <- MCPrimitives
  Pool <- LostPool
  Defs <- MCDefs
  Asked = {"NewLost", "PairOldOld", "PairTU"}
  Members = {}
  Signatures = {}
  Presented <- TuplePresented
  Extended <- GenericExtended
  MaxDepth = 6
  MaxHeld = 2
  MaxInterned = 3
  None = None
INVARIANTS
  ErrorsAreUndefined
  RecordFlagFits
  ExtensionVariablesBound
CHECK_DEADLOCK FALSE
