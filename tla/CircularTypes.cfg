SPECIFICATION Spec
CONSTANTS
  Threads = {t1, t2}
  Terms <- MCTerms
  Kind <- MCKind
  Needs <- MCNeeds
  Missing = {"Lost"}
  Builtin <- MCBuiltin
  Native <- MCNative
  Parts <- MCParts
  None = None
INVARIANT NulloptMeansUnresolvable
CHECK_DEADLOCK FALSE
