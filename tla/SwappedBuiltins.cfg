SPECIFICATION Spec
CONSTANTS
  Threads = {t1, t2}
  Terms <- Swapped
  Kind <- MCKind
  Needs <- MCNeeds
  Missing = {}
  Builtin <- MCBuiltin
  Native <- MCNative
  Parts <- MCParts
  None = None
INVARIANT NoClash
CHECK_DEADLOCK FALSE
