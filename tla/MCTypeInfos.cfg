SPECIFICATION FairSpec
CONSTANTS
  Threads = {t1, t2}
  Terms <- MCTerms
  Kind <- MCKind
  Needs <- MCNeeds
  Missing = {"Lost"}
  Builtin <- MCBuiltin
  Native <- MCNative
  Parts <- MCParts
  None = None
INVARIANTS
  OneTypeInfo
  AnswersAreFinished
  WalksSettle
  FailuresHaveACause
PROPERTIES
  WalksEnd
CHECK_DEADLOCK FALSE
