SPECIFICATION Spec
CONSTANTS
  Threads = {t1, t2}
  Cbc <- MCCbc
  Aot <- MCAot
  Abstract <- MCAbstract
  Refs <- MCRefs
  Broken = {"broken", "throwSymbol"}
  Unlinked = {"stub"}
  HelperMethod <- MCHelperMethod
  Main = "main"
  Initialisers <- MCInitialisers
  TrampolineCount = 1
  MaxDepth = 2
  MaxCalls = 3
  None = None
INVARIANT GetHelperNotNull
CHECK_DEADLOCK FALSE
