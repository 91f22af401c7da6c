SPECIFICATION FairSpec
CONSTANTS
  Threads = {t1, t2}
  Cbc <- MCCbc
  Aot <- MCAot
  Abstract <- MCAbstract
  Refs <- MCRefs
  Broken = {"broken"}
  Unlinked = {"stub"}
  HelperMethod <- MCHelperMethod
  Main = "main"
  Initialisers <- MCInitialisers
  TrampolineCount = 1
  MaxDepth = 2
  MaxCalls = 3
  None = None
INVARIANTS
  OneHandlePerMethod
  FramesRunTheirCode
  TrampolinesKeepTheirHandle
  HelpersReady
PROPERTIES
  BytecodeIsFinal
  KeepsLazyCode
  CallsProceed
CHECK_DEADLOCK FALSE
