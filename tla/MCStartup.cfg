SPECIFICATION Spec
CONSTANTS
  Hosts = {"h1", "h2"}
  Collectors = {"c1", "c2"}
  Worlds <- MCWorlds
  StoresInOrder = TRUE
INVARIANTS
  PatchesAreWhole
  MainIsLoadedOnce
  CallbacksFindTheEngine
PROPERTIES
  EngineIsNeverReplaced
CHECK_DEADLOCK FALSE
