SPECIFICATION FairSpec
CONSTANTS
  IRegs = {"r1", "r8", "r9", "acc"}
  FRegs = {"f8"}
  Volatile = {"r1", "acc"}
  Result = "r1"
  Acc = "acc"
  Slots = {"slot"}
  RecSlot = "record"
  Methods <- MCMethods
  SavedIRegs <- MCSavedIRegs
  SavedFRegs <- MCSavedFRegs
  Params <- MCParams
  Computes <- MCComputes
  Checks = {"null"}
  MaxDepth = 4
  MaxCalls = 3
  MaxCollections = 1
  MaxGrowths = 1
INVARIANTS
  LocalsSurvive
  CollectorFindsReferences
  ExpansionFindsPointers
PROPERTIES
  UnwindingEnds
CHECK_DEADLOCK FALSE
