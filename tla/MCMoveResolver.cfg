SPECIFICATION FairSpec
CONSTANTS
  IRegs = {0, 1, 2, 3, 4}
  FRegs = {5, 6, 7}
  ITemp = 4
  FTemp = 7
  Slots = {10}
  Params = {20}
  Value <- MCValue
  Start <- MCStart
  Deref <- MCDeref
  Sources <- MCSources
  MaxMoves = 4
INVARIANTS
  ParallelAssignment
PROPERTIES
  Terminates
CHECK_DEADLOCK FALSE
