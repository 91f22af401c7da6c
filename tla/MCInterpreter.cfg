SPECIFICATION Spec
CONSTANTS
  Bits <- MCBits
  ShortBits = 2
  FloatOf <- MCFloatOf
  FloatFrom <- MCFloatFrom
  FloatArith <- MCFloatArith
  IRegs = {"r1", "r2", "r3", "r4", "acc"}
  FRegs = {"f1"}
  Volatile = {"r1", "r2"}
  Types <- MCTypes
  HeaderSize = 8
  ArrayBody = 8
  Trampolines <- MCTrampolines
  TrampolineCount = 2
  Starts <- MCStarts
  Sums <- MCSums
  Sum <- MCSum
  Results = {0, 48}
PROPERTIES
  ResultsAreExact
  PlacesHold
  ReferencesPassBarriers
  InstructionsRunOnce
CHECK_DEADLOCK FALSE
