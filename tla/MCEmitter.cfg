SPECIFICATION Spec
CONSTANTS
  Radix = 2
  Programs <- MCPrograms
INVARIANTS
  InterpreterReadsTheProgram
  JumpsLand
CHECK_DEADLOCK FALSE
