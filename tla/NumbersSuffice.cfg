SPECIFICATION Spec
CONSTANTS
  Definitions <- MCDefinitions
  Extensions <- MCExtensions
  Terms <- MCTerms
  Boxed <- MCBoxed
  References <- MCReferences
  Programs <- MCPrograms
INVARIANTS
  NumbersAreEnough
CHECK_DEADLOCK FALSE
