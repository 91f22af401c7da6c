SPECIFICATION Spec
CONSTANTS
  Definitions <- MCDefinitions
  Extensions <- MCExtensions
  Terms <- MCTerms
  Boxed <- MCBoxed
  References <- MCReferences
  Programs <- MCPrograms
INVARIANTS
  CallsRunWhatIsPromised
  RefusedForACause
CHECK_DEADLOCK FALSE
