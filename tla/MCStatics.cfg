SPECIFICATION Spec
CONSTANTS
  Types <- MCTypes
  Describe <- MCDescribe
  Owners = {"first", "second"}
  Programs <- MCPrograms
  Threads = {"t1", "t2"}
  Collector = "gc"
  MaxAsked = 2
  MaxVisits = 1
INVARIANTS
  FieldsAreApart
  CollectorSeesStatics
  NobodyWaitsInACircle
CHECK_DEADLOCK FALSE
