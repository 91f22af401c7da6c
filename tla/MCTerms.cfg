SPECIFICATION Spec
CONSTANTS
  Threads = {t1, t2}
  Primitives <- MCPrimitives
  Pool <- MCPool
  Defs <- MCDefs
  Asked <- MCAsked
  Members <- MCMembers
  Signatures = {"Method"}
  Presented <- MCPresented
  Extended <- MCExtended
  MaxDepth = 6
  MaxHeld = 2
  MaxInterned = 3
  None = None
INVARIANTS
  OneTermPerType
  NoDangling
  TermsAreRight
  MatchInverts
CHECK_DEADLOCK FALSE
