SPECIFICATION SweepSpec
CONSTANTS
  o1 = o1 o2 = o2 apex = apex other = other c1 = c1 c2 = c2 k1 = k1 k2 = k2
  Org = {o1}
  Host = {apex, other}
  ClaimName = {c1, c2}
  ClaimOf <- OtherClaim
  Checker = {k1}
  WebCap = 2
  MaxId = 1
  Holdable = {other}
  Droppable = {}
  Closable = {}
INVARIANTS ParkedNeverCanonical
CONSTRAINT NoEviction NoDeadline
PROPERTIES WritesAccepted CanonicalRepaired
CHECK_DEADLOCK FALSE
