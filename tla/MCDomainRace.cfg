SPECIFICATION Spec
CONSTANTS
  o1 = o1 o2 = o2 apex = apex other = other c1 = c1 c2 = c2 k1 = k1 k2 = k2
  Org = {o1, o2}
  Host = {apex}
  ClaimName = {c1}
  ClaimOf <- OneClaim
  Checker = {k1, k2}
  WebCap = 1
  MaxId = 1
  Holdable = {}
  Droppable = {}
  Closable = {}
SYMMETRY Symmetry
CONSTRAINT NoForced OneClaimChecked
INVARIANTS TypeOK
PROPERTIES WritesAccepted
CHECK_DEADLOCK FALSE
