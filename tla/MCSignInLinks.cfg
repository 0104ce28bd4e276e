SPECIFICATION Spec
CONSTANTS
  u1 = u1 u2 = u2 p1 = p1 p2 = p2 o1 = o1 o2 = o2 x1 = x1 x2 = x2
  NoAccount = NoAccount NoAddress = NoAddress
  Account = {u1, u2}
  Person = {p1, p2}
  Org = {o1, o2}
  Address = {x1, x2}
  Enrolled = {u1}
  Connects = {o1}
  MaxResends = 1
  MaxSent = 2
  MaxEdits = 4
SYMMETRY Symmetry
INVARIANTS TypeOK OnePersonEach
PROPERTIES LinkedThroughRecord NotAskedAtHome
CHECK_DEADLOCK FALSE
