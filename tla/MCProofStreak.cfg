SPECIFICATION FairSpec
CONSTANTS
  k1 = k1 k2 = k2
  Checker = {k1}
  Misses = 3
  Span = 2
  Scheduled = 2
  Removable = TRUE
INVARIANTS TypeOK
PROPERTIES LapseNeedsMisses LossIsNoticed
