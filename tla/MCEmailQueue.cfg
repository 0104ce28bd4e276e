SPECIFICATION FairSpec
CONSTANTS
  e1 = e1 e2 = e2 w1 = w1 w2 = w2 a1 = a1 a2 = a2
  Email = {e1, e2}
  Credential = {e2}
  Direct = {e1}
  Worker = {w1, w2}
  Request = {a1, a2}
  MaxAttempts = 2
  Batch = 2
INVARIANTS TypeOK LinksRedacted MarkerOnlyAfterLateWrite OneWorker NoEarlyFailure
CONSTRAINT TwoRowsAlone
PROPERTIES OverForGood EveryMessageEnds
