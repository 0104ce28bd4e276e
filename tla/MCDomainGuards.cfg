SPECIFICATION StatementSpec
CONSTANTS
  o1 = o1
  h1 = h1
  Org = {o1}
  Host = {h1}
  Purpose <- BothPurposes
  WebCap = 1
  MailCap = 1
INVARIANTS TypeOK NoEarlyRelease
PROPERTIES GraceNeverRestarts
CHECK_DEADLOCK FALSE
