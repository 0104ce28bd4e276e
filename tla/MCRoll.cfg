\* One person at two congregations: every transaction of the register.
SPECIFICATION FairSpec
CONSTANTS
  a = a
  b = b
  p = p
  Org = {a, b}
  Person = {p}
  Gains = {"profession_of_faith"}
  Pastors <- MCPastors
  LastDay = 2
  MaxActs = 3
INVARIANTS TypeOK RemovedAsRecorded 
PROPERTIES CaughtUp
CHECK_DEADLOCK FALSE
