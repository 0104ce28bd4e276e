\* One person at two congregations: the daily sweep against gains dated ahead.
SPECIFICATION FairSpec
CONSTANTS
  a = a
  b = b
  p = p
  Org = {a, b}
  Person = {p}
  Gains = {"profession_of_faith"}
  Pastors <- MCPastors
  LastDay = 2
  MaxActs = 2
PROPERTIES SweepCatchesUp
CHECK_DEADLOCK FALSE
