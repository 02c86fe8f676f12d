SPECIFICATION FairSpec
CONSTANTS
  i1 = i1
  i2 = i2
  v1 = v1
  v2 = v2
  Absent = Absent
  Unread = Unread
  Item = {i1, i2}
  Value = {v1, v2}
  Here = v1
  Plain = {i2}
  Severe = {i1}
  Window = 1
  MaxFaults = 1
INVARIANTS RemovalIsNews BaselineIsTold
PROPERTIES NothingToldTwice ChangeTold
CHECK_DEADLOCK FALSE
