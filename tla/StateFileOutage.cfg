SPECIFICATION FairSpec
CONSTANTS
  p1 = p1
  p2 = p2
  Proc = {p1, p2}
  Mode <- OneSave
  MaxRuns = 1
  MaxDay = 2
  Keep = 1
  MaxOutages = 2
  MaxFaults = 1
INVARIANTS NeverTorn StaleOnlyByOverlap Exclusion SnapshotMatchesState
PROPERTIES RefinesRegister PruneSparesNewest RunEnds
CHECK_DEADLOCK FALSE
