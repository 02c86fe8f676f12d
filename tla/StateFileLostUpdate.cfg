SPECIFICATION Spec
CONSTANTS
  p1 = p1
  p2 = p2
  Proc = {p1, p2}
  Mode <- TickAndAudit
  MaxRuns = 1
  MaxDay = 1
  Keep = 1
  MaxOutages = 0
  MaxFaults = 0
INVARIANTS NoLostUpdate
CHECK_DEADLOCK FALSE
