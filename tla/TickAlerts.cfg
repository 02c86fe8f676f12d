SPECIFICATION FairSpec
CONSTANTS
  x1 = x1
  h1 = h1
  r1 = r1
  Port = {x1}
  Local = {h1}
  Remote = {r1}
  Edited = {h1}
  Mode = {"tick"}
  Day = 1
  MaxSlot = 1
  MaxSession = 2
  MaxFaults = 2
INVARIANTS NewPortReported SessionReported DedupImpliesReported NoRepeat
PROPERTIES PortNoticed
CHECK_DEADLOCK FALSE
