SPECIFICATION Spec
CONSTANTS
  x1 = x1
  h1 = h1
  r1 = r1
  r2 = r2
  Port = {x1}
  Local = {h1}
  Remote = {r1, r2}
  Edited = {h1, r1}
  Mode = {"tick", "check"}
  Day = 1
  MaxSlot = 1
  MaxSession = 2
  MaxFaults = 0
PROPERTIES PeerAlerted
CHECK_DEADLOCK FALSE
