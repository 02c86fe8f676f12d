SPECIFICATION FairSpec
CONSTANTS
  Value = {0, 20, 22}
  MinSamples = 2
  MinDelta = 5
  SigmaAbove = 25
  SigmaBelow = 20
  None = None
  Fresh = 1
  Cooldown = 2
  Hour = 2
  Slot = 2
  Outage = 3
  Keep = 4
INVARIANTS TypeOK BaselineOfSamples SilenceAnnounced
PROPERTY StaleEnds
CHECK_DEADLOCK FALSE
