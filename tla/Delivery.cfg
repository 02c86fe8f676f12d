SPECIFICATION FairSpec
CONSTANTS
  line = line
  routine = routine
  block = block
  Line = {line}
  Routine = {routine}
  Block = {block}
  Finding = {block}
  CheckWindow = 1
  AuditWindow = 2
  MaxChecks = 1
  MaxFaults = 1
INVARIANTS MarkedIsSent LineNotDropped
PROPERTIES RepeatOnlyIfUnsaved LastingIsSent
CHECK_DEADLOCK FALSE
