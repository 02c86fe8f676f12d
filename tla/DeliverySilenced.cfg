SPECIFICATION Spec
CONSTANTS
  line = line
  routine = routine
  block = block
  Line = {line}
  Routine = {routine}
  Block = {block}
  Finding = {block}
  CheckWindow = 1
  AuditWindow = 2
  MaxChecks = 0
  MaxFaults = 0
INVARIANT SilencedIsRoutine
CHECK_DEADLOCK FALSE
