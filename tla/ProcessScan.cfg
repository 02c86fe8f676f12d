SPECIFICATION Spec
CONSTANTS
  Pid = {2, 3, 4}
  Kind = {"plain", "secmon", "anon", "web", "shell", "inject", "tmp", "roottmp", "hidden"}
  MaxNamed = 1
  MaxMaps = 2
  MaxChanges = 1
INVARIANTS SteadyIsFound FoundWasSo AuditSpared
CHECK_DEADLOCK FALSE
