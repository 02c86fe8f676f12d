SPECIFICATION FairSpec
CONSTANTS
  t1 = t1
  t2 = t2
  Thing = {t1, t2}
  Where <- AnyAndOne
  Whitelists <- AllOneNone
  MaxChanges = 3
  MaxFaults = 1
INVARIANT RulesKept
PROPERTIES HostProtected SilencedIsFixed FixedInTheEnd FixedOrTold
CHECK_DEADLOCK FALSE
