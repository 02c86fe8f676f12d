SPECIFICATION FairSpec
CONSTANTS
  tick = tick
  detect = detect
  a1 = a1
  v6 = v6
  A = A
  V = V
  Proc = {tick, detect}
  Tick = tick
  Source = {a1, v6}
  Subnet = {A, V}
  SubnetOf <- MCSubnetOf
  Subnet6 = {V}
  FirstListed = {}
  Own = {}
  Bulletproof = {}
  Similar <- MCSimilar
  MinIps = 2
  MinHits = 2
  SoloMinHits = 2
  Netfilter = TRUE
  MaxHits = 2
  MaxEvents = 3
INVARIANTS SilentOnlyByDeath TwiceOnlyByRace BootRestoresChain
PROPERTIES AttackBlocked
CHECK_DEADLOCK FALSE
