SPECIFICATION BpfSpec
CONSTANTS
  HookName = {"device", "execve"}
  ExeName = {"executor", "tracerd"}
  Variant <- Mixed
  Link <- HookLink
  MapVariant <- ProgArray
  Pid = {1}
  Failing <- AnyCall
  MaxId = 2
  MaxMapId = 2
  MaxEvents = 4
  MaxBadScans = 1
INVARIANTS BpfTypeOK WatchlistTracksKernel
PROPERTIES WatchIdempotent PromotionGuarded
CHECK_DEADLOCK FALSE
