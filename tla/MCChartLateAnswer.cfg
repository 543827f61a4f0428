SPECIFICATION Spec
CONSTANTS
  MaxBucket = 2
  MaxIdx = 2
  HistoryLimit = 1
  CacheCapacity = 2
  Clients = {c1}
  MaxFaults = 0
INVARIANTS PageFollowsStream
CHECK_DEADLOCK FALSE
