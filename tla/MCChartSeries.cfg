SPECIFICATION FairSpec
CONSTANTS
  MaxBucket = 3
  MaxIdx = 3
  HistoryLimit = 1
  CacheCapacity = 2
  Clients = {c1}
  MaxFaults = 1
INVARIANTS TypeOK ServedIsStored CacheIsStoreTail
PROPERTIES CacheNeverGoesBack KeepsStreaming
CHECK_DEADLOCK FALSE
