SPECIFICATION FairFromFull
CONSTANTS
  Prices = {1}
  MaxSize = 1
  Depth = 1
  Clients = {c1}
  MaxTs = 3
  MaxFaults = 1
INVARIANTS TypeOK ViewsSound QueueOrdered NoLostUpdate
PROPERTIES CatchesUp
CHECK_DEADLOCK FALSE
