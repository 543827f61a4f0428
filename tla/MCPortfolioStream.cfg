SPECIFICATION FairSpec
CONSTANTS
  MaxConns = 2
  MaxVersion = 1
  MaxEvents = 3
  MaxGets = 1
  MaxClock = 1
  MaxFaults = 1
  Cap = 1
INVARIANTS TypeOK ShownKeepsLive OrphanBounded
PROPERTIES LiveInOrder PageCatchesUp LiveFollows
CHECK_DEADLOCK FALSE
