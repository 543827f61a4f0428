SPECIFICATION FairSpec
CONSTANTS
  Requests = {r1, r2, r3}
  MaxHandles = 2
PROPERTIES HeldIsStarted
CHECK_DEADLOCK FALSE
