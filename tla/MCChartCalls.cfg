SPECIFICATION FairSpec
CONSTANTS
  Requests = {r1, r2, r3}
  MaxHandles = 4
INVARIANTS FillingOwnsTheEntry OneWorker
PROPERTIES StartedUnlessAborted
CHECK_DEADLOCK FALSE
