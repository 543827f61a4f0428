SPECIFICATION Spec
CONSTANTS
  Prices = {1, 2}
  MaxSize = 1
  Depth = 1
  Clients = {}
  MaxTs = 4
  MaxFaults = 1
INVARIANTS BookExact
CHECK_DEADLOCK FALSE
