SPECIFICATION Spec
CONSTANTS
  Products = {p1}
  Values = {v, w}
  NoValue = none
  Clients = {c1}
  StaleAfter = 0
  Capacity = 2
  MaxNow = 1
  MaxSeq = 3
SYMMETRY Symmetric
INVARIANTS TypeOK OrderedReplica RowsCurrent EverySeqPublished
CHECK_DEADLOCK FALSE
