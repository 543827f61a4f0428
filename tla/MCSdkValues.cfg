SPECIFICATION Spec
CONSTANTS
  Digits = 1
  Width = 8
  RoundIncrement = 10
  RoundThreshold = 3
  Orders <- MCOrders
  Pairs <- MCPairs
  Texts <- MCTexts
INVARIANTS AppendixReadsBack FixedPointExact FeesSound
CHECK_DEADLOCK FALSE
