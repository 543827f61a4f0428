SPECIFICATION FairSpec
CONSTANTS
  MaxId = 3
  MaxEvents = 2
  CommandBuffer = 1
  EventBuffer = 1
INVARIANTS TypeOK NoCallStranded EventsWhole
PROPERTIES ReturnsUnlessBlocked AnswersOnce
CHECK_DEADLOCK FALSE
