SPECIFICATION FairSpec
CONSTANT
  MaxStarts = 2
INVARIANTS
  OneStateOwner
  StopLeavesNothing
  EventsInOrder
PROPERTY
  SessionEnds
CHECK_DEADLOCK FALSE
