SPECIFICATION FairSpec
CONSTANTS
  RxBatch = 2
  EspCap = 1
  CtlCap = 1
  MaxRead = 4
  WriteBatch = 1
  FramesCap = 2
  MaxFrames = 5
INVARIANTS NothingLostInOrder BuffersReturned
PROPERTY CloseEnds
CHECK_DEADLOCK FALSE
