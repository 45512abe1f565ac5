CONSTANTS
  SeqMod = 3
  Thresholds = {0, 1700}
  FlowLimit <- ByteLimit
  TxBatch = 1
  QueueCap = 1
  TxCap = 1
  MaxChild = 1
SPECIFICATION FairSpec
INVARIANTS
  FramesAscend
  WarnedBeforeWrap
PROPERTY
  WorkerEnds
CHECK_DEADLOCK FALSE
