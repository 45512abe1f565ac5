SPECIFICATION FairSpec
CONSTANTS
  Batches <- MCBatches
  Buffers = {0, 1}
  ReadBatchN = 2
  PktOutCap = 1
  PktInCap = 1
  MaxBatch = 3
  MaxReads = 3
  MaxWrites = 2
INVARIANTS
  ReadsAreExact
  AcceptedBeforeEnd
PROPERTY
  BlockedCallsReturn
CHECK_DEADLOCK FALSE
