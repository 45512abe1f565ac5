CONSTANTS
  Subscribers = {s1, s2}
  Syncers = {p1}
  Nobody = Nobody
  MailboxCap = 1
  Queue = 1
  Replay = 1
  MaxEvents = 1
SPECIFICATION FairSpec
INVARIANTS
  DeliveredInOrder
  NothingLostSilently
  SyncMeansProcessed
  ClosedIsReleased
PROPERTY CallsReturn
CHECK_DEADLOCK FALSE
