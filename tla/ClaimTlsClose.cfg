SPECIFICATION FairSpec
CONSTANTS
  Scripts <- MCScripts
  InboundCap = 8
  OutboundCap = 6
  PendingCap = 1
  MaxEarly = 0
  FragmentSize = 1
  IncludeLength = TRUE
  MaxMessageCount = 3
  MaxChallenges = 1
PROPERTY WorkerExits
CHECK_DEADLOCK FALSE
