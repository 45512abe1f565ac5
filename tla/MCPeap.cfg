SPECIFICATION FairSpec
CONSTANTS
  Scripts <- MCScripts
  InboundCap = 8
  OutboundCap = 6
  PendingCap = 1
  MaxEarly = 1
  FragmentSize = 1
  IncludeLength = TRUE
  MaxMessageCount = 6
  MaxChallenges = 2
INVARIANTS TlsBytesInOrder FinalFlightFlushed AnswersAreWhole FragmentsReassemble KeyIsEarned
PROPERTY EngineStops
CHECK_DEADLOCK FALSE
