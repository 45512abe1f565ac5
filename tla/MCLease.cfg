SPECIFICATION FairSpec
CONSTANTS
  MaxRetries = 1
  MaxBackoff = 1
  HistoryCap = 1
  Inputs = {"tick", "lease", "childSoft", "rekeyChild", "rekeyIKE", "cfgset", "empty", "deleteIKE", "cancel", "ackTimeout"}
  FirstMID = 2
  MaxRequests = 2
  MaxPeerMID = 2
  MaxSA = 2
  MaxChild = 2
  UpdateCap = 1
INVARIANTS
  DuplicatesInert
  PendingIsRenewal
PROPERTY
  RequestsResolve
CHECK_DEADLOCK FALSE
