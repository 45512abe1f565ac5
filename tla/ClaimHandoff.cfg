SPECIFICATION Spec
CONSTANTS
  MaxRetries = 0
  MaxBackoff = 0
  HistoryCap = 2
  Inputs = {"childSoft", "rekeyChild"}
  FirstMID = 2
  MaxRequests = 2
  MaxPeerMID = 2
  MaxSA = 1
  MaxChild = 3
  UpdateCap = 2
PROPERTIES
  OldDecryptsUntilDeleted
CHECK_DEADLOCK FALSE
