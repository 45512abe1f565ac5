SPECIFICATION Spec
CONSTANTS
  MaxRetries = 0
  MaxBackoff = 0
  HistoryCap = 2
  Inputs = {"tick", "ikeSoft", "childSoft", "nearWrap", "rekeyChild", "rekeyIKE", "deleteChild", "malformed", "unsupported"}
  FirstMID = 2
  MaxRequests = 2
  MaxPeerMID = 2
  MaxSA = 2
  MaxChild = 3
  UpdateCap = 3
INVARIANTS
  OutstandingIsTimed
  OneRekeyAtATime
  ActiveDecryptable
  DeleteAfterSwitch
  PlaneFollows
PROPERTY
  SwitchesAreAcknowledged
CHECK_DEADLOCK FALSE
