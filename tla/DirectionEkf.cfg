SPECIFICATION EkfSpec
CONSTANTS
  None = None
  Bearings = {0, 1, 2, 3}
  BaseAngle = 0
  MaxAngle = 1
  MaxRate = 1
  Tolerance = 2
  Confirmations = 3
  ConfirmationTime = 1
  ReacquireTimeout = 1
  MatchAngle = 1
  AnchorDeviation = 0
  EvidenceTtl = 1
  Lead = 1
  MaxEvidence = 1
  Drift = 1
  Lag = 2
  MaxTime = 3
  MaxHistory <- MCMaxHistory
INVARIANTS EkfTypeOK
PROPERTIES JumpNeedsPersistence TakenNearFirstArrival SightHoldsTrack
CHECK_DEADLOCK FALSE
