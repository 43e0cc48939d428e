SPECIFICATION FairBridgeSpec
CONSTANTS
  None = None
  Items <- MCItems
  HopDuration = 1
  SessionInvalidateTimeout = 0
  MaxConsecutivePairViolations = 2
  MaxPendingPairs = 2
  CoreRestartLimit = 0
  MalformedHops = {2}
  RawQueueSize = 1
  RawSockets = {TRUE, FALSE}
  MaxStamps = 1
  MaxHops = 3
  MaxCrashes = 0
  MaxTime = 1
INVARIANTS
  BridgeTypeOK
  PairsOfOneHop
PROPERTIES
  ImplementsPairedTopics
  ShutdownCompletes
CHECK_DEADLOCK FALSE
