SPECIFICATION BridgeSpec
CONSTANTS
  None = None
  Items <- MCItems
  HopDuration = 1
  SessionInvalidateTimeout = 0
  MaxConsecutivePairViolations = 2
  MaxPendingPairs = 2
  CoreRestartLimit = 1
  MalformedHops = {}
  RawQueueSize = 1
  RawSockets = {FALSE}
  MaxStamps = 1
  MaxHops = 2
  MaxCrashes = 1
  MaxTime = 0
INVARIANTS
  PairsOfOneHop
PROPERTIES
  ImplementsPairedTopics
CHECK_DEADLOCK FALSE
