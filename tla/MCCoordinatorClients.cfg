SPECIFICATION Spec
CONSTANTS
  None = None
  item = item
  Items <- MCItems
  TimeStamps <- MCTimeStamps
  HopDuration = 1
  SessionInvalidateTimeout = 1
  MaxConsecutivePairViolations = 2
  MaxPendingPairs = 2
  MaxLockWait = 1
  MaxToken = 4
  MaxOrdinal = 3
  MaxViolations = 3
  MaxTime = 2
INVARIANTS
  NoMatchedPairLeft
  PendingBounded
  ViolationsBelowLimit
  NothingPendingWithoutToken
PROPERTIES
  PairsAdvance
  StampsMonotone
