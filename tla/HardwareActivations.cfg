SPECIFICATION FairHardwareSpec
CONSTANTS
  Arms = {"left"}
  p = p
  q = q
  Positions <- MCPositions
  NotFinite = NotFinite
  NoPosition = NoPosition
  ServoInterval = 2
  MaxActivations = 2
  MaxRecoveries = 1
  MaxTime = 2
INVARIANTS
  ServoRate
  SuppressedCommandWasAccepted
PROPERTIES
  RecoveryEnds
  DeactivationEnds
CHECK_DEADLOCK FALSE
