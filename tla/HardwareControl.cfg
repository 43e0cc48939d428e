SPECIFICATION HardwareSpec
CONSTANTS
  Arms = {"left", "right"}
  p = p
  q = q
  Positions <- MCPositions
  NotFinite = NotFinite
  NoPosition = NoPosition
  ServoInterval = 1
  MaxActivations = 1
  MaxRecoveries = 1
  MaxTime = 0
SYMMETRY PositionSymmetry
INVARIANTS
  HardwareTypeOK
  BothArmsCommanded
  RecoveredArmsEnabled
PROPERTIES
  NoServoDuringRecovery
CHECK_DEADLOCK FALSE
