SPECIFICATION FairTrackerSpec
CONSTANTS
  Policy = "single"
  TargetTimeout = 0
  MaxArmings = 1
  MaxRefusals = 0
  MaxTimeouts = 1
PROPERTIES
  StopReturnsToTrajectory
CHECK_DEADLOCK FALSE
