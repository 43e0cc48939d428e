SPECIFICATION FairTrackerSpec
CONSTANTS
  Policy = "first_arm_lead"
  TargetTimeout = 1
  MaxArmings = 2
  MaxRefusals = 1
  MaxTimeouts = 2
INVARIANTS
  TrackerTypeOK
  ControllersFollowState
  ArmedFromHome
  RestAtHandover
  SecondArmFollows
PROPERTIES
  StopCompletes
  VetoRests
