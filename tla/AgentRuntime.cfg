SPECIFICATION FairAgentSpec
CONSTANTS
  Jobs = {"j1", "j2"}
INVARIANTS
  AgentTypeOK
PROPERTIES
  NothingLeftActive
  JobsEnd
CHECK_DEADLOCK FALSE
