SPECIFICATION RemoteSpec
CONSTANTS
  None = None
  Guis = {"g"}
  MaxSessions = 3
  MaxOthers = 1
  MaxUnread = 0
  GracePeriod = 1
  Retries = 1
INVARIANTS
  RemoteTypeOK
  BelievedControlIsHeld
  NothingOpenAfterDisconnect
PROPERTIES
  ImplementsLease
  ShownConnectionIsReal
CHECK_DEADLOCK FALSE
