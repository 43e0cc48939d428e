SPECIFICATION FramingSpec
CONSTANTS
  FrameSize = 3
  JsonTexts <- MCJsonTexts
  MessageCount = 3
  MaxConnections = 2
INVARIANTS
  WholeMessages
CHECK_DEADLOCK FALSE
