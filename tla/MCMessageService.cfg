SPECIFICATION ServiceFairSpec
CONSTANTS
  Connections = {h1, h2}
INVARIANTS
  ProtocolOutlivedByData
PROPERTIES
  StopIsHonoured
CHECK_DEADLOCK FALSE
