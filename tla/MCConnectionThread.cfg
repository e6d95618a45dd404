CONSTANTS
  h1 = h1
  h2 = h2
  Handlers <- TwoHandlers
SPECIFICATION ThreadFairSpec
INVARIANTS
  MisusedOnlyAfterTimeout
  ManagerReleased
PROPERTIES
  HungUpIsReleased
CHECK_DEADLOCK FALSE
