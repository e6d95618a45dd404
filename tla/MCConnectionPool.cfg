CONSTANTS
  w1 = w1
  w2 = w2
  h1 = h1
  h2 = h2
  none = none
  Workers <- TwoWorkers
  Handlers <- TwoHandlers
  Null <- none
  Slow <- OneSlow
SPECIFICATION ConnFairSpec
INVARIANTS
  OnePlace
  TouchedOnlyAfterTimeout
  NeverStranded
PROPERTIES
  UsesPool
  RequestIsRead
CHECK_DEADLOCK FALSE
