CONSTANTS
  w1 = w1
  w2 = w2
  h1 = h1
  h2 = h2
  h3 = h3
  none = none
  Workers <- TwoWorkers
  Handlers <- ThreeHandlers
  Null <- none
SPECIFICATION PoolFairSpec
INVARIANTS
  StopMeansStopped
PROPERTIES
  ServesInOrder
  StopReturns
  QueuedIsServed
CHECK_DEADLOCK FALSE
