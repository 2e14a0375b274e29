SPECIFICATION SpecPullFirst
CONSTANTS
  s1 = s1
  s2 = s2
  w1 = w1
  w2 = w2
  w3 = w3
  Idle = Idle
  NoBudget = NoBudget
  Scans <- TwoScans
  Workers <- TwoWorkers
  Prefetch = 2
  Budget = NoBudget
  Plan <- PlanShared
INVARIANTS Inductive ExactDelivery WaitsForLiveLoad
PROPERTIES NoStartAfterStop ImplementsOrderedScan FirstEnds PoolIsReleased
CHECK_DEADLOCK FALSE
