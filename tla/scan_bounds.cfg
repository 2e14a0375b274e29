SPECIFICATION Spec
CONSTANTS
  s1 = s1
  s2 = s2
  w1 = w1
  w2 = w2
  w3 = w3
  Idle = Idle
  NoBudget = NoBudget
  Scans <- TwoScans
  Workers <- ThreeWorkers
  Prefetch = 3
  Budget = 3
  Plan <- PlanLongShort
SYMMETRY Symmetry
INVARIANTS BudgetBound ResidentBound
CHECK_DEADLOCK FALSE
