CONSTANTS
  NoChunks = NoChunks
  NoFilter = NoFilter
  NoQuery = NoQuery
  NaN = NaN
  Null = Null
  DefaultBlockRows = 4
  FullPivotMaxRows = 4
  DataVar = "v"
  Datasets <- MCDatasets
  Filters <- MCFilters
  Value <- MCValue
  Satisfiable <- MCSatisfiable
  Negated <- Not
  Rejects <- MCRejects
  Refers <- MCRefers
  CoalesceRows = {0, 4}
  ShadowFanout = 3
  RefineNum = 1
  RefineDen = 2
  StrictLevelBudget = 4
  StrictMaxDepth = 1
SPECIFICATION Spec
INVARIANTS TypeOK ScanIsExact CountIsExact
