CONSTANTS
  Null = Null
  NaN = NaN
  Error = Error
  NoRange = NoRange
  NoPlan = NoPlan
  MaxNanos = 6
  WideFloat = 2
  DimOrder <- MCDimOrder
  DataVar = "v"
  DataValues = {0, 2}
  Datasets <- MCDatasets
  Queries <- MCQueries
  Projections <- MCProjections
SPECIFICATION Spec
INVARIANTS TypeOK DroppedRowsAreFalse NoFilterIsLost StatisticsAreExact
