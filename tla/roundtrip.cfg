CONSTANTS
  NaN = NaN
  Undefined = Undefined
  NoTable = NoTable
  AutoTarget = 4
  Queries <- MCQueries
  Args <- MCArgs
  Keys <- MCKeys
  BatchRows = 2
  OnePassRows = 3
  MaxChunks = 4
  MaxReaders = 2
  NoDims = NoDims
  NoTemplate = NoTemplate
  NoLimit = NoLimit
  NoDataset = NoDataset
  NoWindow = NoWindow
  NoChunks = NoChunks
  Inherit = Inherit
  Auto = Auto
SPECIFICATION FairSpec
INVARIANTS CoordsAreTheResults CellsHoldTheRows WindowsHoldTheRows
PROPERTIES FileIsCollected
CHECK_DEADLOCK FALSE
