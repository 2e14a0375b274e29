CONSTANTS
  NoChunks = NoChunks
  NoTable = NoTable
  DefaultBlockRows = 4
  FullPivotMaxRows = 4
  DataVar = "v"
  Datasets <- MCDatasets
  Chunkings <- MCChunkings
  BatchSizes = {1, 3}
  Cpus = 3
  Projections <- MCProjections
  MaxStreams = 2
  InMemoryLimit = 48
SPECIFICATION Spec
INVARIANTS StreamsDeliverTheGrid ReadsWaitForPulls PartitionsHoldTheirRows InMemoryKeepsRows
CHECK_DEADLOCK FALSE
