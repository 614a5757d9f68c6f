CONSTANTS
  a0 = a0
  a1 = a1
  b0 = b0
  GroupA <- MCGroupA
  GroupB <- MCGroupB
  Wave0 = a0
  MaxBlocks = 2
  MaxCalls = 2
  MustDos <- NoMustDos
  Calls <- NoCalls
  NumCUs = 5
  NumXcds = 2
  MinKvBlocksToSplit = 3
  MinBlocksPerPart = 1
  MergeCostBlocks = 1
  QTileRows = 2
  QTilesPerWave = 2
  NumWaves = 2
  KvBlockRows = 2
  AddrRows = 64
  kWorkBuckets = 3
  MaxOrdered = 4
  RescaleThreshold = 1
  Thr <- MCThr
  Scores <- MCScores
  RowShapes <- MCRowShapes
SPECIFICATION Spec
INVARIANT FirstCallExact
CHECK_DEADLOCK FALSE
