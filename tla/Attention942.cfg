CONSTANTS
  a0 = a0
  a1 = a1
  b0 = b0
  GroupA <- MCGroupA
  GroupB <- MCGroupB
  Wave0 = a0
  MaxBlocks = 4
  MaxCalls = 3
  MustDos <- MCMustDos
  Calls <- MCCalls
  NumCUs = 5
  NumXcds = 2
  MinKvBlocksToSplit = 3
  MinBlocksPerPart = 1
  MergeCostBlocks = 1
  QTileRows = 2
  QTilesPerWave = 2
  NumWaves = 2
  KvBlockRows = 2
  AddrRows = 64
  kWorkBuckets = 3
  MaxOrdered = 4
  RescaleThreshold = 1
  Thr <- MCThr
  Scores <- MCScores
  RowShapes <- MCRowShapes
SPECIFICATION Spec
INVARIANTS AttendsItsWalk NextRowKeepsVotes LaunchIsAttention
CHECK_DEADLOCK FALSE
