CONSTANTS
  NoCall = NoCall
  TileTokens = 2
  MfmaTile = 2
  WaveSize = 2
  RescaleStride = 2
  NumCU = 6
  MaxSplitTiles = 4
  QueryWaves <- MCQueryWaves
  FillWaves <- MCFillWaves
  IdleWaves <- MCIdleWaves
  Calls <- MCCalls
SPECIFICATION Spec
INVARIANTS AccumulatesInOrder EveryPositionOnce MergeReadsItsParts StoredWhereRead
