CONSTANTS
  NumWaves = 2
  KvTile = 2
  MaxWaveRows = 2
  FewRows = 1
  MaxParts = 3
  SplitMaxRounds = 2
  DevSplitRounds = 3
  CtaTiles = 1
  PartTiles = 1
  MergeTiles = 1
  SplitMinGain = 105
  IntMax = 65535
  ItemBytes = 44
  MaxTokenStride = 4096
  MinPage = 2
  MlaMinPage = 4
  Gfx950 = {"gpu0", "gpu1"}
  FewCost = 60
  SplitCost = 110
  FewSplitCost = 105
  NumXcd = 2
  AlignRounds = 1
  LptBytes = 8192
  MaxLptUnits = 3
  Threads = 4
  WaveSize = 2
  Calls <- MCCalls
SPECIFICATION Spec
INVARIANTS EveryRowFromItsKeys PartialsInWorkspace StaysInTensors MasksRight KernelsTakeAdmitted ListsInOrder
