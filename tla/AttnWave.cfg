CONSTANTS
  NumWaves = 2
  KvTile = 4
  Max32 = 255
  RowsCap = 16
  DBytes = 1
  Scale = 2
  Rows <- MCRows
  KeysOfTile <- MCKeys
  Lanes <- MCLanes
  Calls <- MCCalls
  Kernels <- MCKernels
SPECIFICATION Spec
INVARIANTS LoadsOwnRows SumsInRange ExactRows FragmentsMeet
