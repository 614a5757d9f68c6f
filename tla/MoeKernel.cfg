CONSTANTS
  Tile = 2
  NumWaves = 2
  NumXcds = 3
  OffsetRange = 128
  Calls <- MCCalls
  Scales <- MCScales
  Loads <- MCLoads
SPECIFICATION Spec
INVARIANTS StoresFullSum EveryOutputOnce DequantExact PlansAreBuilt
