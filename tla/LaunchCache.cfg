CONSTANTS
  s1 = s1
  s2 = s2
  small = small
  mid = mid
  large = large
  Streams <- MCStreams
  PerThread <- MCStreams
  Problems <- MCProblems
  ListSize <- MCListSize
  WsSize <- MCWsSize
  StagingSlots = 2
  PinnedBuffers = 2
  MaxCalls = 3
SPECIFICATION Spec
INVARIANTS ReadsOwnList MergesOwnPartials CopiesOwnList GraphListsKept
CHECK_DEADLOCK FALSE
SYMMETRY Symmetry
