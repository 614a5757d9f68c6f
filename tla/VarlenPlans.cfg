CONSTANTS
  t1 = t1
  d1 = d1
  d2 = d2
  p1 = p1
  p2 = p2
  Threads <- OneThread
  Devices <- TwoDevices
  Objects <- TwoObjects
  MaxHandles = 3
  MaxPlans = 3
  MaxCaptures = 2
  MaxOps = 3
  MaxSize = 2
SPECIFICATION Spec
INVARIANTS OwnListRead NoFreedUse GraphListsItsRuns HandleAccounted
PROPERTIES CloseSweepsAll
SYMMETRY Symmetry
CONSTRAINT Focus
CHECK_DEADLOCK FALSE
