CONSTANTS
  t1 = t1
  d1 = d1
  d2 = d2
  p1 = p1
  p2 = p2
  Threads <- OneThread
  Devices <- OneDevice
  Objects <- OneObject
  MaxHandles = 1
  MaxPlans = 2
  MaxCaptures = 1
  MaxOps = 2
  MaxSize = 2
SPECIFICATION Spec
INVARIANTS RunsReadTheirPlan
CHECK_DEADLOCK FALSE
