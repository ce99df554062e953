SPECIFICATION Spec
CONSTANTS
  t1 = t1
  t2 = t2
  t3 = t3
  Threads <- ThreeThreads
  Needs = 1
  InitDepth = 2
  MaxDepth = 3
  MinDepth = 1
  mThresholdValue = 2
  AllocMayFail = TRUE
  Free = Free
INVARIANTS
  UseCountsExact
  CountsMatchMemory
PROPERTIES
  AcquireReturns
CHECK_DEADLOCK FALSE
