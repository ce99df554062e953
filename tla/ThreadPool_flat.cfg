SPECIFICATION Spec
CONSTANTS
  t1 = t1
  t2 = t2
  t3 = t3
  t4 = t4
  c1 = c1
  c2 = c2
  Tasks <- FourTasks
  Children <- NoChildren
  Clients <- TwoClients
  InitThreads = 2
  MaxThreadNum = 3
  MaxThreadId = 5
  Destroyable = TRUE
  NoTask = NoTask
  Free = Free
INVARIANTS
  CountersExact
  EveryTaskHasAnIdleThread
  NoLostWakeup
  TasksConserved
  ThreadsDisposedSafely
PROPERTIES
  DestructionEnds
CHECK_DEADLOCK FALSE
