SPECIFICATION Spec
CONSTANTS
  t1 = t1
  t2 = t2
  t3 = t3
  t4 = t4
  c1 = c1
  c2 = c2
  Tasks <- FourTasks
  Children <- PipelineChildren
  Clients <- TwoClients
  InitThreads = 1
  MaxThreadNum = 3
  MaxThreadId = 4
  Destroyable = FALSE
  NoTask = NoTask
  Free = Free
PROPERTIES
  AcceptedTasksFinish
CHECK_DEADLOCK FALSE
