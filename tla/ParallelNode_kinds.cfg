SPECIFICATION Spec
CONSTANTS
  p1 = p1
  p2 = p2
  p3 = p3
  NoPipeline = NoPipeline
  Free = Free
  Pipelines <- ThreePipelines
  Priority <- FIFOPriority
  Kinds = {"Concurrency", "Virtual"}
INVARIANTS
  TasksMatchRequests
PROPERTIES
  VirtualRequestsAnswered
CHECK_DEADLOCK FALSE
