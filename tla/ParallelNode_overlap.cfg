SPECIFICATION Spec
CONSTANTS
  p1 = p1
  p2 = p2
  p3 = p3
  NoPipeline = NoPipeline
  Free = Free
  Pipelines <- TwoPipelines
  Priority <- FIFOPriority
  Kinds = {"Concurrency"}
PROPERTIES
  RequestsAnswered
CHECK_DEADLOCK FALSE
