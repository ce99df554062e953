SPECIFICATION Spec
CONSTANTS
  p1 = p1
  p2 = p2
  Pipelines <- TwoPipelines
  Priority <- FIFOPriority2
  Frames = 2
  EveryFrameOutput = FALSE
  ReleaseEachFrame = TRUE
  NoPipeline = NoPipeline
  Free = Free
INVARIANTS
  OneThreadServes
  FlushHitsItsPipeline
  RequestsNeverMix
  QuietWhenUncounted
PROPERTIES
  RequestsAnswered
  QuickFinishReturns
CHECK_DEADLOCK FALSE
