SPECIFICATION Spec
CONSTANTS
  Nodes <- DiamondNodes
  links <- DiamondLinks
  nodeMask <- DiamondMask
  Ports <- TwoPorts
  FrameNum = 1
  Missing <- None
  Failing <- DiamondFailing
  Releasing <- None
  RebuildMayFail = TRUE
  QuickCalls = 1
  QuickKinds <- Forced
  NoNode = NoNode
INVARIANTS
  NoNodeLeftBehind
  SourceUseCounts
  SourcesReturned
  OutcomeReported
PROPERTIES
  PipelineFinishes
CHECK_DEADLOCK FALSE
