SPECIFICATION Spec
CONSTANTS
  Nodes <- PairNodes
  links <- PairLinks
  nodeMask <- PairMask
  Ports <- OnePort
  FrameNum = 2
  Missing <- None
  Failing <- None
  Releasing <- None
  RebuildMayFail = FALSE
  QuickCalls = 1
  QuickKinds = {TRUE}
  NoNode = NoNode
PROPERTIES
  ExpeditedPipelineFinishes
CHECK_DEADLOCK FALSE
