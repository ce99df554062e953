SPECIFICATION Spec
CONSTANTS
  Nodes <- ChainNodes
  links <- ChainLinks
  nodeMask <- ChainMask
  Ports <- OnePort
  FrameNum = 2
  Missing <- None
  Failing <- ChainFailing
  Releasing <- ChainFailing
  RebuildMayFail = FALSE
  QuickCalls = 1
  QuickKinds = {TRUE, FALSE}
  NoNode = NoNode
INVARIANTS
  ParentsDone
  InputBeforeOutput
PROPERTIES
  FlushedPipelineFinishes
CHECK_DEADLOCK FALSE
