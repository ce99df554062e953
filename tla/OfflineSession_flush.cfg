SPECIFICATION Spec
CONSTANTS
  r1 = r1
  r2 = r2
  f1 = f1
  Requests <- TwoRequests
  Flushers <- OneFlusher
  totalReqNum <- TwoFramesAndOne
  NodeNum = 2
  QuickCalls = 1
  NoRequest = NoRequest
  Free = Free
INVARIANTS
  NodeThreadsCounted
PROPERTIES
  KeepsPromise
  
CHECK_DEADLOCK FALSE
