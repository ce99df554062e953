SPECIFICATION Spec
CONSTANTS
  Frames <- MCFrames
  Previews <- MCPreviews
  Snapshots <- MCSnapshots
  v1 = v1
  v2 = v2
  VendorThreads <- TwoThreads
  Loop = Loop
  Darkroom = Darkroom
  Nobody = Nobody
  Failures <- MCFailures
  Overlap = TRUE
SYMMETRY VendorSymmetry
INVARIANTS
  BuffersAccounted
  NeededExact
  AcceptedAreAnswered
  FinishedIsErased
  SessionSafe
  ReclaimedWhenQuiet
CHECK_DEADLOCK FALSE
