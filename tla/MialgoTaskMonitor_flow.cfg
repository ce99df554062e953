SPECIFICATION Spec
CONSTANTS
  s1 = s1
  m1 = m1
  a = a
  b = b
  Timers = {reset, wakeup}
  NoTimer = NoTimer
  ResetTimer = reset
  WakeUpTimer = wakeup
  Free = Free
  Monitor = Monitor
  Modes <- OneMode
  Objects <- MonitorAndMode
  Sessions = {s1}
  Frames = {1}
  Snapshots = {a, b}
  sessionOf <- OfOneSession
  frameOf <- OneNumber
  signature <- SameSignature
  NoSignature = NoSignature
  consumption <- Consumption
  Capacity = 3
  MockCameraNum = 2
  Callers = {c1}
INVARIANTS
  AppKnows
  MutedIsTimed
  NoPhantomTasks
PROPERTIES
  MutedEnds
  CallReturns
CHECK_DEADLOCK FALSE
