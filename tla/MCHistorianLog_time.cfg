SPECIFICATION Spec
CONSTANTS
  p1 = p1
  p2 = p2
  Process <- TwoProcesses
  Viewer <- OneViewer
  IdOf <- OneForEach
  MaxEvents = 2
CHECK_DEADLOCK FALSE
INVARIANT ViewByTime
