SPECIFICATION Spec
CONSTANTS
  p1 = p1
  p2 = p2
  Process <- TwoProcesses
  Viewer <- OneViewer
  IdOf <- NotFilledIn
  MaxEvents = 2
CHECK_DEADLOCK FALSE
INVARIANT EverythingLoggedShown
