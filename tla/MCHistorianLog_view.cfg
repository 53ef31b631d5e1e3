SPECIFICATION Spec
CONSTANTS
  p1 = p1
  p2 = p2
  Process <- TwoProcesses
  Viewer <- TwoProcesses
  IdOf <- OneForEach
  MaxEvents = 2
CHECK_DEADLOCK FALSE
INVARIANTS TypeOK HInv LoggedInOrder AnswersAccounted ViewComplete ViewSound
PROPERTY LogsGrow
