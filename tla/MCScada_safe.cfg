SPECIFICATION FairSpec
CONSTANTS
  c1 = c1
  Historian <- OneHistorian
  Nobody = Nobody
  NUM_BUTTONS = 2
  FIFO_SIZE = 1
  MaxReports = 3
  MaxStarts = 2
  MaxEvents = 1
CHECK_DEADLOCK FALSE
INVARIANTS TypeOK PrintedInOrder NothingSkipped AlternatesUnlessGone SInv
PROPERTIES ReportedPrinted ImplementsButtonQueue
