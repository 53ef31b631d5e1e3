SPECIFICATION USpec
CONSTANTS
  c1 = c1
  Historian <- OneHistorian
  Nobody = Nobody
  NUM_BUTTONS = 1
  FIFO_SIZE = 1
  MaxReports = 1
  MaxStarts = 1
  MaxEvents = 2
CHECK_DEADLOCK FALSE
INVARIANT ReportsReachLog
