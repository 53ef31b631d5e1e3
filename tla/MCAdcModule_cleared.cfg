SPECIFICATION Spec
CONSTANTS
  NUM_BUTTONS = 1
  FIFO_SIZE = 1
  MaxLoads = 2
  FailPoints <- NoFailures
PROPERTY RealEdgeAfterReload
