SPECIFICATION Spec
CONSTANTS
  NUM_BUTTONS = 1
  FIFO_SIZE = 1
  MaxLoads = 1
  FailPoints <- NoFailures
PROPERTY QuietPressLatched
