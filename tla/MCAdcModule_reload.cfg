SPECIFICATION Spec
CONSTANTS
  NUM_BUTTONS = 2
  FIFO_SIZE = 1
  MaxLoads = 2
  FailPoints <- AllFailures
INVARIANTS NoEdgeTwice CleanExit PutFindsFifo IInv
