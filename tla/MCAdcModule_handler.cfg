SPECIFICATION FairSpec
CONSTANTS
  NUM_BUTTONS = 2
  FIFO_SIZE = 1
  MaxLoads = 1
  FailPoints <- AllFailures
INVARIANTS TypeOK DropsOnlyHigher SnapshotFaithful SpacedEdgesReported
PROPERTIES ReportsARealEdge NoEmptyService ImplementsButtonQueue
  Acknowledged ReportedUnlessLower KeepsReporting
