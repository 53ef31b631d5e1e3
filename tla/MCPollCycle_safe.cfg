SPECIFICATION Spec
CONSTANTS
  c1 = c1
  c2 = c2
  Nobody = Nobody
  Historian <- TwoHistorians
  MaxLost = 1
  MaxDup = 2
  MaxStarts = 2
  MaxBehind = 2
CHECK_DEADLOCK FALSE
SYMMETRY Swap
INVARIANTS TypeOK Conserved StaleBounded
PROPERTIES StarvedWaits ImplementsFreshPoll
