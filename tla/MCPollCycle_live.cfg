SPECIFICATION FairSpec
CONSTANTS
  c1 = c1
  c2 = c2
  Nobody = Nobody
  Historian <- TwoHistorians
  MaxLost = 1
  MaxDup = 1
  MaxStarts = 2
  MaxBehind = 1
CHECK_DEADLOCK FALSE
PROPERTY PollsOn
