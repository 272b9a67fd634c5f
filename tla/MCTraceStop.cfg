SPECIFICATION FairSpec
CONSTANTS
  Targets = {a, b}
  MaxHops = 1
  MaxLines = 1
  MaxProbes = 0
  StderrFits = FALSE
CHECK_DEADLOCK FALSE
INVARIANT
  StopKillsChildren
PROPERTIES
  StopReturns
  StopEndsThreads
