SPECIFICATION FairSpec
CONSTANTS
  Targets = {a, b}
  MaxSessions = 1
  MaxProbes = 2
  Outcomes = {"ok", "timeout", "error"}
  LogCap = 3
INVARIANTS
  ReportsInOrder
  TableMatchesPanel
PROPERTIES
  StopEndsWorkers
  ShownWhileRunning
