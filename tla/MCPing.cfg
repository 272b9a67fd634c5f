SPECIFICATION Spec
CONSTANTS
  Targets = {a, b}
  MaxSessions = 2
  MaxProbes = 1
  Outcomes = {"ok", "error"}
  LogCap = 3
SYMMETRY Symmetry
INVARIANTS
  TypeOK
  OnlyFailedStartsOrphan
  SessionInv
PROPERTIES
  ImplementsSession
  ProbesCountedOnce
