SPECIFICATION Spec
CONSTANTS
  Targets = {a, b}
  MaxSessions = 1
  MaxProbes = 1
  Outcomes = {"ok", "error"}
  LogCap = 3
INVARIANT
  DeleteOfferedOnlyWhenQuiet
