SPECIFICATION Spec
CONSTANTS
  Targets = {a}
  MaxHops = 2
  MaxLines = 2
  MaxProbes = 2
  StderrFits = TRUE
CHECK_DEADLOCK FALSE
INVARIANTS
  TypeOK
  ChildrenReaped
  NoSampleLost
  FinalStatusIsLast
PROPERTY
  ImplementsSession
