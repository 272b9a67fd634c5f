SPECIFICATION PartsSpec
CONSTANTS
  PoolSize = 2
  MaxHosts = 3
  MaxScans = 2
  Probers = {p, q}
  Scanners = {q}
  HostCount = 2
  IdentSize = 2
  SeqSize = 2
  MaxRequests = 3
  MaxPingers = 3
  Slices = 2
  Interfaces = {1, 2, 3}
  MaxIfaces = 3
CHECK_DEADLOCK FALSE
INVARIANTS
  TypeOK
  CountersAgree
  DoneIsFinal
  ProgressOnce
  NoThreadWhenIdle
  ProbeTypeOK
  AnswerIsOurs
  SourceIndexValid
PROPERTIES
  ImplementsJob
  ScanEnds
  ProbesEnd
