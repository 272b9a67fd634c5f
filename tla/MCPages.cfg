SPECIFICATION FairSpec
CONSTANTS
  MaxStarts = 2
  NameCounts = {2}
  ServerCounts = {2}
  Ouis = {a}
  NoOui = none
  MaxMacs = 2
  PacketCounts = {2}
  PacketCap = 1
CHECK_DEADLOCK FALSE
INVARIANTS
  TypeOK
  JobsKeepFramesComing
  AnswersComplete
  VendorsReplaced
PROPERTIES
  ImplementsJobs
  PacketImplementsSession
  JobsEnd
