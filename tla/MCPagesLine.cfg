SPECIFICATION FairSpec
CONSTANTS
  MaxStarts = 1
  NameCounts = {1}
  ServerCounts = {1}
  Ouis = {a}
  NoOui = none
  MaxMacs = 1
  PacketCounts = {1}
  PacketCap = 1
CHECK_DEADLOCK FALSE
PROPERTY
  EveryLineShown
