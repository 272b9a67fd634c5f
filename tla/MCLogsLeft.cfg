SPECIFICATION Spec
CONSTANTS
  Dirs = {d1, d2}
  Default = d1
  Used = {"ping", "arp"}
  MaxFiles = 3
INVARIANTS
  NothingLeft
