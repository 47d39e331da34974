SPECIFICATION Spec
CONSTANTS
  Servers = {p1}
  Ports = {a}
  Tables = 2
  Seeds = 1
  Found = {0, 1, 3}
  MaxStarts = 1
  MaxFaults = 0
  aServer = p1
  aPort = a
INVARIANTS
  ReadyMeansDatabase
CHECK_DEADLOCK FALSE
