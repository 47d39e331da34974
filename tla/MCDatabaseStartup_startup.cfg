SPECIFICATION FairSpec
CONSTANTS
  Servers = {p1, p2, p3}
  Ports = {a, b}
  Tables = 2
  Seeds = 1
  Found = {0, 1, 3}
  MaxStarts = 4
  MaxFaults = 1
  aServer = p3
  aPort = a
CONSTRAINT PortsUpToNames
INVARIANTS
  AppliedOnce
  OpenedMeansApplied
PROPERTIES
  NeverMended
  ImplementsSchemaFile
  StartsEnd
CHECK_DEADLOCK FALSE
