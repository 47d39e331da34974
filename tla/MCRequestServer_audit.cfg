SPECIFICATION Spec
CONSTANTS
  Connections = {k1, k2}
  Accounts = {u1}
  NoAccount = NoAccount
  MaxStatements = 1
  MaxFaults = 0
PROPERTIES
  MutationsAreAudited
CHECK_DEADLOCK FALSE
