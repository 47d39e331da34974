SPECIFICATION FairSpec
CONSTANTS
  Connections = {k1, k2}
  Accounts = {u1}
  NoAccount = NoAccount
  MaxStatements = 2
  MaxFaults = 2
INVARIANTS
  NothingIsLost
  AuditFollowsChange
  AnswersAreTrue
  LogNamesAccounts
  MissingEntriesHaveCauses
PROPERTIES
  ImplementsQueue
  RequestsEnd
CHECK_DEADLOCK FALSE
