SPECIFICATION Spec
CONSTANTS
  Name <- Names
  Password <- Passwords
  Admin = "admin"
  Default = "changeme"
  MaxSent = 4
INVARIANT
  Gate
PROPERTIES
  OnlyTheLoggedInAddAccounts
  CancelKeepsTheSession
CHECK_DEADLOCK FALSE
