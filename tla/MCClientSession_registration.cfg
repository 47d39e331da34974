SPECIFICATION Spec
CONSTANTS
  Name <- Names
  Password <- Passwords
  Admin = "admin"
  Default = "changeme"
  MaxSent = 2
PROPERTIES
  RegistrationsAreAccepted
CHECK_DEADLOCK FALSE
