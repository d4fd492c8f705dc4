SPECIFICATION Spec
CONSTANTS
  s1 = s1
  s2 = s2
  MaxErrors = 1
  MaxAttempts = 2
  Slots = {s1, s2}
  Users = {"driven"}
  NoUser = ""
  DriverlessUsers = {}
  Mailboxes = {"INBOX"}
  INBOX = "INBOX"
  Commands = {"LOGIN", "CREATE", "SELECT", "LOGOUT"}
  RequiringAuthorization <- DefaultRequiringAuthorization
  SimpleAuthorization = FALSE
  Limit <- MCLimit
  Faults = {}
  BrokerMayFail = FALSE
  Nothing = Nothing
PROPERTIES
  ExecutedInAcceptableState
CHECK_DEADLOCK FALSE
