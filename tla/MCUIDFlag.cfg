SPECIFICATION Spec
CONSTANTS
  s1 = s1
  s2 = s2
  MaxErrors = 1
  MaxAttempts = 2
  Slots = {s1}
  Users = {"driven"}
  NoUser = ""
  DriverlessUsers = {}
  Mailboxes = {"INBOX"}
  INBOX = "INBOX"
  Commands = {"LOGIN", "SELECT", "FETCH", "COPY"}
  RequiringAuthorization <- DefaultRequiringAuthorization
  SimpleAuthorization = FALSE
  Limit <- MCLimit
  Faults = {}
  BrokerMayFail = FALSE
  Nothing = Nothing
INVARIANTS
  UIDAsRequested
CHECK_DEADLOCK FALSE
