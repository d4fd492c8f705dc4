SPECIFICATION Spec
CONSTANTS
  s1 = s1
  s2 = s2
  MaxErrors = 0
  MaxAttempts = 1
  Slots = {s1, s2}
  Users = {"driverless"}
  NoUser = ""
  DriverlessUsers = {"driverless"}
  Mailboxes = {"INBOX"}
  INBOX = "INBOX"
  Commands = {"LOGIN", "CREATE", "NOOP", "XYZZY"}
  RequiringAuthorization <- DefaultRequiringAuthorization
  SimpleAuthorization = FALSE
  Limit <- MCLimit
  Faults = {"badTag", "badArguments", "unreadable"}
  BrokerMayFail = TRUE
  Nothing = Nothing
SYMMETRY MCSymmetry
INVARIANTS
  OverLimitCloses
  NoSilentEnd
PROPERTIES
  NoWriteAfterEnd
CHECK_DEADLOCK FALSE
