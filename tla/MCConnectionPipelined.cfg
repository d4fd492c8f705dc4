SPECIFICATION Spec
CONSTANTS
  s1 = s1
  s2 = s2
  MaxErrors = 0
  MaxAttempts = 2
  Slots = {s1, s2}
  Users = {"driven", "driverless"}
  NoUser = ""
  DriverlessUsers = {"driverless"}
  Mailboxes = {"INBOX"}
  INBOX = "INBOX"
  Commands = {"LOGIN", "SELECT", "COPY", "LOGOUT", "AUTHENTICATE"}
  RequiringAuthorization <- DefaultRequiringAuthorization
  SimpleAuthorization = FALSE
  Limit <- MCLimit
  Faults = {}
  BrokerMayFail = FALSE
  Nothing = Nothing
SYMMETRY MCSymmetry
INVARIANTS
  UserIsConfirmed
  SessionIsConfirmed
  AuthorizedBeforeHandled
  AtMostOneReply
  NoSilentEnd
CHECK_DEADLOCK FALSE
