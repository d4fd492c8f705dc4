SPECIFICATION FairSpec
CONSTANTS
  s1 = s1
  s2 = s2
  MaxErrors = 1
  MaxAttempts = 2
  Slots = {s1}
  Users = {"driverless"}
  NoUser = ""
  DriverlessUsers = {"driverless"}
  Mailboxes = {"INBOX", "Archive"}
  INBOX = "INBOX"
  Commands = {"LOGIN", "AUTHENTICATE", "SELECT", "EXAMINE", "STATUS", "COPY", "STORE", "CLOSE", "LOGOUT", "ERROR"}
  RequiringAuthorization <- DefaultRequiringAuthorization
  SimpleAuthorization = FALSE
  Limit <- MCLimit
  Faults = {}
  BrokerMayFail = FALSE
  Nothing = Nothing
INVARIANTS
  TypeOK
  SelectedIsWritable
  PublishedForTheUser
PROPERTIES
  LogoutIsFinal
  ExecutedInAcceptableState
  ImplementsSession
  EveryCommandEnds
CHECK_DEADLOCK FALSE
