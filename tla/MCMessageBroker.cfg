SPECIFICATION FairSpec
CONSTANTS
  c1 = c1
  c2 = c2
  c3 = c3
  Calls <- MCCalls
  Answers = {"ok"}
  Malformed = "malformed"
  CommandQueues = {"COPY"}
  ReplyTo <- MCReplyTo
INVARIANTS
  TypeOK
  PendingHasAWayOut
  NoListenerOutlivesItsTimer
  AnswersAreCorrelated
PROPERTIES
  SettledForGood
  EveryCallSettles
  EveryListenerGoes
  ImplementsRpcCall
CHECK_DEADLOCK FALSE
