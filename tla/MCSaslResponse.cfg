SPECIFICATION IntakeSpec
CONSTANTS
  Lower = {"a", "b", "noop"}
  Upper <- MCUpper
  UpperCase <- MCUpperCase
  Chunks = {}
  Lengths = {}
  MaxArrived = 0
  Scripts <- ExchangeScripts
  Pipelines = FALSE
  MayRefuse = {"SELECT", "STORE", "LOGIN"}
  MayChallenge = TRUE
  MaxLexemes = 11
  MaxFailures = 1
INVARIANTS
  EveryResponseRead
CHECK_DEADLOCK FALSE
