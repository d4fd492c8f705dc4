SPECIFICATION IntakeSpec
CONSTANTS
  Lower = {"a", "b", "noop"}
  Upper <- MCUpper
  UpperCase <- MCUpperCase
  Chunks = {}
  Lengths = {}
  MaxArrived = 0
  Scripts <- PipelinedScripts
  Pipelines = TRUE
  MayRefuse = {"SELECT", "STORE", "LOGIN"}
  MayChallenge = FALSE
  MaxLexemes = 11
  MaxFailures = 1
INVARIANTS
  EveryLineRead
CHECK_DEADLOCK FALSE
