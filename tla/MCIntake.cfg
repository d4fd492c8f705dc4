SPECIFICATION IntakeSpec
CONSTANTS
  Lower = {"a", "b", "noop"}
  Upper <- MCUpper
  UpperCase <- MCUpperCase
  Chunks = {}
  Lengths = {}
  MaxArrived = 0
  Scripts <- SequentialScripts
  Pipelines = FALSE
  MayRefuse = {"SELECT", "STORE", "LOGIN"}
  MayChallenge = FALSE
  MaxLexemes = 11
  MaxFailures = 1
INVARIANTS
  ReadTypeOK
  EveryLineRead
PROPERTIES
  ResumesAtLineStart
  ImplementsCommandStream
CHECK_DEADLOCK FALSE
