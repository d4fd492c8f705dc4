SPECIFICATION Spec
CONSTANTS
  Lower = {"a"}
  Upper = {"A"}
  Chunks <- MCChunks
  Lengths = {0, 2}
  MaxArrived = 5
INVARIANTS
  TypeOK
  ReadersBehave
  ChunksDecideNothing
PROPERTIES
  EachByteOnce
  SkipsToLineStart
CHECK_DEADLOCK FALSE
