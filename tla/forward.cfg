CONSTANTS
  Stream = {"out", "err"}
  Bytes <- MCBytes
  PipeCap = 2
  Room = 2
  Chunk = 2
  Notice = 1
  MaxForeign = 1
SPECIFICATION FairSpec
INVARIANTS NothingLost NeverInWrite
PROPERTIES DeadlineReturns AllFlows
CHECK_DEADLOCK FALSE
