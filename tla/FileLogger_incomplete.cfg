SPECIFICATION Spec
CONSTANTS
  t1 = t1
  t2 = t2
  Threads <- MCThreads
  Flusher = flusher
  Nobody = nobody
  MaxUnlogged = 2
  ProbeChunk = 2
  LineCapacity = 3
  LineLengths = {2}
  MaxLines = 1
  MaxRestarts = 0
  Faults = {"short"}
  RoutesToSelf = TRUE
INVARIANTS NoSelfDeadlock
