SPECIFICATION Spec
CONSTANTS
  t1 = t1
  t2 = t2
  Threads <- MCThreads
  Flusher = flusher
  Nobody = nobody
  MaxUnlogged = 1
  ProbeChunk = 2
  LineCapacity = 3
  LineLengths = {1, 2, 3}
  MaxLines = 1
  MaxRestarts = 2
  Faults = {"error", "panic"}
  RoutesToSelf = FALSE
SYMMETRY Symmetry
INVARIANTS SealedInPlace
