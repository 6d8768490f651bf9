SPECIFICATION Spec
CONSTANTS
  t1 = t1
  t2 = t2
  Threads <- MCThreads
  Flusher = flusher
  Nobody = nobody
  MaxUnlogged = 2
  ProbeChunk = 2
  LineCapacity = 3
  LineLengths = {1, 2}
  MaxLines = 2
  MaxRestarts = 0
  Faults = {"error", "short", "nomem"}
  RoutesToSelf = FALSE
SYMMETRY Symmetry
INVARIANTS TypeOK SealedInPlace WholeLines PerThreadOrder NoLineWithoutTrace
PROPERTIES KeepsPromise
