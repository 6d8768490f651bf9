SPECIFICATION FairSpec
CONSTANTS
  t1 = t1
  t2 = t2
  Threads <- MCThreads
  Flusher = flusher
  Nobody = nobody
  MaxUnlogged = 1
  ProbeChunk = 2
  LineCapacity = 3
  LineLengths = {2}
  MaxLines = 2
  MaxRestarts = 0
  Faults = {"error"}
  RoutesToSelf = TRUE
INVARIANTS TornTailIsExplained
PROPERTIES WaitingIsKept CallsReturn WaitingIsWritten
