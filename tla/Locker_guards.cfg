SPECIFICATION FairSpec
CONSTANTS
  t1 = t1
  t2 = t2
  Threads <- MCThreads
  Lockers = {1, 2}
  NoLocker = 0
  Exclusives = {x, y}
  Shareds = {r, s}
  MaxUpdates = 2
INVARIANTS TypeOK Exclusion LockMatchesGuards UpdatesKept
PROPERTIES RequestsGranted
