SPECIFICATION Spec
CONSTANTS
  c1 = c1
  c2 = c2
  Callbacks <- MCCallbacks
  Faults = {"nomem", "error"}
  MaxBlocks = 4
SYMMETRY Symmetry
CHECK_DEADLOCK FALSE
INVARIANTS TypeOK ListenerIsOwned SettledOnlyReads 
