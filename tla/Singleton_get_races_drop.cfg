SPECIFICATION Spec
CONSTANTS
  a = a
  b = b
  c = c
  Threads <- TwoMakers
  Makers <- OneMaker
  MaxMakes = 1
  MaxCells = 1
INVARIANTS ValueIsPresent
