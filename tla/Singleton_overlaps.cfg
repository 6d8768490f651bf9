SPECIFICATION Spec
CONSTANTS
  a = a
  b = b
  c = c
  Threads <- AllThree
  Makers <- TwoMakers
  MaxMakes = 3
  MaxCells = 2
INVARIANTS GuardMeansObject NoLeak
