SPECIFICATION Spec
CONSTANTS
  t1 = t1
  t2 = t2
  n1 = n1
  n2 = n2
  n3 = n3
  b1 = b1
  b2 = b2
  b3 = b3
  b4 = b4
  Threads <- MCThreads
  Names <- MCNames
  Blocks <- MCBlocks
  NoBlock = null
  Chars = {a}
  Nul = nul
  NoText = noText
  MaxCapacity = 2
CHECK_DEADLOCK FALSE
SYMMETRY Symmetry
INVARIANTS CountsAreReferences ReadsAsText
PROPERTIES ConcatenationJoins KeepsPromise
