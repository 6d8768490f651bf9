SPECIFICATION Spec
CONSTANTS
  vec1 = vec1
  vec2 = vec2
  Vectors <- MCVectors
  Sets <- MCSets
  Arrays <- MCArraysOfTwo
  Raws <- MCRaws
  Values = {x, y}
  Default = x
  Lost = lost
  Raw = raw
  NotMade = notMade
  set1 = set1
  set2 = set2
  arr1 = arr1
  arr2 = arr2
  raw1 = raw1
  raw2 = raw2
  opt1 = opt1
  opt2 = opt2
  Optionals <- MCOptionals
  b1 = b1
  b2 = b2
  b3 = b3
  Buffers <- MCBuffers
  NoBuffer = null
  ArraySize = 2
  SizeMax = 4
  MaxSize = 3
  MaxObjects = 2
  MaxCells = 4
SYMMETRY Symmetry
INVARIANTS ObjectsAreElements BuffersHaveOneOwner
PROPERTIES AddressesStay BytesSurvive KeepsPromise
