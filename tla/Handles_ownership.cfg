SPECIFICATION Spec
CONSTANTS
  l1 = l1
  l2 = l2
  v1 = v1
  v2 = v2
  h1 = h1
  h2 = h2
  i1 = i1
  i2 = i2
  i3 = i3
  i4 = i4
  i5 = i5
  i6 = i6
  k1 = k1
  k2 = k2
  Locks <- MCLocks
  Vnodes <- MCVnodes
  Handles <- MCHandlesOf
  Ids <- MCIds
  Null = null
  ContextFunction = 9
  ContextCode <- MCContextCode
  PageSize = 4
  ImmhiSize = 2
  AddressSpace = 64
  Kthreads <- MCKthreads
SYMMETRY Symmetry
INVARIANTS ContextIsTarget OneOwner GroupOutlivesLock HandleKeepsContext
