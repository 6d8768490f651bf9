SPECIFICATION Spec
CONSTANTS
  k1 = k1
  k2 = k2
  k3 = k3
  Keys = {k1, k2, k3}
  Values = {v1}
  None = None
  Lost = Lost
  Hash <- Colliding
  DefaultCapacity = 4
  Capacities = {0, 1}
  MaxCapacity = 8
  Iterates = TRUE
INVARIANTS TableIsSound IterationVisitsOnce InsertSucceeds
PROPERTIES KeepsPromise
