CONSTANTS
  Clients = {c1, c2}
  NoClient = NoClient
  Pool <- MCPool
  TTL = 1
  MaxTime = 2
  MaxScans = 3
SPECIFICATION Spec
SYMMETRY Symmetry
CHECK_DEADLOCK FALSE
INVARIANTS
  ListsIntact
  FilledCacheServes
PROPERTIES
  StaleOnlyAfterFailure
