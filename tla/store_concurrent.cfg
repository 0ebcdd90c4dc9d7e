SPECIFICATION Spec
CONSTANTS
  i1 = i1
  i2 = i2
  i3 = i3
  l1 = l1
  l2 = l2
  None = None
  Ids = {i1, i2, i3}
  Keys = {k1, k2}
  Leases = {l1, l2}
  MaxCharge = 2
  Limits <- Roomy
  Lease = 2
  Grace = 1
  Faults = FALSE
  Crashes = FALSE
  OperatorClears = FALSE
SYMMETRY Interchangeable
INVARIANTS
  TypeOK
  LeasedFilesStay
  IndexAuthoritative
PROPERTIES
  NoResurrection
  CacheSpec
