SPECIFICATION Spec
CONSTANTS
  i1 = i1
  i2 = i2
  i3 = i3
  l1 = l1
  l2 = l2
  None = None
  Ids = {i1, i2}
  Keys = {k1, k2}
  Leases = {l1}
  MaxCharge = 2
  Limits <- Tight
  Lease = 1
  Grace = 1
  Faults = TRUE
  Crashes = FALSE
  OperatorClears = TRUE
SYMMETRY Interchangeable
INVARIANTS
  IndexAuthoritative
