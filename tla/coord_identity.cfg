SPECIFICATION Spec
CONSTANTS
  r1 = r1
  r2 = r2
  w1 = w1
  w2 = w2
  a1 = a1
  a2 = a2
  a3 = a3
  k1 = k1
  k2 = k2
  None = None
  Ranks = {r1, r2}
  Scheduler = scheduler
  Workers = {w1, w2}
  Keys = {k1}
  Identities <- ReadWrite
  Attempts = {a1, a2}
  Charge <- Flat
  MaxKeys = 2
  MaxBytes = 2
  RetryMax = 1
  Ttl = 2
  Margin = 1
  Uses <- Renewal
SYMMETRY Interchangeable
INVARIANTS
  IdentityIndexed
CHECK_DEADLOCK FALSE
