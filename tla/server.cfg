SPECIFICATION LiveSpec
CONSTANTS
  ask1 = ask1
  ask2 = ask2
  id1 = id1
  id2 = id2
  c1 = c1
  c2 = c2
  l1 = l1
  l2 = l2
  None = None
  Calls = {ask1, ask2}
  Reads = {ask1}
  Names = {id1, id2}
  Setups <- Pair
  Conns = {c1, c2}
  Leases = {l1, l2}
  Ttl = 2
  Patience = 1
INVARIANTS
  TypeOK
  OneLease
  ReceiptsKept
  ClosedQuiet
PROPERTIES
  ServerStops
CHECK_DEADLOCK FALSE
