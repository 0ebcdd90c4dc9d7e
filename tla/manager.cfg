SPECIFICATION LiveSpec
CONSTANTS
  a = a
  b = b
  k1 = k1
  k2 = k2
  t1 = t1
  t2 = t2
  t3 = t3
  None = None
  Owners = {a, b}
  Keys = {k1, k2}
  Tickets = {t1, t2, t3}
  Submitted = 2
  StaleMax = 1
  AttemptsMax = 1
  Setups <- MCSetups
INVARIANTS
  TypeOK
  TicketsOwned
  VetoHolds
PROPERTIES
  LookupSettles
CHECK_DEADLOCK FALSE
