SPECIFICATION LiveSpec
CONSTANTS
  r1 = r1
  r2 = r2
  a = a
  b = b
  w = w
  None = None
  Closer = closer
  Ranks = {r1, r2}
  Callers = {a, b}
  Workers = {w}
  MaxActive = 1
  PoolSize = 1
  Plans <- MCPlans
  MaxPending <- MCPending
INVARIANTS
  TypeOK
  CreditsHeld
  NoSleepOnWork
  StoppedQuiet
PROPERTIES
  OperationsEnd
CHECK_DEADLOCK FALSE
