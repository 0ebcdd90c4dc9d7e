SPECIFICATION LiveSpec
CONSTANTS
  long = long
  put = put
  get = get
  back = back
  x1 = x1
  x2 = x2
  None = None
  Jobs = {long, back, put, get}
  Storing = {long, put}
  Size <- Sizes
  Rows = {x1, x2}
  Plans <- OneOrTwo
  Quantum = 2
  MaxPending = 6
  Batches <- Asked
  Faults = {"disk", "native", "submit", "drain", "provider"}
INVARIANTS
  TypeOK
  RowsPrivate
  OnlyOwnBytes
  FairShare
PROPERTIES
  JobsEnd
CHECK_DEADLOCK FALSE
