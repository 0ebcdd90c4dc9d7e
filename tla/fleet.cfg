SPECIFICATION LiveSpec
CONSTANTS
  N = 2
  Scheduler = scheduler
  Profiles = {before, after}
  Plain = plain
  None = None
  Lost = Lost
  MaxFaults = 3
  FAIL_THRESHOLD = 2
  Sessions = {alice, bob}
  Main = alice
INVARIANTS
  OneConfiguration
  NoStaleJoin
PROPERTIES
  Recovers
CHECK_DEADLOCK FALSE
