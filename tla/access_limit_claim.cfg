SPECIFICATION Spec
CONSTANTS
  None = None
  Posts = {1, 2, 3, 4}
  Reviews = {}
  MaxPerIP = 3
  Window = 2
  Faults = {}
  Concurrent = 2
  MaxTime = 2
  MaxCrashes = 0
INVARIANTS
  AcceptedPerHour
CHECK_DEADLOCK FALSE
