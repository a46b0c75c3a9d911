SPECIFICATION Spec
CONSTANTS
  None = None
  Logins = {l1, l2, l3, l4, l5}
  Calls = {r1}
  MaxFails = 2
  Window = 2
  TTL = 1
  Concurrent = 2
  MaxTime = 4
  MaxCrashes = 1
SYMMETRY LoginSymmetry
INVARIANTS
  TypeOK
  FailsSlack
  GoodSessionsStay
PROPERTIES
  RefusedHadFails
  EntersSignedIn
CHECK_DEADLOCK FALSE
