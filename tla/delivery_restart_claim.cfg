SPECIFICATION Spec
CONSTANTS
  r1 = r1
  r2 = r2
  k1 = k1
  Requests = {r1, r2}
  Size <- SingleSize
  KeyOf <- MCKeyOf
  Keys = {k1}
  NoKey = NoKey
  Workers = {w1}
  Admins = {a1}
  Capacity = 1
  Servers = {s1}
  NoServer = NoServer
  Defaults = {s1}
  Faults = {"crash"}
  MaxRetries = 1
  MaxCrashes = 1
INVARIANTS
  RestartedMeansUnsent
CHECK_DEADLOCK FALSE
