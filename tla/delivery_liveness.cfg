SPECIFICATION FairSpec
CONSTANTS
  r1 = r1
  r2 = r2
  k1 = k1
  Requests = {r1, r2}
  Size <- MCSize
  KeyOf <- SystemMail
  Keys = {}
  NoKey = NoKey
  Workers = {w1}
  Admins = {a1}
  Capacity = 1
  Servers = {s1}
  NoServer = NoServer
  Defaults = {s1, NoServer}
  Faults = {"quit", "crash"}
  MaxRetries = 1
  MaxCrashes = 1
INVARIANTS
  PendingHasJob
PROPERTIES
  PendingSettles
  SubmitReturns
CHECK_DEADLOCK FALSE
