SPECIFICATION Spec
CONSTANTS
  r1 = r1
  r2 = r2
  k1 = k1
  Requests = {r1, r2}
  Size <- SingleSize
  KeyOf <- MCKeyOf
  Keys = {k1}
  NoKey = NoKey
  Workers = {w1, w2}
  Admins = {a1, a2}
  Capacity = 1
  Servers = {s1}
  NoServer = NoServer
  Defaults = {NoServer}
  Faults = {"record", "commit", "mark", "requeue", "quit", "crash"}
  MaxRetries = 1
  MaxCrashes = 1
SYMMETRY Symmetry
INVARIANTS
  TypeOK
  OneJobPerMail
  AcceptedWithinLicence
  LiveJobIsPending
  HistoryNamesServer
  AttemptsCount
PROPERTIES
  SentIsFinal
  ImplementsHistory
CHECK_DEADLOCK FALSE
