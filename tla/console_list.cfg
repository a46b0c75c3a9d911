SPECIFICATION Spec
SYMMETRY Places
CONSTANTS
  k1 = k1
  r1 = r1
  r2 = r2
  q1 = q1
  Mails = {1, 2}
  Keys = {k1}
  SenderOf <- TwoSenders
  Searches = {q1}
  Hits <- OddHits
  StatusFilters = {"all", "failed"}
  PageSize = 1
  Failures = TRUE
  MaxEvents = 3
  MaxCalls = 2
  Refreshes = {r1, r2}
  MaxOpens = 1
INVARIANTS
  TypeOK
  NewestFirst
  ListMatchesFilter
PROPERTIES
  StatusesGoForward
CHECK_DEADLOCK FALSE
