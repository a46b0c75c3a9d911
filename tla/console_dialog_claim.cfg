SPECIFICATION Spec
CONSTANTS
  k1 = k1
  r1 = r1
  r2 = r2
  q1 = q1
  Mails = {1, 2}
  Keys = {k1}
  SenderOf <- TwoSenders
  Searches = {}
  Hits <- OddHits
  StatusFilters = {"all"}
  PageSize = 1
  Failures = FALSE
  MaxEvents = 4
  MaxCalls = 1
  Refreshes = {r1}
  MaxOpens = 2
INVARIANTS
  DialogShowsOpened
CHECK_DEADLOCK FALSE
