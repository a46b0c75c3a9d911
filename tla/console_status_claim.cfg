SPECIFICATION FairSpec
CONSTANTS
  k1 = k1
  r1 = r1
  r2 = r2
  q1 = q1
  Mails = {1}
  Keys = {k1}
  SenderOf <- TwoSenders
  Searches = {}
  Hits <- OddHits
  StatusFilters = {"all"}
  PageSize = 1
  Failures = FALSE
  MaxEvents = 1
  MaxCalls = 1
  Refreshes = {r1}
  MaxOpens = 0
PROPERTIES
  StatusesUpdate
CHECK_DEADLOCK FALSE
