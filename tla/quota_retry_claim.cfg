SPECIFICATION Spec
CONSTANTS
  c1 = c1
  c2 = c2
  c3 = c3
  None = None
  Calls = {c1, c2, c3}
  Past = {}
  History <- MCHistory
  Start = 0
  Mails <- MCMails
  Windows <- MCWindows
  LimitChoices <- TwoLimits
  Edits = FALSE
  Faults = FALSE
  MaxTime = 4
INVARIANTS
  RetryAtIsWhenItFits
CHECK_DEADLOCK FALSE
