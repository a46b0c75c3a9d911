SPECIFICATION FairSendSpec
CONSTANTS
  c1 = c1
  c2 = c2
  p1 = p1
  p2 = p2
  None = None
  Calls = {c1, c2}
  Past = {p1, p2}
  History <- MCHistory
  Start = 1
  Mails <- MCMails
  Windows <- MCWindows
  LimitChoices <- MCLimits
  Edits = TRUE
  Faults = TRUE
  MaxTime = 2
  Routes <- MCRoutes
  KeyChoices <- MCKeyChoices
INVARIANTS
  SendTypeOK
  NoOvershoot
  RetryAtFitsItsWindow
  DecisionIsCurrent
  ChargedOnce
  QueuedIsCharged
  ChargeIsAccounted
  AnswerIsTrue
PROPERTIES
  RequestsAnswer
CHECK_DEADLOCK FALSE
