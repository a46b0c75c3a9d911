SPECIFICATION FairSpec
CONSTANTS
  None = None
  Posts = {1, 2, 3}
  Reviews = {1, 2}
  MaxPerIP = 1
  Window = 1
  Faults = {"statement", "commit", "crash"}
  Concurrent = 2
  MaxTime = 1
  MaxCrashes = 1
INVARIANTS
  TypeOK
  KeysAreLinked
  AnswerStands
  LimiterSlack
PROPERTIES
  ReviewAnswers
  ReviewedOnce
CHECK_DEADLOCK FALSE
