SPECIFICATION FairSpec
CONSTANTS
  None = None
  First = First
  Keys = {k1, k2}
  Edits = {e1, e2}
  Ciphers = {x1, x2}
  Inputs <- MCInputs
  MaxCrashes = 1
INVARIANTS
  TypeOK
  OldKeysRevoked
  ConfiguredKeyWorks
  LastWordCounts
PROPERTIES
  ServiceComesUp
CHECK_DEADLOCK FALSE
