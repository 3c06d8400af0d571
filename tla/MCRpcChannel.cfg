SPECIFICATION FairSpec
CONSTANTS
  CheapPrepend = 2
  InitialSize = 4
  ByteBase = 4
  ExtraBytes = 16
  IntLen = 2
  Tag <- MCTag
  MaxMessageLen = 7
  Callers = {1, 2}
  Outcomes = {0, 3}
  Pieces = {0, 5}
  Foreign = TRUE
INVARIANTS RightAnswer 
PROPERTY CallReturns
CHECK_DEADLOCK FALSE
