SPECIFICATION FairSpec
CONSTANTS
  Ids = {c1, c2, c3}
  MaxThreads = 2
  FdLimit = 3
  MaxOthers = 1
 
PROPERTIES ClientsAreAnswered ClosedIsDestroyed ImplementsLifecycle
CHECK_DEADLOCK FALSE
