CONSTANTS
  Seqs = {1, 2}
  Intervals = {0, 1}
  MaxDelay = 2
  LastCall = 2
  MaxTime = 6
SPECIFICATION FairSpec
INVARIANT TimersSound
  
CHECK_DEADLOCK FALSE
