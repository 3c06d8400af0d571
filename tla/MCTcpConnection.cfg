CONSTANTS
  Threads = {t1}
  Messages = {m1, m2}
  None = none
  MessageLen = 2
  HighWaterMark = 3
  CallSets <- MCCallSets
  MaxPending = 2
SPECIFICATION FairSpec
INVARIANTS OutputSound CallbacksPaired LifeCycleAssertsHold
PROPERTY ShutdownCompletes
CHECK_DEADLOCK FALSE
