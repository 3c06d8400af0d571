CONSTANTS
  Threads = {o, t}
  Functors = {f1, f2, f3}
  Channels = {c1}
  WakeupChan = w
  Owner = o
  SelfQuit = TRUE
SPECIFICATION ELTFairSpec
INVARIANT PublishedLoopIsReady
PROPERTIES ImplementsExecutor QueuedFunctorRuns OwnerReturns
CHECK_DEADLOCK FALSE
