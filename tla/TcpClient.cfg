SPECIFICATION FairSpec
CONSTANTS
  InitRetryDelay = 1
  MaxRetryDelay = 3
  LoopCalls = {"connect", "stop", "disconnect", "forceClose", "destroy"}
  ThreadCalls = {"connect", "stop", "disconnect", "destroy"}
  CloseAtOnce = FALSE
  MaxConns = 3
  MaxPending = 3
INVARIANTS  ConnectorSound OneAtATime
PROPERTIES StopIsFinal ConnectsInTheEnd
CHECK_DEADLOCK FALSE
