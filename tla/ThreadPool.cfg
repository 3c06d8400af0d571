SPECIFICATION FairSpec
CONSTANTS
  Producers = {p1, p2}
  Tasks = {t1, t2}
  None = None
  Capacities = {0, 1}
  NumThreads = {0, 2}
  MaxStarts = 2
PROPERTIES QueuedTaskEnds  ImplementsTaskPool
CHECK_DEADLOCK FALSE
