SPECIFICATION FairSpec
CONSTANTS
  RollSize = 1
  CheckEveryN = 2
  DayLength = 1
  Shards = 2
  ShardOf <- MCShardOf
  BufferLines = 1
  DropAbove = 2
  DropKeeps = 1
  MaxLines = 2
  MaxTime = 1
  MaxFaults = 1
  MaxStarts = 2
INVARIANTS StopWritesAll LinesInOrder RollsEachDay
PROPERTY LineGetsOut
CHECK_DEADLOCK FALSE
