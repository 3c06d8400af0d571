CONSTANTS
  Threads <- MCThreads
  Calls <- MCCalls
  Levels <- MCLevels
  Zones <- MCZones
  Instants <- MCInstants
  Years <- MCYears
  SmallBuffer = 12
  SuffixSize = 4
  MaxNumeric = 2
SPECIFICATION Spec
INVARIANT FormattedLineIsWhole
CHECK_DEADLOCK FALSE
