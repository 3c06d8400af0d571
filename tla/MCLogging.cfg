CONSTANTS
  Threads <- MCThreads
  Calls <- MCCalls
  Levels <- MCLevels
  Zones <- MCZones
  Instants <- MCInstants
  Years <- MCYears
  SmallBuffer = 12
  SuffixSize = 4
  MaxNumeric = 2
SPECIFICATION Spec
INVARIANTS StreamedLineIsWhole StampIsTrue LocalTimeReadsBack DatesAreCivil
CHECK_DEADLOCK FALSE
