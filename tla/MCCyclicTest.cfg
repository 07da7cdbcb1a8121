CONSTANTS
  N = 2
  MaxMax = 1
  MaxCycles <- MCMaxCycles
  NoThread = NoThread
SPECIFICATION Spec
INVARIANTS
  StatsOutliveThreads
  SummaryIsFinal
PROPERTY
  TestEnds
CHECK_DEADLOCK FALSE
