CONSTANTS
  N = 2
  MaxMax = 1
  MaxCycles <- MCMaxCycles
  NoThread = NoThread
SPECIFICATION Spec
PROPERTY
  RefreshOnMaxEnds
CHECK_DEADLOCK FALSE
