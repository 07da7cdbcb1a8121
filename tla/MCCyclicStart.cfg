CONSTANTS
  N = 3
  Second = 20
  Half = 8
  Offsets <- MCOffsets
  MinClock = 17
  MaxClock = 20
  NoTime = NoTime
SPECIFICATION Spec
INVARIANTS
  StartsAligned
  StartsInTime
PROPERTIES
  EverythingStarts
  PromiseSpec
CHECK_DEADLOCK FALSE
