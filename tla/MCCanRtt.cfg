CONSTANTS
  can_id = 1
  Others <- MCOthers
  CountsPerSec <- MCCountsPerSec
  MaxMsg = 1
  Big = 9
  MaxFrames = 3
  MaxStrays = 1
  MaxTime = 2
SPECIFICATION Spec
INVARIANTS
  ReportsExact
  FailureUndoesAll
PROPERTIES
  OneAtATime
  SignalEndsRun
CHECK_DEADLOCK FALSE
