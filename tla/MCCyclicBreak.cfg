CONSTANTS
  Word = 64
  MinInit = 9
  Histogram = 2
  Ring = 1
  Reduction = 1
  Interval = 2
  Late = 3
  Options <- PosixTimer
  Shifts <- MCShifts
  TraceLimit = 3
  None = None
SPECIFICATION Spec
INVARIANT
  BreakOnlyAboveLimit
