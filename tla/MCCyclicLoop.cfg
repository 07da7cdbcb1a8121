CONSTANTS
  Word = 64
  MinInit = 9
  Histogram = 2
  Ring = 2
  Reduction = 2
  Interval = 2
  Late = 2
  Options <- MCOptions
  Shifts <- MCShifts
  TraceLimit = 0
  None = None
SPECIFICATION Spec
INVARIANTS
  TypeOK
  HistogramExact
  ExtremesExact
  ReportsAreMaxima
  NanosleepNeverEarly
  GridKept
PROPERTY
  LoopEnds
