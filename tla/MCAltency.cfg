CONSTANTS
  period_ns = 2
  ONE_BILLION = 4
  Half = 9
  TEN_MILLIONS = 7
  fault_threshold = 1
  bucketsize = 2
  histogram_size = 2
  Delays <- MCDelays
  Options <- MCOptions
  MaxSwitches = 1
SPECIFICATION Spec
INVARIANTS
  ReleasesAccounted
  ShownFresh
  SummaryExact
  HistogramsExact
