CONSTANTS
  CommandLines <- MCCommandLines
  FirstLen = 3
SPECIFICATION Spec
INVARIANTS
  InBounds
  VectorIsCommandLine
  NoLeak
  MainSeesReduced
  WrapperInitialises
PROPERTIES
  ReachesMain
