CONSTANTS
  MaxDuty = 7
  StepArgs <- MCStepArgs
SPECIFICATION Spec
INVARIANTS
  DutyOnlyWhileRunning
  SweepInRange
  CleanReturn
PROPERTIES
  SweepReachesBothEnds
  SweepAndManualComplete
  InterruptEndsSweep
