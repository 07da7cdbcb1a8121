CONSTANTS
  MaxDuty = 7
  StepArgs <- MCStepArgs
SPECIFICATION Spec
PROPERTY
  UdpCompletes
