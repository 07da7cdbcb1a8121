CONSTANTS
  Files = {3, 4}
  Signals = {"SIGINT", "SIGTERM"}
  MaxSignals = 3
SPECIFICATION Spec
INVARIANTS
  OwnLine
PROPERTIES
  CleansUp
