SPECIFICATION Spec
CONSTANTS
  r1 = r1
  r2 = r2
  Requests = {r1, r2}
  MaxSaves = 2
  MaxCrashes = 1
  FaultSets <- MCFaultSets
INVARIANTS SignalAfterFiles QuietFilesCurrent NewCodeIsNew
PROPERTIES SensorCurrent
CHECK_DEADLOCK FALSE
