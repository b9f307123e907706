SPECIFICATION Spec
CONSTANTS
  Threshold = 1
  MaxTasks = 2
  Faults = {}
  MaxRows = 2
  MaxRestarts = 0
INVARIANT OrphanMeansFlat
CHECK_DEADLOCK FALSE
