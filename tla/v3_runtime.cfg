SPECIFICATION FairSpec
CONSTANTS
  Threshold = 1
  MaxTasks = 2
  Faults = {"reject", "lostReply", "insertFails", "restart"}
  MaxRows = 2
  MaxRestarts = 1
INVARIANTS FailuresBounded TradesSettled BasisIsRecordedEntry
PROPERTIES HaltHolds ExitCompletes
CHECK_DEADLOCK FALSE
