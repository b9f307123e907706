SPECIFICATION Spec
CONSTANTS
  Strategies = {"gng", "gap"}
  Reversers = {"gng"}
  TfOf <- MCTfOf
  MaxSize = 1
  PollLimit = 2
  MaxSends = 2
  Faults = {"readRaises"}
  MaxEvents = 1
  MaxUnread = 1
  MaxRestarts = 0
  MaxNet = 2
INVARIANT FlattenedWhileActive
