SPECIFICATION FairSpec
CONSTANTS
  Strategies = {"gng", "gap"}
  Reversers = {"gng"}
  TfOf <- MCTfOf
  MaxSize = 1
  PollLimit = 2
  MaxSends = 2
  Faults = {"readRaises"}
  MaxEvents = 0
  MaxUnread = 0
  MaxRestarts = 0
  MaxNet = 2
PROPERTY BlockingEnds
