SPECIFICATION FairSpec
CONSTANTS
  Strategies = {"gng", "gap"}
  Reversers = {"gng"}
  TfOf <- MCTfOf
  MaxSize = 1
  PollLimit = 2
  MaxSends = 2
  Faults <- FaultKinds
  MaxEvents = 2
  MaxUnread = 2
  MaxRestarts = 1
  MaxNet = 2
INVARIANTS
  CacheTracksBroker
  FlatWhileKilled
  SwitchReflectsLastSeen
  AtMostOneLateEntry
PROPERTIES
  AccountIsSingleTrade
  CacheIsSingleTrade
  SwitchObeyed
  ReversalUnblocks
