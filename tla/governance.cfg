SPECIFICATION Spec
CONSTANTS
  Strategies <- MCStrategies
  Keepers <- MCKeepers
  Registered <- MCRegistered
  FirstTables <- MCFirstTables
  Requests <- MCRequests
  NameOrder <- MCNameOrder
  Tier <- MCTier
  Fits <- MCFits
  Buckets <- MCBuckets
  Readings <- MCReadings
  RegimeEngine = TRUE
  Pnls <- MCPnls
  Minutes <- MCMinutes
  MaxTrades = 2
  WindowTrades = 1
  WindowDays = 0
  MaxAllowedDrawdown = 400
  RowLimit = 3
  MaxRows = 3
  MaxDays = 1
  MaxScripts = 1
  MaxStarts = 2
  MaxFaults = 1
INVARIANTS
  TypeOK
  OrdersAreEntitled
  RestartKeepsRecord
  ScoresFollowRecords
  TierOutweighsRecord
CHECK_DEADLOCK FALSE
