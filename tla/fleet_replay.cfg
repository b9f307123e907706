SPECIFICATION Spec
CHECK_DEADLOCK FALSE
CONSTANTS
  Drives <- MCDrives
  Slots <- MCSlots
  Days = 2
  MaxOpen = 2
  MaxGain = 1
  Weekend <- MCNone
  FullyClosed <- MCNone
  EarlyClose1145 <- MCEarly
  EarlyClose0800 <- MCNone
  FomcDates <- MCNone
  FirstFridays <- MCNone
  AccountSize = 10
  MaxLoss = 3
  DailyLoss = 2
  SoftCap = 2
  ContractCap = 1
  MaxSize = 1
INVARIANTS
  ShotsMatchTrades
  LimitsOvershotByOneTrade
