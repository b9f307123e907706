SPECIFICATION Spec
CONSTANTS
  Strategies = {"gap", "gng"}
  Reversers = {"gng"}
  TfOf <- MCTwoMinute
  MaxSize = 1
  StopTicks = 1
  TargetTicks = 1
  MaxPrice = 3
  MaxMinute = 8
  MaxGap = 2
  MaxOpen = 2
  Faults = {"kill", "strategyRaises", "restart"}
INVARIANTS
  BookBalanced
  DryFlatWhileKilled
  NoLookback
  StopsChecked
  EveryPhantomAccounted
  EverySignalAnswered
PROPERTY HoldersKeepSingleTrades
CHECK_DEADLOCK FALSE
