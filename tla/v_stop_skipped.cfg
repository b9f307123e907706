SPECIFICATION Spec
CONSTANTS
  Strategies = {"gap"}
  Reversers = {}
  TfOf <- MCTwoMinute
  MaxSize = 1
  StopTicks = 1
  TargetTicks = 2
  MaxPrice = 3
  MaxMinute = 6
  MaxGap = 1
  MaxOpen = 2
  Faults = {}
INVARIANT StopsHonoured
CHECK_DEADLOCK FALSE
