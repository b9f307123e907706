SPECIFICATION Spec
CONSTANTS
  BbPeriod = 1
  TimeStopBars = 2
  FilterThresh = 0
  Window = 3
  MinSamples = 2
  Setups <- MCSetups
  Moments <- MCMoments
  TicksPerBar = 2
INVARIANTS SessionFlow TradesEnd
PROPERTY StopsOnlyTighten
CHECK_DEADLOCK FALSE
