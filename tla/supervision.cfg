SPECIFICATION Spec
CONSTANTS
  Services <- MCServices
  Active <- MCActive
  FirstBar = 3
  BarMinutes = 2
  StartLines = 2
  MaxFaults = 2
  MaxAlerts = 2
INVARIANTS
  OneWrongKillPerDrop
PROPERTIES
  RunnerRecovers
  OfflineIsAlerted
  AlertsAreCleared
