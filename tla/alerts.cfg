\* Triggers of two kinds, their windows, and one thing the user does in Settings.
SPECIFICATION AlertsSpec
CONSTANTS
  Nothing = Nothing
  Configs <- mcConfigs
  LogLines <- mcLines
  MaxFired = 3
  MaxUser = 1
  IdleHides = FALSE
INVARIANTS EveryAlertOnce
PROPERTIES OrderKept AlertsSettle
CHECK_DEADLOCK FALSE
