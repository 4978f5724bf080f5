\* Triggers of two kinds, their windows, and one thing the user does in Settings.
SPECIFICATION AlertsSpec
CONSTANTS
  Nothing = Nothing
  Configs <- mcConfigs
  LogLines <- mcLines
  MaxFired = 3
  MaxUser = 1
  IdleHides = TRUE
INVARIANT DrawnBeforeKept
CHECK_DEADLOCK FALSE
