\* Two logs, seven engines, three acts of the user or the game; four lines, two resets
\* of the file, one broken connection.
SPECIFICATION Spec
CONSTANTS
  None = None
  Logs = {a, b}
  MaxEngines = 7
  MaxActs = 3
  MonitorPause = 5
  TailerPoll = 2
  MaxLines = 4
  PerSecond = 2
  MaxResets = 2
  MaxBreaks = 1
INVARIANTS OneTailer OnceInOrder CloseProvesDelivery
PROPERTIES RunningEngineFollows EveryLineArrives
CHECK_DEADLOCK FALSE
