\* The page and its handler.
SPECIFICATION PageFairSpec
CONSTANTS
  None = None
  SessionGap = 3
  Burst = 1
  Capacity = 1
  LogTimes <- TwoSeconds
  Msgs = {}
  MaxCuts = 0
  MaxMsgs = 0
  MaxDrops = 1
  Failing = {}
  Scopes = {"all", "latest"}
  SessionStart = 1
  MaxUser = 1
  MaxOpens = 2
INVARIANTS PageShowsAll
CHECK_DEADLOCK FALSE
PROPERTIES PageLearnsReturn
