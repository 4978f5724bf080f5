\* One viewer, any page.
SPECIFICATION FairSpec
CONSTANTS
  None = None
  SessionGap = 3
  Burst = 2
  Capacity = 1
  LogTimes <- LogAhead
  Msgs <- SomeMsgs
  MaxDrops = 1
  MaxCuts = 1
  MaxMsgs = 2
  Failing = {2}
INVARIANTS NothingMissed RevokedSeesLittle
PROPERTIES WheelIsRespected StoredIsShown
