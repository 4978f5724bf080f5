\* Six parts, each with its own bounds.
SPECIFICATION Spec
CONSTANTS
  ProbeMin = 2
  Reach = 5
  MaxTicks = 4
  Unset = Unset
  Bad = Bad
  MaxActs = 5
  None = None
  Kinds = {"cond"}
  MaxTriggers = 3
  MaxItems = 2
  MaxDone = 2
  GroupNames <- mcGroups
  VarNames <- mcVars
  Default = "D"
  Broken <- mcBroken
  MaxEdits = 4
  MaxPending = 1
  Packages = {"default", "New Package", "New Package (2)"}
  Labels = {1, 2}
  MaxChanges = 5
  Me = me
  Ally = ally
  NoMob = NoMob
  MaxMobs = 2
  MaxHits = 3
  MaxResets = 1
  MaxClicks = 2
  MaxRows = 2
  IdleTicks = 1
INVARIANTS FollowsPointer LastWordWins ShownIsLive PanelsStayAimed
  ValuesAreLive LabelsPlayTheirs MeterTellsOneFight
CHECK_DEADLOCK FALSE
