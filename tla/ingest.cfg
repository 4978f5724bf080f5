\* One client; restarts at any point; journal writes that fail.
SPECIFICATION Spec
CONSTANTS
  None = None
  SessionGap = 3
  SplitSecs = 1
  MaxWindows = 2
  Conns = {c1}
  Admins = {}
  Times = {1, 4, 7}
  Batches <- RaidPlayBatches
  Cutoffs = {}
  Ops = {"restart"}
  Faults = {"append"}
  MaxBatches = 4
  MaxClock = 1
  MaxMarkers = 1
INVARIANTS GapsAreCut
PROPERTIES EveryCutIsMade
