\* One client pushing history while two maintenance tasks prune and reset.
SPECIFICATION FairSpec
CONSTANTS
  None = None
  SessionGap = 3
  SplitSecs = 1
  MaxWindows = 2
  Conns = {c1}
  Admins = {a1, a2}
  Times = {1, 4, 7}
  Batches <- DumpBatches
  Cutoffs = {2, 5, 9}
  Ops = {"prune", "reset"}
  Faults = {}
  MaxBatches = 4
  MaxClock = 0
  MaxMarkers = 1
INVARIANTS SessionsChronological
PROPERTIES KeepsHistory IdsNeverReused
