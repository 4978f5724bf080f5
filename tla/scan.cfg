\* Live session cutting against the retroactive scan.
SPECIFICATION FairSpec
CONSTANTS
  None = None
  SessionGap = 3
  SplitSecs = 1
  MaxWindows = 2
  Conns = {c1}
  Admins = {}
  Times = {1, 2, 4, 7}
  Batches <- GapBatches
  Cutoffs = {}
  Ops = {}
  Faults = {}
  MaxBatches = 6
  MaxClock = 0
  MaxMarkers = 1
INVARIANTS LiveMatchesScan
PROPERTIES AcceptedIsStored
