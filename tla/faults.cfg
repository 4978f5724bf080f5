\* Everything at once: overlapping clients, maintenance, restarts and every I/O failure.
SPECIFICATION Spec
CONSTANTS
  None = None
  SessionGap = 3
  SplitSecs = 1
  MaxWindows = 2
  Conns = {c1, c2}
  Admins = {a1}
  Times = {1, 4}
  Batches <- FaultBatches
  Cutoffs = {2, 9}
  Ops = {"prune", "reset", "restart", "marker"}
  Faults = {"append", "vacuum", "session"}
  MaxBatches = 2
  MaxClock = 0
  MaxMarkers = 1
INVARIANTS Inductive
