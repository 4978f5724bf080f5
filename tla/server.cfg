SPECIFICATION Spec
CONSTANTS
  Streams = {s1, s2}
  Players = {p}
  Households = {h}
  Tasks = {t1, t2}
  MaxStamp = 3
  OnePatch = TRUE
  NoName = NoName
  NoHome = NoHome
  None = None
  Clients = {c1, c2}
  Proxy = proxy
  TrustedProxy = proxy
  MaxRequests = 2
  Window = 2
  Ban = 7
  MaxTime = 9
  Absent = Absent
  Npcs = {n1}
  Pages = {q1, q2}
  MaxMarkers = 3
SYMMETRY Sym
CHECK_DEADLOCK FALSE
INVARIANTS PurgeIsFinal DiskIsMemory
PROPERTIES NamesHold LimitHolds StaleDeleteIsHarmless
