\* Six scenes of five lines; four lines that move the player about; six pairs of players.
SPECIFICATION Spec
CONSTANTS
  None = None
  Me <- me
  Names <- mcNames
  Spaced <- mcSpaced
  Generated <- mcGenerated
  Upper <- mcUpper
  Warders <- mcWarders
  Corpses <- mcCorpses
  Script <- mcScript
  Jumps <- mcJumps
  MaxLines = 5
  Tiered = {t, u}
  Plain = {p, r}
  MaxInstances = 2
  MaxMoves = 4
  Waits = {1, 600}
  Groups <- mcParties
  MaxHp = 2
  MobHp = {2}
  Blow = 2
  MeleeDmg = 1
  EncSecs = 2
  DotSecs = 1
  HotSecs = 1
  VendorEvery = 1
  LootSecs = 1
  BreakSecs = 2
  MaxPull = 2
  MaxEncounters = 2
  MaxPulled = 3
INVARIANTS AimHolds ReplaysAlike LedgersAgree TraceAgrees
PROPERTIES WholeEncounters MarksAreArrivals
CHECK_DEADLOCK FALSE
