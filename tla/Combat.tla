------------------------------- MODULE Combat -------------------------------
(***************************************************************************)
(* The combat parser (parser.rs, state.rs): one line of the game's log at  *)
(* a time it decides who fights whom, which sighting of a mob a line       *)
(* belongs to, who owns a pet, and keeps totals for the overlays while it  *)
(* emits events for the stream.                                            *)
(*                                                                         *)
(* A line is a record [op, src, tgt, sp]; the regexes that tell lines      *)
(* apart are abstracted to op.  Every hit is for one point.  The state of  *)
(* the parser is a record, each operator below takes it to the next, and   *)
(* two copies read the same lines at different speeds: s live, twin as an  *)
(* import or a slow replay.                                                *)
(*                                                                         *)
(* Left out: modifiers, the header name, wording of the labels and         *)
(* breakdowns by spell, type and avoidance; marks and heartbeats are in module Marks. *)
(***************************************************************************)
EXTENDS Integers, Sequences, FiniteSets, SequenceParts

CONSTANTS
  Me,        \* the player whose log this is
  Names,     \* every name a line may carry
  Spaced,    \* names with a space in them, as only mobs and warders have
  Generated, \* names is_generated_pet_name knows
  Upper,     \* names as they open a sentence, with their other form
  Warders,   \* warder -> owner, for parse_warder_owner
  Corpses,   \* names ending in "'s corpse"
  Script,    \* scene -> the lines it may bring
  Jumps,     \* scene -> seconds that may pass between two lines
  MaxLines   \* bound on lines

Ops == {"hits", "slashes", "spell", "riposte", "shield", "taken", "dot", "thorns", "extra",
        "burn", "possessive", "bare", "park", "wake", "cast", "berserk", "slay", "loot",
        "money", "absorb", "miss", "heal", "who", "resist"}

(* A line is of some kind, and no line is older than the one before. *)
ASSUME ScriptAssumption ==
  \A sc \in DOMAIN Script :
    /\ Jumps[sc] \subseteq Nat
    /\ \A l \in Script[sc] : l.op \in Ops /\ DOMAIN l = {"op", "src", "tgt", "sp"}

VARIABLES
  scene,     \* the scene being played
  s, twin,   \* the parser reading live, and reading at another speed
  trail,     \* history: folded name -> [id, ts, parked, slain] of its last line
  told,      \* history: what readers of the stream add up
  lines      \* lines read

combatVars == <<scene, s, twin, trail, told, lines>>

NoMob == -1
NoCast == [who |-> Me, ts |-> -1000]
Zero == [k \in {} |-> 0]

Lower(n) == IF n \in DOMAIN Upper THEN Upper[n] ELSE n
OrZero(id) == IF id = NoMob THEN 0 ELSE id   \* unwrap_or(0)
Plus(f, K) == [k \in DOMAIN f \cup K |->
                 (IF k \in DOMAIN f THEN f[k] ELSE 0) + IF k \in K THEN 1 ELSE 0]
Put(f, k, v) == [x \in DOMAIN f \cup {k} |-> IF x = k THEN v ELSE f[x]]
Emit(p, e) == [p EXCEPT !.out = Append(@, e)]

(* A new pipeline's parser; pace is how far its wall clock moves per line,
   -1 for a parser that reads live. *)
Fresh(pace) ==
  [ts |-> 1, wall |-> 1, pace |-> pace, mobs |-> <<>>, next |-> 0,
   active |-> NoMob, hit |-> NoMob, players |-> {}, confirmed |-> {},
   cands |-> {}, dead |-> {}, pets |-> Zero, loot |-> NoMob, lootTs |-> 0,
   caster |-> Zero, buff |-> NoCast, summon |-> NoCast, started |-> FALSE,
   ended |-> FALSE, classes |-> {}, tab |-> Zero, out |-> <<>>]

CombatInit ==
  /\ scene \in DOMAIN Script
  /\ s = Fresh(-1) /\ \E pace \in {0, 20} : twin = Fresh(pace)
  /\ trail = Zero
  /\ told = Zero
  /\ lines = 0

-----------------------------------------------------------------------------
(* update_mob_list *)

(* Variant: gaps by the reader's own clock. *)
WithinGapByWall(p, m) == m.parked \/ p.wall - m.wall < 15

WithinGap(p, m) ==
  \/ m.parked
  \/ IF p.ts # 0 /\ m.last # 0 THEN p.ts - m.last < 15 ELSE p.wall - m.wall < 15

(* Variant: names compared as they are written. *)
SameNameExactly(a, b) == a = b

SameName(a, b) == Lower(a) = Lower(b)

Sighted(p, n) ==
  {i \in DOMAIN p.mobs : SameName(p.mobs[i].name, n) /\ WithinGap(p, p.mobs[i])}

Evict(p, N) == [p EXCEPT !.mobs = Part(@, {i \in DOMAIN @ : @[i].name \notin N})]

SightAgain(p, n, i) ==
  LET m == [p.mobs[i] EXCEPT !.wall = p.wall, !.parked = FALSE,
                             !.last = IF p.ts # 0 THEN p.ts ELSE @,
                             !.name = IF n \notin DOMAIN Upper THEN n ELSE @]
  IN [p EXCEPT !.mobs = [@ EXCEPT ![i] = m], !.active = m.id, !.hit = m.id]

SightAnew(p, n) ==
  [p EXCEPT !.mobs = Append(@, [id |-> p.next, name |-> n, last |-> p.ts,
                                wall |-> p.wall, parked |-> FALSE]),
            !.next = @ + 1, !.active = p.next, !.hit = p.next]

(* The id it returns is left in hit, NoMob standing for None. *)
UpdateMobList(p, n) ==
  IF n \in Corpses THEN [p EXCEPT !.hit = NoMob]
  ELSE IF n \in p.players THEN Evict([p EXCEPT !.hit = NoMob], {n})
  ELSE LET q == [p EXCEPT !.dead = @ \ {Lower(n)}]
           found == Sighted(p, n)
       IN IF Lower(n) \notin p.dead /\ found # {}
          THEN SightAgain(q, n, CHOOSE i \in found : \A j \in found : i <= j)
          ELSE SightAnew(q, n)

-----------------------------------------------------------------------------
(* Pets *)

Own(p, pet, owner) ==
  Emit([p EXCEPT !.pets = Put(@, pet, owner), !.players = @ \cup {pet}],
       [k |-> "pet", src |-> pet, tgt |-> owner, mob |-> 0])

(* maybe_associate_summoned_pet *)
AssociateSummoned(p, n) ==
  IF /\ p.ts - p.summon.ts <= 60 /\ p.summon.who # n
     /\ n \notin DOMAIN p.pets /\ n \in Generated
  THEN [Own(p, n, p.summon.who) EXCEPT !.summon = NoCast]
  ELSE p

(* A warder in the branch of "X has taken N damage from": no event. *)
RegisterQuietly(p, n) ==
  IF n \notin DOMAIN Warders THEN p
  ELSE [p EXCEPT !.pets = IF n \in DOMAIN @ THEN @ ELSE Put(@, n, Warders[n]),
                 !.players = @ \cup {n}]

RegisterWarder(p, n) ==
  IF n \notin DOMAIN Warders THEN p
  ELSE IF n \in DOMAIN p.pets THEN [p EXCEPT !.players = @ \cup {n}]
  ELSE Own(p, n, Warders[n])

(* "<Pet> goes berserk." within ten seconds of a Burnout cast. *)
Berserk(p, l) ==
  IF /\ p.ts - p.buff.ts <= 10 /\ p.buff.who # l.src /\ l.src \in Generated
  THEN [Own(p, l.src, p.buff.who) EXCEPT !.buff = NoCast]
  ELSE p

(* "<Player> begins casting": single names only for the pet spells. *)
Cast(p, l) ==
  LET c == [who |-> l.src, ts |-> p.ts]
      single == l.src \notin Spaced
  IN Emit([p EXCEPT !.caster = Put(@, l.sp, l.src),
                    !.buff = IF l.sp = "burnout" /\ single THEN c ELSE @,
                    !.summon = IF l.sp = "summoning" /\ single THEN c ELSE @],
          [k |-> "cast", src |-> l.src, tgt |-> l.src, mob |-> 0])

-----------------------------------------------------------------------------
(* Damage.  The forms of a hit differ in how the attacker is told. *)

Swings == {"hits", "slashes"}   \* RE_MELEE, with the mobs' verb and another

SrcIsMob(p, l) ==
  /\ l.src \notin p.players
  /\ \/ l.src \in Spaced \cup p.confirmed
     \/ l.tgt \in p.players \cup {Me}
     \/ l.op \in Swings \cup {"spell"} /\ l.src \in p.cands
     \/ l.op = "hits"

Hit(p, l, tank) ==
  Emit(p, [k |-> IF tank THEN "tank" ELSE "damage",
           src |-> l.src, tgt |-> l.tgt, mob |-> OrZero(p.hit)])

(* A mob hits a player: tanking. *)
Tank(p, l) ==
  LET q == UpdateMobList([p EXCEPT !.confirmed = @ \cup {l.src}], l.src)
  IN Hit([q EXCEPT !.tab = IF q.hit = NoMob THEN @
                           ELSE Plus(@, {<<"tank", q.hit, l.tgt>>})], l, TRUE)

(* A player's side hits a mob. *)
Strike(p, l) ==
  LET q == UpdateMobList([p EXCEPT !.players = @ \cup {l.src},
                                   !.cands = @ \cup ({l.tgt} \ Corpses)], l.tgt)
      all == {<<"damage", l.src>>}
  IN Hit([q EXCEPT !.tab =
            Plus(@, IF q.hit = NoMob THEN all
                    ELSE all \cup {<<"damage", q.hit, l.src>>})], l, FALSE)

(* After a matched line: every name attacked is a mob, or a player and then
   neither a mob nor in the list. *)
UpdateMobName(p) ==
  Evict([p EXCEPT !.confirmed = (@ \cup p.cands) \ (p.cands \cap p.players)],
        p.cands \cap p.players)

Fought(p) == UpdateMobName([p EXCEPT !.started = TRUE])

Either(p, l) == IF SrcIsMob(p, l) THEN Tank(p, l) ELSE Strike(p, l)

MeleeLine(p, l) == Fought(Either(RegisterWarder(AssociateSummoned(p, l.src), l.src), l))
SpellLine(p, l) == Fought(Either(RegisterWarder(p, l.src), l))
RiposteLine(p, l) == Fought(Either(RegisterWarder(p, l.src), l))
DamageShieldLine(p, l) == Fought(Either(RegisterWarder(p, l.src), l))

(* "X has taken N damage from ... by Y"; without Y the line says nothing. *)
TakenLine(p, l) ==
  LET q == RegisterQuietly(p, l.src)
  IN Fought(IF l.src = Me THEN Strike(q, l) ELSE Either(q, l))

(* Dots, thorns and bane damage always come from a player's side. *)
DotLine(p, l) == Fought(Strike(p, l))
ThornsLine(p, l) == Fought(Strike(p, l))
ExtraLine(p, l) == Fought(Strike(p, l))

(* "YOU are burned by mob's flames". *)
BurnLine(p, l) == Fought(Tank(p, l))

(* "Denon's Disruptive Discord hit mob": believed when that is a spell
   someone cast or Denon is a player. *)
PossessiveLine(p, l) ==
  Fought(IF l.sp \in DOMAIN p.caster THEN Strike(p, [l EXCEPT !.src = p.caster[l.sp]])
         ELSE IF l.src \in p.players THEN Strike(p, l) ELSE p)

(* "Spell hit mob": by whoever cast it last; a mob's is not counted. *)
BareSpellLine(p, l) ==
  IF l.sp \notin DOMAIN p.caster THEN p
  ELSE LET c == p.caster[l.sp]
       IN Fought(IF c \notin p.players /\ c \in Spaced \cup p.confirmed
                 THEN [p EXCEPT !.confirmed = @ \cup {c}]
                 ELSE Strike(p, [l EXCEPT !.src = c]))

-----------------------------------------------------------------------------
(* Crowd control, deaths, loot, misses and heals *)

ParkLine(p, l) ==
  LET q == UpdateMobList(p, l.tgt)
      park == [i \in DOMAIN q.mobs |->
                 [q.mobs[i] EXCEPT !.parked = @ \/ q.mobs[i].id = q.hit]]
  IN UpdateMobName(IF q.hit = NoMob THEN q
                   ELSE Emit([q EXCEPT !.mobs = park],
                             [k |-> "cc", src |-> l.tgt, tgt |-> l.tgt, mob |-> q.hit]))

WakeLine(p, l) ==
  LET q == UpdateMobList(p, l.tgt)
  IN UpdateMobName(IF q.hit = NoMob THEN q
                   ELSE Emit(q, [k |-> "cc", src |-> l.tgt, tgt |-> l.tgt, mob |-> q.hit]))

FirstNamed(p, n) ==
  LET all == {i \in DOMAIN p.mobs : SameName(p.mobs[i].name, n)}
  IN IF all = {} THEN 0 ELSE p.mobs[CHOOSE i \in all : \A j \in all : i <= j].id

(* handle_slay *)
SlayLine(p, l) ==
  LET dead == p.dead \cup {Lower(l.tgt)}
      known == {i \in DOMAIN p.mobs : p.mobs[i].name \in p.confirmed}
      over == p.mobs # <<>> /\ \A i \in known : Lower(p.mobs[i].name) \in dead
  IN Emit([p EXCEPT !.dead = dead, !.ended = @ \/ over,
                    !.loot = FirstNamed(p, l.tgt), !.lootTs = p.ts],
          [k |-> "slay", src |-> l.src, tgt |-> l.tgt, mob |-> FirstNamed(p, l.tgt)])

(* resolve_loot_mob: the newest of that name, else the last slain for 120 s. *)
LootLine(p, l) ==
  LET q == [p EXCEPT !.loot = IF p.ts # 0 /\ p.ts - p.lootTs > 120 THEN NoMob ELSE @]
      named == {i \in DOMAIN p.mobs : SameName(p.mobs[i].name, l.tgt)}
      mob == IF named = {} THEN OrZero(q.loot)
             ELSE p.mobs[CHOOSE i \in named : \A j \in named : j <= i].id
  IN Emit(q, [k |-> "loot", src |-> Me, tgt |-> l.tgt, mob |-> mob])

(* Money names no corpse, and an absorbed blow no mob: the one now fought. *)
MoneyLine(p, l) == Emit(p, [k |-> "money", src |-> Me, tgt |-> Me, mob |-> OrZero(p.active)])
AbsorbLine(p, l) == Emit(p, [k |-> "absorb", src |-> l.src, tgt |-> l.tgt, mob |-> OrZero(p.active)])

MissLine(p, l) ==
  LET a == AssociateSummoned(p, l.src)
      q == RegisterWarder([a EXCEPT !.tab = Plus(@, {<<"avoid", l.tgt>>})], l.src)
      r == UpdateMobList([q EXCEPT !.confirmed = @ \cup {l.src}], l.src)
  IN IF SrcIsMob(q, l)
     THEN Emit(r, [k |-> "miss", src |-> l.src, tgt |-> l.tgt, mob |-> OrZero(r.hit)])
     ELSE Emit(q, [k |-> "miss", src |-> l.src, tgt |-> l.tgt, mob |-> OrZero(q.active)])

(* A mob healing itself only keeps its sighting alive. *)
HealLine(p, l) ==
  IF /\ l.src \notin p.players
     /\ l.src \in p.confirmed \/ (l.src \in Spaced /\ l.tgt = l.src)
  THEN UpdateMobList(p, l.src)
  ELSE Emit([p EXCEPT !.tab = Plus(@, IF p.active = NoMob THEN {<<"heal", l.src>>}
                                      ELSE {<<"heal", l.src>>, <<"heal", p.active, l.src>>})],
            [k |-> "heal", src |-> l.src, tgt |-> l.tgt, mob |-> OrZero(p.active)])

WhoLine(p, l) ==
  Emit([p EXCEPT !.classes = @ \cup {l.src}],
       [k |-> "who", src |-> l.src, tgt |-> l.src, mob |-> 0])

ResistLine(p, l) ==
  Emit([p EXCEPT !.tab = Plus(@, {<<"resist", l.src>>})],
       [k |-> "resist", src |-> l.src, tgt |-> l.tgt, mob |-> 0])

(* Variant: a reset that keeps the tables although ids start again. *)
ResetKeepsTables(p) ==
  [Fresh(p.pace) EXCEPT !.ts = p.ts, !.wall = p.wall, !.classes = p.classes,
                        !.pets = p.pets, !.buff = p.buff, !.summon = p.summon,
                        !.tab = p.tab]

(* The reset flag, seen before the next line: a new state that keeps the
   classes and the pets; pending casts live outside it and survive. *)
Reset(p) ==
  [Fresh(p.pace) EXCEPT !.ts = p.ts, !.wall = p.wall, !.classes = p.classes,
                        !.pets = p.pets, !.buff = p.buff, !.summon = p.summon]

-----------------------------------------------------------------------------
Handle(p, l) ==
  CASE l.op \in Swings -> MeleeLine(p, l)
    [] l.op = "spell" -> SpellLine(p, l)
    [] l.op = "riposte" -> RiposteLine(p, l)
    [] l.op = "shield" -> DamageShieldLine(p, l)
    [] l.op = "taken" -> TakenLine(p, l)
    [] l.op = "dot" -> DotLine(p, l)
    [] l.op = "thorns" -> ThornsLine(p, l)
    [] l.op = "extra" -> ExtraLine(p, l)
    [] l.op = "burn" -> BurnLine(p, l)
    [] l.op = "possessive" -> PossessiveLine(p, l)
    [] l.op = "bare" -> BareSpellLine(p, l)
    [] l.op = "park" -> ParkLine(p, l)
    [] l.op = "wake" -> WakeLine(p, l)
    [] l.op = "cast" -> Cast(p, l)
    [] l.op = "berserk" -> Berserk(p, l)
    [] l.op = "slay" -> SlayLine(p, l)
    [] l.op = "loot" -> LootLine(p, l)
    [] l.op = "money" -> MoneyLine(p, l)
    [] l.op = "absorb" -> AbsorbLine(p, l)
    [] l.op = "miss" -> MissLine(p, l)
    [] l.op = "heal" -> HealLine(p, l)
    [] l.op = "who" -> WhoLine(p, l)
    [] l.op = "resist" -> ResistLine(p, l)

(* A line is read: its time stamp, and the wall clock of whoever reads it. *)
Read(p, l, jump) ==
  Handle([p EXCEPT !.ts = @ + jump, !.out = <<>>, !.hit = NoMob,
                   !.wall = @ + IF p.pace = -1 THEN jump ELSE p.pace], l)

(* The name whose sighting a line touches, by the parser's own account. *)
About(p, l) ==
  IF l.op \in {"park", "wake"} THEN l.tgt
  ELSE IF \E i \in DOMAIN p.out : p.out[i].k = "damage" THEN l.tgt ELSE l.src

Trail(p, l) ==
  LET n == Lower(About(p, l))
  IN IF l.op = "slay"
     THEN [x \in DOMAIN trail |-> [trail[x] EXCEPT !.slain = @ \/ x = Lower(l.tgt)]]
     ELSE IF p.hit = NoMob THEN trail
     ELSE Put(trail, n, [id |-> p.hit, ts |-> p.ts, parked |-> l.op = "park",
                         slain |-> FALSE, killed |-> n \in DOMAIN trail /\
                                    (trail[n].slain \/ trail[n].killed)])

(* What a reader of the stream makes of the events of one line. *)
Counted(e) ==
  CASE e.k \in {"damage", "heal"} -> {<<e.k, e.src>>, <<e.k, e.mob, e.src>>}
    [] e.k = "tank" -> {<<"tank", e.mob, e.tgt>>}
    [] e.k = "miss" -> {<<"avoid", e.tgt>>}
    [] e.k = "resist" -> {<<"resist", e.src>>}
    [] OTHER -> {}

Tell(out) == Plus(told, UNION {Counted(out[i]) : i \in DOMAIN out})

Line(l, jump) ==
  /\ lines < MaxLines
  /\ s' = Read(s, l, jump)
  /\ twin' = Read(twin, l, jump)
  /\ trail' = Trail(s', l)
  /\ told' = Tell(s'.out)
  /\ lines' = lines + 1
  /\ UNCHANGED scene

(* The user resets the overlay. *)
PressReset ==
  /\ scene = "reset" /\ lines < MaxLines
  /\ s' = Reset(s) /\ twin' = Reset(twin)
  /\ trail' = Zero /\ told' = Zero
  /\ lines' = lines + 1
  /\ UNCHANGED scene

ReadLine == \E l \in Script[scene], jump \in Jumps[scene] : Line(l, jump)

CombatNext == ReadLine \/ PressReset

CombatSpec == CombatInit /\ [][CombatNext]_combatVars

-----------------------------------------------------------------------------
(* The same log makes the same events whatever the speed it is read at:
   "deterministic across live play, imports, and replays". *)
ReplaysAlike == s.out = twin.out /\ s.tab = twin.tab

(* The totals the overlays show are those a reader of the stream adds up:
   for every player, and for every sighting but number 0, which events also
   use for "no mob".  Healing for the sighting is by the one being fought. *)
LedgersAgree ==
  LET clear(k) == Len(k) = 2 \/ k[2] # 0
  IN \A k \in DOMAIN s.tab \cup DOMAIN told : clear(k) =>
       /\ k \in DOMAIN s.tab \cap DOMAIN told
       /\ s.tab[k] = told[k]

(* A mob's lines less than 15 s apart, or any time after it was mezzed, go
   to one sighting, however its name is capitalised, until it dies or is
   taken for a player; its first line after its death opens a sighting never
   used before. *)
WholeEncounters ==
  [][ReadLine => \A n \in DOMAIN trail :
       LET t == trail[n]
           u == trail'[n]
           whole == ~t.slain /\ ~t.killed /\ \A x \in s.players : Lower(x) # n
       IN (u # t /\ ~u.slain) =>
            /\ whole /\ (u.ts - t.ts < 15 \/ t.parked) => u.id = t.id
            /\ t.slain => u.id = s.next]_combatVars

=============================================================================
