------------------------------- MODULE Trace -------------------------------
(***************************************************************************)
(* froklog-debug (bin/froklog-debug/main.rs), a second reader of the log:  *)
(* it "processes it exactly as the production parser does" and prints each *)
(* decision and the totals it comes to.  It keeps a state of its own, with *)
(* no streams, no resets and no pets but warders, compares names as they   *)
(* are written and measures silences with its own clock, which --delay-ms  *)
(* slows down.                                                             *)
(*                                                                         *)
(* It reads the lines module Combat reads, and shares its rules to tell a  *)
(* mob from a player.  Left out: the printing, the breakdowns by spell and *)
(* type, mob_name and pending_loot_ts, which nothing reads.                *)
(***************************************************************************)
EXTENDS Combat

(* Warders, corpses and generated pets are told by their names: "X`s warder",
   "X's corpse", and single words. *)
ASSUME NamesAssumption ==
  DOMAIN Warders \cup Corpses \subseteq Spaced /\ Generated \cap Spaced = {}

VARIABLES
  d,       \* the DebugState
  mended   \* history: names the parser took for mobs when they healed

traceVars == <<combatVars, d, mended>>

TraceFresh(pace) ==
  [wall |-> 1, pace |-> pace, mobs |-> <<>>, next |-> 0, active |-> NoMob,
   hit |-> NoMob, said |-> NoMob, players |-> {}, confirmed |-> {}, cands |-> {},
   dead |-> {}, pets |-> Zero, loot |-> NoMob, caster |-> Zero,
   started |-> FALSE, classes |-> {}, tab |-> Zero]

TraceInit == CombatInit /\ d = TraceFresh(twin.pace) /\ mended = {}

-----------------------------------------------------------------------------
TraceEvict(q, N) == [q EXCEPT !.mobs = Part(@, {i \in DOMAIN @ : @[i].name \notin N})]

TraceSighted(q, n) ==
  {i \in DOMAIN q.mobs : q.mobs[i].name = n /\ q.wall - q.mobs[i].wall < 15}

(* update_mob_list; the id it returns is left in hit. *)
TraceMobList(q, n) ==
  IF n \in Corpses THEN [q EXCEPT !.hit = NoMob]
  ELSE IF n \in q.players THEN TraceEvict([q EXCEPT !.hit = NoMob], {n})
  ELSE LET r == [q EXCEPT !.dead = @ \ {n}]
           found == TraceSighted(q, n)
       IN IF n \notin q.dead /\ found # {}
          THEN LET i == CHOOSE i \in found : \A j \in found : i <= j
               IN [r EXCEPT !.mobs[i].wall = q.wall,
                            !.active = q.mobs[i].id, !.hit = q.mobs[i].id]
          ELSE [r EXCEPT !.mobs = Append(@, [id |-> q.next, name |-> n, wall |-> q.wall]),
                         !.next = @ + 1, !.active = q.next, !.hit = q.next]

(* update_mob_name_and_confirmed, after the fight has started. *)
TraceFought(q) ==
  LET players == q.cands \cap q.players
  IN TraceEvict([q EXCEPT !.started = TRUE,
                          !.confirmed = (@ \cup q.cands) \ players], players)

TraceWarder(q, n) ==
  IF n \notin DOMAIN Warders THEN q
  ELSE [q EXCEPT !.pets = IF n \in DOMAIN @ THEN @ ELSE Put(@, n, Warders[n]),
                 !.players = @ \cup {n}]

(* A mob hits a player, and a player's side hits a mob; without a sighting
   the points are booked under number 0. *)
TraceTank(q, l) ==
  LET r == TraceMobList([q EXCEPT !.confirmed = @ \cup {l.src}], l.src)
  IN [r EXCEPT !.tab = Plus(@, {<<"tank", OrZero(r.hit), l.tgt>>}), !.said = OrZero(r.hit)]

TraceDamage(q, l) ==
  LET r == TraceMobList([q EXCEPT !.players = @ \cup {l.src}], l.tgt)
  IN [r EXCEPT !.tab = Plus(@, {<<"damage", l.src>>, <<"damage", OrZero(r.hit), l.src>>}),
               !.said = OrZero(r.hit)]

TraceStrike(q, l) == TraceDamage([q EXCEPT !.cands = @ \cup {l.tgt}], l)

-----------------------------------------------------------------------------
(* The branches of the loop, one per kind of line *)

TraceSpell(q, l) ==
  LET r == TraceWarder(q, l.src)
  IN TraceFought(IF SrcIsMob(r, l) THEN TraceTank(r, l) ELSE TraceStrike(r, l))

TraceMelee(q, l) ==
  LET r == TraceWarder(q, l.src)
  IN TraceFought(IF SrcIsMob(r, l) THEN TraceTank(r, l) ELSE TraceStrike(r, l))

(* Variant: the possessive is always a player's. *)
TracePossessiveTrusting(q, l) ==
  TraceFought(TraceStrike(q, IF l.sp \in DOMAIN q.caster
                             THEN [l EXCEPT !.src = q.caster[l.sp]] ELSE l))

TracePossessive(q, l) ==
  TraceFought(IF l.sp \in DOMAIN q.caster
              THEN TraceStrike(q, [l EXCEPT !.src = q.caster[l.sp]])
              ELSE IF l.src \in q.players THEN TraceStrike(q, l) ELSE q)

TraceBareSpell(q, l) ==
  IF l.sp \notin DOMAIN q.caster THEN q
  ELSE LET c == q.caster[l.sp]
       IN TraceFought(IF c \notin q.players /\ c \in Spaced \cup q.confirmed
                      THEN [q EXCEPT !.confirmed = @ \cup {c}]
                      ELSE TraceStrike(q, [l EXCEPT !.src = c]))

TraceDot(q, l) == TraceFought(TraceStrike(q, l))

(* A player's riposte makes no candidate of the mob. *)
TraceRiposte(q, l) ==
  LET r == TraceWarder(q, l.src)
  IN TraceFought(IF SrcIsMob(r, l) THEN TraceTank(r, l) ELSE TraceDamage(r, l))

TraceShield(q, l) ==
  LET r == TraceWarder(q, l.src)
  IN TraceFought(IF SrcIsMob(r, l) THEN TraceTank(r, l) ELSE TraceStrike(r, l))

TraceThorns(q, l) == TraceFought(TraceStrike(q, l))

TraceMiss(q, l) ==
  LET r == TraceWarder([q EXCEPT !.tab = Plus(@, {<<"avoid", l.tgt>>})], l.src)
      m == TraceMobList([r EXCEPT !.confirmed = @ \cup {l.src}], l.src)
  IN IF ~SrcIsMob(r, l) THEN r
     ELSE [m EXCEPT !.tab = Plus(@, {<<"avoid", OrZero(m.hit), l.tgt>>}),
                    !.said = OrZero(m.hit)]

(* Absorbs, burns, mezzes, wakings and berserk pets are printed only. *)
TracePrinted(q) == q

TraceResist(q, l) == [q EXCEPT !.tab = Plus(@, {<<"resist", l.src>>})]

TraceCast(q, l) == [q EXCEPT !.caster = Put(@, l.sp, l.src)]

TraceSlay(q, l) ==
  LET named == {i \in DOMAIN q.mobs : q.mobs[i].name = l.tgt}
      r == [q EXCEPT !.dead = @ \cup {l.tgt}]
  IN IF named = {} THEN r
     ELSE LET id == q.mobs[CHOOSE i \in named : \A j \in named : i <= j].id
          IN [r EXCEPT !.loot = id, !.said = id]

TraceMoney(q) == [q EXCEPT !.said = q.active]

TraceLoot(q, l) ==
  LET named == {i \in DOMAIN q.mobs : q.mobs[i].name = l.tgt}
  IN [q EXCEPT !.said = IF named = {} THEN OrZero(q.loot)
                        ELSE q.mobs[CHOOSE i \in named : \A j \in named : j <= i].id]

TraceTaken(q, l) ==
  LET r == TraceWarder(q, l.src)
  IN TraceFought(IF SrcIsMob(r, l) /\ l.src # Me THEN TraceTank(r, l) ELSE TraceStrike(r, l))

TraceExtra(q, l) == TraceFought(TraceStrike(q, l))

TraceWho(q, l) == [q EXCEPT !.classes = @ \cup {l.src}]

(* Every healer is credited, a mob too: it is kept from the totals printed
   by not being a known player. *)
TraceHeal(q, l) ==
  LET all == {<<"heal", l.src>>, <<"healed", l.tgt>>}
  IN [q EXCEPT !.tab =
        Plus(@, IF q.active = NoMob THEN all
                ELSE all \cup {<<"heal", q.active, l.src>>, <<"healed", q.active, l.tgt>>})]

-----------------------------------------------------------------------------
TraceHandle(q, l) ==
  CASE l.op = "spell" -> TraceSpell(q, l)
    [] l.op \in Swings -> TraceMelee(q, l)
    [] l.op = "possessive" -> TracePossessive(q, l)
    [] l.op = "bare" -> TraceBareSpell(q, l)
    [] l.op = "dot" -> TraceDot(q, l)
    [] l.op = "riposte" -> TraceRiposte(q, l)
    [] l.op = "shield" -> TraceShield(q, l)
    [] l.op = "thorns" -> TraceThorns(q, l)
    [] l.op = "miss" -> TraceMiss(q, l)
    [] l.op \in {"absorb", "burn", "park", "wake", "berserk"} -> TracePrinted(q)
    [] l.op = "resist" -> TraceResist(q, l)
    [] l.op = "cast" -> TraceCast(q, l)
    [] l.op = "slay" -> TraceSlay(q, l)
    [] l.op = "money" -> TraceMoney(q)
    [] l.op = "loot" -> TraceLoot(q, l)
    [] l.op = "taken" -> TraceTaken(q, l)
    [] l.op = "extra" -> TraceExtra(q, l)
    [] l.op = "who" -> TraceWho(q, l)
    [] l.op = "heal" -> TraceHeal(q, l)

(* One turn of the loop over the file; the pause comes at its end. *)
TraceRead(q, l) ==
  LET r == TraceHandle([q EXCEPT !.hit = NoMob, !.said = NoMob], l)
  IN [r EXCEPT !.wall = @ + q.pace]

TraceLine(l, jump) ==
  /\ Line(l, jump)
  /\ d' = TraceRead(d, l)
  /\ mended' = IF l.op = "heal" /\ s'.out = <<>> THEN mended \cup {l.src} ELSE mended

TraceNext ==
  \/ \E l \in Script[scene], jump \in Jumps[scene] : TraceLine(l, jump)
  \/ PressReset /\ UNCHANGED <<d, mended>>   \* nothing resets the tool

TraceSpec == TraceInit /\ [][TraceNext]_traceVars

-----------------------------------------------------------------------------
(* What the tool prints of a player: the totals of those it knows. *)
TraceSummary(q) ==
  {k \in DOMAIN q.tab : k[1] \in {"damage", "heal", "avoid", "resist"}
                        /\ Len(k) = 2 /\ k[2] \in q.players}

(* The two differ about single words that burn someone or are riposted, which
   only the parser takes for mobs. *)
ToldAlike(sc) ==
  \A l \in Script[sc] : /\ l.op = "burn" => l.src \in Spaced
                        /\ l.op = "riposte" => l.tgt \in Spaced

(* The totals the tool prints are the parser's, whatever the delay, as long
   as the log brings no pet but warders and nobody resets the overlay; and
   what a name heals, unless the parser once took it for a mob. *)
TraceAgrees ==
  scene # "reset" /\ ToldAlike(scene) /\ DOMAIN s.pets \subseteq DOMAIN Warders =>
    /\ d.players = s.players
    /\ \A k \in TraceSummary(s) \cup TraceSummary(d) : k[1] # "heal" \/ k[2] \notin mended =>
         k \in DOMAIN s.tab \cap DOMAIN d.tab /\ s.tab[k] = d.tab[k]
=============================================================================
