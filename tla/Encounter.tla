------------------------------ MODULE Encounter ------------------------------
(***************************************************************************)
(* The fights that froklog-loggen invents (bin/froklog-loggen/main.rs,     *)
(* run_encounter and what it calls).  A fight goes by seconds; in each the *)
(* mobs strike, the healers speak of their mana, every player casts or     *)
(* swings, the casts that are due land, damage and healing over time tick, *)
(* and the dead mobs are looted and taken out of the list.  Casts and DoTs *)
(* remember their mob by its index in that list.                           *)
(*                                                                         *)
(* Chance is a free choice.  Left out: the lines written and the chat, and *)
(* what only they use (thorns, damage shields, mob spells, misses in a     *)
(* row, names, prices and the player's own inventory).  The ghost "aim" of *)
(* casts and DoTs is the id of the mob they were meant for.                *)
(***************************************************************************)
EXTENDS Integers, Sequences, FiniteSets, SequencesExt, SequenceParts

CONSTANTS
  Groups,        \* the groups that may be built: sequences of [class, book, mana]
  MaxHp,         \* hit points of a player
  MobHp,         \* hit points a mob may have
  Blow,          \* damage of a mob's blow, halved when it is slowed
  MeleeDmg,        \* melee damage of a player in one second, at most
  EncSecs,       \* seconds a fight may last (300 in the code)
  DotSecs,       \* least seconds between two ticks of a DoT (6 in the code)
  HotSecs,       \* least seconds between two ticks of a HoT (4 in the code)
  VendorEvery,   \* fights between two visits to the vendor (5 in the code)
  LootSecs,      \* seconds that looting may take
  BreakSecs,     \* seconds of a recovery break
  MaxPull,       \* mobs of one pull (3 in the code)
  MaxEncounters, \* bound: fights
  MaxPulled      \* bound: mobs in all

ASSUME EncConst ==
  /\ {MaxHp, Blow, MeleeDmg, EncSecs, DotSecs, HotSecs, VendorEvery, MaxPull} \subseteq Nat \ {0}
  /\ MobHp \subseteq Nat \ {0}
  /\ {LootSecs, BreakSecs, MaxEncounters, MaxPulled} \subseteq Nat

VARIABLES
  players,  \* the group: class, book, hp, mana, timers and what each believes it has running
  mobs,     \* the live list, in the order pulled
  casts,    \* spells begun and not landed
  dots,     \* damage over time on mobs
  hots,     \* healing over time on players
  sec,      \* seconds since the log began
  encSec,   \* seconds of this fight
  bag,      \* is there loot to sell?
  done,     \* fights fought
  stage,    \* where the loop stands
  who,      \* the mob or player whose turn it is
  pulled    \* ghost: mobs spawned so far, which gives each its id
encVars == <<players, mobs, casts, dots, hots, sec, encSec, bag, done, stage, who, pulled>>

Heals == {"DirectHeal", "HoT", "PromisedHeal"}
Tanks == {"Warrior", "Paladin", "Shadowknight"}
Healers == {"Cleric", "Druid", "Shaman"}

Member(g) ==
  [class |-> g.class, book |-> g.book, hp |-> MaxHp, manaMax |-> g.mana, mana |-> g.mana,
   nextAttack |-> 0, nextSpell |-> 0, debuffed |-> FALSE, dotsActive |-> 0, alerted |-> {}]

EncInit ==
  /\ \E g \in Groups : players = [i \in DOMAIN g |-> Member(g[i])]
  /\ mobs = <<>> /\ casts = <<>> /\ dots = <<>> /\ hots = <<>>
  /\ sec = 0 /\ encSec = 0 /\ bag = FALSE /\ done = 0 /\ stage = "rest" /\ who = 1 /\ pulled = 0

Players == DOMAIN players
Role(i) == players[i].class
LeastOf(a, b) == IF a < b THEN a ELSE b
MostOf(a, b) == IF a > b THEN a ELSE b
AtLeast0(n) == IF n < 0 THEN 0 ELSE n

\* The first player of a tank's class, or the first player.
TankIdx ==
  LET tanks == {i \in Players : Role(i) \in Tanks}
  IN IF tanks = {} THEN 1 ELSE FirstOf(tanks)

\* The first of those with the fewest hit points, the dead included.
LowestHp ==
  CHOOSE i \in Players : \A j \in Players :
    players[i].hp < players[j].hp \/ (players[i].hp = players[j].hp /\ i <= j)
Below(percent) == players[LowestHp].hp * 100 < percent * MaxHp

-----------------------------------------------------------------------------
\* The start of a fight: mobs are added behind those an earlier one left.
SpawnMob(id, hp, target) ==
  [id |-> id, hp |-> hp, next |-> sec + 1, target |-> target,
   slowed |-> FALSE, snared |-> FALSE, mezzed |-> FALSE]

Pull ==
  /\ stage = "rest" /\ done < MaxEncounters
  /\ \E n \in 1..MaxPull : \E hp \in [1..n -> MobHp], add \in [1..n -> Players] :
       /\ mobs' = mobs \o [k \in 1..n |->
            SpawnMob(pulled + k, hp[k], IF mobs = <<>> /\ k = 1 THEN TankIdx ELSE add[k])]
       /\ pulled' = pulled + n /\ pulled' <= MaxPulled
  /\ players' = [i \in Players |-> [players[i] EXCEPT !.debuffed = FALSE, !.dotsActive = 0, !.alerted = {}]]
  /\ encSec' = 0 /\ stage' = "second"
  /\ UNCHANGED <<casts, dots, hots, sec, bag, done, who>>

Second ==
  /\ stage = "second" /\ mobs # <<>> /\ encSec < EncSecs
  /\ sec' = sec + 1 /\ encSec' = encSec + 1 /\ stage' = "mobs" /\ who' = 1
  /\ UNCHANGED <<players, mobs, casts, dots, hots, bag, done, pulled>>

EncounterEnds ==
  /\ stage = "second" /\ (mobs = <<>> \/ encSec >= EncSecs)
  /\ done' = done + 1 /\ stage' = "break"
  /\ UNCHANGED <<players, mobs, casts, dots, hots, sec, encSec, bag, who, pulled>>

\* A mob that is alive and awake strikes the player it took at the pull, dead or not.
MobActs ==
  /\ stage = "mobs" /\ who \in DOMAIN mobs
  /\ LET m == mobs[who]
         strikes == m.hp > 0 /\ ~m.mezzed /\ m.next <= sec
         blow == IF m.slowed THEN Blow \div 2 ELSE Blow
     IN \E hits \in BOOLEAN :
          /\ hits => strikes
          /\ players' = IF hits THEN [players EXCEPT ![m.target].hp = @ - blow] ELSE players
          /\ mobs' = IF strikes THEN [mobs EXCEPT ![who].next = sec + 2] ELSE mobs
  /\ who' = who + 1
  /\ UNCHANGED <<casts, dots, hots, sec, encSec, bag, done, stage, pulled>>

\* A healer tells the group once a fight when its mana falls to 50, 25 and 10 per cent;
\* telling a lower one settles the higher ones.
ManaCall(p) ==
  LET pct == (p.mana * 100) \div p.manaMax
      call == IF pct <= 10 /\ 10 \notin p.alerted THEN {10, 25, 50}
              ELSE IF pct <= 25 /\ 25 \notin p.alerted THEN {25, 50}
              ELSE IF pct <= 50 THEN {50} ELSE {}
  IN IF p.hp > 0 /\ p.manaMax > 0 /\ p.class \in Healers
     THEN [p EXCEPT !.alerted = @ \cup call] ELSE p

ManaCalls ==
  /\ stage = "mobs" /\ who > Len(mobs)
  /\ players' = [i \in Players |-> ManaCall(players[i])]
  /\ stage' = "players" /\ who' = 1
  /\ UNCHANGED <<mobs, casts, dots, hots, sec, encSec, bag, done, pulled>>

-----------------------------------------------------------------------------
(* What a player casts.  A choice is the set of at most one cast that a     *)
(* branch of the class makes; the first branch that makes one is taken.    *)

Alive == {k \in DOMAIN mobs : mobs[k].hp > 0}
TargetIdx == FirstOf(Alive)
Target == mobs[TargetIdx]
Extra ==
  LET awake == {k \in Alive \ {TargetIdx} : ~mobs[k].mezzed}
  IN IF awake = {} THEN 0 ELSE FirstOf(awake)

FirstChoice(branches) ==
  LET made == {n \in DOMAIN branches : branches[n] # {}}
  IN IF made = {} THEN {} ELSE branches[FirstOf(made)]

\* The best spell of the first kind the player has any of, when it can be paid.
BestOf(i, kinds) ==
  LET known == {n \in DOMAIN kinds : \E s \in players[i].book : s.kind = kinds[n]}
  IN IF known = {} THEN {} ELSE {s \in players[i].book : s.kind = kinds[FirstOf(known)]}
Affordable(i, kinds) == {s \in BestOf(i, kinds) : players[i].mana >= s.cost}
AtMob(i, kinds, k) ==
  {[caster |-> i, spell |-> s, mob |-> k, player |-> 0, aim |-> mobs[k].id,
    cost |-> s.cost, wait |-> s.secs + 2] : s \in Affordable(i, kinds)}
AtTarget(i, kinds) == AtMob(i, kinds, TargetIdx)
HealLowest(i) ==
  {[caster |-> i, spell |-> s, mob |-> 0, player |-> LowestHp, aim |-> 0,
    cost |-> s.cost, wait |-> 6] :
     s \in {h \in players[i].book : h.kind \in Heals /\ players[i].mana >= h.cost}}
OnlyIf(cond, choice) == IF cond THEN choice ELSE {}
DotsOf(i) == players[i].dotsActive

Cleric(i) ==
  IF Below(80) THEN HealLowest(i)
  ELSE OnlyIf(players[i].mana > 0, AtTarget(i, <<"Nuke">>))

Druid(i) == FirstChoice(<<
  OnlyIf(Below(60), HealLowest(i)),
  OnlyIf(~Target.snared, AtTarget(i, <<"Snare", "Root">>)),
  AtTarget(i, IF DotsOf(i) = 0 THEN <<"Dot", "Nuke">> ELSE <<"Nuke", "Dot">>) >>)

Shaman(i) == FirstChoice(<<
  OnlyIf(~players[i].debuffed, AtTarget(i, <<"Debuff">>)),
  OnlyIf(~Target.slowed, AtTarget(i, <<"Slow">>)),
  OnlyIf(Below(65), HealLowest(i)),
  OnlyIf(DotsOf(i) = 0, AtTarget(i, <<"Dot">>)) >>)

Enchanter(i) == FirstChoice(<<
  OnlyIf(~players[i].debuffed, AtTarget(i, <<"Debuff">>)),
  OnlyIf(~Target.slowed, AtTarget(i, <<"Slow">>)),
  IF Extra = 0 THEN {} ELSE AtMob(i, <<"Mez">>, Extra),
  AtTarget(i, <<"Nuke">>) >>)

Nuker(i) == AtTarget(i, <<"Nuke">>)

Necromancer(i) == FirstChoice(<<
  OnlyIf(DotsOf(i) < 2, AtTarget(i, <<"Dot">>)),
  AtTarget(i, <<"Lifetap">>),
  OnlyIf(~Target.snared, AtTarget(i, <<"Snare">>)) >>)

Shadowknight(i) == FirstChoice(<<
  OnlyIf(~Target.snared, AtTarget(i, <<"Snare">>)),
  AtTarget(i, <<"Lifetap">>),
  OnlyIf(DotsOf(i) = 0, AtTarget(i, <<"Dot">>)) >>)

Ranger(i) == FirstChoice(<<
  OnlyIf(~Target.snared, AtTarget(i, <<"Snare", "Root">>)),
  AtTarget(i, IF DotsOf(i) = 0 THEN <<"Dot", "Nuke">> ELSE <<"Nuke">>) >>)

Paladin(i) == FirstChoice(<<
  OnlyIf(Below(70), HealLowest(i)),
  OnlyIf(~players[i].debuffed, AtTarget(i, <<"Debuff">>)),
  AtTarget(i, <<"Nuke">>) >>)

\* Songs are free, whatever the spell's cost.
Song(i, kind, pause) ==
  {[caster |-> i, spell |-> s, mob |-> TargetIdx, player |-> 0, aim |-> Target.id,
    cost |-> 0, wait |-> s.secs + pause] : s \in BestOf(i, <<kind>>)}
Bard(i) == FirstChoice(<<OnlyIf(~Target.slowed, Song(i, "Slow", 2)), Song(i, "Nuke", 4)>>)

WithMana(i) ==
  CASE Role(i) = "Druid"        -> Druid(i)
    [] Role(i) = "Shaman"       -> Shaman(i)
    [] Role(i) = "Enchanter"    -> Enchanter(i)
    [] Role(i) \in {"Wizard", "Magician"} -> Nuker(i)
    [] Role(i) = "Necromancer"  -> Necromancer(i)
    [] Role(i) = "Shadowknight" -> Shadowknight(i)
    [] Role(i) = "Ranger"       -> Ranger(i)
    [] Role(i) = "Paladin"      -> Paladin(i)
    [] OTHER                    -> {}

Choice(i) ==
  CASE Role(i) = "Cleric" -> Cleric(i)
    [] Role(i) = "Bard"   -> Bard(i)
    [] OTHER              -> IF players[i].mana <= 0 THEN {} ELSE WithMana(i)

-----------------------------------------------------------------------------
CanAct(i) == players[i].hp > 0 /\ Alive # {}
CanCast(i) == players[i].nextSpell <= sec /\ \A c \in Range(casts) : c.caster # i
Chosen(i) == IF CanCast(i) THEN Choice(i) ELSE {}

\* A cast is paid for, remembered and counted at once.
Begin(i, c) ==
  /\ casts' = Append(casts, [caster |-> i, spell |-> c.spell, due |-> sec + c.spell.secs,
                             mob |-> c.mob, player |-> c.player, aim |-> c.aim])
  /\ players' = [players EXCEPT ![i] = [@ EXCEPT
       !.mana = @ - c.cost, !.nextSpell = sec + c.wait,
       !.dotsActive = IF c.spell.kind = "Dot" THEN @ + 1 ELSE @,
       !.debuffed = IF c.spell.kind = "Debuff" THEN TRUE ELSE @]]
  /\ UNCHANGED mobs

\* A warrior's taunt is only told, but it sets its timer.
Taunted(i) ==
  IF Role(i) = "Warrior" /\ players[i].nextSpell <= sec
  THEN [players[i] EXCEPT !.nextSpell = sec + 8] ELSE players[i]

\* The blows of one second, until the mob falls.
Melee(i) ==
  LET p == Taunted(i)
  IN IF p.nextAttack > sec
     THEN players' = [players EXCEPT ![i] = p] /\ UNCHANGED <<mobs, casts>>
     ELSE /\ \E dmg \in 0..LeastOf(MeleeDmg, Target.hp) :
               mobs' = [mobs EXCEPT ![TargetIdx] = [@ EXCEPT !.hp = @ - dmg, !.mezzed = @ /\ dmg = 0]]
          /\ players' = [players EXCEPT ![i] = [p EXCEPT !.nextAttack = sec + 2]]
          /\ UNCHANGED casts

PlayerActs ==
  /\ stage = "players" /\ who \in Players
  /\ \/ /\ ~CanAct(who)
        /\ UNCHANGED <<players, mobs, casts>>
     \/ /\ CanAct(who) /\ Chosen(who) # {}
        /\ \E c \in Chosen(who) : Begin(who, c)
     \/ /\ CanAct(who) /\ Chosen(who) = {}
        /\ Melee(who)
  /\ who' = who + 1
  /\ UNCHANGED <<dots, hots, sec, encSec, bag, done, stage, pulled>>

PlayersDone ==
  /\ stage = "players" /\ who \notin Players
  /\ stage' = "casts" /\ who' = 1
  /\ UNCHANGED <<players, mobs, casts, dots, hots, sec, encSec, bag, done, pulled>>

-----------------------------------------------------------------------------
(* The casts that are due land, the one begun last first.                  *)
Due == {k \in DOMAIN casts : casts[k].due <= sec}
Healed(p, amount) == [p EXCEPT !.hp = LeastOf(@ + amount, MaxHp)]

LandHeal(c) ==
  /\ c.spell.kind \in Heals
  /\ players' = [players EXCEPT ![c.player] = Healed(@, c.spell.val)]
  /\ hots' = IF c.spell.kind = "HoT"
             THEN Append(hots, [target |-> c.player, val |-> c.spell.val,
                                left |-> c.spell.ticks,
                                next |-> sec + c.spell.every, every |-> c.spell.every])
             ELSE hots
  /\ UNCHANGED <<mobs, dots>>

\* Everything else needs a mob still standing at the index.
Standing(c) == c.mob \in DOMAIN mobs /\ mobs[c.mob].hp > 0
Struck(k, dmg) == [mobs EXCEPT ![k] = [@ EXCEPT !.hp = @ - dmg, !.mezzed = FALSE]]

LandNothing(c) ==
  /\ c.spell.kind \notin Heals /\ ~Standing(c)
  /\ UNCHANGED <<players, mobs, dots, hots>>

LandNuke(c) ==
  /\ c.spell.kind = "Nuke" /\ Standing(c)
  /\ \E resisted \in BOOLEAN : mobs' = IF resisted THEN mobs ELSE Struck(c.mob, c.spell.val)
  /\ UNCHANGED <<players, dots, hots>>

LandDot(c) ==
  /\ c.spell.kind = "Dot" /\ Standing(c)
  /\ \/ /\ players' = [players EXCEPT ![c.caster].dotsActive = AtLeast0(@ - 1)]
        /\ UNCHANGED dots
     \/ /\ dots' = Append(dots, [caster |-> c.caster, mob |-> c.mob, aim |-> mobs[c.mob].id,
                                 val |-> c.spell.val, left |-> c.spell.ticks,
                                 next |-> sec + c.spell.every, every |-> c.spell.every])
        /\ UNCHANGED players
  /\ UNCHANGED <<mobs, hots>>

\* Debuffs slow as slows do, and either being resisted makes the caster debuff again.
LandSlow(c) ==
  /\ c.spell.kind \in {"Slow", "Debuff"} /\ Standing(c)
  /\ \/ /\ players' = [players EXCEPT ![c.caster].debuffed = FALSE]
        /\ UNCHANGED mobs
     \/ /\ mobs' = [mobs EXCEPT ![c.mob].slowed = TRUE]
        /\ UNCHANGED players
  /\ UNCHANGED <<dots, hots>>

LandSnare(c) ==
  /\ c.spell.kind \in {"Snare", "Root"} /\ Standing(c)
  /\ \E resisted \in BOOLEAN : mobs' = IF resisted THEN mobs ELSE [mobs EXCEPT ![c.mob].snared = TRUE]
  /\ UNCHANGED <<players, dots, hots>>

LandMez(c) ==
  /\ c.spell.kind = "Mez" /\ Standing(c)
  /\ \E resisted \in BOOLEAN : mobs' = IF resisted THEN mobs ELSE [mobs EXCEPT ![c.mob].mezzed = TRUE]
  /\ UNCHANGED <<players, dots, hots>>

LandLifetap(c) ==
  /\ c.spell.kind = "Lifetap" /\ Standing(c)
  /\ \/ UNCHANGED <<players, mobs>>
     \/ /\ mobs' = Struck(c.mob, c.spell.val)
        /\ players' = [players EXCEPT ![c.caster] = Healed(@, c.spell.val)]
  /\ UNCHANGED <<dots, hots>>

CastLands ==
  /\ stage = "casts" /\ Due # {}
  /\ LET last == CHOOSE k \in Due : \A j \in Due : j <= k
         c == casts[last]
     IN /\ casts' = RemoveAt(casts, last)
        /\ \/ LandHeal(c) \/ LandNothing(c) \/ LandNuke(c) \/ LandDot(c) \/ LandSlow(c)
           \/ LandSnare(c) \/ LandMez(c) \/ LandLifetap(c)
  /\ UNCHANGED <<sec, encSec, bag, done, stage, who, pulled>>

-----------------------------------------------------------------------------
(* Ticks.  One DoT may kill the mob another is on, so they go in order.    *)
TickDot(s, d) ==
  LET ends == [s EXCEPT !.players[d.caster].dotsActive = AtLeast0(@ - 1)]
      goes == d.mob \in DOMAIN s.mobs /\ s.mobs[d.mob].hp > 0
      hit == [s EXCEPT !.mobs[d.mob].hp = @ - d.val, !.mobs[d.mob].mezzed = FALSE]
      left == AtLeast0(d.left - 1)
      again == [d EXCEPT !.left = left, !.next = sec + MostOf(d.every, DotSecs)]
  IN IF d.next > sec THEN [s EXCEPT !.dots = Append(@, d)]
     ELSE IF ~goes THEN ends
     ELSE IF left = 0 THEN [ends EXCEPT !.mobs = hit.mobs]
     ELSE [hit EXCEPT !.dots = Append(@, again)]

Ticked ==
  LET after[i \in 0..Len(dots)] ==
        IF i = 0 THEN [players |-> players, mobs |-> mobs, dots |-> <<>>]
        ELSE TickDot(after[i - 1], dots[i])
  IN after[Len(dots)]

DotTicks ==
  /\ stage = "casts" /\ Due = {}
  /\ players' = Ticked.players /\ mobs' = Ticked.mobs /\ dots' = Ticked.dots
  /\ stage' = "hots"
  /\ UNCHANGED <<casts, hots, sec, encSec, bag, done, who, pulled>>

TickHot(s, h) ==
  LET healed == [s EXCEPT !.players[h.target] = Healed(@, h.val)]
      left == AtLeast0(h.left - 1)
  IN IF h.next > sec THEN [s EXCEPT !.hots = Append(@, h)]
     ELSE IF left = 0 THEN healed
     ELSE [healed EXCEPT !.hots = Append(@, [h EXCEPT !.left = left, !.next = sec + MostOf(h.every, HotSecs)])]

HotTicks ==
  /\ stage = "hots"
  /\ LET s == FoldLeft(TickHot, [players |-> players, hots |-> <<>>], hots)
     IN players' = s.players /\ hots' = s.hots
  /\ stage' = "deaths"
  /\ UNCHANGED <<mobs, casts, dots, sec, encSec, bag, done, who, pulled>>

-----------------------------------------------------------------------------
(* Deaths: the DoTs of the dead go, and every index behind one moves up.   *)
Killed == {k \in DOMAIN mobs : mobs[k].hp <= 0}
ShiftNothing(k) == k

Shift(k) == k - Cardinality({j \in Killed : j < k})

DotsLeft ==
  LET stay == Part(dots, {i \in DOMAIN dots : dots[i].mob \notin Killed})
  IN [k \in DOMAIN stay |-> [stay[k] EXCEPT !.mob = Shift(@)]]

\* An item may be kept, sold on the spot, or put into the bag for the vendor.
Loot ==
  \/ UNCHANGED <<sec, bag>>
  \/ /\ sec' = sec + LootSecs
     /\ bag' \in {bag, TRUE}

Deaths ==
  /\ stage = "deaths" /\ Killed # {}
  /\ mobs' = Part(mobs, DOMAIN mobs \ Killed)
  /\ dots' = DotsLeft
  /\ casts' = [k \in DOMAIN casts |-> [casts[k] EXCEPT !.mob = Shift(@)]]
  /\ players' = [i \in Players |-> [players[i] EXCEPT !.dotsActive = 0, !.debuffed = FALSE]]
  /\ Loot
  /\ stage' = "second"
  /\ UNCHANGED <<hots, encSec, done, who, pulled>>

NoDeaths ==
  /\ stage = "deaths" /\ Killed = {}
  /\ stage' = "second"
  /\ UNCHANGED <<players, mobs, casts, dots, hots, sec, encSec, bag, done, who, pulled>>

-----------------------------------------------------------------------------
\* Between fights: a break when somebody is low on mana, or by chance; the bag
\* goes to the vendor every VendorEvery fights.
Rested(p) ==
  [p EXCEPT !.mana = IF p.manaMax > 0 THEN p.manaMax ELSE @,
            !.hp = LeastOf(@ + (MaxHp * 4) \div 10, MaxHp)]

Vendor ==
  IF bag /\ done % VendorEvery = 0
  THEN bag' = FALSE /\ sec' = sec + BreakSecs + 2
  ELSE sec' = sec + BreakSecs /\ UNCHANGED bag

Break ==
  /\ stage = "break"
  /\ players' = [i \in Players |-> Rested(players[i])]
  /\ Vendor
  /\ stage' = "rest"
  /\ UNCHANGED <<mobs, casts, dots, hots, encSec, done, who, pulled>>

NeedsBreak == \E i \in Players : players[i].manaMax > 0 /\ players[i].mana < players[i].manaMax \div 4

MoveOn ==
  /\ stage = "break" /\ ~NeedsBreak
  /\ stage' = "rest"
  /\ UNCHANGED <<players, mobs, casts, dots, hots, sec, encSec, bag, done, who, pulled>>

EncNext ==
  \/ Pull \/ Second \/ EncounterEnds
  \/ MobActs \/ ManaCalls \/ PlayerActs \/ PlayersDone
  \/ CastLands \/ DotTicks \/ HotTicks \/ Deaths \/ NoDeaths
  \/ Break \/ MoveOn

EncSpec == EncInit /\ [][EncNext]_encVars

-----------------------------------------------------------------------------
\* Casts and DoTs find their mob by an index into a list that shrinks while they wait: as
\* long as the mob they were meant for is in the list, they point at it.
AimHolds ==
  \A x \in Range(casts) \cup Range(dots) :
    (\E k \in DOMAIN mobs : mobs[k].id = x.aim) => x.mob \in DOMAIN mobs /\ mobs[x.mob].id = x.aim
=============================================================================
