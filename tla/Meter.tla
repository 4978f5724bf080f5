-------------------------------- MODULE Meter --------------------------------
(***************************************************************************)
(* The DPS meter (overlay_dps.rs): a window that a timer redraws from the  *)
(* parser's last published CombatState, following the fight the player is  *)
(* in unless a mob is pinned, and hiding when nothing changes.             *)
(*                                                                         *)
(* Simplifications:                                                        *)
(* - Two of the four tabs; amounts are counts of hits; no rates, bars and  *)
(*   colours.                                                              *)
(* - What the parser publishes is abstract (module Combat has it): hits on *)
(*   listed and new mobs, mobs that turn out to be players, resets.        *)
(* - Time is counted in ticks of the meter.                                *)
(***************************************************************************)
EXTENDS Naturals, Sequences, FiniteSets, SequencesExt, Functions

CONSTANTS
  Me, Ally,
  NoMob,
  MaxMobs,      \* bound on mobs between resets
  MaxHits,      \* bound on hits and heals
  MaxResets,
  MaxClicks,    \* bound on what the user does
  MaxRows,      \* meter_max_rows
  IdleTicks     \* meter_idle_secs

ASSUME MobsAssumption == MaxMobs \in Nat

(* sync_config keeps at least one row. *)
ASSUME RowsAssumption == MaxRows \in Nat \ {0}

Tabs == {"Dps", "Heal"}
People == {Me, Ally}
Ids == 0..(MaxMobs - 1)

VARIABLES
  lastSeen,     \* mob_list: for each id in it the hit it was last seen at
  amounts,      \* mob_damage and mob_healing: tab, id and name to an amount
  nextId,       \* next_mob_id
  hits, resets,
  pin,          \* pinned_mob_id
  lastActive, lastTotal, \* last_active_mob_id, last_footer_total
  still,        \* ticks since last_change
  visible,
  drawn,        \* what the window says
  tab, expanded,
  picker,       \* the ids an open picker offers; {} when it is closed
  wanted,       \* [enabled, forced, quiet]: two switches and log_inactive
  clicks

published == <<lastSeen, amounts, nextId, hits, resets>>
choices == <<tab, expanded, wanted>>
ticking == <<lastActive, lastTotal, still, visible, drawn>>
metVars == <<published, pin, ticking, choices, picker, clicks>>

NoAmounts == [t \in Tabs |-> [i \in Ids |-> [p \in People |-> 0]]]

(* The window without a fight: "DPS Meter (drag)". *)
Placeholder == [mob |-> NoMob, rows |-> <<>>, total |-> 0, pinned |-> FALSE]

MetInit ==
  /\ lastSeen = <<>> /\ amounts = NoAmounts /\ nextId = 0
  /\ hits = 0 /\ resets = 0
  /\ pin = NoMob /\ lastActive = NoMob /\ lastTotal = 0 /\ still = 0
  /\ visible = FALSE /\ drawn = Placeholder
  /\ tab = "Dps" /\ expanded = {} /\ picker = {}
  /\ wanted = [enabled |-> TRUE, forced |-> FALSE, quiet |-> FALSE] /\ clicks = 0

MobList == DOMAIN lastSeen

Sum(t, i) == SumFunction(amounts[t][i])

(* A published hit or heal. *)
Publish(i, p, t) ==
  /\ hits < MaxHits /\ hits' = hits + 1
  /\ lastSeen' = [j \in MobList \cup {i} |-> IF j = i THEN hits' ELSE lastSeen[j]]
  /\ amounts' = [amounts EXCEPT ![t][i][p] = @ + 1]

HitAgain(i, p, t) ==
  /\ i \in MobList /\ Publish(i, p, t)
  /\ UNCHANGED <<nextId, resets, pin, ticking, choices, picker, clicks>>

HitNew(p, t) ==
  /\ nextId < MaxMobs /\ Publish(nextId, p, t)
  /\ nextId' = nextId + 1
  /\ UNCHANGED <<resets, pin, ticking, choices, picker, clicks>>

(* A listed mob turns out to be a player: its amounts stay. *)
Unlist(i) ==
  /\ i \in MobList
  /\ lastSeen' = [j \in MobList \ {i} |-> lastSeen[j]]
  /\ UNCHANGED <<amounts, nextId, hits, resets, pin, ticking, choices, picker, clicks>>

(* Clear Stats, or another engine: ids start again. *)
Reset ==
  /\ resets < MaxResets /\ nextId > 0
  /\ lastSeen' = <<>> /\ amounts' = NoAmounts /\ nextId' = 0 /\ resets' = resets + 1
  /\ UNCHANGED <<hits, pin, ticking, choices, picker, clicks>>

PlayerEngaged(i) == amounts["Dps"][i][Me] > 0

(* resolve_view_mob_id *)
ViewMob(pinned) ==
  LET mine == {i \in MobList : PlayerEngaged(i)}
  IN CASE pinned \in MobList -> pinned
       [] pinned \notin MobList /\ mine # {} ->
            CHOOSE i \in mine : \A j \in mine : lastSeen[j] <= lastSeen[i]
       [] OTHER -> NoMob

(* build_rows: the highest amounts first, in an order of their own among
   equals; a row that is expanded says so. *)
Ranked(i) ==
  LET t == amounts[tab][i]
      who == {p \in People : t[p] > 0}
  IN {s \in UNION {[1..n -> who] : n \in {Cardinality(who)}} :
        IsInjective(s) /\ \A j, k \in DOMAIN s : j < k => t[s[j]] >= t[s[k]]}

Row(i, p) == [name |-> p, amount |-> amounts[tab][i][p], open |-> p \in expanded]

(* compute_snapshot *)
Snapshot(i, ranking, pinned) ==
  [mob |-> i, total |-> Sum(tab, i), pinned |-> pinned,
   rows |-> LET n == IF Len(ranking) < MaxRows THEN Len(ranking) ELSE MaxRows
            IN [k \in 1..n |-> Row(i, ranking[k])]]

(* sync_rows_model: rows are rewritten in place, pushed, or cut at the end. *)
SyncedGrowing(old, new) ==
  [k \in 1..(IF Len(new) > Len(old) THEN Len(new) ELSE Len(old)) |->
     IF k \in DOMAIN new THEN new[k] ELSE old[k]]

Synced(old, new) == [k \in DOMAIN new |-> new[k]]

Aged == IF still > IdleTicks THEN still ELSE still + 1

TickHidden(view) ==
  /\ wanted.quiet \/ (~wanted.forced /\ ~(wanted.enabled /\ view # NoMob))
  /\ visible' = FALSE /\ picker' = {} /\ still' = Aged
  /\ UNCHANGED <<drawn, lastActive, lastTotal>>

TickPlaceholder(view) ==
  /\ ~wanted.quiet /\ wanted.forced /\ view = NoMob
  /\ visible' = TRUE /\ drawn' = Placeholder /\ still' = Aged
  /\ UNCHANGED <<lastActive, lastTotal, picker>>

(* Idle: nothing has changed in the shown tab for too long. *)
TickFight(view) ==
  /\ ~wanted.quiet /\ (wanted.forced \/ wanted.enabled) /\ view # NoMob
  /\ \E ranking \in Ranked(view) :
       LET snap == Snapshot(view, ranking, pin' # NoMob)
       IN /\ IF view # lastActive \/ snap.total # lastTotal
               THEN still' = 0 /\ lastActive' = view /\ lastTotal' = snap.total
               ELSE still' = Aged /\ UNCHANGED <<lastActive, lastTotal>>
          /\ IF ~wanted.forced /\ still' > IdleTicks
               THEN visible' = FALSE /\ UNCHANGED <<drawn, picker>>
               ELSE /\ visible' = TRUE
                    /\ drawn' = [snap EXCEPT !.rows = Synced(drawn.rows, snap.rows)]
                    /\ picker' = IF picker = {} THEN {} ELSE MobList \cup {NoMob}

(* A pin on a mob that is gone is dropped; without a fight of the player's
   the last one shown stays. *)
MeterTick ==
  /\ pin' = IF pin \in MobList THEN pin ELSE NoMob
  /\ LET mine == ViewMob(pin')
         view == IF mine # NoMob THEN mine ELSE lastActive
     IN TickHidden(view) \/ TickPlaceholder(view) \/ TickFight(view)
  /\ UNCHANGED <<published, choices, clicks>>

Click == clicks < MaxClicks /\ clicks' = clicks + 1

(* The footer and the picker's rows; a row may be stale. *)
PickerClicked ==
  /\ Click /\ visible
  /\ picker' = IF picker = {} THEN {NoMob} ELSE {}
  /\ UNCHANGED <<published, pin, ticking, choices>>

PickMob(i) ==
  /\ Click /\ visible /\ i \in picker
  /\ pin' = i /\ picker' = {}
  /\ UNCHANGED <<published, ticking, choices>>

TabClicked(t) ==
  /\ Click /\ visible /\ tab' = t
  /\ UNCHANGED <<published, pin, ticking, expanded, wanted, picker>>

RowClicked(p) ==
  /\ Click /\ visible /\ \E k \in DOMAIN drawn.rows : drawn.rows[k].name = p
  /\ expanded' = IF p \in expanded THEN expanded \ {p} ELSE expanded \cup {p}
  /\ UNCHANGED <<published, pin, ticking, tab, wanted, picker>>

Want(field, b) ==
  /\ Click /\ wanted[field] # b
  /\ wanted' = [wanted EXCEPT ![field] = b]
  /\ UNCHANGED <<published, pin, ticking, tab, expanded, picker>>

MetNext ==
  \/ \E i \in Ids, p \in People, t \in Tabs : HitAgain(i, p, t)
  \/ \E p \in People, t \in Tabs : HitNew(p, t)
  \/ \E i \in Ids : Unlist(i)
  \/ Reset \/ MeterTick \/ PickerClicked
  \/ \E i \in Ids \cup {NoMob} : PickMob(i)
  \/ \E t \in Tabs : TabClicked(t)
  \/ \E p \in People : RowClicked(p)
  \/ \E f \in DOMAIN wanted, b \in BOOLEAN : Want(f, b)

MetSpec == MetInit /\ [][MetNext]_metVars

-----------------------------------------------------------------------------
(* What a visible meter says is one fight: each name once, the highest
   amounts first, and rows that add up to the footer's total, whole when they
   all fit, whatever was drawn there before and however it came to be hidden
   and shown (overlay_dps.rs:665-690). *)
MeterTellsOneFight ==
  visible =>
    LET rows == drawn.rows
        sum == FoldSeq(LAMBDA r, n : r.amount + n, 0, rows)
    IN /\ \A j, k \in DOMAIN rows :
            j < k => rows[j].name # rows[k].name /\ rows[j].amount >= rows[k].amount
       /\ sum <= drawn.total
       /\ Len(rows) < MaxRows => sum = drawn.total
=============================================================================
