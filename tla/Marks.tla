-------------------------------- MODULE Marks --------------------------------
(***************************************************************************)
(* The parser's segment marks and heartbeats (parser.rs, patterns.rs): it  *)
(* follows the player between instanced zones and cuts a mark in the       *)
(* stream on arrival in another one, where the leader calls a raid in      *)
(* chat, and beats while the player is stunned.                            *)
(*                                                                         *)
(* The log never says which instance was entered: a tiered zone's entry    *)
(* line names zone and tier, a plain zone's only the zone, and the number  *)
(* is in the line of whoever created it.  The model keeps the truth beside *)
(* what the parser remembers.                                              *)
(*                                                                         *)
(* Simplification: an entry line confirms a creation when its text starts  *)
(* with the created zone's name (a tier may follow).  No zone's name here  *)
(* begins another's, so that is equality of zones.                         *)
(***************************************************************************)
EXTENDS Naturals

CONSTANTS
  Tiered, Plain,  \* zones with and without a tier in their entry line
  MaxInstances,   \* bound on instances created
  MaxMoves,       \* bound on lines
  Waits,          \* seconds that may pass before a line
  None

ASSUME MarksAssumption ==
  /\ Tiered \cap Plain = {} /\ None \notin Tiered \cup Plain
  /\ None \notin [zone : Tiered \cup Plain, num : Nat, at : Nat]
  /\ MaxInstances \in Nat /\ Waits \subseteq Nat

VARIABLES
  current,   \* current_instance: the zone as its entry line names it
  pendingInstance,  \* pending_instance: [zone, num, at]
  now, beat, \* current_ts and last_heartbeat_ts
  out,       \* the event of the last line: a mark [kind, num], a beat or None
  made,      \* the world: zones of the instances, by number
  inside,    \* the world: number of the instance last entered, 0 for none
  unseen,    \* the world: the player's own instance made and entered by none
  moves

marksVars == <<current, pendingInstance, now, beat, out, made, inside, unseen, moves>>

Numbers == 1..MaxInstances

MarksInit ==
  /\ current = None /\ pendingInstance = None
  /\ now = 1 /\ beat = 0 /\ out = None
  /\ made = [n \in {} |-> None] /\ inside = 0 /\ unseen = 0 /\ moves = 0

Tick(wait) ==
  /\ moves < MaxMoves /\ moves' = moves + 1
  /\ now' = now + wait

Mark(kind, num) == [kind |-> kind, num |-> num]

(* Variant: the same zone stays the current one when a new instance is made. *)
ForgetsNothing(zone) == current

(* A new instance of the same zone and tier has the same entry line. *)
CurrentAfterCreate(zone) == None

(* "Player X creating instance Z N.": only the log owner's own counts. *)
CreateInstance(wait, zone, own) ==
  LET n == CHOOSE k \in Numbers : k \notin DOMAIN made /\ \A j \in Numbers : j < k => j \in DOMAIN made
  IN /\ DOMAIN made # Numbers
     /\ Tick(wait)
     /\ made' = [k \in DOMAIN made \cup {n} |-> IF k = n THEN zone ELSE made[k]]
     /\ IF own
        THEN /\ pendingInstance' = [zone |-> zone, num |-> n, at |-> now']
             /\ current' = CurrentAfterCreate(zone)
             /\ unseen' = n
        ELSE UNCHANGED <<pendingInstance, current, unseen>>
     /\ out' = None
     /\ UNCHANGED <<beat, inside>>

Confirms(zone) ==
  /\ pendingInstance # None /\ pendingInstance.zone = zone
  /\ now' - pendingInstance.at < 600

EnterTiered(zone) ==
  IF current = zone
  THEN out' = None /\ UNCHANGED <<current, pendingInstance>>
  ELSE /\ current' = zone
       /\ out' = Mark("instance", IF Confirms(zone) THEN pendingInstance.num ELSE 0)
       /\ pendingInstance' = None

EnterPlain(zone) ==
  IF Confirms(zone)
  THEN /\ current' = zone /\ pendingInstance' = None
       /\ out' = Mark("instance", pendingInstance.num)
  ELSE out' = None /\ UNCHANGED <<current, pendingInstance>>

(* "You have entered Z.", for an instance and for the open world, num 0. *)
Enter(wait, num, zone) ==
  /\ Tick(wait)
  /\ IF zone \in Tiered THEN EnterTiered(zone) ELSE EnterPlain(zone)
  /\ inside' = IF num = 0 THEN inside ELSE num
  /\ unseen' = IF num = 0 THEN unseen ELSE 0
  /\ UNCHANGED <<beat, made>>

EnterInstance(wait) == \E n \in DOMAIN made : Enter(wait, n, made[n])

(* The open world of another zone than the one being made. *)
EnterWorld(wait) ==
  \E zone \in Plain : (unseen # 0 => made[unseen] # zone) /\ Enter(wait, 0, zone)

(* RE_CHAT: whoever speaks, the line ends here; "You ..., 'raid start'". *)
Chat(wait, own, call) ==
  /\ Tick(wait)
  /\ out' = IF own /\ call # None THEN Mark(call, 0) ELSE None
  /\ UNCHANGED <<current, pendingInstance, beat, made, inside, unseen>>

(* RE_HEARTBEAT: at most one a second. *)
Stun(wait) ==
  /\ Tick(wait)
  /\ IF now' # 0 /\ now' # beat
     THEN beat' = now' /\ out' = Mark("heartbeat", 0)
     ELSE out' = None /\ UNCHANGED beat
  /\ UNCHANGED <<current, pendingInstance, made, inside, unseen>>

MarksNext ==
  \E wait \in Waits :
    \/ \E zone \in Tiered \cup Plain, own \in BOOLEAN : CreateInstance(wait, zone, own)
    \/ EnterInstance(wait)
    \/ EnterWorld(wait)
    \/ \E own \in BOOLEAN, call \in {"raid_start", "raid_end", None} : Chat(wait, own, call)
    \/ Stun(wait)

MarksSpec == MarksInit /\ [][MarksNext]_marksVars
-----------------------------------------------------------------------------
(* Arriving in the instance one has just made cuts a mark with its number,
   though its entry line may be the one of the instance left before; coming
   back to the same instance, with none made since, cuts nothing. *)
MarksAreArrivals ==
  [][\A wait \in Waits : EnterInstance(wait) =>
       /\ (unseen # 0 /\ inside' = unseen /\ now' - pendingInstance.at < 600)
            => out' = Mark("instance", unseen)
       /\ (inside' = inside /\ unseen = 0 /\ pendingInstance = None) => out' = None]_marksVars
=============================================================================
