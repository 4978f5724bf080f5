------------------------------ MODULE Curation ------------------------------
(***************************************************************************)
(* What a stream's watchers curate (markers.rs, mob_overrides.rs,          *)
(* segment_roster.rs and their handlers in main.rs): raid markers, pinned  *)
(* NPCs, and players left out of a segment.  Each is a table of the        *)
(* stream's SQLite file, written by single statements.  Pages hold a list  *)
(* they fetched earlier and act on it while other pages write.             *)
(*                                                                         *)
(* Simplifications: a name is a player or NPC with one of two spellings    *)
(* that differ in case; a segment is part of the name of its exclusion;    *)
(* marker time, kind and label are left out.                               *)
(***************************************************************************)
EXTENDS Naturals, FiniteSets

CONSTANTS
  Npcs,         \* NPC and player names, case ignored
  Pages,        \* pages and tools that send requests
  MaxMarkers    \* bound on marker ids

Holds == {"nothing", "view", "stream", "admin"}
Spellings == {"lower", "capital"}
Verdicts == {"named", "trash", "auto"}

VARIABLES
  public,       \* StreamEntry.public_stream
  markers,      \* markers rows: their id, and (ghost) which insert they are
  markerSeq,    \* AUTOINCREMENT counter, and inserts so far
  overrides,    \* mob_overrides rows
  excluded,     \* segment_members rows
  shown,        \* page -> markers on it
  holds         \* page -> the token it holds

curVars == <<public, markers, markerSeq, overrides, excluded, shown, holds>>

CurInit ==
  /\ public = FALSE
  /\ markers = {} /\ markerSeq = 0
  /\ overrides = {} /\ excluded = {}
  /\ shown = [p \in Pages |-> {}]
  /\ holds \in [Pages -> Holds]

(* owner_markers, and the check of the override and roster handlers. *)
MayWrite(p) == holds[p] \in {"view", "stream", "admin"}
(* list_*_handler by view token or public flag; the player_* routes resolve
   only a public stream. *)
MayRead(p) == public \/ holds[p] = "view"

(* list_markers_handler, player_markers_handler *)
ListMarkers(p) ==
  /\ MayRead(p)
  /\ shown' = [shown EXCEPT ![p] = markers]
  /\ UNCHANGED <<public, markers, markerSeq, overrides, excluded, holds>>

(* Faulty variant: ids are the highest stored plus one. *)
NextMarkerIdOfRows ==
  IF markers = {} THEN 1
  ELSE (CHOOSE i \in {m.id : m \in markers} : \A m \in markers : m.id <= i) + 1

(* INTEGER PRIMARY KEY AUTOINCREMENT *)
NextMarkerId == markerSeq + 1

AddMarker(p) ==
  LET marker == [id |-> NextMarkerId, insert |-> markerSeq + 1]
  IN /\ MayWrite(p) /\ markerSeq < MaxMarkers
     /\ markers' = markers \cup {marker}
     /\ markerSeq' = markerSeq + 1
     /\ shown' = [shown EXCEPT ![p] = @ \cup {marker}]
     /\ UNCHANGED <<public, overrides, excluded, holds>>

(* delete_marker_handler: the page sends an id of its list; 404 when no row
   has it any more. *)
DeleteMarker(p) ==
  \E m \in shown[p] :
    /\ MayWrite(p)
    /\ markers' = {r \in markers : r.id # m.id}
    /\ shown' = [shown EXCEPT ![p] = @ \ {m}]
    /\ UNCHANGED <<public, markerSeq, overrides, excluded, holds>>

(* INSERT ... ON CONFLICT(name) DO UPDATE on the lowercased name. *)
Upsert(rows, npc, spelling, kind) ==
  {r \in rows : r.npc # npc} \cup {[npc |-> npc, display |-> spelling, kind |-> kind]}

Without(rows, npc) == {r \in rows : r.npc # npc}

(* set_mob_override_handler: "auto" clears the row. *)
SetOverride(p, npc, spelling, verdict) ==
  /\ MayWrite(p)
  /\ overrides' = IF verdict = "auto" THEN Without(overrides, npc)
                  ELSE Upsert(overrides, npc, spelling, verdict)
  /\ UNCHANGED <<public, markers, markerSeq, excluded, shown, holds>>

(* set_segment_member_handler: including removes the exclusion row. *)
SetMember(p, npc, spelling, included) ==
  /\ MayWrite(p)
  /\ excluded' = IF included THEN Without(excluded, npc)
                 ELSE Upsert(excluded, npc, spelling, "out")
  /\ UNCHANGED <<public, markers, markerSeq, overrides, shown, holds>>

(* patch_stream_handler, as far as it matters here. *)
SetPublic(flag) ==
  /\ public # flag /\ public' = flag
  /\ UNCHANGED <<markers, markerSeq, overrides, excluded, shown, holds>>

CurNext ==
  \/ \E p \in Pages :
       \/ ListMarkers(p)
       \/ AddMarker(p)
       \/ DeleteMarker(p)
       \/ \E npc \in Npcs, spelling \in Spellings :
            \/ \E verdict \in Verdicts : SetOverride(p, npc, spelling, verdict)
            \/ \E included \in BOOLEAN : SetMember(p, npc, spelling, included)
  \/ \E flag \in BOOLEAN : SetPublic(flag)

CurSpec == CurInit /\ [][CurNext]_curVars
-----------------------------------------------------------------------------
(* A page that deletes from an old list removes a marker it was shown or
   none: an id freed by another page never comes to mean a newer marker. *)
StaleDeleteIsHarmless ==
  [][\A p \in Pages : DeleteMarker(p) => markers \ markers' \subseteq shown[p]]_curVars
=============================================================================
