---------------------------- MODULE StreamStore ----------------------------
(***************************************************************************)
(* One hosted stream of froklog-server: the ingest WebSocket handlers that *)
(* write it (ingest.rs), the prune, reset and retention tasks that delete  *)
(* from it (main.rs), and a server restart (streams.rs), over the journal  *)
(* and the session index they share.                                       *)
(*                                                                         *)
(* Every handler is an async task.  The journal and the session index have *)
(* a lock each, held for one call at a time, so a task is a sequence of    *)
(* actions, one per critical section, and tasks interleave between them.   *)
(*                                                                         *)
(* Simplifications:                                                        *)
(* - The hello message (UTC offset, time probe) and rejected batches change*)
(*   nothing kept here.  Authentication happens before a task starts.      *)
(* - Raid markers are counted per second of log time: ids, labels and the  *)
(*   start/end distinction are left out.                                   *)
(* - The broadcast to viewers after each append is in module Viewer.       *)
(* - A restart is a process crash: what SQLite committed is kept.          *)
(***************************************************************************)
EXTENDS SessionIndex

CONSTANTS
  Conns,        \* ingest connections that may exist over time
  Admins,       \* prune, retention and reset tasks that may run at once
  Times,        \* log seconds that occur
  Batches,      \* the batches a client may send, each a set of events
  Cutoffs,      \* prune cutoffs that occur
  SplitSecs,    \* BATCH_SPLIT_SECS
  MaxWindows,   \* MAX_WINDOWS of split_by_log_time
  Ops,          \* which of "prune", "reset", "restart", "marker" happen
  Faults,       \* which of "append", "vacuum", "session" calls can fail
  MaxBatches,   \* bound on row ids ever used
  MaxClock,     \* bound on the server clock
  MaxMarkers    \* bound on markers per second added by hand

Kinds == {"combat", "login", "raid", "unknown"}

(* CombatEvent: its timestamp and the kinds ingest tells apart.  A kind this
   server does not know decodes to Unknown, whose timestamp is 0. *)
Event == {e \in [ts : Times \cup {0}, kind : Kinds] :
            (e.kind = "unknown") <=> (e.ts = 0)}

ASSUME InputAssumption ==
  /\ Times \subseteq Nat \ {0}
  /\ Batches \subseteq SUBSET Event
  /\ Cutoffs \subseteq Nat

(* What can be left of a batch after a split.  A batch is finite, so each has
   a latest event. *)
SubBatch == UNION {SUBSET b : b \in Batches}

ASSUME LatestAssumption ==
  \A sub \in SubBatch \ {{}} : \E e \in sub : \A f \in sub : f.ts <= e.ts
ASSUME BoundAssumption ==
  /\ SplitSecs \in Nat \ {0}
  /\ MaxWindows \in Nat \ {0}
  /\ MaxBatches \in Nat
  /\ MaxClock \in Nat
  /\ MaxMarkers \in Nat

VARIABLES
  now,          \* the server's wall clock
  connected,    \* StreamEntry.client_connected
  markers,      \* the markers table: log second -> how many
  pc,           \* where each ingest task is
  wall,         \* wall_ts the task read when its batch arrived
  marks,        \* seconds of the batch's RaidMark events still to record
  subs,         \* sub-batches still to store
  anchor,       \* the row id the task will cut a session at
  adminPc,      \* where each maintenance task is
  adminMin,     \* min_remaining returned by Journal::prune
  adminCutoff   \* the cutoff of the prune under way

ingestVars == <<pc, wall, marks, subs, anchor>>
adminVars == <<adminPc, adminMin, adminCutoff>>
vars == <<journalVars, sessionVars, now, connected, markers,
          ingestVars, adminVars>>

Init ==
  /\ JournalInit
  /\ SessionInit
  /\ now = 0
  /\ connected = FALSE
  /\ markers = [t \in Times |-> 0]
  /\ pc = [c \in Conns |-> "closed"]
  /\ wall = [c \in Conns |-> 0]
  /\ marks = [c \in Conns |-> {}]
  /\ subs = [c \in Conns |-> {}]
  /\ anchor = [c \in Conns |-> None]
  /\ adminPc = [a \in Admins |-> "idle"]
  /\ adminMin = [a \in Admins |-> None]
  /\ adminCutoff = [a \in Admins |-> 0]
-----------------------------------------------------------------------------
(* split_by_log_time: the sub-batches of a batch. *)

EarliestTs(events) == CHOOSE t \in {e.ts : e \in events} :
                        \A e \in events : t <= e.ts

(* The window an event falls in; whatever lies beyond the last window is
   put into it. *)
Slot(e, base) ==
  LET slot == (e.ts - base) \div SplitSecs
  IN IF slot < MaxWindows THEN slot ELSE MaxWindows - 1

SubBatches(events) ==
  IF events = {} THEN {events}
  ELSE LET base == EarliestTs(events)
       IN IF LatestTs(events) - base <= SplitSecs THEN {events}
          ELSE {{e \in events : Slot(e, base) = Slot(f, base)} : f \in events}

(* The sub-batch stored next: its window lies before all the others. *)
IsFirst(sub, rest) ==
  \A other \in rest \ {sub} : \A e \in sub, f \in other : e.ts < f.ts

(* Row ids the tasks under way may still use; Receive keeps their number
   within MaxBatches. *)
Outstanding == Cardinality(UNION {{c} \X subs[c] : c \in Conns})
-----------------------------------------------------------------------------
(* handle_ingest.  "recv": waiting in socket.recv. *)

(* The upgrade succeeded; the shared flag is raised. *)
Connect(c) ==
  /\ pc[c] = "closed"
  /\ pc' = [pc EXCEPT ![c] = "recv"]
  /\ connected' = TRUE
  /\ UNCHANGED <<journalVars, sessionVars, now, markers, wall, marks, subs,
                 anchor, adminVars>>

(* A Close frame or an error ends the loop; the flag is lowered. *)
Close(c) ==
  /\ pc[c] = "recv"
  /\ pc' = [pc EXCEPT ![c] = "closed"]
  /\ connected' = FALSE
  /\ UNCHANGED <<journalVars, sessionVars, now, markers, wall, marks, subs,
                 anchor, adminVars>>

HasLogin(batch) == \E sub \in batch : \E e \in sub : e.kind = "login"

(* Where a task goes once the batch's markers are recorded. *)
AfterMarks(batch) == IF HasLogin(batch) THEN "loginAnchor" ELSE "store"

(* A batch arrives: wall_ts is read here, before any lock. *)
Receive(c, events) ==
  LET raids == {e.ts : e \in {x \in events : x.kind = "raid"}}
  IN /\ pc[c] = "recv"
     /\ autoinc + Outstanding + Cardinality(SubBatches(events)) <= MaxBatches
     /\ wall' = [wall EXCEPT ![c] = now]
     /\ marks' = [marks EXCEPT ![c] = raids]
     /\ subs' = [subs EXCEPT ![c] = SubBatches(events)]
     /\ pc' = [pc EXCEPT ![c] = IF raids # {} THEN "markCheck"
                                ELSE AfterMarks(SubBatches(events))]
     /\ UNCHANGED <<journalVars, sessionVars, now, connected, markers, anchor,
                    adminVars>>

(* markers.list(): is this raid call already recorded? *)
MarkCheck(c) ==
  LET ts == Oldest(marks[c])
      rest == marks[c] \ {ts}
  IN /\ pc[c] = "markCheck"
     /\ \/ /\ markers[ts] > 0
           /\ marks' = [marks EXCEPT ![c] = rest]
           /\ pc' = [pc EXCEPT ![c] = IF rest # {} THEN "markCheck"
                                      ELSE AfterMarks(subs[c])]
        \/ /\ markers[ts] = 0
           /\ pc' = [pc EXCEPT ![c] = "markAdd"]
           /\ UNCHANGED marks
     /\ UNCHANGED <<journalVars, sessionVars, now, connected, markers, wall,
                    subs, anchor, adminVars>>

(* markers.add() *)
MarkAdd(c) ==
  LET ts == Oldest(marks[c])
      rest == marks[c] \ {ts}
  IN /\ pc[c] = "markAdd"
     /\ markers' = [markers EXCEPT ![ts] = @ + 1]
     /\ marks' = [marks EXCEPT ![c] = rest]
     /\ pc' = [pc EXCEPT ![c] = IF rest # {} THEN "markCheck"
                                ELSE AfterMarks(subs[c])]
     /\ UNCHANGED <<journalVars, sessionVars, now, connected, wall, subs,
                    anchor, adminVars>>

(* Faulty variant: the login is anchored one batch ahead. *)
LoginAnchorAhead(c) ==
  /\ pc[c] = "loginAnchor"
  /\ anchor' = [anchor EXCEPT ![c] = NextBatchId + 1]
  /\ pc' = [pc EXCEPT ![c] = "loginDedup"]
  /\ UNCHANGED <<journalVars, sessionVars, now, connected, markers, wall,
                 marks, subs, adminVars>>

(* A batch with a Login event: the next row id, under the journal lock. *)
LoginAnchor(c) ==
  /\ pc[c] = "loginAnchor"
  /\ anchor' = [anchor EXCEPT ![c] = NextBatchId]
  /\ pc' = [pc EXCEPT ![c] = "loginDedup"]
  /\ UNCHANGED <<journalVars, sessionVars, now, connected, markers, wall,
                 marks, subs, adminVars>>

(* The last session start, under the session lock: is the cut still due? *)
Dedup(c, from, cut, skip) ==
  /\ pc[c] = from
  /\ pc' = [pc EXCEPT ![c] = IF LastStartId # anchor[c] THEN cut ELSE skip]
  /\ UNCHANGED <<journalVars, sessionVars, now, connected, markers, wall,
                 marks, subs, anchor, adminVars>>

(* Faulty variant: the batch is abandoned after a cut. *)
CutAbandons(c, from, to) ==
  /\ pc[c] = from
  /\ \/ CutSession(anchor[c])
     \/ "session" \in Faults /\ UNCHANGED sessionVars
  /\ pc' = [pc EXCEPT ![c] = "recv"]
  /\ anchor' = [anchor EXCEPT ![c] = None]
  /\ UNCHANGED <<journalVars, now, connected, markers, wall, marks, subs,
                 adminVars>>

(* cut_session, under the session lock; a failure is only logged. *)
Cut(c, from, to) ==
  /\ pc[c] = from
  /\ \/ CutSession(anchor[c])
     \/ "session" \in Faults /\ UNCHANGED sessionVars
  /\ pc' = [pc EXCEPT ![c] = to]
  /\ anchor' = [anchor EXCEPT ![c] = None]
  /\ UNCHANGED <<journalVars, now, connected, markers, wall, marks, subs,
                 adminVars>>

(* The head of the loop over sub-batches: the last stored log time and the
   next row id are read under one journal lock. *)
GapCheck(c) ==
  /\ pc[c] = "store"
  /\ \E sub \in subs[c] :
       /\ IsFirst(sub, subs[c])
       /\ IF sub # {} /\ IsSessionGap(LogLastTs, LatestTs(sub))
          THEN /\ anchor' = [anchor EXCEPT ![c] = NextBatchId]
               /\ pc' = [pc EXCEPT ![c] = "gapDedup"]
          ELSE /\ pc' = [pc EXCEPT ![c] = "append"]
               /\ UNCHANGED anchor
  /\ UNCHANGED <<journalVars, sessionVars, now, connected, markers, wall,
                 marks, subs, adminVars>>

(* The sub-batch is appended under the journal lock; a failure is only
   logged, and the loop goes on. *)
Store(c) ==
  /\ pc[c] = "append"
  /\ \E sub \in subs[c] :
       /\ IsFirst(sub, subs[c])
       /\ \/ JournalAppend(wall[c], sub)
          \/ "append" \in Faults /\ UNCHANGED journalVars
       /\ subs' = [subs EXCEPT ![c] = @ \ {sub}]
       /\ pc' = [pc EXCEPT ![c] = IF subs[c] = {sub} THEN "recv" ELSE "store"]
       /\ wall' = [wall EXCEPT ![c] = IF subs[c] = {sub} THEN 0 ELSE @]
  /\ UNCHANGED <<sessionVars, now, connected, markers, marks, anchor,
                 adminVars>>

Ingest(c) ==
  \/ MarkCheck(c)
  \/ MarkAdd(c)
  \/ LoginAnchor(c)
  \/ Dedup(c, "loginDedup", "loginCut", "store")
  \/ Cut(c, "loginCut", "store")
  \/ GapCheck(c)
  \/ Dedup(c, "gapDedup", "gapCut", "append")
  \/ Cut(c, "gapCut", "append")
  \/ Store(c)
-----------------------------------------------------------------------------
(* prune_stream_data, run by the prune endpoint and the retention sweep:
   journal, then sessions, then markers, each under its own lock.  An error
   ends the task where it stands. *)

PruneJournal(a, cutoff) ==
  /\ "prune" \in Ops
  /\ adminPc[a] = "idle"
  /\ \/ /\ JournalPrune(cutoff)
        /\ \E min \in DOMAIN index' \cup {None} :
             /\ (min = None) <=> (DOMAIN index' = {})
             /\ \A id \in DOMAIN index' : min <= id
             /\ adminMin' = [adminMin EXCEPT ![a] = min]
        /\ adminPc' = [adminPc EXCEPT ![a] = "pruneSessions"]
        /\ adminCutoff' = [adminCutoff EXCEPT ![a] = cutoff]
     \/ /\ "vacuum" \in Faults
        /\ JournalPruneVacuumFails(cutoff)
        /\ UNCHANGED adminVars
  /\ UNCHANGED <<sessionVars, now, connected, markers, ingestVars>>

PruneSessions(a) ==
  /\ adminPc[a] = "pruneSessions"
  /\ \/ /\ SessionPrune(adminMin[a])
        /\ adminPc' = [adminPc EXCEPT ![a] = "pruneMarkers"]
        /\ UNCHANGED adminCutoff
     \/ /\ "session" \in Faults
        /\ \/ SessionPruneUpdateFails(adminMin[a])
           \/ UNCHANGED sessionVars
        /\ adminPc' = [adminPc EXCEPT ![a] = "idle"]
        /\ adminCutoff' = [adminCutoff EXCEPT ![a] = 0]
  /\ adminMin' = [adminMin EXCEPT ![a] = None]
  /\ UNCHANGED <<journalVars, now, connected, markers, ingestVars>>

PruneMarkers(a) ==
  /\ adminPc[a] = "pruneMarkers"
  /\ markers' = [t \in Times |-> IF t < adminCutoff[a] THEN 0 ELSE markers[t]]
  /\ adminPc' = [adminPc EXCEPT ![a] = "idle"]
  /\ adminCutoff' = [adminCutoff EXCEPT ![a] = 0]
  /\ UNCHANGED <<journalVars, sessionVars, now, connected, ingestVars,
                 adminMin>>

(* reset_stream_handler: journal, then sessions, each under its own lock. *)
ResetJournal(a) ==
  /\ "reset" \in Ops
  /\ adminPc[a] = "idle"
  /\ JournalClear
  /\ adminPc' = [adminPc EXCEPT ![a] = "resetSessions"]
  /\ UNCHANGED <<sessionVars, now, connected, markers, ingestVars, adminMin,
                 adminCutoff>>

ResetSessions(a) ==
  /\ adminPc[a] = "resetSessions"
  /\ \/ SessionClear
     \/ "session" \in Faults /\ UNCHANGED sessionVars
  /\ adminPc' = [adminPc EXCEPT ![a] = "idle"]
  /\ UNCHANGED <<journalVars, now, connected, markers, ingestVars, adminMin,
                 adminCutoff>>

Maintain(a) ==
  \/ PruneSessions(a)
  \/ PruneMarkers(a)
  \/ ResetSessions(a)
-----------------------------------------------------------------------------
(* The owner's marker endpoints: add_marker_handler does not look for
   duplicates. *)
AddMarker(t) ==
  /\ "marker" \in Ops
  /\ markers[t] < MaxMarkers
  /\ markers' = [markers EXCEPT ![t] = @ + 1]
  /\ UNCHANGED <<journalVars, sessionVars, now, connected, ingestVars,
                 adminVars>>

DeleteMarker(t) ==
  /\ "marker" \in Ops
  /\ markers[t] > 0
  /\ markers' = [markers EXCEPT ![t] = @ - 1]
  /\ UNCHANGED <<journalVars, sessionVars, now, connected, ingestVars,
                 adminVars>>

Tick ==
  /\ now < MaxClock
  /\ now' = now + 1
  /\ UNCHANGED <<journalVars, sessionVars, connected, markers, ingestVars,
                 adminVars>>

(* The server stops at any point and comes back: every task is gone, and
   StreamEntry::new reopens the stream, scanning a journal that has no
   sessions. *)
Restart ==
  /\ "restart" \in Ops
  /\ JournalOpen
  /\ IF sessionRows = <<>> /\ rows # <<>>
     THEN \/ RetroactiveScan(Entries(rows))
          \/ "session" \in Faults /\ RetroactiveScanStops(Entries(rows))
     ELSE SessionOpen
  /\ connected' = FALSE
  /\ pc' = [c \in Conns |-> "closed"]
  /\ wall' = [c \in Conns |-> 0]
  /\ marks' = [c \in Conns |-> {}]
  /\ subs' = [c \in Conns |-> {}]
  /\ anchor' = [c \in Conns |-> None]
  /\ adminPc' = [a \in Admins |-> "idle"]
  /\ adminMin' = [a \in Admins |-> None]
  /\ adminCutoff' = [a \in Admins |-> 0]
  /\ UNCHANGED <<now, markers>>
-----------------------------------------------------------------------------
Next ==
  \/ \E c \in Conns :
       \/ Connect(c)
       \/ Close(c)
       \/ \E events \in Batches : Receive(c, events)
       \/ Ingest(c)
  \/ \E a \in Admins :
       \/ \E cutoff \in Cutoffs : PruneJournal(a, cutoff)
       \/ ResetJournal(a)
       \/ Maintain(a)
  \/ \E t \in Times : AddMarker(t) \/ DeleteMarker(t)
  \/ Tick
  \/ Restart

Spec == Init /\ [][Next]_vars

(* A runnable task is eventually run: tokio polls every task that is ready,
   and the RwLocks are FIFO.  Nothing makes a client send or an owner prune. *)
FairSpec ==
  /\ Spec
  /\ \A c \in Conns : WF_vars(Ingest(c))
  /\ \A a \in Admins : WF_vars(Maintain(a))
-----------------------------------------------------------------------------
(* Types. *)

IngestPc == {"closed", "recv", "markCheck", "markAdd", "loginAnchor",
             "loginDedup", "loginCut", "store", "gapDedup", "gapCut", "append"}
AdminPc == {"idle", "pruneSessions", "pruneMarkers", "resetSessions"}

Entry == [wall : Nat, log : Nat \cup {None}]
Row == [wall : Nat, log : Nat \cup {None}, batch : SUBSET Event]

JournalTypeOK ==
  /\ autoinc \in Nat
  /\ rows \in [DOMAIN rows -> Row]
  /\ index \in [DOMAIN index -> Entry]
  /\ DOMAIN rows \subseteq 1..autoinc
  /\ DOMAIN index \subseteq 1..autoinc

SessionTypeOK ==
  /\ sessions \in Seq([num : Nat \ {0}, start : Nat \ {0}])
  /\ DOMAIN sessionRows \subseteq Nat \ {0}
  /\ IsFiniteSet(DOMAIN sessionRows)
  /\ sessionRows \in [DOMAIN sessionRows -> Nat \ {0}]

TaskTypeOK ==
  /\ pc \in [Conns -> IngestPc]
  /\ wall \in [Conns -> Nat]
  /\ marks \in [Conns -> SUBSET Times]
  /\ subs \in [Conns -> SUBSET SubBatch]
  /\ anchor \in [Conns -> (Nat \ {0}) \cup {None}]
  /\ adminPc \in [Admins -> AdminPc]
  /\ adminMin \in [Admins -> (Nat \ {0}) \cup {None}]
  /\ adminCutoff \in [Admins -> Nat]

(* Every variable has its type; row ids lie within the counter. *)
TypeOK ==
  /\ JournalTypeOK
  /\ SessionTypeOK
  /\ TaskTypeOK
  /\ now \in Nat
  /\ connected \in BOOLEAN
  /\ markers \in [Times -> Nat]
-----------------------------------------------------------------------------
(* Safety of the journal. *)

(* Row ids are handed out in increasing order and never again, whatever was
   pruned, reset or lost to a restart in between: sessions and viewers hold
   on to them (journal.rs, IndexEntry.rowid). *)
IdsNeverReused ==
  [][/\ autoinc' >= autoinc
     /\ \A id \in DOMAIN rows' \ DOMAIN rows : id > autoinc]_vars

(* The seek index and the table hold the same entries. *)
IndexMirrorsRows == index = Entries(rows)

(* Whatever fails, every stored batch can be found through the index. *)
IndexCoversRows ==
  \A id \in DOMAIN rows :
    /\ id \in DOMAIN index
    /\ index[id] = [wall |-> rows[id].wall, log |-> rows[id].log]

-----------------------------------------------------------------------------
(* Safety of the sessions. *)

Starts == {sessions[i].start : i \in DOMAIN sessions}

SessionsBounded ==
  /\ \A i \in DOMAIN sessions : sessions[i].start <= NextBatchId
  /\ \A n \in DOMAIN sessionRows : sessionRows[n] <= NextBatchId

TasksBounded ==
  /\ \A c \in Conns : anchor[c] # None => anchor[c] <= NextBatchId
  /\ \A a \in Admins : adminMin[a] # None => adminMin[a] <= autoinc

(* No session and no task points beyond the next row id: a cut made ahead of
   its batch never leaves a hole that a later batch falls into. *)
AnchorsBounded == SessionsBounded /\ TasksBounded

(* A task about to cut knows where. *)
CutHasAnchor ==
  \A c \in Conns :
    pc[c] \in {"loginDedup", "loginCut", "gapDedup", "gapCut"} =>
      anchor[c] # None

(* The inductive invariant behind the safety theorems. *)
Inductive == TypeOK /\ CutHasAnchor /\ AnchorsBounded /\ IndexCoversRows

(* The list is in the order of play: SessionIndex::prune looks for the newest
   session from the end, and the viewer takes a session's end from its
   successor. *)
SessionsChronological ==
  \A i, j \in DOMAIN sessions : i < j => sessions[i].start < sessions[j].start

(* A break in play between two neighbouring stored batches is a session
   boundary, however restarts, failed writes and cuts interleave. *)
GapsAreCut ==
  \A id \in DOMAIN rows :
    LET earlier == {i \in DOMAIN rows : i < id}
    IN ( /\ earlier # {}
         /\ rows[id].log # None
         /\ IsSessionGap(EntryTs(rows[Newest(earlier)]), rows[id].log) )
       => id \in Starts

(* A cut that ingest has decided on, on a Login event or a break in play, is
   recorded. *)
EveryCutIsMade ==
  [][\A c \in Conns :
       pc[c] \in {"loginCut", "gapCut"} /\ pc'[c] \in {"store", "append"}
         => anchor[c] \in Starts']_vars

(* The sessions live ingest has cut are the ones retroactive_scan finds in
   the same journal, but for the first, which live ingest leaves open. *)
LiveMatchesScan ==
  rows # <<>> =>
    (Starts \cap DOMAIN rows) \cup {Oldest(DOMAIN rows)} = ScanStarts(index)

-----------------------------------------------------------------------------
(* Refinement: seen as a division of the stored batches by session, the store
   implements SessionPartition. *)

RunOf(id) == {j \in DOMAIN rows : \A s \in Starts : s <= id <=> s <= j}

Runs == [id \in DOMAIN rows |-> RunOf(id)]

Partition == INSTANCE SessionPartition WITH part <- Runs

(* A batch once stored keeps its session: later cuts, prunes, failures and
   restarts never move it to another one, short of all sessions going. *)
KeepsHistory == Partition!Spec
-----------------------------------------------------------------------------
(* Safety of the flag and the markers. *)

Open(c) == pc[c] # "closed"

(* The flag is raised only while a client is connected. *)
OpenWhileConnected == connected => \E c \in Conns : Open(c)

-----------------------------------------------------------------------------
(* Liveness. *)

(* Every sub-batch of an accepted batch reaches the journal. *)
AcceptedIsStored ==
  \A c \in Conns : \A sub \in UNION {SubBatches(b) : b \in Batches} :
    (sub \in subs[c]) ~> (\E id \in DOMAIN rows : rows[id].batch = sub)
=============================================================================
