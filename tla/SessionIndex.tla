---------------------------- MODULE SessionIndex ----------------------------
(***************************************************************************)
(* The play-session boundaries of one stream                               *)
(* (froklog-server/session_index.rs): the `sessions` table and the Vec     *)
(* loaded from it.  A session owns the batches from its start_batch_id up  *)
(* to the start of the next one.                                           *)
(*                                                                         *)
(* Simplifications: the start timestamps and the label of a session are    *)
(* display data and left out.  Each operator is one call made under the    *)
(* session index's write lock.                                             *)
(***************************************************************************)
EXTENDS Journal, Sequences

VARIABLES
  sessions,      \* the in-memory Vec: a sequence of [num, start]
  sessionRows    \* the table: num (the primary key) -> start_batch_id

sessionVars == <<sessions, sessionRows>>

SessionInit ==
  /\ sessions = <<>>
  /\ sessionRows = <<>>
-----------------------------------------------------------------------------
(* SessionIndex::last_start_id *)
LastStartId ==
  IF sessions = <<>> THEN None ELSE sessions[Len(sessions)].start

(* The increasing enumeration of a finite set of numbers, as the only member
   of a set. *)
Ascending(S) ==
  {s \in [1..Cardinality(S) -> S] :
     \A i, j \in DOMAIN s : i < j => s[i] < s[j]}

CutFromZero(start) ==
  LET num == Len(sessions)
  IN IF num \in DOMAIN sessionRows
     THEN UNCHANGED sessionVars
     ELSE /\ sessions' = Append(sessions, [num |-> num, start |-> start])
          /\ sessionRows' = [n \in DOMAIN sessionRows \cup {num} |->
                               IF n = num THEN start ELSE sessionRows[n]]

(* ingest.rs::cut_session: the new number is the length of the list plus
   one.  A number already in the table violates the primary key; the failed
   INSERT leaves the list alone and is only logged. *)
CutSession(start) ==
  LET num == Len(sessions) + 1
  IN IF num \in DOMAIN sessionRows
     THEN UNCHANGED sessionVars
     ELSE /\ sessions' = Append(sessions, [num |-> num, start |-> start])
          /\ sessionRows' = [n \in DOMAIN sessionRows \cup {num} |->
                               IF n = num THEN start ELSE sessionRows[n]]

(* SessionIndex::clear *)
SessionClear ==
  /\ sessions' = <<>>
  /\ sessionRows' = <<>>

(* Faulty variant: nothing is dropped before the re-anchoring. *)
KeepAll(k, min) == k = 1

(* The list position SessionIndex::prune keeps from: the last session that
   starts at or before the surviving range, or the first when none does. *)
IsKeepFrom(k, min) ==
  /\ \A j \in DOMAIN sessions : j > k => sessions[j].start > min
  /\ sessions[k].start <= min \/ k = 1

(* Faulty variant: the end of the list is dropped instead of its head. *)
TruncatedList(k, min) ==
  LET kept == SubSeq(sessions, 1, k)
  IN IF sessions[1].start < min THEN [kept EXCEPT ![1].start = min] ELSE kept

(* The list after the drain and the re-anchoring of its first session. *)
PrunedList(k, min) ==
  LET kept == SubSeq(sessions, k, Len(sessions))
  IN IF sessions[k].start < min THEN [kept EXCEPT ![1].start = min] ELSE kept

(* DELETE FROM sessions WHERE num < the first kept number, issued only when
   the list loses an entry. *)
RowsKept(k) ==
  IF k = 1 THEN DOMAIN sessionRows
  ELSE {n \in DOMAIN sessionRows : n >= sessions[k].num}

(* SessionIndex::prune.  `min` is the smallest surviving row id, None when
   the journal came out empty. *)
SessionPrune(min) ==
  \/ min = None /\ SessionClear
  \/ min # None /\ sessions = <<>> /\ UNCHANGED sessionVars
  \/ /\ min # None
     /\ \E k \in DOMAIN sessions :
          /\ IsKeepFrom(k, min)
          /\ sessions' = PrunedList(k, min)
          /\ sessionRows' = [n \in RowsKept(k) |->
                IF n = sessions[k].num /\ sessions[k].start < min
                THEN min ELSE sessionRows[n]]

(* The same when the re-anchoring UPDATE fails: the list has already been
   changed. *)
SessionPruneUpdateFails(min) ==
  /\ min # None
  /\ \E k \in DOMAIN sessions :
       /\ IsKeepFrom(k, min)
       /\ sessions[k].start < min
       /\ sessions' = PrunedList(k, min)
       /\ sessionRows' = Restrict(sessionRows, RowsKept(k))

(* SessionIndex::open: the table in the order of its numbers. *)
SessionOpen ==
  /\ \E nums \in Ascending(DOMAIN sessionRows) :
       sessions' = [i \in DOMAIN nums |->
                      [num |-> nums[i], start |-> sessionRows[nums[i]]]]
  /\ UNCHANGED sessionRows

(* The row ids at which retroactive_scan starts a session: the first batch,
   and each batch that follows a break in play. *)
ScanStarts(entries) ==
  {id \in DOMAIN entries :
     LET earlier == {i \in DOMAIN entries : i < id}
     IN \/ earlier = {}
        \/ IsSessionGap(EntryTs(entries[Newest(earlier)]), EntryTs(entries[id]))}

(* The list and the table after the first `done` of these sessions have been
   appended, one committed row each. *)
Scanned(starts, done) ==
  /\ sessions' = [i \in 1..done |-> [num |-> i, start |-> starts[i]]]
  /\ sessionRows' = [i \in 1..done |-> starts[i]]

(* SessionIndex::retroactive_scan, run by StreamEntry::new over a journal
   that has no sessions. *)
RetroactiveScan(entries) ==
  \E starts \in Ascending(ScanStarts(entries)) : Scanned(starts, Len(starts))

(* The same when an append fails, or when the server stops during the scan
   and is started again: sessions exist by then, and nothing scans the rest. *)
RetroactiveScanStops(entries) ==
  \E starts \in Ascending(ScanStarts(entries)) :
    \E done \in 0..Len(starts) - 1 : Scanned(starts, done)
=============================================================================
