------------------------------ MODULE Journal ------------------------------
(***************************************************************************)
(* The durable batch store of one stream (froklog-server/journal.rs): the  *)
(* `batches` table of the stream's SQLite file, its AUTOINCREMENT counter, *)
(* and the seek index kept in memory beside it.                            *)
(*                                                                         *)
(* Simplifications:                                                        *)
(* - The table and the index are functions from row id to entry.  The code *)
(*   keeps the index as a Vec in insertion order; that this is also row id *)
(*   order is not assumed but is what NewIdsAreLargest (StreamStore) says. *)
(* - A batch is the set of its events; compression, the JSON form and the  *)
(*   `seq` column are left out.                                            *)
(* - Each operator is one call made under the journal's write lock.        *)
(***************************************************************************)
EXTENDS Integers, FiniteSets, Functions

CONSTANTS
  None,         \* Option::None
  SessionGap    \* SESSION_GAP_SECS

ASSUME NoneAssumption == None \notin Nat
ASSUME GapAssumption == SessionGap \in Nat \ {0}

VARIABLES
  rows,         \* row id -> [wall, log, batch]: the table on disk
  index,        \* row id -> [wall, log]: the in-memory seek index
  autoinc       \* sqlite_sequence: the largest row id ever handed out

journalVars == <<rows, index, autoinc>>

JournalInit ==
  /\ rows = <<>>
  /\ index = <<>>
  /\ autoinc = 0
-----------------------------------------------------------------------------
(* Event timestamps. *)

LatestTs(events) == CHOOSE t \in {e.ts : e \in events} :
                      \A e \in events : e.ts <= t

(* EventBatch::max_log_ts *)
MaxLogTs(events) == IF events = {} THEN None ELSE LatestTs(events)

(* log_ts.unwrap_or(wall_ts): the time an entry is ordered and pruned by. *)
EntryTs(e) == IF e.log = None THEN e.wall ELSE e.log

Oldest(ids) == CHOOSE i \in ids : \A j \in ids : i <= j
Newest(ids) == CHOOSE i \in ids : \A j \in ids : j <= i

(* Faulty variant: the first entry instead of the last. *)
LogFirstTs == IF index = <<>> THEN None ELSE EntryTs(index[Oldest(DOMAIN index)])

LogLastTs == IF index = <<>> THEN None ELSE EntryTs(index[Newest(DOMAIN index)])

(* Faulty variant: a plain primary key, without AUTOINCREMENT. *)
NextIdOfRows ==
  IF DOMAIN rows = {} THEN 1 ELSE Newest(DOMAIN rows) + 1

NextBatchId == autoinc + 1

(* The entries the seek index holds for a table. *)
Entries(table) ==
  [id \in DOMAIN table |-> [wall |-> table[id].wall, log |-> table[id].log]]

(* session_index::is_session_gap: the one definition of a break in play.
   The subtraction in the code saturates, so time going backwards is no
   gap. *)
IsSessionGap(prev, ts) == prev # None /\ ts >= prev + SessionGap
-----------------------------------------------------------------------------
(* Journal::append: the row is inserted, then mirrored in the index. *)
JournalAppend(wall, events) ==
  LET id == NextBatchId
      log == MaxLogTs(events)
  IN /\ rows' = [i \in DOMAIN rows \cup {id} |->
                   IF i = id THEN [wall |-> wall, log |-> log, batch |-> events]
                             ELSE rows[i]]
     /\ index' = [i \in DOMAIN index \cup {id} |->
                   IF i = id THEN [wall |-> wall, log |-> log] ELSE index[i]]
     /\ autoinc' = id

(* Journal::clear: AUTOINCREMENT keeps counting after the rows are gone. *)
JournalClear ==
  /\ rows' = <<>>
  /\ index' = <<>>
  /\ UNCHANGED autoinc

Surviving(table, cutoff) ==
  {id \in DOMAIN table : EntryTs(table[id]) >= cutoff}

(* Journal::prune, to its end. *)
JournalPrune(cutoff) ==
  /\ rows' = Restrict(rows, Surviving(rows, cutoff))
  /\ index' = Restrict(index, Surviving(index, cutoff))
  /\ UNCHANGED autoinc

(* Journal::prune when VACUUM fails: the DELETE has been committed, and the
   `?` returns before the index is rebuilt.  VACUUM runs only when something
   was deleted. *)
JournalPruneVacuumFails(cutoff) ==
  /\ Surviving(rows, cutoff) # DOMAIN rows
  /\ rows' = Restrict(rows, Surviving(rows, cutoff))
  /\ UNCHANGED <<index, autoinc>>

(* Journal::open: the index is rebuilt from the table. *)
JournalOpen ==
  /\ index' = Entries(rows)
  /\ UNCHANGED <<rows, autoinc>>
=============================================================================
