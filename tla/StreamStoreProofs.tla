------------------------- MODULE StreamStoreProofs -------------------------
(***************************************************************************)
(* Proofs about StreamStore, for every set of connections, tasks, batches, *)
(* cutoffs, operations and faults: its tables, counters and anchors, then  *)
(* its sessions and that it implements SessionPartition.                   *)
(***************************************************************************)
EXTENDS StreamStore, OrderLemmas, SequenceTheorems, FiniteSetTheorems, TLAPS

(* A sub-batch with events has a log time. *)
LEMMA LatestTsType ==
  ASSUME NEW sub \in SubBatch, sub # {}
  PROVE  LatestTs(sub) \in Nat
<1>1. sub \subseteq Event
  BY InputAssumption DEF SubBatch
<1>2. PICK e \in sub : \A f \in sub : f.ts <= e.ts
  BY LatestAssumption
<1>3. e.ts \in {f.ts : f \in sub} /\ \A f \in sub : f.ts <= e.ts
  BY <1>2
<1>4. LatestTs(sub) \in {f.ts : f \in sub}
  BY <1>3 DEF LatestTs
<1>5. ASSUME NEW f \in sub PROVE f.ts \in Nat
  <2>1. f \in [ts : Times \cup {0}, kind : Kinds]
    BY <1>1 DEF Event
  <2>2. f.ts \in Times \cup {0}
    BY <2>1
  <2>3. Times \subseteq Nat
    BY InputAssumption
  <2>4. CASE f.ts \in Times
    BY <2>3, <2>4
  <2>5. CASE f.ts = 0
    BY <2>5
  <2> QED
    BY <2>2, <2>4, <2>5
<1> QED
  BY <1>4, <1>5

LEMMA MaxLogTsType ==
  ASSUME NEW sub \in SubBatch
  PROVE  MaxLogTs(sub) \in Nat \cup {None}
BY LatestTsType DEF MaxLogTs

LEMMA SubBatchesType ==
  ASSUME NEW b \in Batches
  PROVE  SubBatches(b) \subseteq SubBatch
<1>1. \A s \in SUBSET b : s \in SubBatch
  BY DEF SubBatch
<1>2. \A s \in SubBatches(b) : s \in SUBSET b
  BY DEF SubBatches
<1> QED
  BY <1>1, <1>2
-----------------------------------------------------------------------------
(* The journal's operations. *)

JournalInv == JournalTypeOK /\ IndexCoversRows

LEMMA AppendKeepsJournal ==
  ASSUME JournalInv, NEW w \in Nat, NEW sub \in SubBatch, JournalAppend(w, sub)
  PROVE  /\ JournalInv'
         /\ autoinc' = autoinc + 1
         /\ DOMAIN rows' \ DOMAIN rows \subseteq {autoinc + 1}
<1> DEFINE id == autoinc + 1
           log == MaxLogTs(sub)
<1>1. log \in Nat \cup {None} /\ sub \in SUBSET Event
  BY MaxLogTsType, InputAssumption DEF SubBatch
<1>2. /\ rows' = [i \in DOMAIN rows \cup {id} |->
                    IF i = id THEN [wall |-> w, log |-> log, batch |-> sub]
                              ELSE rows[i]]
      /\ index' = [i \in DOMAIN index \cup {id} |->
                    IF i = id THEN [wall |-> w, log |-> log] ELSE index[i]]
      /\ autoinc' = id
  BY DEF JournalAppend, NextBatchId
<1>3. DOMAIN rows' = DOMAIN rows \cup {id} /\ DOMAIN index' = DOMAIN index \cup {id}
  BY <1>2
<1>4. DOMAIN rows' \subseteq 1..autoinc' /\ DOMAIN index' \subseteq 1..autoinc'
  BY <1>2, <1>3 DEF JournalInv, JournalTypeOK
<1>5. rows' \in [DOMAIN rows' -> Row]
  BY <1>1, <1>2, <1>3 DEF JournalInv, JournalTypeOK, Row
<1>6. index' \in [DOMAIN index' -> Entry]
  BY <1>1, <1>2, <1>3 DEF JournalInv, JournalTypeOK, Entry
<1>7. IndexCoversRows'
  <2> SUFFICES ASSUME NEW i \in DOMAIN rows'
               PROVE  /\ i \in DOMAIN index'
                      /\ index'[i] = [wall |-> rows'[i].wall, log |-> rows'[i].log]
    BY DEF IndexCoversRows
  <2>1. CASE i = id
    BY <2>1, <1>2, <1>3
  <2>2. CASE i # id
    BY <2>2, <1>2, <1>3 DEF JournalInv, IndexCoversRows
  <2> QED
    BY <2>1, <2>2
<1> QED
  BY <1>2, <1>3, <1>4, <1>5, <1>6, <1>7 DEF JournalInv, JournalTypeOK

LEMMA ShrinkKeepsJournal ==
  ASSUME JournalInv, NEW keep \in SUBSET DOMAIN rows, NEW shown,
         shown \subseteq DOMAIN index, keep \subseteq shown,
         rows' = Restrict(rows, keep), index' = Restrict(index, shown),
         UNCHANGED autoinc
  PROVE  JournalInv' /\ DOMAIN rows' = keep /\ DOMAIN index' = shown
<1>1. DOMAIN rows' = keep /\ DOMAIN index' = shown
  BY DEF Restrict
<1>2. \A i \in keep : rows'[i] = rows[i]
  BY DEF Restrict
<1>3. \A i \in shown : index'[i] = index[i]
  BY DEF Restrict
<1>4. rows' \in [DOMAIN rows' -> Row]
  BY <1>1 DEF Restrict, JournalInv, JournalTypeOK
<1>5. index' \in [DOMAIN index' -> Entry]
  BY <1>1 DEF Restrict, JournalInv, JournalTypeOK
<1>6. IndexCoversRows'
  BY <1>1, <1>2, <1>3 DEF JournalInv, IndexCoversRows
<1> QED
  BY <1>1, <1>4, <1>5, <1>6 DEF JournalInv, JournalTypeOK
-----------------------------------------------------------------------------
(* The session index's operations. *)

SessionInv == SessionTypeOK /\ SessionsBounded

Session == [num : Nat \ {0}, start : Nat \ {0}]

LEMMA SuccMonotone ==
  ASSUME NEW m \in Nat, NEW n \in Nat, NEW x \in Nat, m <= n, x <= m + 1
  PROVE  x <= n + 1
OBVIOUS

LEMMA SessionInvGrows ==
  ASSUME SessionInv, UNCHANGED sessionVars, autoinc \in Nat, autoinc' \in Nat,
         autoinc <= autoinc'
  PROVE  SessionInv'
<1>1. SessionTypeOK'
  BY DEF SessionInv, SessionTypeOK, sessionVars
<1>2. \A i \in DOMAIN sessions : sessions[i].start \in Nat
  <2>1. sessions \in Seq(Session)
    BY DEF SessionInv, SessionTypeOK, Session
  <2>2. \A i \in DOMAIN sessions : sessions[i] \in Session
    BY <2>1
  <2> QED
    BY <2>2 DEF Session
<1>3. \A n \in DOMAIN sessionRows : sessionRows[n] \in Nat
  BY DEF SessionInv, SessionTypeOK
<1>4. \A x \in Nat : x <= NextBatchId => x <= NextBatchId'
  <2> SUFFICES ASSUME NEW x \in Nat, x <= NextBatchId
               PROVE  x <= NextBatchId'
    OBVIOUS
  <2>1. x <= autoinc + 1
    BY DEF NextBatchId
  <2>2. x <= autoinc' + 1
    BY <2>1, SuccMonotone
  <2> QED
    BY <2>2 DEF NextBatchId
<1>5. UNCHANGED <<sessions, sessionRows>>
  BY DEF sessionVars
<1>6. SessionsBounded'
  BY <1>2, <1>3, <1>4, <1>5 DEF SessionInv, SessionsBounded
<1> QED
  BY <1>1, <1>6 DEF SessionInv

LEMMA CutKeepsSessions ==
  ASSUME SessionInv, UNCHANGED autoinc, NEW start \in Nat \ {0},
         start <= NextBatchId, CutSession(start)
  PROVE  SessionInv'
<1> DEFINE num == Len(sessions) + 1
<1>1. sessions \in Seq(Session)
  BY DEF SessionInv, SessionTypeOK, Session
<1>2. num \in Nat \ {0}
  BY <1>1
<1>3. NextBatchId' = NextBatchId
  BY DEF NextBatchId
<1>4. CASE num \in DOMAIN sessionRows
  BY <1>3, <1>4 DEF CutSession, SessionInv, SessionTypeOK, SessionsBounded,
                    sessionVars
<1>5. CASE num \notin DOMAIN sessionRows
  <2>1. /\ sessions' = Append(sessions, [num |-> num, start |-> start])
        /\ sessionRows' = [n \in DOMAIN sessionRows \cup {num} |->
                             IF n = num THEN start ELSE sessionRows[n]]
    BY <1>5 DEF CutSession
  <2>2. [num |-> num, start |-> start] \in Session
    BY <1>2 DEF Session
  <2>3. /\ sessions' \in Seq(Session)
        /\ Len(sessions') = num
        /\ \A i \in 1..Len(sessions) : sessions'[i] = sessions[i]
        /\ sessions'[num] = [num |-> num, start |-> start]
    BY <1>1, <2>1, <2>2, AppendProperties
  <2>4. \A i \in DOMAIN sessions' : sessions'[i].start <= NextBatchId
    <3> SUFFICES ASSUME NEW i \in DOMAIN sessions'
                 PROVE  sessions'[i].start <= NextBatchId
      OBVIOUS
    <3>1. i \in 1..num
      BY <2>3
    <3>2. CASE i = num
      BY <2>3, <3>2
    <3>3. CASE i # num
      <4>1. i \in DOMAIN sessions
        BY <1>1, <3>1, <3>3
      <4> QED
        BY <4>1, <1>1, <2>3 DEF SessionInv, SessionsBounded
    <3> QED
      BY <3>2, <3>3
  <2>5. /\ DOMAIN sessionRows' = DOMAIN sessionRows \cup {num}
        /\ \A n \in DOMAIN sessionRows' :
             sessionRows'[n] = start \/ (n \in DOMAIN sessionRows /\
                                         sessionRows'[n] = sessionRows[n])
    BY <2>1
  <2>6. IsFiniteSet(DOMAIN sessionRows')
    <3>1. IsFiniteSet(DOMAIN sessionRows)
      BY DEF SessionInv, SessionTypeOK
    <3>2. IsFiniteSet(DOMAIN sessionRows \cup {num})
      BY <3>1, FS_AddElement
    <3> QED
      BY <2>5, <3>2
  <2>7. sessionRows' \in [DOMAIN sessionRows' -> Nat \ {0}]
    BY <2>1, <2>5 DEF SessionInv, SessionTypeOK
  <2>8. \A n \in DOMAIN sessionRows' : sessionRows'[n] <= NextBatchId
    BY <2>5 DEF SessionInv, SessionsBounded
  <2> QED
    BY <1>2, <1>3, <2>3, <2>4, <2>5, <2>6, <2>7, <2>8
    DEF SessionInv, SessionTypeOK, SessionsBounded, Session
<1> QED
  BY <1>4, <1>5

LEMMA ClearKeepsSessions ==
  ASSUME SessionClear
  PROVE  SessionInv'
<1>1. sessions' = <<>> /\ sessionRows' = <<>>
  BY DEF SessionClear
<1>2. sessions' \in Seq(Session) /\ DOMAIN sessions' = {} /\ DOMAIN sessionRows' = {}
  BY <1>1
<1>3. sessionRows' \in [DOMAIN sessionRows' -> Nat \ {0}]
  BY <1>1
<1>4. IsFiniteSet(DOMAIN sessionRows')
  BY <1>2, FS_EmptySet
<1> QED
  BY <1>2, <1>3, <1>4 DEF SessionInv, SessionTypeOK, SessionsBounded, Session

(* The drain and the re-anchoring of SessionIndex::prune. *)
LEMMA PrunedListType ==
  ASSUME SessionInv, autoinc \in Nat, NEW min \in Nat \ {0}, min <= autoinc,
         NEW k \in DOMAIN sessions
  PROVE  /\ PrunedList(k, min) \in Seq(Session)
         /\ \A i \in DOMAIN PrunedList(k, min) :
              PrunedList(k, min)[i].start <= NextBatchId
<1> DEFINE kept == SubSeq(sessions, k, Len(sessions))
           e == [sessions[k] EXCEPT !.start = min]
<1>1. sessions \in Seq(Session) /\ k \in 1..Len(sessions) /\ Len(sessions) \in Nat
  BY DEF SessionInv, SessionTypeOK, Session
<1>2. \A i \in k..Len(sessions) : sessions[i] \in Session
  BY <1>1
<1>3. /\ kept \in Seq(Session)
      /\ Len(kept) = Len(sessions) - k + 1
      /\ \A i \in 1..Len(sessions) - k + 1 : kept[i] = sessions[k + i - 1]
  BY <1>1, <1>2, SubSeqProperties
<1>4. 1 \in 1..Len(kept) /\ kept[1] = sessions[k]
  BY <1>1, <1>3
<1>5. e \in Session
  BY <1>2, <1>1 DEF Session
<1>6. \A i \in 1..Len(kept) : kept[i].start <= NextBatchId
  BY <1>1, <1>3 DEF SessionInv, SessionsBounded
<1>7. CASE sessions[k].start < min
  <2>1. PrunedList(k, min) = [kept EXCEPT ![1] = e]
    BY <1>7, <1>4 DEF PrunedList
  <2>2. /\ PrunedList(k, min) \in Seq(Session)
        /\ Len(PrunedList(k, min)) = Len(kept)
        /\ \A j \in 1..Len(kept) :
             PrunedList(k, min)[j] = IF j = 1 THEN e ELSE kept[j]
    <3> HIDE DEF kept, e
    <3>1. kept \in Seq(Session) /\ 1 \in 1..Len(kept) /\ e \in Session
      BY <1>3, <1>4, <1>5
    <3> QED
      BY <3>1, <2>1, ExceptSeq
  <2>3. e.start <= NextBatchId
    BY <1>2, <1>1 DEF NextBatchId, Session
  <2>4. DOMAIN PrunedList(k, min) = 1..Len(kept)
    BY <2>2
  <2>5. \A i \in 1..Len(kept) : PrunedList(k, min)[i].start <= NextBatchId
    BY <2>2, <2>3, <1>6
  <2> QED
    BY <2>2, <2>4, <2>5
<1>8. CASE ~(sessions[k].start < min)
  <2>1. PrunedList(k, min) = kept
    BY <1>8 DEF PrunedList
  <2>2. DOMAIN kept = 1..Len(kept)
    BY <1>3
  <2> QED
    BY <2>1, <2>2, <1>3, <1>6
<1> QED
  BY <1>7, <1>8

LEMMA RowsKeptType ==
  ASSUME SessionInv, NEW k
  PROVE  /\ RowsKept(k) \subseteq DOMAIN sessionRows
         /\ IsFiniteSet(RowsKept(k))
         /\ RowsKept(k) \subseteq Nat \ {0}
<1>1. RowsKept(k) \subseteq DOMAIN sessionRows
  BY DEF RowsKept
<1> QED
  BY <1>1, FS_Subset DEF SessionInv, SessionTypeOK

LEMMA PruneKeepsSessions ==
  ASSUME SessionInv, UNCHANGED autoinc, autoinc \in Nat,
         NEW min \in (Nat \ {0}) \cup {None}, min # None => min <= autoinc,
         SessionPrune(min) \/ SessionPruneUpdateFails(min)
  PROVE  SessionInv'
<1>1. NextBatchId' = NextBatchId /\ NextBatchId = autoinc + 1
  BY DEF NextBatchId
<1>2. CASE UNCHANGED sessionVars
  BY <1>1, <1>2 DEF SessionInv, SessionTypeOK, SessionsBounded, sessionVars
<1>3. CASE SessionClear
  BY <1>3, ClearKeepsSessions
<1>4. ASSUME NEW k \in DOMAIN sessions, min # None,
             sessions' = PrunedList(k, min),
             DOMAIN sessionRows' = RowsKept(k),
             sessionRows' \in [RowsKept(k) -> Nat \ {0}],
             \A n \in RowsKept(k) :
               sessionRows'[n] = min \/ sessionRows'[n] = sessionRows[n]
      PROVE  SessionInv'
  <2>1. min \in Nat \ {0} /\ min <= autoinc
    BY <1>4
  <2>2. /\ sessions' \in Seq(Session)
        /\ \A i \in DOMAIN sessions' : sessions'[i].start <= NextBatchId
    BY <1>4, <2>1, PrunedListType
  <2>3. \A n \in DOMAIN sessionRows' : sessionRows'[n] <= NextBatchId
    BY <1>4, <2>1, <1>1, RowsKeptType DEF SessionInv, SessionsBounded
  <2> QED
    BY <1>1, <1>4, <2>2, <2>3, RowsKeptType
    DEF SessionInv, SessionTypeOK, SessionsBounded, Session
<1>5. ASSUME NEW k \in DOMAIN sessions, min # None,
             sessions' = PrunedList(k, min),
             sessionRows' = [n \in RowsKept(k) |->
                IF n = sessions[k].num /\ sessions[k].start < min
                THEN min ELSE sessionRows[n]]
      PROVE  SessionInv'
  <2>1. \A n \in RowsKept(k) : sessionRows[n] \in Nat \ {0}
    BY RowsKeptType DEF SessionInv, SessionTypeOK
  <2> QED
    BY <1>4, <1>5, <2>1
<1>6. ASSUME NEW k \in DOMAIN sessions, min # None,
             sessions' = PrunedList(k, min),
             sessionRows' = Restrict(sessionRows, RowsKept(k))
      PROVE  SessionInv'
  <2>1. \A n \in RowsKept(k) : sessionRows[n] \in Nat \ {0}
    BY RowsKeptType DEF SessionInv, SessionTypeOK
  <2> QED
    BY <1>4, <1>6, <2>1 DEF Restrict
<1> QED
  BY <1>2, <1>3, <1>5, <1>6 DEF SessionPrune, SessionPruneUpdateFails

LEMMA OpenKeepsSessions ==
  ASSUME SessionInv, UNCHANGED autoinc, SessionOpen
  PROVE  SessionInv'
<1> DEFINE S == DOMAIN sessionRows
<1>1. PICK nums \in Ascending(S) :
        sessions' = [i \in DOMAIN nums |->
                       [num |-> nums[i], start |-> sessionRows[nums[i]]]]
  BY DEF SessionOpen
<1>2. Cardinality(S) \in Nat
  BY FS_CardinalityType DEF SessionInv, SessionTypeOK
<1>3. nums \in [1..Cardinality(S) -> S]
  BY DEF Ascending
<1>4. DOMAIN nums = 1..Cardinality(S)
  BY <1>3
<1>5. \A i \in 1..Cardinality(S) :
        [num |-> nums[i], start |-> sessionRows[nums[i]]] \in Session
  BY <1>3 DEF SessionInv, SessionTypeOK, Session
<1>6. sessions' \in Seq(Session)
  BY <1>1, <1>2, <1>4, <1>5
<1>7. \A i \in DOMAIN sessions' : sessions'[i].start <= NextBatchId
  BY <1>1, <1>3, <1>4 DEF SessionInv, SessionsBounded
<1>8. UNCHANGED sessionRows /\ NextBatchId' = NextBatchId
  BY DEF SessionOpen, NextBatchId
<1> QED
  BY <1>6, <1>7, <1>8 DEF SessionInv, SessionTypeOK, SessionsBounded, Session

LEMMA ScanKeepsSessions ==
  ASSUME JournalInv, UNCHANGED autoinc,
         RetroactiveScan(Entries(rows)) \/ RetroactiveScanStops(Entries(rows))
  PROVE  SessionInv'
<1> DEFINE S == ScanStarts(Entries(rows))
<1>1. S \subseteq 1..autoinc /\ autoinc \in Nat
  BY DEF ScanStarts, Entries, JournalInv, JournalTypeOK
<1>2. IsFiniteSet(S)
  <2>1. IsFiniteSet(1..autoinc)
    BY <1>1, FS_Interval
  <2> QED
    BY <1>1, <2>1, FS_Subset
<1>3. Cardinality(S) \in Nat
  BY <1>2, FS_CardinalityType
<1>4. PICK starts \in Ascending(S), done \in 0..Cardinality(S) :
        Scanned(starts, done)
  <2>1. ASSUME NEW starts \in Ascending(S)
        PROVE  Len(starts) = Cardinality(S)
    BY <1>3, <2>1 DEF Ascending
  <2>2. CASE RetroactiveScan(Entries(rows))
    <3>1. PICK starts \in Ascending(S) : Scanned(starts, Len(starts))
      BY <2>2 DEF RetroactiveScan
    <3> QED
      BY <3>1, <2>1, <1>3
  <2>3. CASE RetroactiveScanStops(Entries(rows))
    <3>1. PICK starts \in Ascending(S) :
            \E done \in 0..Len(starts) - 1 : Scanned(starts, done)
      BY <2>3 DEF RetroactiveScanStops
    <3> QED
      BY <3>1, <2>1, <1>3
  <2> QED
    BY <2>2, <2>3
<1>5. /\ sessions' = [i \in 1..done |-> [num |-> i, start |-> starts[i]]]
      /\ sessionRows' = [i \in 1..done |-> starts[i]]
      /\ done \in Nat
  BY <1>4 DEF Scanned
<1>6. \A i \in 1..done :
        starts[i] \in Nat \ {0} /\ starts[i] <= autoinc /\ i \in Nat \ {0}
  BY <1>1, <1>3, <1>4 DEF Ascending
<1>7. sessions' \in Seq(Session)
  <2>1. \A i \in 1..done : [num |-> i, start |-> starts[i]] \in Session
    BY <1>6 DEF Session
  <2> QED
    BY <1>5, <2>1
<1>8. NextBatchId' = autoinc + 1
  BY DEF NextBatchId
<1>9. \A i \in DOMAIN sessions' : sessions'[i].start <= NextBatchId'
  BY <1>1, <1>5, <1>6, <1>8
<1>10. \A n \in DOMAIN sessionRows' : sessionRows'[n] <= NextBatchId'
  BY <1>1, <1>5, <1>6, <1>8
<1>11. IsFiniteSet(DOMAIN sessionRows')
  BY <1>5, FS_Interval
<1>12. /\ sessionRows' \in [DOMAIN sessionRows' -> Nat \ {0}]
       /\ DOMAIN sessionRows' \subseteq Nat \ {0}
  BY <1>5, <1>6
<1> QED
  BY <1>7, <1>9, <1>10, <1>11, <1>12
  DEF SessionInv, SessionTypeOK, SessionsBounded, Session
-----------------------------------------------------------------------------
(* The inductive invariant in four parts, one for each kind of state. *)

IngestInv ==
  /\ pc \in [Conns -> IngestPc]
  /\ wall \in [Conns -> Nat]
  /\ marks \in [Conns -> SUBSET Times]
  /\ subs \in [Conns -> SUBSET SubBatch]
  /\ anchor \in [Conns -> (Nat \ {0}) \cup {None}]
  /\ \A c \in Conns : anchor[c] # None => anchor[c] <= NextBatchId
  /\ CutHasAnchor

AdminInv ==
  /\ adminPc \in [Admins -> AdminPc]
  /\ adminMin \in [Admins -> (Nat \ {0}) \cup {None}]
  /\ adminCutoff \in [Admins -> Nat]
  /\ \A a \in Admins : adminMin[a] # None => adminMin[a] <= autoinc

FlagInv ==
  /\ now \in Nat
  /\ connected \in BOOLEAN
  /\ markers \in [Times -> Nat]

LEMMA InductiveParts ==
  Inductive <=> JournalInv /\ SessionInv /\ IngestInv /\ AdminInv /\ FlagInv
BY DEF Inductive, TypeOK, TaskTypeOK, AnchorsBounded, TasksBounded, JournalInv,
       SessionInv, IngestInv, AdminInv, FlagInv

LEMMA InductivePartsPrime ==
  Inductive' <=>
    JournalInv' /\ SessionInv' /\ IngestInv' /\ AdminInv' /\ FlagInv'
BY InductiveParts, PTL

(* What a step may do to the row ids. *)
IdStep ==
  /\ autoinc \in Nat
  /\ autoinc' \in Nat
  /\ autoinc' >= autoinc
  /\ \A id \in DOMAIN rows' \ DOMAIN rows : id > autoinc

LEMMA IngestUnchanged ==
  ASSUME IngestInv, UNCHANGED ingestVars, autoinc \in Nat, autoinc' \in Nat,
         autoinc <= autoinc'
  PROVE  IngestInv'
<1>1. UNCHANGED <<pc, wall, marks, subs, anchor>>
  BY DEF ingestVars
<1>2. ASSUME NEW c \in Conns, anchor[c] # None
      PROVE  anchor[c] <= NextBatchId'
  <2>1. anchor[c] \in (Nat \ {0}) \cup {None} /\ anchor[c] <= NextBatchId
    BY <1>2 DEF IngestInv
  <2>2. anchor[c] \in Nat
    BY <1>2, <2>1
  <2> QED
    BY <2>1, <2>2, SuccMonotone DEF NextBatchId
<1> QED
  BY <1>1, <1>2 DEF IngestInv, CutHasAnchor

LEMMA AdminUnchanged ==
  ASSUME AdminInv, UNCHANGED adminVars, autoinc \in Nat, autoinc' \in Nat,
         autoinc <= autoinc'
  PROVE  AdminInv'
<1>1. UNCHANGED <<adminPc, adminMin, adminCutoff>>
  BY DEF adminVars
<1>2. ASSUME NEW a \in Admins, adminMin[a] # None
      PROVE  adminMin[a] <= autoinc'
  <2>1. adminMin[a] \in (Nat \ {0}) \cup {None} /\ adminMin[a] <= autoinc
    BY <1>2 DEF AdminInv
  <2>2. adminMin[a] \in Nat
    BY <1>2, <2>1
  <2> QED
    BY <2>1, <2>2
<1> QED
  BY <1>1, <1>2 DEF AdminInv

LEMMA JournalUnchanged ==
  ASSUME JournalInv, UNCHANGED journalVars
  PROVE  JournalInv' /\ IdStep
BY DEF JournalInv, JournalTypeOK, IndexCoversRows, journalVars, IdStep

(* A step that leaves the journal and the sessions alone. *)
LEMMA QuietStep ==
  ASSUME Inductive, UNCHANGED <<journalVars, sessionVars>>,
         IngestInv', AdminInv', FlagInv'
  PROVE  Inductive' /\ IdStep
<1>1. JournalInv /\ SessionInv
  BY InductiveParts
<1>2. JournalInv' /\ IdStep
  BY <1>1, JournalUnchanged
<1>3. SessionInv'
  <2>1. UNCHANGED sessionVars /\ autoinc \in Nat /\ autoinc' \in Nat /\ autoinc <= autoinc'
    BY <1>2 DEF IdStep, journalVars
  <2> QED
    BY <1>1, <2>1, SessionInvGrows
<1> QED
  BY <1>2, <1>3, InductivePartsPrime
-----------------------------------------------------------------------------
(* Steps of an ingest task. *)

LEMMA HelloAndMarksKeep ==
  ASSUME Inductive, NEW c \in Conns,
         Connect(c) \/ Close(c) \/ (\E events \in Batches : Receive(c, events))
           \/ MarkCheck(c) \/ MarkAdd(c)
  PROVE  Inductive' /\ IdStep
<1>1. IngestInv /\ AdminInv /\ FlagInv /\ JournalInv
  BY InductiveParts
<1>2. UNCHANGED <<journalVars, sessionVars, now, anchor, adminVars>>
  BY DEF Connect, Close, Receive, MarkCheck, MarkAdd
<1>3. AdminInv' /\ NextBatchId' = NextBatchId
  BY <1>1, <1>2, AdminUnchanged DEF journalVars, NextBatchId, JournalInv,
     JournalTypeOK
<1>4. CutHasAnchor'
  BY <1>1, <1>2 DEF IngestInv, CutHasAnchor, Connect, Close, Receive, MarkCheck,
     MarkAdd, AfterMarks
<1>5. \A p \in {"recv", "closed", "markCheck", "markAdd", "loginAnchor", "store"} :
        [pc EXCEPT ![c] = p] \in [Conns -> IngestPc]
  BY <1>1 DEF IngestInv, IngestPc
<1>6. pc' \in [Conns -> IngestPc]
  BY <1>5 DEF Connect, Close, Receive, MarkCheck, MarkAdd, AfterMarks
<1>7. wall' \in [Conns -> Nat]
  BY <1>1 DEF IngestInv, FlagInv, Connect, Close, Receive, MarkCheck, MarkAdd
<1>8. subs' \in [Conns -> SUBSET SubBatch]
  BY <1>1, SubBatchesType DEF IngestInv, Connect, Close, Receive, MarkCheck,
     MarkAdd
<1>9. marks' \in [Conns -> SUBSET Times]
  <2>1. CASE \E events \in Batches : Receive(c, events)
    <3>1. PICK events \in Batches : Receive(c, events)
      BY <2>1
    <3> DEFINE raids == {e.ts : e \in {x \in events : x.kind = "raid"}}
    <3>2. events \subseteq Event
      BY InputAssumption
    <3>3. \A e \in events : e.kind = "raid" => e.ts \in Times
      <4> SUFFICES ASSUME NEW e \in events, e.kind = "raid" PROVE e.ts \in Times
        OBVIOUS
      <4>1. e \in [ts : Times \cup {0}, kind : Kinds] /\ e.ts # 0
        BY <3>2 DEF Event
      <4> QED
        BY <4>1
    <3>4. raids \in SUBSET Times
      BY <3>3
    <3> QED
      BY <3>1, <3>4, <1>1 DEF Receive, IngestInv
  <2>2. CASE ~ \E events \in Batches : Receive(c, events)
    BY <2>2, <1>1 DEF IngestInv, Connect, Close, MarkCheck, MarkAdd
  <2> QED
    BY <2>1, <2>2
<1>10. IngestInv'
  BY <1>1, <1>2, <1>3, <1>4, <1>6, <1>7, <1>8, <1>9 DEF IngestInv
<1>11. FlagInv'
  <2>1. \A t \in Times : [markers EXCEPT ![t] = @ + 1] \in [Times -> Nat]
    BY <1>1 DEF FlagInv
  <2>2. CASE MarkAdd(c)
    <3>1. PICK t : markers' = [markers EXCEPT ![t] = @ + 1]
      BY <2>2 DEF MarkAdd
    <3>2. CASE t \in Times
      BY <3>1, <3>2, <2>1, <2>2, <1>1, <1>2 DEF FlagInv, MarkAdd
    <3>3. CASE t \notin Times
      BY <3>1, <3>3, <2>2, <1>1, <1>2 DEF FlagInv, MarkAdd
    <3> QED
      BY <3>2, <3>3
  <2>3. CASE ~ MarkAdd(c)
    BY <2>3, <1>1, <1>2 DEF FlagInv, Connect, Close, Receive, MarkCheck
  <2> QED
    BY <2>2, <2>3
<1> QED
  BY <1>2, <1>3, <1>10, <1>11, QuietStep

LEMMA DecidingKeeps ==
  ASSUME Inductive, NEW c \in Conns,
         \/ LoginAnchor(c)
         \/ Dedup(c, "loginDedup", "loginCut", "store")
         \/ GapCheck(c)
         \/ Dedup(c, "gapDedup", "gapCut", "append")
  PROVE  Inductive' /\ IdStep
<1>1. IngestInv /\ AdminInv /\ FlagInv /\ JournalInv
  BY InductiveParts
<1>2. UNCHANGED <<journalVars, sessionVars, now, connected, markers, wall, marks,
                  subs, adminVars>>
  BY DEF LoginAnchor, Dedup, GapCheck
<1>3. AdminInv' /\ NextBatchId' = NextBatchId /\ NextBatchId \in Nat \ {0}
  BY <1>1, <1>2, AdminUnchanged DEF journalVars, NextBatchId, JournalInv,
     JournalTypeOK
<1>4. NextBatchId # None
  BY <1>3, NoneAssumption
<1>5. /\ pc' \in [Conns -> IngestPc]
      /\ anchor' \in [Conns -> (Nat \ {0}) \cup {None}]
  BY <1>1, <1>3 DEF IngestInv, IngestPc, LoginAnchor, Dedup, GapCheck
<1>6. \A d \in Conns : anchor'[d] # None => anchor'[d] <= NextBatchId'
  BY <1>1, <1>3 DEF IngestInv, LoginAnchor, Dedup, GapCheck
<1>7. CutHasAnchor'
  BY <1>1, <1>4 DEF IngestInv, CutHasAnchor, LoginAnchor, Dedup, GapCheck
<1>8. IngestInv'
  BY <1>1, <1>2, <1>5, <1>6, <1>7 DEF IngestInv
<1>9. FlagInv'
  BY <1>1, <1>2 DEF FlagInv
<1> QED
  BY <1>2, <1>3, <1>8, <1>9, QuietStep

LEMMA CutKeeps ==
  ASSUME Inductive, NEW c \in Conns,
         Cut(c, "loginCut", "store") \/ Cut(c, "gapCut", "append")
  PROVE  Inductive' /\ IdStep
<1>1. IngestInv /\ AdminInv /\ FlagInv /\ JournalInv /\ SessionInv
  BY InductiveParts
<1>2. UNCHANGED <<journalVars, now, connected, markers, wall, marks, subs,
                  adminVars>>
  BY DEF Cut
<1>3. JournalInv' /\ IdStep
  BY <1>1, <1>2, JournalUnchanged
<1>4. AdminInv' /\ NextBatchId' = NextBatchId
  BY <1>1, <1>2, AdminUnchanged DEF journalVars, NextBatchId, JournalInv,
     JournalTypeOK
<1>5. pc[c] \in {"loginCut", "gapCut"}
  BY DEF Cut
<1>6. anchor[c] # None /\ anchor[c] <= NextBatchId
  BY <1>1, <1>5 DEF IngestInv, CutHasAnchor
<1>7. anchor[c] \in Nat \ {0}
  <2>1. anchor[c] \in (Nat \ {0}) \cup {None}
    BY <1>1 DEF IngestInv
  <2> QED
    BY <2>1, <1>6
<1>8. SessionInv'
  <2>1. CASE CutSession(anchor[c])
    BY <2>1, <1>1, <1>2, <1>6, <1>7, CutKeepsSessions DEF journalVars
  <2>2. CASE UNCHANGED sessionVars
    BY <2>2, <1>1, <1>3, SessionInvGrows DEF IdStep
  <2> QED
    BY <2>1, <2>2 DEF Cut
<1>9. /\ pc' \in [Conns -> IngestPc]
      /\ anchor' = [anchor EXCEPT ![c] = None]
      /\ pc'[c] \in {"store", "append"}
      /\ \A d \in Conns \ {c} : pc'[d] = pc[d]
  BY <1>1 DEF IngestInv, IngestPc, Cut
<1>10. IngestInv'
  BY <1>1, <1>2, <1>4, <1>9 DEF IngestInv, CutHasAnchor
<1>11. FlagInv'
  BY <1>1, <1>2 DEF FlagInv
<1> QED
  BY <1>3, <1>4, <1>8, <1>10, <1>11, InductivePartsPrime

LEMMA StoreKeeps ==
  ASSUME Inductive, NEW c \in Conns, Store(c)
  PROVE  Inductive' /\ IdStep
<1>1. IngestInv /\ AdminInv /\ FlagInv /\ JournalInv /\ SessionInv
  BY InductiveParts
<1>2. UNCHANGED <<sessionVars, now, connected, markers, marks, anchor, adminVars>>
  BY DEF Store
<1>3. PICK sub \in subs[c] :
        /\ JournalAppend(wall[c], sub) \/ UNCHANGED journalVars
        /\ subs' = [subs EXCEPT ![c] = @ \ {sub}]
        /\ pc' = [pc EXCEPT ![c] = IF subs[c] = {sub} THEN "recv" ELSE "store"]
        /\ wall' = [wall EXCEPT ![c] = IF subs[c] = {sub} THEN 0 ELSE @]
  BY DEF Store
<1>4. sub \in SubBatch /\ wall[c] \in Nat
  BY <1>1 DEF IngestInv
<1>5. JournalInv' /\ IdStep
  <2>1. CASE JournalAppend(wall[c], sub)
    <3>1. /\ JournalInv'
          /\ autoinc' = autoinc + 1
          /\ DOMAIN rows' \ DOMAIN rows \subseteq {autoinc + 1}
      BY <2>1, <1>1, <1>4, AppendKeepsJournal
    <3>2. autoinc \in Nat
      BY <1>1 DEF JournalInv, JournalTypeOK
    <3> QED
      BY <3>1, <3>2 DEF IdStep
  <2>2. CASE UNCHANGED journalVars
    BY <2>2, <1>1, JournalUnchanged
  <2> QED
    BY <2>1, <2>2, <1>3
<1>6. autoinc \in Nat /\ autoinc' \in Nat /\ autoinc <= autoinc'
  BY <1>5 DEF IdStep
<1>7. SessionInv' /\ AdminInv'
  BY <1>1, <1>2, <1>6, SessionInvGrows, AdminUnchanged
<1>8. \A d \in Conns : anchor'[d] # None => anchor'[d] <= NextBatchId'
  <2> SUFFICES ASSUME NEW d \in Conns, anchor[d] # None
               PROVE  anchor[d] <= NextBatchId'
    BY <1>2
  <2>1. anchor[d] \in (Nat \ {0}) \cup {None} /\ anchor[d] <= NextBatchId
    BY <1>1 DEF IngestInv
  <2>2. anchor[d] \in Nat
    BY <2>1
  <2> QED
    BY <2>1, <2>2, <1>6, SuccMonotone DEF NextBatchId
<1>9. /\ pc' \in [Conns -> IngestPc]
      /\ pc'[c] \in {"recv", "store"}
      /\ \A d \in Conns \ {c} : pc'[d] = pc[d]
      /\ wall' \in [Conns -> Nat]
      /\ subs' \in [Conns -> SUBSET SubBatch]
  BY <1>1, <1>3 DEF IngestInv, IngestPc
<1>10. IngestInv'
  BY <1>1, <1>2, <1>8, <1>9 DEF IngestInv, CutHasAnchor
<1>11. FlagInv'
  BY <1>1, <1>2 DEF FlagInv
<1> QED
  BY <1>5, <1>7, <1>10, <1>11, InductivePartsPrime
-----------------------------------------------------------------------------
(* Steps of a maintenance task. *)

LEMMA SurvivingType ==
  ASSUME JournalInv, NEW cutoff
  PROVE  /\ Surviving(rows, cutoff) \in SUBSET DOMAIN rows
         /\ Surviving(index, cutoff) \subseteq DOMAIN index
         /\ Surviving(rows, cutoff) \subseteq Surviving(index, cutoff)
<1>1. ASSUME NEW id \in Surviving(rows, cutoff)
      PROVE  id \in Surviving(index, cutoff)
  <2>1. /\ id \in DOMAIN rows
        /\ id \in DOMAIN index
        /\ index[id] = [wall |-> rows[id].wall, log |-> rows[id].log]
    BY DEF Surviving, JournalInv, IndexCoversRows
  <2>2. EntryTs(index[id]) = EntryTs(rows[id])
    BY <2>1 DEF EntryTs
  <2> QED
    BY <2>1, <2>2 DEF Surviving
<1> QED
  BY <1>1 DEF Surviving

LEMMA PruneJournalKeeps ==
  ASSUME Inductive, NEW a \in Admins, NEW cutoff \in Cutoffs,
         PruneJournal(a, cutoff)
  PROVE  Inductive' /\ IdStep
<1>1. IngestInv /\ AdminInv /\ FlagInv /\ JournalInv /\ SessionInv
  BY InductiveParts
<1>2. /\ UNCHANGED <<sessionVars, now, connected, markers, ingestVars>>
      /\ UNCHANGED autoinc
      /\ autoinc \in Nat
  BY <1>1 DEF PruneJournal, JournalPrune, JournalPruneVacuumFails, JournalInv,
     JournalTypeOK
<1>3. cutoff \in Nat
  BY InputAssumption
<1>4. /\ JournalInv'
      /\ DOMAIN rows' \subseteq DOMAIN rows
      /\ DOMAIN index' \subseteq DOMAIN index
  <2>1. CASE JournalPrune(cutoff)
    BY <2>1, <1>1, SurvivingType, ShrinkKeepsJournal DEF JournalPrune
  <2>2. CASE JournalPruneVacuumFails(cutoff)
    <3>1. index' = index /\ rows' = Restrict(rows, Surviving(rows, cutoff))
      BY <2>2 DEF JournalPruneVacuumFails
    <3>2. index = Restrict(index, DOMAIN index)
      BY <1>1 DEF Restrict, JournalInv, JournalTypeOK
    <3>3. Surviving(rows, cutoff) \subseteq DOMAIN index
      BY <1>1, SurvivingType
    <3> QED
      BY <3>1, <3>2, <3>3, <1>1, <1>2, SurvivingType, ShrinkKeepsJournal
  <2> QED
    BY <2>1, <2>2 DEF PruneJournal
<1>5. IdStep
  BY <1>2, <1>4 DEF IdStep
<1>6. SessionInv' /\ IngestInv'
  BY <1>1, <1>2, SessionInvGrows, IngestUnchanged
<1>7. AdminInv'
  <2>1. CASE UNCHANGED adminVars
    BY <2>1, <1>1, <1>2, AdminUnchanged
  <2>2. CASE \E min \in DOMAIN index' \cup {None} :
               /\ (min = None) <=> (DOMAIN index' = {})
               /\ adminMin' = [adminMin EXCEPT ![a] = min]
               /\ adminPc' = [adminPc EXCEPT ![a] = "pruneSessions"]
               /\ adminCutoff' = [adminCutoff EXCEPT ![a] = cutoff]
    <3>1. PICK min \in DOMAIN index' \cup {None} :
               /\ adminMin' = [adminMin EXCEPT ![a] = min]
               /\ adminPc' = [adminPc EXCEPT ![a] = "pruneSessions"]
               /\ adminCutoff' = [adminCutoff EXCEPT ![a] = cutoff]
      BY <2>2
    <3>2. DOMAIN index' \subseteq 1..autoinc
      BY <1>1, <1>4 DEF JournalInv, JournalTypeOK
    <3>3. min \in (Nat \ {0}) \cup {None} /\ (min # None => min <= autoinc)
      <4>1. CASE min = None
        BY <4>1
      <4>2. CASE min \in DOMAIN index'
        BY <4>2, <3>2, <1>2
      <4> QED
        BY <4>1, <4>2
    <3> QED
      BY <3>1, <3>3, <1>1, <1>2, <1>3 DEF AdminInv, AdminPc
  <2> QED
    BY <2>1, <2>2 DEF PruneJournal
<1>8. FlagInv'
  BY <1>1, <1>2 DEF FlagInv
<1> QED
  BY <1>4, <1>5, <1>6, <1>7, <1>8, InductivePartsPrime

LEMMA ResetJournalKeeps ==
  ASSUME Inductive, NEW a \in Admins, ResetJournal(a)
  PROVE  Inductive' /\ IdStep
<1>1. IngestInv /\ AdminInv /\ FlagInv /\ JournalInv /\ SessionInv
  BY InductiveParts
<1>2. /\ UNCHANGED <<sessionVars, now, connected, markers, ingestVars, adminMin,
                     adminCutoff>>
      /\ UNCHANGED autoinc
      /\ autoinc \in Nat
      /\ rows' = <<>>
      /\ index' = <<>>
  BY <1>1 DEF ResetJournal, JournalClear, JournalInv, JournalTypeOK
<1>3. DOMAIN rows' = {} /\ DOMAIN index' = {}
  BY <1>2
<1>4. rows' \in [DOMAIN rows' -> Row] /\ index' \in [DOMAIN index' -> Entry]
  BY <1>2
<1>5. JournalInv' /\ IdStep
  BY <1>2, <1>3, <1>4 DEF JournalInv, JournalTypeOK, IndexCoversRows, IdStep
<1>6. SessionInv' /\ IngestInv'
  BY <1>1, <1>2, SessionInvGrows, IngestUnchanged
<1>7. AdminInv'
  BY <1>1, <1>2 DEF AdminInv, AdminPc, ResetJournal
<1>8. FlagInv'
  BY <1>1, <1>2 DEF FlagInv
<1> QED
  BY <1>5, <1>6, <1>7, <1>8, InductivePartsPrime

LEMMA MaintainKeeps ==
  ASSUME Inductive, NEW a \in Admins, Maintain(a)
  PROVE  Inductive' /\ IdStep
<1>1. IngestInv /\ AdminInv /\ FlagInv /\ JournalInv /\ SessionInv
  BY InductiveParts
<1>2. UNCHANGED <<journalVars, now, connected, ingestVars>>
  BY DEF Maintain, PruneSessions, PruneMarkers, ResetSessions
<1>3. JournalInv' /\ IdStep /\ UNCHANGED autoinc /\ autoinc \in Nat
  BY <1>1, <1>2, JournalUnchanged DEF journalVars, IdStep
<1>4. IngestInv'
  BY <1>1, <1>2, <1>3, IngestUnchanged
<1>5. SessionInv'
  <2>1. CASE UNCHANGED sessionVars
    BY <2>1, <1>1, <1>3, SessionInvGrows
  <2>2. CASE SessionClear
    BY <2>2, ClearKeepsSessions
  <2>3. CASE SessionPrune(adminMin[a]) \/ SessionPruneUpdateFails(adminMin[a])
    <3>1. /\ adminMin[a] \in (Nat \ {0}) \cup {None}
          /\ adminMin[a] # None => adminMin[a] <= autoinc
      BY <1>1 DEF AdminInv
    <3> QED
      BY <2>3, <3>1, <1>1, <1>3, PruneKeepsSessions
  <2> QED
    BY <2>1, <2>2, <2>3 DEF Maintain, PruneSessions, PruneMarkers, ResetSessions
<1>6. AdminInv'
  BY <1>1, <1>3 DEF AdminInv, AdminPc, Maintain, PruneSessions, PruneMarkers,
                    ResetSessions
<1>7. FlagInv'
  BY <1>1, <1>2 DEF FlagInv, Maintain, PruneSessions, PruneMarkers, ResetSessions
<1> QED
  BY <1>3, <1>4, <1>5, <1>6, <1>7, InductivePartsPrime
-----------------------------------------------------------------------------
(* The other steps. *)

LEMMA MarkerAndTickKeep ==
  ASSUME Inductive,
         (\E t \in Times : AddMarker(t) \/ DeleteMarker(t)) \/ Tick
  PROVE  Inductive' /\ IdStep
<1>1. IngestInv /\ AdminInv /\ FlagInv /\ JournalInv /\ SessionInv
  BY InductiveParts
<1>2. UNCHANGED <<journalVars, sessionVars, connected, ingestVars, adminVars>>
  BY DEF AddMarker, DeleteMarker, Tick
<1>3. autoinc \in Nat /\ UNCHANGED autoinc
  BY <1>1, <1>2 DEF JournalInv, JournalTypeOK, journalVars
<1>4. IngestInv' /\ AdminInv'
  BY <1>1, <1>2, <1>3, IngestUnchanged, AdminUnchanged
<1>5. FlagInv'
  <2>1. CASE Tick
    BY <2>1, <1>1 DEF FlagInv, Tick
  <2>2. ASSUME NEW t \in Times, AddMarker(t) \/ DeleteMarker(t) PROVE FlagInv'
    <3>1. /\ markers[t] \in Nat
          /\ \A m \in Nat : [markers EXCEPT ![t] = m] \in [Times -> Nat]
      BY <1>1 DEF FlagInv
    <3>2. markers' \in [Times -> Nat]
      BY <2>2, <3>1 DEF AddMarker, DeleteMarker
    <3> QED
      BY <2>2, <3>2, <1>1 DEF FlagInv, AddMarker, DeleteMarker
  <2> QED
    BY <2>1, <2>2
<1> QED
  BY <1>2, <1>4, <1>5, QuietStep

LEMMA RestartKeeps ==
  ASSUME Inductive, Restart
  PROVE  Inductive' /\ IdStep
<1>1. FlagInv /\ JournalInv /\ SessionInv
  BY InductiveParts
<1>2. /\ index' = Entries(rows)
      /\ UNCHANGED <<rows, autoinc, now, markers>>
      /\ connected' = FALSE
  BY DEF Restart, JournalOpen
<1>3. autoinc \in Nat
  BY <1>1 DEF JournalInv, JournalTypeOK
<1>4. JournalInv'
  <2>1. DOMAIN index' = DOMAIN rows
    BY <1>2 DEF Entries
  <2>2. index' \in [DOMAIN index' -> Entry]
    BY <1>1, <1>2 DEF Entries, JournalInv, JournalTypeOK, Row, Entry
  <2>3. IndexCoversRows'
    BY <1>2 DEF Entries, IndexCoversRows
  <2> QED
    BY <1>1, <1>2, <2>1, <2>2, <2>3 DEF JournalInv, JournalTypeOK
<1>5. IdStep
  BY <1>2, <1>3 DEF IdStep
<1>6. SessionInv'
  BY <1>1, <1>2, OpenKeepsSessions, ScanKeepsSessions DEF Restart
<1>7. IngestInv'
  <2>1. /\ pc' \in [Conns -> IngestPc]
        /\ wall' \in [Conns -> Nat]
        /\ marks' \in [Conns -> SUBSET Times]
        /\ subs' \in [Conns -> SUBSET SubBatch]
        /\ anchor' \in [Conns -> (Nat \ {0}) \cup {None}]
    BY DEF Restart, IngestPc
  <2>2. \A c \in Conns : anchor'[c] = None /\ pc'[c] = "closed"
    BY DEF Restart
  <2> QED
    BY <2>1, <2>2 DEF IngestInv, CutHasAnchor
<1>8. AdminInv'
  BY DEF Restart, AdminInv, AdminPc
<1>9. FlagInv'
  BY <1>1, <1>2 DEF FlagInv
<1> QED
  BY <1>4, <1>5, <1>6, <1>7, <1>8, <1>9, InductivePartsPrime
-----------------------------------------------------------------------------

LEMMA InitInductive ==
  Init => Inductive
<1> SUFFICES ASSUME Init PROVE Inductive
  OBVIOUS
<1>1. JournalInv
  BY DEF Init, JournalInit, JournalInv, JournalTypeOK, IndexCoversRows
<1>2. SessionInv
  <2>1. sessions = <<>> /\ sessionRows = <<>>
    BY DEF Init, SessionInit
  <2>2. sessions \in Seq(Session) /\ DOMAIN sessions = {} /\ DOMAIN sessionRows = {}
    BY <2>1
  <2>3. sessionRows \in [DOMAIN sessionRows -> Nat \ {0}]
    BY <2>1
  <2>4. IsFiniteSet(DOMAIN sessionRows)
    BY <2>2, FS_EmptySet
  <2> QED
    BY <2>2, <2>3, <2>4 DEF SessionInv, SessionTypeOK, SessionsBounded, Session
<1>3. IngestInv
  BY DEF Init, IngestInv, IngestPc, CutHasAnchor
<1>4. AdminInv
  BY DEF Init, AdminInv, AdminPc
<1>5. FlagInv
  BY DEF Init, FlagInv
<1> QED
  BY <1>1, <1>2, <1>3, <1>4, <1>5, InductiveParts

LEMMA StepInductive ==
  ASSUME Inductive, [Next]_vars
  PROVE  Inductive' /\ IdStep
<1>1. CASE UNCHANGED vars
  <2>1. IngestInv /\ AdminInv /\ FlagInv /\ JournalInv
    BY InductiveParts
  <2>2. UNCHANGED <<journalVars, sessionVars, now, connected, markers, ingestVars,
                    adminVars>>
    BY <1>1 DEF vars
  <2>3. autoinc \in Nat /\ UNCHANGED autoinc
    BY <2>1, <2>2 DEF JournalInv, JournalTypeOK, journalVars
  <2>4. IngestInv' /\ AdminInv' /\ FlagInv'
    BY <2>1, <2>2, <2>3, IngestUnchanged, AdminUnchanged DEF FlagInv
  <2> QED
    BY <2>2, <2>4, QuietStep
<1>2. CASE \E c \in Conns : \/ Connect(c)
                            \/ Close(c)
                            \/ \E events \in Batches : Receive(c, events)
                            \/ Ingest(c)
  BY <1>2, HelloAndMarksKeep, DecidingKeeps, CutKeeps, StoreKeeps DEF Ingest
<1>3. CASE \E a \in Admins : \/ \E cutoff \in Cutoffs : PruneJournal(a, cutoff)
                             \/ ResetJournal(a)
                             \/ Maintain(a)
  BY <1>3, PruneJournalKeeps, ResetJournalKeeps, MaintainKeeps
<1>4. CASE (\E t \in Times : AddMarker(t) \/ DeleteMarker(t)) \/ Tick
  BY <1>4, MarkerAndTickKeep
<1>5. CASE Restart
  BY <1>5, RestartKeeps
<1> QED
  BY <1>1, <1>2, <1>3, <1>4, <1>5 DEF Next

(* The inductive invariant is one. *)
THEOREM InductiveHolds == Spec => []Inductive
BY InitInductive, StepInductive, PTL DEF Spec

(* Every variable of a stream's store keeps its type, for any number of
   connections and maintenance tasks (journal.rs, session_index.rs,
   ingest.rs). *)
THEOREM TypeCorrect == Spec => []TypeOK
<1>1. Inductive => TypeOK
  BY DEF Inductive
<1> QED
  BY <1>1, InductiveHolds, PTL

(* No session, pending cut or pending prune ever points past the next row id
   (ingest.rs:214-243, session_index.rs:167-204). *)
THEOREM AnchorsStayBounded == Spec => []AnchorsBounded
<1>1. Inductive => AnchorsBounded
  BY DEF Inductive
<1> QED
  BY <1>1, InductiveHolds, PTL

(* Whatever is appended, pruned, reset or fails, every stored batch is in the
   seek index (journal.rs:160-189, 320-349). *)
THEOREM BatchesStayFindable == Spec => []IndexCoversRows
<1>1. Inductive => IndexCoversRows
  BY DEF Inductive
<1> QED
  BY <1>1, InductiveHolds, PTL

(* A row id is never handed out twice, not after a prune, a reset or a restart
   (journal.rs:202-212). *)
THEOREM RowIdsAreFresh == Spec => IdsNeverReused
<1>1. Inductive /\ [Next]_vars
        => [/\ autoinc' >= autoinc
            /\ \A id \in DOMAIN rows' \ DOMAIN rows : id > autoinc]_vars
  BY StepInductive DEF IdStep
<1> QED
  BY <1>1, InductiveHolds, PTL DEF Spec, IdsNeverReused
-----------------------------------------------------------------------------
LEMMA IndexExactStep ==
  ASSUME Inductive, IndexMirrorsRows, [Next]_vars,
         "vacuum" \notin Faults \/ "prune" \notin Ops
  PROVE  IndexMirrorsRows'
<1>1. CASE UNCHANGED journalVars
  BY <1>1 DEF journalVars, IndexMirrorsRows, Entries
<1>2. ASSUME NEW w, NEW events, JournalAppend(w, events)
      PROVE  IndexMirrorsRows'
  <2> DEFINE id == autoinc + 1
             log == MaxLogTs(events)
  <2>1. /\ rows' = [i \in DOMAIN rows \cup {id} |->
                      IF i = id THEN [wall |-> w, log |-> log, batch |-> events]
                                ELSE rows[i]]
        /\ index' = [i \in DOMAIN index \cup {id} |->
                      IF i = id THEN [wall |-> w, log |-> log] ELSE index[i]]
    BY <1>2 DEF JournalAppend, NextBatchId
  <2>2. DOMAIN rows' = DOMAIN rows \cup {id} /\ DOMAIN index = DOMAIN rows
    BY <2>1 DEF IndexMirrorsRows, Entries
  <2>3. \A i \in DOMAIN rows' :
          index'[i] = [wall |-> rows'[i].wall, log |-> rows'[i].log]
    <3> SUFFICES ASSUME NEW i \in DOMAIN rows'
                 PROVE index'[i] = [wall |-> rows'[i].wall, log |-> rows'[i].log]
      OBVIOUS
    <3>1. CASE i = id
      BY <3>1, <2>1, <2>2
    <3>2. CASE i # id
      BY <3>2, <2>1, <2>2 DEF IndexMirrorsRows, Entries
    <3> QED
      BY <3>1, <3>2
  <2>4. index' = [i \in DOMAIN rows' |-> index'[i]]
    BY <2>1, <2>2
  <2> QED
    BY <2>3, <2>4 DEF IndexMirrorsRows, Entries
<1>3. ASSUME NEW cutoff, JournalPrune(cutoff)
      PROVE  IndexMirrorsRows'
  <2>1. /\ DOMAIN index = DOMAIN rows
        /\ \A i \in DOMAIN rows :
             index[i] = [wall |-> rows[i].wall, log |-> rows[i].log]
    BY DEF IndexMirrorsRows, Entries
  <2>2. \A i \in DOMAIN rows : EntryTs(index[i]) = EntryTs(rows[i])
    BY <2>1 DEF EntryTs
  <2>3. Surviving(index, cutoff) = Surviving(rows, cutoff)
    BY <2>1, <2>2 DEF Surviving
  <2> DEFINE S == Surviving(rows, cutoff)
  <2>4. S \subseteq DOMAIN rows
    BY DEF Surviving
  <2>5. /\ rows' = [i \in S |-> rows[i]]
        /\ index' = [i \in S |-> index[i]]
    BY <1>3, <2>3 DEF JournalPrune, Restrict
  <2> QED
    BY <2>1, <2>4, <2>5 DEF IndexMirrorsRows, Entries
<1>4. CASE JournalClear
  BY <1>4 DEF JournalClear, IndexMirrorsRows, Entries
<1>5. CASE JournalOpen
  BY <1>5 DEF JournalOpen, IndexMirrorsRows, Entries
<1>6. \/ UNCHANGED journalVars
      \/ \E w, events : JournalAppend(w, events)
      \/ \E cutoff : JournalPrune(cutoff)
      \/ JournalClear
      \/ JournalOpen
  <2>1. CASE UNCHANGED vars
    BY <2>1 DEF vars
  <2>2. CASE \E c \in Conns : \/ Connect(c)
                              \/ Close(c)
                              \/ \E events \in Batches : Receive(c, events)
                              \/ Ingest(c)
    BY <2>2 DEF Connect, Close, Receive, Ingest, MarkCheck, MarkAdd,
                LoginAnchor, Dedup, Cut, GapCheck, Store
  <2>3. CASE \E a \in Admins :
               \/ \E cutoff \in Cutoffs : PruneJournal(a, cutoff)
               \/ ResetJournal(a)
               \/ Maintain(a)
    BY <2>3 DEF PruneJournal, ResetJournal, Maintain, PruneSessions,
                PruneMarkers, ResetSessions
  <2>4. CASE (\E t \in Times : AddMarker(t) \/ DeleteMarker(t)) \/ Tick
    BY <2>4 DEF AddMarker, DeleteMarker, Tick
  <2>5. CASE Restart
    BY <2>5 DEF Restart
  <2> QED
    BY <2>1, <2>2, <2>3, <2>4, <2>5 DEF Next
<1> QED
  BY <1>1, <1>2, <1>3, <1>4, <1>5, <1>6

(* Unless a VACUUM fails after a prune, the seek index and the table never
   part: what a viewer reads at an index position is what is stored
   (journal.rs:47). *)
THEOREM IndexStaysExact ==
  ASSUME "vacuum" \notin Faults \/ "prune" \notin Ops
  PROVE  Spec => []IndexMirrorsRows
<1>1. Init => IndexMirrorsRows
  BY DEF Init, JournalInit, IndexMirrorsRows, Entries
<1>2. Inductive /\ IndexMirrorsRows /\ [Next]_vars => IndexMirrorsRows'
  BY IndexExactStep
<1> QED
  BY <1>1, <1>2, InductiveHolds, PTL DEF Spec

(* The connected flag is never left raised when no client is connected, however
   connections overlap and the server restarts (ingest.rs:108, 267). *)
THEOREM FlagImpliesClient == Spec => []OpenWhileConnected
<1>1. Init => OpenWhileConnected
  BY DEF Init, OpenWhileConnected
<1>2. ASSUME Inductive, OpenWhileConnected, [Next]_vars
      PROVE  OpenWhileConnected'
  <2>1. pc \in [Conns -> IngestPc]
    BY <1>2 DEF Inductive, TypeOK, TaskTypeOK
  <2>2. CASE UNCHANGED <<connected, pc>>
    BY <2>2, <1>2 DEF OpenWhileConnected, Open
  <2>3. CASE connected' = FALSE
    BY <2>3 DEF OpenWhileConnected
  <2>4. ASSUME NEW c \in Conns, pc'[c] # "closed"
        PROVE  OpenWhileConnected'
    BY <2>4 DEF OpenWhileConnected, Open
  <2>5. CASE \E c \in Conns : \/ Connect(c)
                              \/ Close(c)
                              \/ \E events \in Batches : Receive(c, events)
                              \/ Ingest(c)
    <3>1. PICK c \in Conns : \/ Connect(c)
                             \/ Close(c)
                             \/ \E events \in Batches : Receive(c, events)
                             \/ Ingest(c)
      BY <2>5
    <3>2. CASE Close(c)
      BY <3>2, <2>3 DEF Close
    <3>3. CASE ~ Close(c)
      <4>1. pc'[c] # "closed"
        BY <3>1, <3>3, <2>1 DEF Connect, Receive, Ingest, MarkCheck, MarkAdd,
           LoginAnchor, Dedup, Cut, GapCheck, Store, AfterMarks
      <4> QED
        BY <4>1, <2>4
    <3> QED
      BY <3>2, <3>3
  <2>6. CASE \E a \in Admins :
               \/ \E cutoff \in Cutoffs : PruneJournal(a, cutoff)
               \/ ResetJournal(a)
               \/ Maintain(a)
    BY <2>6, <2>2 DEF PruneJournal, ResetJournal, Maintain, PruneSessions,
                      PruneMarkers, ResetSessions, ingestVars
  <2>7. CASE (\E t \in Times : AddMarker(t) \/ DeleteMarker(t)) \/ Tick
    BY <2>7, <2>2 DEF AddMarker, DeleteMarker, Tick, ingestVars
  <2>8. CASE Restart
    BY <2>8, <2>3 DEF Restart
  <2>9. CASE UNCHANGED vars
    BY <2>9, <2>2 DEF vars, ingestVars
  <2> QED
    BY <1>2, <2>5, <2>6, <2>7, <2>8, <2>9 DEF Next
<1> QED
  BY <1>1, <1>2, InductiveHolds, PTL DEF Spec

-----------------------------------------------------------------------------
(* The sessions of a stream: that they stay in the order of play, and that
   StreamStore implements SessionPartition. *)

(* The only increasing enumeration of 1..n is the identity. *)
LEMMA AscendingInterval ==
  ASSUME NEW n \in Nat, NEW nums \in Ascending(1..n)
  PROVE  /\ DOMAIN nums = 1..n
         /\ \A i \in 1..n : nums[i] = i
<1>1. Cardinality(1..n) = n
  BY FS_Interval
<1>2. /\ nums \in [1..n -> 1..n]
      /\ \A i, j \in 1..n : i < j => nums[i] < nums[j]
  BY <1>1 DEF Ascending
<1>3. ASSUME NEW i \in 1..n, nums[i] < i
      PROVE  FALSE
  <2> DEFINE T == {j \in 1..n : nums[j] < j}
  <2>0. T \in SUBSET Nat /\ i \in T
    BY <1>3
  <2>1. PICK j \in T : \A k \in T : j <= k
    BY <2>0, LeastExists
  <2>2. j \in 1..n /\ nums[j] \in 1..n /\ nums[j] < j
    BY <1>2, <2>1
  <2>3. j - 1 \in 1..n /\ j - 1 \notin T
    BY <2>1, <2>2
  <2>4. nums[j - 1] \in 1..n /\ nums[j - 1] >= j - 1 /\ nums[j - 1] < nums[j]
    BY <1>2, <2>2, <2>3
  <2> QED
    BY <2>2, <2>4
<1>4. ASSUME NEW i \in 1..n, nums[i] > i
      PROVE  FALSE
  <2> DEFINE T == {j \in 1..n : nums[j] > j}
  <2>0. T \in SUBSET Nat /\ i \in T /\ \A k \in T : k <= n
    BY <1>4
  <2>1. PICK j \in T : \A k \in T : k <= j
    BY <2>0, GreatestExists
  <2>2. j \in 1..n /\ nums[j] \in 1..n /\ nums[j] > j
    BY <1>2, <2>1
  <2>3. j + 1 \in 1..n /\ j + 1 \notin T
    BY <2>1, <2>2
  <2>4. nums[j + 1] \in 1..n /\ nums[j + 1] <= j + 1 /\ nums[j] < nums[j + 1]
    BY <1>2, <2>2, <2>3
  <2> QED
    BY <2>2, <2>4
<1>5. ASSUME NEW i \in 1..n PROVE nums[i] = i
  <2>1. nums[i] \in 1..n /\ ~ nums[i] < i /\ ~ nums[i] > i
    BY <1>2, <1>3, <1>4
  <2> QED
    BY <2>1
<1> QED
  BY <1>2, <1>5
-----------------------------------------------------------------------------
(* The invariant behind the history, for one client at a time. *)

OneClient == \A c, d \in Conns : c = d

(* The table has the list's sessions under their positions, until a prune
   renumbers nothing and shortens the list. *)
TableAgrees ==
  /\ DOMAIN sessionRows = 1..Len(sessions)
  /\ \A i \in 1..Len(sessions) : sessionRows[i] = sessions[i].start

(* Between the choice of an anchor and the cut no row is stored... *)
AnchorIsNext ==
  \A c \in Conns :
    pc[c] \in {"loginDedup", "loginCut", "gapDedup", "gapCut"}
      => anchor[c] = NextBatchId

(* ...and no session is begun. *)
CutIsDue ==
  \A c \in Conns :
    pc[c] \in {"loginCut", "gapCut"} => \A s \in Starts : s < NextBatchId

(* What a prune is about to re-anchor to is no later than what is stored. *)
PruneBelow ==
  \A a \in Admins :
    adminPc[a] = "pruneSessions" =>
      /\ "prune" \in Ops
      /\ adminMin[a] # None => \A id \in DOMAIN rows : adminMin[a] <= id

HistoryInv ==
  /\ Inductive
  /\ SessionsChronological
  /\ "prune" \notin Ops => TableAgrees
  /\ AnchorIsNext
  /\ CutIsDue
  /\ PruneBelow

(* What is left of the invariant besides Inductive, and the abstract step. *)
HistoryStep ==
  /\ SessionsChronological'
  /\ "prune" \notin Ops => TableAgrees'
  /\ AnchorIsNext'
  /\ CutIsDue'
  /\ PruneBelow'
  /\ [Partition!Next]_Runs

LEMMA HistoryTypes ==
  ASSUME Inductive
  PROVE  /\ autoinc \in Nat /\ NextBatchId = autoinc + 1
         /\ DOMAIN rows \subseteq Nat /\ \A id \in DOMAIN rows : id <= autoinc
         /\ sessions \in Seq(Session) /\ Len(sessions) \in Nat
         /\ \A i \in DOMAIN sessions : /\ sessions[i].start \in Nat \ {0}
                                       /\ sessions[i].start <= NextBatchId
         /\ Starts \subseteq Nat \ {0} /\ \A s \in Starts : s <= NextBatchId
<1>1. JournalInv /\ SessionInv
  BY InductiveParts
<1>2. /\ autoinc \in Nat /\ NextBatchId = autoinc + 1
      /\ DOMAIN rows \subseteq Nat /\ \A id \in DOMAIN rows : id <= autoinc
  BY <1>1 DEF JournalInv, JournalTypeOK, NextBatchId
<1>3. sessions \in Seq(Session) /\ Len(sessions) \in Nat
  BY <1>1 DEF SessionInv, SessionTypeOK, Session
<1>4. \A i \in DOMAIN sessions : /\ sessions[i].start \in Nat \ {0}
                                 /\ sessions[i].start <= NextBatchId
  <2>1. \A i \in DOMAIN sessions : sessions[i] \in Session
    BY <1>3
  <2> QED
    BY <2>1, <1>1 DEF SessionInv, SessionsBounded, Session
<1> QED
  BY <1>2, <1>3, <1>4 DEF Starts
-----------------------------------------------------------------------------
(* Runs. *)

(* Starts that come and go before all the rows, or after them, divide
   nothing. *)
LEMMA RunsSame ==
  ASSUME DOMAIN rows' = DOMAIN rows,
         \A s \in (Starts \ Starts') \cup (Starts' \ Starts) :
           \A i, j \in DOMAIN rows : s <= i <=> s <= j
  PROVE  Runs' = Runs
<1>1. \A i, j \in DOMAIN rows :
        (\A s \in Starts' : s <= i <=> s <= j) <=> (\A s \in Starts : s <= i <=> s <= j)
  OBVIOUS
<1>2. \A i \in DOMAIN rows : RunOf(i)' = RunOf(i)
  BY <1>1 DEF RunOf
<1> QED
  BY <1>2 DEF Runs

LEMMA RunsShrink ==
  ASSUME DOMAIN rows' \subseteq DOMAIN rows, Starts' = Starts
  PROVE  Partition!Drop
<1>1. DOMAIN Runs = DOMAIN rows /\ DOMAIN Runs' = DOMAIN rows'
  BY DEF Runs
<1>2. ASSUME NEW i \in DOMAIN rows'
      PROVE  Runs'[i] = Runs[i] \cap DOMAIN rows'
  BY <1>2 DEF Runs, RunOf
<1> QED
  BY <1>1, <1>2 DEF Partition!Drop, Partition!Stored

LEMMA RunsForgotten ==
  ASSUME DOMAIN rows' = DOMAIN rows, Starts' = {}
  PROVE  Partition!Forget
<1>1. DOMAIN Runs = DOMAIN rows /\ DOMAIN Runs' = DOMAIN rows
  BY DEF Runs
<1>2. ASSUME NEW i \in DOMAIN rows PROVE Runs'[i] = DOMAIN rows
  BY <1>2 DEF Runs, RunOf
<1> QED
  BY <1>1, <1>2 DEF Partition!Forget, Partition!Stored

LEMMA RunsDivided ==
  ASSUME Inductive, Inductive', DOMAIN rows' = DOMAIN rows, Starts = {}
  PROVE  Partition!Divide
<1>1. DOMAIN Runs = DOMAIN rows /\ DOMAIN Runs' = DOMAIN rows
  BY DEF Runs
<1>2. \A i \in DOMAIN rows : Runs[i] = DOMAIN rows
  BY DEF Runs, RunOf
<1>3. \A i \in DOMAIN rows :
        Runs'[i] = {j \in DOMAIN rows : \A s \in Starts' : s <= i <=> s <= j}
  BY DEF Runs, RunOf
<1>4. DOMAIN rows \subseteq Nat /\ Starts' \subseteq Nat
  <2>1. sessions' \in Seq(Session)
    BY InductivePartsPrime DEF SessionInv, SessionTypeOK, Session
  <2>2. \A i \in DOMAIN sessions' : sessions'[i] \in Session
    BY <2>1
  <2> QED
    BY HistoryTypes, <2>2 DEF Starts, Session
<1>5. ASSUME NEW i \in DOMAIN rows, NEW j \in DOMAIN rows
      PROVE  /\ i \in Runs'[i]
             /\ Runs'[i] \subseteq DOMAIN rows
             /\ j \in Runs'[i] => Runs'[i] = Runs'[j]
             /\ j \in Runs'[i] => \A k \in DOMAIN rows : i < k /\ k < j => k \in Runs'[i]
  <2>1. i \in Runs'[i] /\ Runs'[i] \subseteq DOMAIN rows
    BY <1>3
  <2>2. ASSUME j \in Runs'[i] PROVE Runs'[i] = Runs'[j]
    BY <1>3, <2>2
  <2>3. ASSUME j \in Runs'[i], NEW k \in DOMAIN rows, i < k, k < j
        PROVE  k \in Runs'[i]
    <3>1. ASSUME NEW s \in Starts' PROVE s <= i <=> s <= k
      <4>1. s <= i <=> s <= j
        BY <1>3, <2>3
      <4>2. s \in Nat /\ i \in Nat /\ j \in Nat /\ k \in Nat
        BY <1>4
      <4> QED
        BY <4>1, <4>2, <2>3
    <3> QED
      BY <3>1, <1>3
  <2> QED
    BY <2>1, <2>2, <2>3
<1> QED
  BY <1>1, <1>2, <1>5 DEF Partition!Divide, Partition!Undivided, Partition!Stored,
     Partition!IsDivision

(* A new row is alone in its run, or continues the newest one. *)
LEMMA RunsGrow ==
  ASSUME Inductive, Starts' = Starts,
         DOMAIN rows' = DOMAIN rows \cup {NextBatchId}
  PROVE  Partition!Store
<1> DEFINE id == NextBatchId
           Same(i, j) == \A s \in Starts : s <= i <=> s <= j
<1>1. /\ DOMAIN Runs = DOMAIN rows
      /\ DOMAIN Runs' = DOMAIN rows \cup {id}
  BY DEF Runs
<1>2. /\ \A i \in DOMAIN rows : Runs[i] = {j \in DOMAIN rows : Same(i, j)}
      /\ \A i \in DOMAIN rows \cup {id} :
           Runs'[i] = {j \in DOMAIN rows \cup {id} : Same(i, j)}
  BY DEF Runs, RunOf
<1>3. /\ DOMAIN rows \subseteq Nat /\ id \in Nat
      /\ \A i \in DOMAIN rows : i < id
      /\ Starts \subseteq Nat /\ \A s \in Starts : s <= id
  BY HistoryTypes
<1>4. id \in DOMAIN Runs' \ DOMAIN Runs
  BY <1>1, <1>3
<1>5. CASE \A i \in DOMAIN rows : ~ Same(i, id)
  <2>1. Runs'[id] = {id}
    <3>1. \A i \in DOMAIN rows : ~ Same(id, i)
      BY <1>5
    <3>2. Same(id, id)
      OBVIOUS
    <3> QED
      BY <1>2, <3>1, <3>2
  <2>2. ASSUME NEW i \in DOMAIN rows PROVE Runs'[i] = Runs[i]
    <3>1. Runs'[i] = {j \in DOMAIN rows \cup {id} : Same(i, j)}
      BY <1>2
    <3>2. Runs[i] = {j \in DOMAIN rows : Same(i, j)} /\ ~ Same(i, id)
      BY <1>2, <1>5
    <3> HIDE DEF Same, id
    <3> QED
      BY <3>1, <3>2
  <2> QED
    BY <1>1, <1>3, <1>4, <2>1, <2>2 DEF Partition!Store, Partition!Stored
<1>6. CASE \E i \in DOMAIN rows : Same(i, id)
  <2>1. PICK near \in DOMAIN rows : Same(near, id)
    BY <1>6
  <2>2. PICK last \in DOMAIN rows : \A i \in DOMAIN rows : i <= last
    <3>1. DOMAIN rows \in SUBSET Nat /\ near \in DOMAIN rows /\ id \in Nat
      BY <1>3
    <3>2. \A i \in DOMAIN rows : i <= id
      BY <1>3
    <3> HIDE DEF id
    <3> QED
      BY <3>1, <3>2, GreatestExists
  <2>3. Same(last, id)
    <3>1. ASSUME NEW s \in Starts PROVE s <= last <=> s <= id
      <4>1. s <= near <=> s <= id
        BY <2>1
      <4>2. s \in Nat /\ near \in Nat /\ last \in Nat /\ id \in Nat
        BY <1>3
      <4>3. near <= last /\ last < id
        BY <1>3, <2>2
      <4> HIDE DEF id
      <4> QED
        BY <4>1, <4>2, <4>3
    <3> QED
      BY <3>1
  <2>4. ASSUME NEW i \in DOMAIN rows \cup {id}
        PROVE  Runs'[i] = IF i = id \/ i \in Runs[last]
                          THEN Runs[last] \cup {id} ELSE Runs[i]
    <3>1. CASE Same(last, i)
      <4>1. Runs'[i] = {j \in DOMAIN rows \cup {id} : Same(last, j)}
        BY <1>2, <3>1
      <4>2. Runs'[i] = Runs[last] \cup {id}
        BY <1>2, <2>3, <4>1
      <4> QED
        BY <1>2, <3>1, <4>2
    <3>2. CASE ~ Same(last, i)
      <4>1. i \in DOMAIN rows /\ i \notin Runs[last] /\ ~ Same(i, id)
        BY <1>2, <2>3, <3>2
      <4>2. Runs'[i] = {j \in DOMAIN rows \cup {id} : Same(i, j)}
        BY <1>2
      <4>3. Runs[i] = {j \in DOMAIN rows : Same(i, j)} /\ i # id
        BY <1>2, <1>3, <4>1
      <4> HIDE DEF Same, id
      <4> QED
        BY <4>1, <4>2, <4>3
    <3> QED
      BY <3>1, <3>2
  <2> QED
    BY <1>1, <1>3, <1>4, <2>2, <2>4 DEF Partition!Store, Partition!Stored
<1> QED
  BY <1>5, <1>6
-----------------------------------------------------------------------------
(* Steps that leave the sessions alone. *)

LEMMA SessionsSteady ==
  ASSUME HistoryInv, UNCHANGED sessionVars
  PROVE  /\ SessionsChronological' /\ ("prune" \notin Ops => TableAgrees')
         /\ Starts' = Starts
BY DEF HistoryInv, sessionVars, SessionsChronological, TableAgrees, Starts

(* Steps that touch neither the journal nor the sessions nor what a prune
   holds, and in which a task comes to a cut only by deduplicating. *)
LEMMA QuietHistory ==
  ASSUME HistoryInv, UNCHANGED <<journalVars, sessionVars>>, PruneBelow',
         AnchorIsNext', CutIsDue'
  PROVE  HistoryStep
<1>1. Starts' = Starts /\ DOMAIN rows' = DOMAIN rows
  BY SessionsSteady DEF journalVars
<1>2. Runs' = Runs
  BY <1>1, RunsSame
<1> QED
  BY <1>2, SessionsSteady DEF HistoryStep

LEMMA PruneHeld ==
  ASSUME HistoryInv, UNCHANGED <<rows, adminVars>>
  PROVE  PruneBelow'
BY DEF HistoryInv, PruneBelow, adminVars

LEMMA TasksHeld ==
  ASSUME HistoryInv, UNCHANGED <<autoinc, sessionVars, ingestVars>>
  PROVE  AnchorIsNext' /\ CutIsDue'
BY SessionsSteady DEF HistoryInv, AnchorIsNext, CutIsDue, NextBatchId, ingestVars

LEMMA HelloAndMarksHistory ==
  ASSUME HistoryInv, NEW c \in Conns,
         Connect(c) \/ Close(c) \/ (\E events \in Batches : Receive(c, events))
           \/ MarkCheck(c) \/ MarkAdd(c)
  PROVE  HistoryStep
<1>1. UNCHANGED <<journalVars, sessionVars, anchor, adminVars>>
  BY DEF Connect, Close, Receive, MarkCheck, MarkAdd
<1>2. pc \in [Conns -> IngestPc]
  BY DEF HistoryInv, Inductive, TypeOK, TaskTypeOK
<1>3. \E to \in {"recv", "closed", "markCheck", "markAdd", "loginAnchor", "store"} :
        pc' = [pc EXCEPT ![c] = to]
  BY DEF Connect, Close, Receive, MarkCheck, MarkAdd, AfterMarks
<1>4. \A d \in Conns :
        pc'[d] \in {"loginDedup", "loginCut", "gapDedup", "gapCut"} => pc'[d] = pc[d]
  BY <1>2, <1>3
<1>5. Starts' = Starts /\ NextBatchId' = NextBatchId
  BY <1>1, SessionsSteady DEF journalVars, NextBatchId
<1>6. AnchorIsNext' /\ CutIsDue'
  BY <1>1, <1>4, <1>5 DEF HistoryInv, AnchorIsNext, CutIsDue
<1> QED
  BY <1>1, <1>6, PruneHeld, QuietHistory DEF journalVars

LEMMA AnchoringHistory ==
  ASSUME HistoryInv, NEW c \in Conns, LoginAnchor(c) \/ GapCheck(c)
  PROVE  HistoryStep
<1>1. UNCHANGED <<journalVars, sessionVars, adminVars>>
  BY DEF LoginAnchor, GapCheck
<1>2. pc \in [Conns -> IngestPc] /\ anchor \in [Conns -> (Nat \ {0}) \cup {None}]
  BY DEF HistoryInv, Inductive, TypeOK, TaskTypeOK
<1>3. \/ /\ \E to \in {"loginDedup", "gapDedup"} : pc' = [pc EXCEPT ![c] = to]
         /\ anchor' = [anchor EXCEPT ![c] = NextBatchId]
      \/ pc' = [pc EXCEPT ![c] = "append"] /\ UNCHANGED anchor
  BY DEF LoginAnchor, GapCheck
<1>4. Starts' = Starts /\ NextBatchId' = NextBatchId
  BY <1>1, SessionsSteady DEF journalVars, NextBatchId
<1>5. AnchorIsNext'
  BY <1>2, <1>3, <1>4 DEF HistoryInv, AnchorIsNext
<1>6. CutIsDue'
  BY <1>2, <1>3, <1>4 DEF HistoryInv, CutIsDue
<1> QED
  BY <1>1, <1>5, <1>6, PruneHeld, QuietHistory DEF journalVars

(* All sessions start before the next row when the last one does. *)
LEMMA LastIsLatest ==
  ASSUME Inductive, SessionsChronological, LastStartId # NextBatchId
  PROVE  \A s \in Starts : s < NextBatchId
<1> SUFFICES ASSUME NEW i \in DOMAIN sessions
             PROVE  sessions[i].start < NextBatchId
  BY DEF Starts
<1> DEFINE n == Len(sessions)
<1>1. /\ i \in 1..n /\ n \in 1..n /\ n \in Nat
      /\ DOMAIN sessions = 1..n /\ sessions # <<>>
      /\ NextBatchId \in Nat
      /\ sessions[i].start \in Nat /\ sessions[n].start \in Nat
      /\ sessions[i].start <= NextBatchId
      /\ sessions[n].start <= NextBatchId
  BY HistoryTypes
<1>2. sessions[n].start < NextBatchId
  BY <1>1 DEF LastStartId
<1>3. i = n \/ sessions[i].start < sessions[n].start
  BY <1>1 DEF SessionsChronological
<1> HIDE DEF n
<1> QED
  BY <1>1, <1>2, <1>3

LEMMA DedupHistory ==
  ASSUME HistoryInv, NEW c \in Conns,
         \/ Dedup(c, "loginDedup", "loginCut", "store")
         \/ Dedup(c, "gapDedup", "gapCut", "append")
  PROVE  HistoryStep
<1>1. UNCHANGED <<journalVars, sessionVars, anchor, adminVars>>
  BY DEF Dedup
<1>2. pc \in [Conns -> IngestPc]
  BY DEF HistoryInv, Inductive, TypeOK, TaskTypeOK
<1>3. /\ pc[c] \in {"loginDedup", "gapDedup"}
      /\ \/ /\ LastStartId # anchor[c]
            /\ \E to \in {"loginCut", "gapCut"} : pc' = [pc EXCEPT ![c] = to]
         \/ \E to \in {"store", "append"} : pc' = [pc EXCEPT ![c] = to]
  BY DEF Dedup
<1>4. Starts' = Starts /\ NextBatchId' = NextBatchId
  BY <1>1, SessionsSteady DEF journalVars, NextBatchId
<1>5. anchor[c] = NextBatchId
  BY <1>3 DEF HistoryInv, AnchorIsNext
<1>6. AnchorIsNext'
  BY <1>1, <1>2, <1>3, <1>4, <1>5 DEF HistoryInv, AnchorIsNext
<1>7. CutIsDue'
  BY <1>1, <1>2, <1>3, <1>4, <1>5, LastIsLatest DEF HistoryInv, CutIsDue
<1> QED
  BY <1>1, <1>6, <1>7, PruneHeld, QuietHistory DEF journalVars
-----------------------------------------------------------------------------
(* Cutting and storing. *)

(* A cut whose number is free adds one session to the list and the table. *)
LEMMA CutExtends ==
  ASSUME Inductive, NEW start \in Nat \ {0}, CutSession(start),
         Len(sessions) + 1 \notin DOMAIN sessionRows
  PROVE  /\ Len(sessions') = Len(sessions) + 1
         /\ DOMAIN sessions' = 1..Len(sessions')
         /\ \A i \in DOMAIN sessions : sessions'[i] = sessions[i]
         /\ sessions'[Len(sessions')].start = start
         /\ Starts' = Starts \cup {start}
         /\ TableAgrees => TableAgrees'
<1> DEFINE n == Len(sessions)
           new == [num |-> n + 1, start |-> start]
<1>1. sessions \in Seq(Session) /\ n \in Nat /\ DOMAIN sessions = 1..n
  BY HistoryTypes
<1>2. /\ sessions' = Append(sessions, new)
      /\ sessionRows' = [i \in DOMAIN sessionRows \cup {n + 1} |->
                           IF i = n + 1 THEN start ELSE sessionRows[i]]
  BY DEF CutSession
<1>3. new \in Session
  BY <1>1 DEF Session
<1>4. /\ Len(sessions') = n + 1 /\ DOMAIN sessions' = 1..(n + 1)
      /\ \A i \in 1..n : sessions'[i] = sessions[i]
      /\ sessions'[n + 1].start = start
  BY <1>1, <1>2, <1>3, AppendProperties
<1>5. Starts' = Starts \cup {start}
  <2>1. Starts' = {sessions'[i].start : i \in 1..(n + 1)}
    BY <1>4 DEF Starts
  <2>2. Starts = {sessions[i].start : i \in 1..n}
    BY <1>1 DEF Starts
  <2>3. 1..(n + 1) = 1..n \cup {n + 1}
    BY <1>1
  <2> HIDE DEF n
  <2> QED
    BY <2>1, <2>2, <2>3, <1>4
<1>6. ASSUME TableAgrees PROVE TableAgrees'
  <2>1. DOMAIN sessionRows = 1..n /\ \A i \in 1..n : sessionRows[i] = sessions[i].start
    BY <1>6 DEF TableAgrees
  <2>2. DOMAIN sessionRows' = 1..(n + 1)
    BY <1>1, <1>2, <2>1
  <2>3. ASSUME NEW i \in 1..(n + 1) PROVE sessionRows'[i] = sessions'[i].start
    <3>1. CASE i = n + 1
      BY <3>1, <1>2, <1>4, <2>2
    <3>2. CASE i # n + 1
      <4>1. i \in 1..n
        BY <3>2, <1>1
      <4> QED
        BY <3>2, <4>1, <1>2, <1>4, <2>1
    <3> QED
      BY <3>1, <3>2
  <2> QED
    BY <1>4, <2>2, <2>3 DEF TableAgrees
<1> QED
  BY <1>1, <1>4, <1>5, <1>6

(* While the table agrees with the list, no cut is refused. *)
LEMMA CutRecorded ==
  ASSUME Inductive, TableAgrees, NEW start \in Nat \ {0}, CutSession(start)
  PROVE  TableAgrees' /\ Starts' = Starts \cup {start}
<1>1. Len(sessions) + 1 \notin DOMAIN sessionRows
  BY HistoryTypes DEF TableAgrees
<1> QED
  BY <1>1, CutExtends

LEMMA CutOrdered ==
  ASSUME Inductive, SessionsChronological, NEW start \in Nat \ {0},
         \A s \in Starts : s < start, CutSession(start)
  PROVE  /\ SessionsChronological'
         /\ Starts \subseteq Starts' /\ Starts' \subseteq Starts \cup {start}
         /\ TableAgrees => TableAgrees'
<1> DEFINE n == Len(sessions)
<1>1. n \in Nat /\ DOMAIN sessions = 1..n
  BY HistoryTypes
<1>2. CASE n + 1 \in DOMAIN sessionRows
  <2>1. UNCHANGED <<sessions, sessionRows>>
    BY <1>2 DEF CutSession, sessionVars
  <2> QED
    BY <2>1 DEF SessionsChronological, Starts, TableAgrees
<1>3. CASE n + 1 \notin DOMAIN sessionRows
  <2>1. /\ DOMAIN sessions' = 1..(n + 1)
        /\ \A i \in 1..n : sessions'[i] = sessions[i]
        /\ sessions'[n + 1].start = start
        /\ Starts' = Starts \cup {start}
        /\ TableAgrees => TableAgrees'
    BY <1>1, <1>3, CutExtends
  <2>2. SessionsChronological'
    <3> SUFFICES ASSUME NEW i \in 1..(n + 1), NEW j \in 1..(n + 1), i < j
                 PROVE  sessions'[i].start < sessions'[j].start
      BY <2>1 DEF SessionsChronological
    <3>1. i \in 1..n /\ (j = n + 1 \/ j \in 1..n)
      BY <1>1
    <3>2. sessions[i].start < start
      BY <3>1, <1>1 DEF Starts
    <3>3. j \in 1..n => sessions[i].start < sessions[j].start
      BY <3>1, <1>1 DEF SessionsChronological
    <3> HIDE DEF n
    <3> QED
      BY <3>1, <3>2, <3>3, <2>1
  <2> QED
    BY <2>1, <2>2
<1> QED
  BY <1>2, <1>3

LEMMA CutHistory ==
  ASSUME HistoryInv, OneClient, NEW c \in Conns,
         Cut(c, "loginCut", "store") \/ Cut(c, "gapCut", "append")
  PROVE  HistoryStep
<1>1. UNCHANGED <<journalVars, adminVars>>
  BY DEF Cut
<1>2. pc \in [Conns -> IngestPc]
  BY DEF HistoryInv, Inductive, TypeOK, TaskTypeOK
<1>3. /\ pc[c] \in {"loginCut", "gapCut"}
      /\ \E to \in {"store", "append"} : pc' = [pc EXCEPT ![c] = to]
      /\ CutSession(anchor[c]) \/ UNCHANGED sessionVars
  BY DEF Cut
<1>4. /\ anchor[c] = NextBatchId /\ NextBatchId \in Nat \ {0}
      /\ \A s \in Starts : s < NextBatchId
  BY <1>3, HistoryTypes DEF HistoryInv, AnchorIsNext, CutIsDue
<1>5. AnchorIsNext' /\ CutIsDue'
  BY <1>2, <1>3 DEF OneClient, AnchorIsNext, CutIsDue
<1>6. PruneBelow'
  BY <1>1, PruneHeld DEF journalVars
<1>7. CASE UNCHANGED sessionVars
  BY <1>1, <1>5, <1>6, <1>7, QuietHistory
<1>8. CASE CutSession(anchor[c])
  <2>1. /\ SessionsChronological'
        /\ TableAgrees => TableAgrees'
        /\ (Starts \ Starts') \cup (Starts' \ Starts) \subseteq {NextBatchId}
    BY <1>4, <1>8, CutOrdered DEF HistoryInv
  <2>2. \A i, j \in DOMAIN rows : NextBatchId <= i <=> NextBatchId <= j
    BY HistoryTypes DEF HistoryInv
  <2>3. Runs' = Runs
    BY <1>1, <2>1, <2>2, RunsSame DEF journalVars
  <2> QED
    BY <1>5, <1>6, <2>1, <2>3 DEF HistoryStep, HistoryInv
<1> QED
  BY <1>3, <1>7, <1>8

LEMMA StoreHistory ==
  ASSUME HistoryInv, OneClient, NEW c \in Conns, Store(c)
  PROVE  HistoryStep
<1>1. UNCHANGED <<sessionVars, adminVars>>
  BY DEF Store
<1>2. pc \in [Conns -> IngestPc]
  BY DEF HistoryInv, Inductive, TypeOK, TaskTypeOK
<1>3. /\ pc[c] = "append"
      /\ \E to \in {"recv", "store"} : pc' = [pc EXCEPT ![c] = to]
      /\ (\E w, sub : JournalAppend(w, sub)) \/ UNCHANGED journalVars
  BY DEF Store
<1>4. AnchorIsNext' /\ CutIsDue'
  BY <1>2, <1>3 DEF OneClient, AnchorIsNext, CutIsDue
<1>5. CASE UNCHANGED journalVars
  BY <1>1, <1>4, <1>5, PruneHeld, QuietHistory DEF journalVars
<1>6. CASE \E w, sub : JournalAppend(w, sub)
  <2>1. DOMAIN rows' = DOMAIN rows \cup {NextBatchId}
    BY <1>6 DEF JournalAppend
  <2>2. Starts' = Starts
    BY <1>1, SessionsSteady
  <2>3. Partition!Store
    BY <2>1, <2>2, RunsGrow DEF HistoryInv
  <2>4. PruneBelow'
    <3> SUFFICES ASSUME NEW a \in Admins, adminPc[a] = "pruneSessions"
                 PROVE  /\ "prune" \in Ops
                        /\ adminMin[a] # None =>
                             \A id \in DOMAIN rows' : adminMin[a] <= id
      BY <1>1 DEF PruneBelow, adminVars
    <3>1. /\ "prune" \in Ops
          /\ adminMin[a] # None => \A id \in DOMAIN rows : adminMin[a] <= id
      BY DEF HistoryInv, PruneBelow
    <3>2. ASSUME adminMin[a] # None PROVE adminMin[a] <= NextBatchId
      <4>1. AdminInv /\ autoinc \in Nat /\ NextBatchId = autoinc + 1
        BY InductiveParts, HistoryTypes DEF HistoryInv
      <4>2. adminMin[a] \in Nat /\ adminMin[a] <= autoinc
        BY <4>1, <3>2 DEF AdminInv
      <4> QED
        BY <4>1, <4>2
    <3> QED
      BY <3>1, <3>2, <2>1
  <2> QED
    BY <1>1, <1>4, <2>3, <2>4, SessionsSteady DEF HistoryStep, Partition!Next
<1> QED
  BY <1>3, <1>5, <1>6
-----------------------------------------------------------------------------
(* Maintenance. *)

(* The journal loses rows: a prune, or the journal's half of a reset. *)
LEMMA JournalShrinks ==
  ASSUME HistoryInv, UNCHANGED <<autoinc, sessionVars, ingestVars>>,
         DOMAIN rows' \subseteq DOMAIN rows, PruneBelow'
  PROVE  HistoryStep
BY SessionsSteady, TasksHeld, RunsShrink DEF HistoryStep, Partition!Next

LEMMA PruneJournalHistory ==
  ASSUME HistoryInv, Inductive', NEW a \in Admins, NEW cutoff \in Cutoffs,
         PruneJournal(a, cutoff)
  PROVE  HistoryStep
<1>1. /\ UNCHANGED <<autoinc, sessionVars, ingestVars>>
      /\ DOMAIN rows' \subseteq DOMAIN rows
      /\ "prune" \in Ops
  BY DEF PruneJournal, JournalPrune, JournalPruneVacuumFails, Restrict, Surviving
<1>2. ASSUME UNCHANGED adminVars PROVE PruneBelow'
  BY <1>1, <1>2 DEF HistoryInv, PruneBelow, adminVars
<1>3. ASSUME NEW min \in DOMAIN index' \cup {None},
             \A id \in DOMAIN index' : min <= id,
             adminMin' = [adminMin EXCEPT ![a] = min],
             adminPc' = [adminPc EXCEPT ![a] = "pruneSessions"]
      PROVE  PruneBelow'
  <2>1. DOMAIN rows' \subseteq DOMAIN index'
    BY DEF Inductive, IndexCoversRows
  <2>2. \A id \in DOMAIN rows' : min <= id
    BY <1>3, <2>1
  <2>3. /\ adminMin \in [Admins -> (Nat \ {0}) \cup {None}]
        /\ adminPc \in [Admins -> AdminPc]
    BY DEF HistoryInv, Inductive, TypeOK, TaskTypeOK
  <2> QED
    BY <1>1, <1>3, <2>2, <2>3 DEF HistoryInv, PruneBelow
<1>4. PruneBelow'
  <2>1. CASE UNCHANGED adminVars
    BY <1>2, <2>1
  <2>2. CASE \E min \in DOMAIN index' \cup {None} :
               /\ \A id \in DOMAIN index' : min <= id
               /\ adminMin' = [adminMin EXCEPT ![a] = min]
               /\ adminPc' = [adminPc EXCEPT ![a] = "pruneSessions"]
    BY <1>3, <2>2
  <2> QED
    BY <2>1, <2>2 DEF PruneJournal
<1> QED
  BY <1>1, <1>4, JournalShrinks

LEMMA ResetJournalHistory ==
  ASSUME HistoryInv, NEW a \in Admins, ResetJournal(a)
  PROVE  HistoryStep
<1>1. /\ UNCHANGED <<autoinc, sessionVars, ingestVars, adminMin>>
      /\ adminPc' = [adminPc EXCEPT ![a] = "resetSessions"]
      /\ rows' = <<>>
  BY DEF ResetJournal, JournalClear
<1>2. DOMAIN rows' \subseteq DOMAIN rows
  BY <1>1
<1>3. adminPc \in [Admins -> AdminPc]
  BY DEF HistoryInv, Inductive, TypeOK, TaskTypeOK
<1>4. PruneBelow'
  BY <1>1, <1>2, <1>3 DEF HistoryInv, PruneBelow
<1> QED
  BY <1>1, <1>2, <1>4, JournalShrinks

(* What SessionIndex::prune leaves of the list: its end, in order, and the
   starts that went or came are no later than the surviving rows. *)
LEMMA PruneOrdered ==
  ASSUME Inductive, SessionsChronological, NEW min \in Nat,
         NEW k \in DOMAIN sessions, IsKeepFrom(k, min),
         sessions' = PrunedList(k, min)
  PROVE  /\ SessionsChronological'
         /\ Starts' \subseteq Starts \cup {min}
         /\ \A s \in (Starts \ Starts') \cup (Starts' \ Starts) : s <= min
<1> DEFINE n == Len(sessions)
           kept == SubSeq(sessions, k, n)
           first == IF sessions[k].start < min THEN min ELSE sessions[k].start
<1>1. /\ sessions \in Seq(Session) /\ n \in Nat /\ DOMAIN sessions = 1..n
      /\ k \in 1..n
      /\ \A i \in 1..n : sessions[i].start \in Nat /\ sessions[i] \in Session
  BY HistoryTypes
<1>2. /\ kept \in Seq(Session) /\ Len(kept) = n - k + 1
      /\ \A i \in 1..(n - k + 1) : kept[i] = sessions[k + i - 1]
  <2>1. \A i \in k..n : sessions[i] \in Session
    BY <1>1
  <2> QED
    BY <1>1, <2>1, SubSeqProperties
<1>3. /\ DOMAIN sessions' = 1..(n - k + 1)
      /\ sessions'[1].start = first
      /\ \A i \in 2..(n - k + 1) : sessions'[i].start = sessions[k + i - 1].start
  <2>1. 1 \in 1..(n - k + 1) /\ kept[1] = sessions[k] /\ DOMAIN kept = 1..(n - k + 1)
    BY <1>1, <1>2
  <2>2. CASE sessions[k].start < min
    <3>1. sessions' = [kept EXCEPT ![1] = [kept[1] EXCEPT !.start = min]]
      BY <2>2 DEF PrunedList
    <3>2. [kept[1] EXCEPT !.start = min].start = min
      BY <2>1, <1>1 DEF Session
    <3>3. /\ DOMAIN sessions' = 1..(n - k + 1)
          /\ sessions'[1] = [kept[1] EXCEPT !.start = min]
          /\ \A i \in 2..(n - k + 1) : sessions'[i] = kept[i]
      <4> HIDE DEF kept, n
      <4> QED
        BY <2>1, <3>1
    <3> QED
      BY <1>1, <1>2, <2>2, <3>2, <3>3
  <2>3. CASE ~ (sessions[k].start < min)
    <3>1. sessions' = kept
      BY <2>3 DEF PrunedList
    <3>2. sessions'[1].start = first
      BY <2>1, <2>3, <3>1
    <3>3. \A i \in 2..(n - k + 1) : i \in 1..(n - k + 1)
      BY <1>1
    <3> HIDE DEF kept, n, first
    <3> QED
      BY <1>2, <2>1, <3>1, <3>2, <3>3
  <2> QED
    BY <2>2, <2>3
<1>4. /\ \A j \in 1..n : j > k => sessions[j].start > min
      /\ sessions[k].start <= min \/ k = 1
  BY <1>1 DEF IsKeepFrom
<1>5. \A i, j \in 1..n : i < j => sessions[i].start < sessions[j].start
  BY <1>1 DEF SessionsChronological
<1>6. first \in Nat /\ first >= min /\ \A j \in 1..n : j > k => first < sessions[j].start
  <2>1. \A j \in 1..n : j > k => sessions[k].start < sessions[j].start
    BY <1>1, <1>5
  <2> QED
    BY <1>1, <1>4, <2>1
<1> HIDE DEF n, kept, first
<1>7. SessionsChronological'
  <2> SUFFICES ASSUME NEW i \in 1..(n - k + 1), NEW j \in 1..(n - k + 1), i < j
               PROVE  sessions'[i].start < sessions'[j].start
    BY <1>3 DEF SessionsChronological
  <2>1. /\ j \in 2..(n - k + 1) /\ k + j - 1 \in 1..n /\ k + j - 1 > k
        /\ i = 1 \/ i \in 2..(n - k + 1)
        /\ k + i - 1 \in 1..n /\ k + i - 1 < k + j - 1
    BY <1>1
  <2>2. sessions'[j].start = sessions[k + j - 1].start
    BY <1>3, <2>1
  <2>3. CASE i = 1
    BY <1>3, <1>6, <2>1, <2>2, <2>3
  <2>4. CASE i \in 2..(n - k + 1)
    BY <1>3, <1>5, <2>1, <2>2, <2>4
  <2> QED
    BY <2>1, <2>3, <2>4
<1>8. \A i \in 1..(n - k + 1) :
        sessions'[i].start \in Starts \/ sessions'[i].start = min
  <2> SUFFICES ASSUME NEW i \in 1..(n - k + 1)
               PROVE  sessions'[i].start \in Starts \/ sessions'[i].start = min
    OBVIOUS
  <2>1. k + i - 1 \in 1..n /\ (i = 1 \/ i \in 2..(n - k + 1))
    BY <1>1
  <2>2. sessions[k].start \in Starts /\ sessions[k + i - 1].start \in Starts
    BY <1>1, <2>1 DEF Starts
  <2> QED
    BY <1>3, <2>1, <2>2 DEF first
<1>9. Starts' \subseteq Starts \cup {min}
  BY <1>3, <1>8 DEF Starts
<1>10. ASSUME NEW s \in Starts, s \notin Starts'
       PROVE  s <= min
  <2>1. PICK j \in 1..n : s = sessions[j].start
    BY <1>1 DEF Starts
  <2>2. j <= k
    <3>1. SUFFICES ASSUME j > k PROVE FALSE
      BY <1>1
    <3>2. j - k + 1 \in 2..(n - k + 1) /\ k + (j - k + 1) - 1 = j
      BY <1>1, <3>1
    <3>3. sessions'[j - k + 1].start = s /\ j - k + 1 \in DOMAIN sessions'
      BY <1>1, <1>3, <2>1, <3>2
    <3> QED
      BY <3>3, <1>10 DEF Starts
  <2>3. CASE j = k
    <3>1. 1 \in DOMAIN sessions'
      BY <1>1, <1>3
    <3>2. first # s
      BY <1>3, <3>1, <1>10 DEF Starts
    <3> QED
      BY <1>1, <2>1, <2>3, <3>2 DEF first
  <2>4. CASE j < k
    <3>1. k # 1 /\ sessions[k].start <= min /\ s < sessions[k].start
      BY <1>1, <1>4, <1>5, <2>1, <2>4
    <3> QED
      BY <1>1, <2>1, <3>1
  <2> QED
    BY <1>1, <2>2, <2>3, <2>4
<1> QED
  BY <1>7, <1>9, <1>10

LEMMA PruneSessionsHistory ==
  ASSUME HistoryInv, NEW a \in Admins, PruneSessions(a)
  PROVE  HistoryStep
<1>1. /\ UNCHANGED <<journalVars, ingestVars>>
      /\ adminPc[a] = "pruneSessions"
      /\ \E to \in {"pruneMarkers", "idle"} : adminPc' = [adminPc EXCEPT ![a] = to]
      /\ adminMin' = [adminMin EXCEPT ![a] = None]
      /\ \/ SessionPrune(adminMin[a])
         \/ SessionPruneUpdateFails(adminMin[a])
         \/ UNCHANGED sessionVars
  BY DEF PruneSessions
<1>2. UNCHANGED <<rows, autoinc, pc, anchor>> /\ NextBatchId' = NextBatchId
  BY <1>1 DEF journalVars, ingestVars, NextBatchId
<1>3. PruneBelow'
  <2>1. /\ adminMin \in [Admins -> (Nat \ {0}) \cup {None}]
        /\ adminPc \in [Admins -> AdminPc]
    BY DEF HistoryInv, Inductive, TypeOK, TaskTypeOK
  <2> QED
    BY <1>1, <1>2, <2>1 DEF HistoryInv, PruneBelow
<1>4. AnchorIsNext'
  BY <1>2 DEF HistoryInv, AnchorIsNext
<1>5. "prune" \in Ops /\ (adminMin[a] # None => \A id \in DOMAIN rows : adminMin[a] <= id)
  BY <1>1 DEF HistoryInv, PruneBelow
<1>6. CASE UNCHANGED sessionVars
  BY <1>1, <1>3, <1>6, TasksHeld, QuietHistory DEF journalVars
<1>7. CASE SessionClear
  <2>1. sessions' = <<>> /\ DOMAIN sessions' = {}
    BY <1>7 DEF SessionClear
  <2>2. Starts' = {} /\ SessionsChronological'
    BY <2>1 DEF Starts, SessionsChronological
  <2>3. CutIsDue' /\ Partition!Forget
    BY <1>2, <2>2, RunsForgotten DEF CutIsDue
  <2> QED
    BY <1>3, <1>4, <1>5, <2>2, <2>3 DEF HistoryStep, Partition!Next
<1>8. CASE /\ adminMin[a] # None
           /\ \E k \in DOMAIN sessions : /\ IsKeepFrom(k, adminMin[a])
                                        /\ sessions' = PrunedList(k, adminMin[a])
  <2>1. adminMin[a] \in Nat /\ adminMin[a] < NextBatchId
    <3>1. AdminInv /\ autoinc \in Nat /\ NextBatchId = autoinc + 1
      BY InductiveParts, HistoryTypes DEF HistoryInv
    <3>2. adminMin[a] \in Nat /\ adminMin[a] <= autoinc
      BY <3>1, <1>8 DEF AdminInv
    <3> QED
      BY <3>1, <3>2
  <2>2. /\ SessionsChronological'
        /\ Starts' \subseteq Starts \cup {adminMin[a]}
        /\ \A s \in (Starts \ Starts') \cup (Starts' \ Starts) : s <= adminMin[a]
    BY <1>8, <2>1, PruneOrdered DEF HistoryInv
  <2>3. CutIsDue'
    BY <1>2, <2>1, <2>2 DEF HistoryInv, CutIsDue
  <2>4. ASSUME NEW s \in (Starts \ Starts') \cup (Starts' \ Starts),
               NEW i \in DOMAIN rows
        PROVE  s <= i
    <3>1. s \in Nat /\ i \in Nat
      BY HistoryTypes, <2>1, <2>2 DEF HistoryInv
    <3>2. s <= adminMin[a] /\ adminMin[a] <= i
      BY <1>5, <1>8, <2>2
    <3> QED
      BY <2>1, <3>1, <3>2
  <2>5. Runs' = Runs
    BY <1>2, <2>4, RunsSame
  <2> QED
    BY <1>3, <1>4, <1>5, <2>2, <2>3, <2>5 DEF HistoryStep
<1> QED
  BY <1>1, <1>6, <1>7, <1>8 DEF SessionPrune, SessionPruneUpdateFails

LEMMA OtherMaintenanceHistory ==
  ASSUME HistoryInv, NEW a \in Admins, PruneMarkers(a) \/ ResetSessions(a)
  PROVE  HistoryStep
<1>1. /\ UNCHANGED <<journalVars, ingestVars, adminMin>>
      /\ adminPc' = [adminPc EXCEPT ![a] = "idle"]
      /\ SessionClear \/ UNCHANGED sessionVars
  BY DEF PruneMarkers, ResetSessions
<1>2. UNCHANGED <<rows, autoinc, pc, anchor>> /\ NextBatchId' = NextBatchId
  BY <1>1 DEF journalVars, ingestVars, NextBatchId
<1>3. PruneBelow'
  <2>1. adminPc \in [Admins -> AdminPc]
    BY DEF HistoryInv, Inductive, TypeOK, TaskTypeOK
  <2> QED
    BY <1>1, <1>2, <2>1 DEF HistoryInv, PruneBelow
<1>4. AnchorIsNext'
  BY <1>2 DEF HistoryInv, AnchorIsNext
<1>5. CASE UNCHANGED sessionVars
  BY <1>1, <1>3, <1>5, TasksHeld, QuietHistory DEF journalVars
<1>6. CASE SessionClear
  <2>1. /\ sessions' = <<>> /\ DOMAIN sessions' = {} /\ Len(sessions') = 0
        /\ DOMAIN sessionRows' = {}
    BY <1>6 DEF SessionClear
  <2>2. Starts' = {} /\ SessionsChronological' /\ TableAgrees'
    BY <2>1 DEF Starts, SessionsChronological, TableAgrees
  <2>3. CutIsDue' /\ Partition!Forget
    BY <1>2, <2>2, RunsForgotten DEF CutIsDue
  <2> QED
    BY <1>3, <1>4, <2>2, <2>3 DEF HistoryStep, Partition!Next
<1> QED
  BY <1>1, <1>5, <1>6
-----------------------------------------------------------------------------
(* Restarts: without prunes the table gives the list back. *)

LEMMA OpenGivesBack ==
  ASSUME Inductive, TableAgrees, SessionOpen
  PROVE  /\ TableAgrees' /\ Starts' = Starts
         /\ SessionsChronological => SessionsChronological'
<1> DEFINE n == Len(sessions)
<1>1. n \in Nat /\ DOMAIN sessions = 1..n
  BY HistoryTypes
<1>2. /\ DOMAIN sessionRows = 1..n
      /\ \A i \in 1..n : sessionRows[i] = sessions[i].start
  BY DEF TableAgrees
<1>3. PICK nums \in Ascending(1..n) :
        sessions' = [i \in DOMAIN nums |->
                       [num |-> nums[i], start |-> sessionRows[nums[i]]]]
  BY <1>2 DEF SessionOpen
<1>4. DOMAIN nums = 1..n /\ \A i \in 1..n : nums[i] = i
  BY <1>1, AscendingInterval
<1>5. /\ DOMAIN sessions' = 1..n
      /\ \A i \in 1..n : sessions'[i].start = sessions[i].start
  BY <1>2, <1>3, <1>4
<1>6. Len(sessions') = n
  BY <1>1, <1>3, <1>4
<1>7. sessionRows' = sessionRows
  BY DEF SessionOpen
<1> QED
  BY <1>1, <1>2, <1>5, <1>6, <1>7
  DEF SessionsChronological, TableAgrees, Starts

LEMMA ScanIsOrdered ==
  ASSUME Inductive,
         RetroactiveScan(Entries(rows)) \/ RetroactiveScanStops(Entries(rows))
  PROVE  SessionsChronological' /\ TableAgrees'
<1> DEFINE S == ScanStarts(Entries(rows))
           m == Cardinality(S)
<1>1. S \subseteq 1..autoinc /\ autoinc \in Nat
  BY InductiveParts DEF ScanStarts, Entries, JournalInv, JournalTypeOK
<1>2. m \in Nat
  <2>1. IsFiniteSet(1..autoinc)
    BY <1>1, FS_Interval
  <2> QED
    BY <1>1, <2>1, FS_Subset, FS_CardinalityType
<1>3. PICK starts \in Ascending(S), done \in 0..m : Scanned(starts, done)
  <2>1. ASSUME NEW starts \in Ascending(S) PROVE Len(starts) = m
    BY <1>2, <2>1 DEF Ascending
  <2>2. CASE RetroactiveScan(Entries(rows))
    BY <2>1, <2>2, <1>2 DEF RetroactiveScan
  <2>3. CASE RetroactiveScanStops(Entries(rows))
    <3>1. PICK starts \in Ascending(S) :
            \E done \in 0..Len(starts) - 1 : Scanned(starts, done)
      BY <2>3 DEF RetroactiveScanStops
    <3> QED
      BY <2>1, <3>1, <1>2
  <2> QED
    BY <2>2, <2>3
<1>4. /\ sessions' = [i \in 1..done |-> [num |-> i, start |-> starts[i]]]
      /\ sessionRows' = [i \in 1..done |-> starts[i]]
      /\ done \in Nat /\ done <= m
  BY <1>2, <1>3 DEF Scanned
<1>5. \A i, j \in 1..m : i < j => starts[i] < starts[j]
  BY <1>2, <1>3 DEF Ascending
<1>6. Len(sessions') = done
  BY <1>4
<1> HIDE DEF m
<1> QED
  BY <1>2, <1>4, <1>5, <1>6 DEF SessionsChronological, TableAgrees

LEMMA RestartHistory ==
  ASSUME HistoryInv, Inductive', "prune" \notin Ops, Restart
  PROVE  HistoryStep
<1>1. /\ UNCHANGED <<rows, autoinc>>
      /\ \A c \in Conns : pc'[c] = "closed"
      /\ \A a \in Admins : adminPc'[a] = "idle"
  BY DEF Restart, JournalOpen
<1>2. AnchorIsNext' /\ CutIsDue' /\ PruneBelow'
  BY <1>1 DEF AnchorIsNext, CutIsDue, PruneBelow
<1>3. TableAgrees /\ Inductive
  BY DEF HistoryInv
<1>4. CASE SessionOpen
  <2>1. SessionsChronological' /\ TableAgrees' /\ Starts' = Starts
    BY <1>3, <1>4, OpenGivesBack DEF HistoryInv
  <2>2. Runs' = Runs
    BY <1>1, <2>1, RunsSame
  <2> QED
    BY <1>2, <2>1, <2>2 DEF HistoryStep
<1>5. CASE /\ sessionRows = <<>>
           /\ RetroactiveScan(Entries(rows)) \/ RetroactiveScanStops(Entries(rows))
  <2>1. Starts = {}
    <3>1. DOMAIN sessionRows = {}
      BY <1>5
    <3>2. DOMAIN sessions = {}
      BY <1>3, <3>1, HistoryTypes DEF TableAgrees
    <3> QED
      BY <3>2 DEF Starts
  <2>2. Partition!Divide
    BY <1>1, <1>3, <2>1, RunsDivided
  <2> QED
    BY <1>2, <1>3, <1>5, <2>2, ScanIsOrdered DEF HistoryStep, Partition!Next
<1> QED
  BY <1>4, <1>5 DEF Restart
-----------------------------------------------------------------------------

LEMMA InitHistory ==
  Init => HistoryInv /\ Partition!Init
<1> SUFFICES ASSUME Init PROVE HistoryInv /\ Partition!Init
  OBVIOUS
<1>1. /\ rows = <<>> /\ sessions = <<>> /\ sessionRows = <<>>
      /\ \A c \in Conns : pc[c] = "closed"
      /\ \A a \in Admins : adminPc[a] = "idle"
  BY DEF Init, JournalInit, SessionInit
<1>2. DOMAIN rows = {} /\ DOMAIN sessions = {} /\ DOMAIN sessionRows = {} /\ Len(sessions) = 0
  BY <1>1
<1>3. SessionsChronological /\ TableAgrees /\ AnchorIsNext /\ CutIsDue /\ PruneBelow
  BY <1>1, <1>2 DEF SessionsChronological, TableAgrees, AnchorIsNext, CutIsDue,
     PruneBelow
<1>4. Runs = <<>>
  BY <1>2 DEF Runs
<1> QED
  BY <1>3, <1>4, InitInductive DEF HistoryInv, Partition!Init

LEMMA HistorySteps ==
  ASSUME HistoryInv, OneClient, "prune" \notin Ops \/ "restart" \notin Ops,
         [Next]_vars
  PROVE  HistoryInv' /\ [Partition!Next]_Runs
<1>1. Inductive'
  BY StepInductive DEF HistoryInv
<1>2. HistoryStep
  <2>1. CASE UNCHANGED vars
    BY <2>1, PruneHeld, TasksHeld, QuietHistory DEF vars, journalVars
  <2>2. CASE \E c \in Conns : \/ Connect(c)
                              \/ Close(c)
                              \/ \E events \in Batches : Receive(c, events)
                              \/ Ingest(c)
    BY <2>2, HelloAndMarksHistory, AnchoringHistory, DedupHistory, CutHistory,
       StoreHistory DEF Ingest
  <2>3. CASE \E a \in Admins : \/ \E cutoff \in Cutoffs : PruneJournal(a, cutoff)
                               \/ ResetJournal(a)
                               \/ Maintain(a)
    BY <2>3, <1>1, PruneJournalHistory, ResetJournalHistory, PruneSessionsHistory,
       OtherMaintenanceHistory DEF Maintain
  <2>4. CASE (\E t \in Times : AddMarker(t) \/ DeleteMarker(t)) \/ Tick
    <3>1. UNCHANGED <<journalVars, sessionVars, ingestVars, adminVars>>
      BY <2>4 DEF AddMarker, DeleteMarker, Tick
    <3> QED
      BY <3>1, PruneHeld, TasksHeld, QuietHistory DEF journalVars
  <2>5. CASE Restart
    BY <2>5, <1>1, RestartHistory DEF Restart
  <2> QED
    BY <2>1, <2>2, <2>3, <2>4, <2>5 DEF Next
<1> QED
  BY <1>1, <1>2 DEF HistoryStep, HistoryInv

(* The list of sessions stays in the order of play: one client pushes at a
   time, whatever fails, and whatever is reset, and either pruned or restarted
   (session_index.rs:167-204, ingest.rs:214-243). *)
THEOREM SessionsStayChronological ==
  ASSUME OneClient, "prune" \notin Ops \/ "restart" \notin Ops
  PROVE  Spec => []SessionsChronological
<1>1. HistoryInv /\ [Next]_vars => HistoryInv'
  BY HistorySteps
<1>2. HistoryInv => SessionsChronological
  BY DEF HistoryInv
<1> QED
  BY <1>1, <1>2, InitHistory, PTL DEF Spec

(* A batch once stored keeps its session: under the same conditions the store
   implements SessionPartition, every step of it a step or a stutter there
   (ingest.rs:212-243, session_index.rs:160-204, main.rs:571-618 and 765-784). *)
THEOREM HistoryIsKept ==
  ASSUME OneClient, "prune" \notin Ops \/ "restart" \notin Ops
  PROVE  Spec => KeepsHistory
<1>1. HistoryInv /\ [Next]_vars => HistoryInv' /\ [Partition!Next]_Runs
  BY HistorySteps
<1> QED
  BY <1>1, InitHistory, PTL DEF Spec, KeepsHistory, Partition!Spec
-----------------------------------------------------------------------------
(* Cuts, for any number of clients: no prune, and the table takes every
   row. *)

TableInv ==
  /\ Inductive
  /\ TableAgrees
  /\ \A a \in Admins : adminPc[a] # "pruneSessions"

LEMMA TableSteps ==
  ASSUME TableInv, "prune" \notin Ops, [Next]_vars
  PROVE  TableInv'
<1>1. Inductive'
  BY StepInductive DEF TableInv
<1>2. /\ pc \in [Conns -> IngestPc] /\ adminPc \in [Admins -> AdminPc]
      /\ anchor \in [Conns -> (Nat \ {0}) \cup {None}] /\ CutHasAnchor
  BY DEF TableInv, Inductive, TypeOK, TaskTypeOK
<1>3. ASSUME UNCHANGED sessionVars PROVE TableAgrees'
  BY <1>3 DEF TableInv, TableAgrees, sessionVars
<1>4. CASE UNCHANGED vars
  BY <1>1, <1>3, <1>4 DEF TableInv, vars, adminVars
<1>5. ASSUME NEW c \in Conns,
             Cut(c, "loginCut", "store") \/ Cut(c, "gapCut", "append")
      PROVE  TableInv'
  <2>1. pc[c] \in {"loginCut", "gapCut"} /\ UNCHANGED adminVars
        /\ (CutSession(anchor[c]) \/ UNCHANGED sessionVars)
    BY <1>5 DEF Cut
  <2>2. anchor[c] \in Nat \ {0}
    BY <1>2, <2>1 DEF CutHasAnchor
  <2> QED
    BY <1>1, <1>3, <2>1, <2>2, CutRecorded DEF TableInv, adminVars
<1>6. ASSUME NEW c \in Conns,
             \/ Connect(c) \/ Close(c) \/ \E events \in Batches : Receive(c, events)
             \/ MarkCheck(c) \/ MarkAdd(c) \/ LoginAnchor(c) \/ GapCheck(c) \/ Store(c)
             \/ Dedup(c, "loginDedup", "loginCut", "store")
             \/ Dedup(c, "gapDedup", "gapCut", "append")
      PROVE  TableInv'
  <2>1. UNCHANGED <<sessionVars, adminVars>>
    BY <1>6 DEF Connect, Close, Receive, MarkCheck, MarkAdd, LoginAnchor, Dedup,
       GapCheck, Store
  <2> QED
    BY <1>1, <1>3, <2>1 DEF TableInv, adminVars
<1>7. ASSUME NEW a \in Admins,
             \/ \E cutoff \in Cutoffs : PruneJournal(a, cutoff)
             \/ ResetJournal(a) \/ Maintain(a)
      PROVE  TableInv'
  <2>1. /\ \E to \in {"resetSessions", "idle"} : adminPc' = [adminPc EXCEPT ![a] = to]
        /\ SessionClear \/ UNCHANGED sessionVars
    BY <1>7 DEF TableInv, PruneJournal, ResetJournal, Maintain, PruneSessions,
       PruneMarkers, ResetSessions
  <2>2. ASSUME SessionClear PROVE TableAgrees'
    <3>1. sessions' = <<>> /\ Len(sessions') = 0 /\ DOMAIN sessionRows' = {}
      BY <2>2 DEF SessionClear
    <3> QED
      BY <3>1 DEF TableAgrees
  <2> QED
    BY <1>1, <1>2, <1>3, <2>1, <2>2 DEF TableInv
<1>8. CASE (\E t \in Times : AddMarker(t) \/ DeleteMarker(t)) \/ Tick
  <2>1. UNCHANGED <<sessionVars, adminVars>>
    BY <1>8 DEF AddMarker, DeleteMarker, Tick
  <2> QED
    BY <1>1, <1>3, <2>1 DEF TableInv, adminVars
<1>9. CASE Restart
  <2>1. TableAgrees'
    BY <1>9, OpenGivesBack, ScanIsOrdered DEF Restart, TableInv
  <2> QED
    BY <1>1, <1>9, <2>1 DEF Restart, TableInv
<1> QED
  BY <1>4, <1>5, <1>6, <1>7, <1>8, <1>9 DEF Next, Ingest

LEMMA CutStepRecords ==
  ASSUME TableInv, "session" \notin Faults, NEW c \in Conns, [Next]_vars,
         pc[c] \in {"loginCut", "gapCut"}, pc'[c] \in {"store", "append"}
  PROVE  anchor[c] \in Starts'
<1>1. /\ pc \in [Conns -> IngestPc]
      /\ anchor \in [Conns -> (Nat \ {0}) \cup {None}] /\ CutHasAnchor
  BY DEF TableInv, Inductive, TypeOK, TaskTypeOK
<1>2. pc'[c] # pc[c] /\ pc'[c] # "closed"
  OBVIOUS
<1>3. CASE Cut(c, "loginCut", "store") \/ Cut(c, "gapCut", "append")
  <2>1. CutSession(anchor[c]) /\ anchor[c] \in Nat \ {0}
    BY <1>1, <1>3 DEF Cut, CutHasAnchor
  <2> QED
    BY <2>1, CutRecorded DEF TableInv
<1>4. ASSUME NEW d \in Conns,
             \/ Connect(d) \/ Close(d) \/ \E events \in Batches : Receive(d, events)
             \/ MarkCheck(d) \/ MarkAdd(d) \/ LoginAnchor(d) \/ GapCheck(d) \/ Store(d)
             \/ Dedup(d, "loginDedup", "loginCut", "store")
             \/ Dedup(d, "gapDedup", "gapCut", "append")
      PROVE  FALSE
  <2>1. /\ pc[d] \notin {"loginCut", "gapCut"}
        /\ \E to : pc' = [pc EXCEPT ![d] = to]
    BY <1>4 DEF Connect, Close, Receive, MarkCheck, MarkAdd, LoginAnchor, Dedup,
       GapCheck, Store
  <2> QED
    BY <1>1, <1>2, <2>1
<1>5. ASSUME NEW d \in Conns, d # c,
             Cut(d, "loginCut", "store") \/ Cut(d, "gapCut", "append")
      PROVE  FALSE
  BY <1>1, <1>2, <1>5 DEF Cut
<1>6. ASSUME UNCHANGED pc PROVE FALSE
  BY <1>2, <1>6
<1>7. CASE \/ \E a \in Admins : \/ \E cutoff \in Cutoffs : PruneJournal(a, cutoff)
                                \/ ResetJournal(a)
                                \/ Maintain(a)
           \/ \E t \in Times : AddMarker(t) \/ DeleteMarker(t)
           \/ Tick
           \/ UNCHANGED vars
  BY <1>6, <1>7 DEF PruneJournal, ResetJournal, Maintain, PruneSessions, PruneMarkers,
     ResetSessions, AddMarker, DeleteMarker, Tick, vars, ingestVars
<1>8. CASE Restart
  BY <1>2, <1>8 DEF Restart
<1> QED
  BY <1>3, <1>4, <1>5, <1>7, <1>8 DEF Next, Ingest

LEMMA InitTable ==
  Init => TableInv
<1> SUFFICES ASSUME Init PROVE TableInv
  OBVIOUS
<1>1. sessions = <<>> /\ sessionRows = <<>> /\ \A a \in Admins : adminPc[a] = "idle"
  BY DEF Init, SessionInit
<1>2. Len(sessions) = 0 /\ DOMAIN sessionRows = {}
  BY <1>1
<1> QED
  BY <1>1, <1>2, InitInductive DEF TableInv, TableAgrees

(* A cut that ingest has decided on is recorded, however many clients push at
   once, stream resets, restarts and failed appends come between: short of a
   prune, whose renumbering can refuse it, and of a failing session database
   (ingest.rs:214-243 and 285-310, session_index.rs:114-133). *)
THEOREM CutsAreMade ==
  ASSUME "prune" \notin Ops, "session" \notin Faults
  PROVE  Spec => EveryCutIsMade
<1>1. TableInv /\ [Next]_vars => TableInv'
  BY TableSteps
<1>2. TableInv /\ [Next]_vars =>
        [\A c \in Conns :
           pc[c] \in {"loginCut", "gapCut"} /\ pc'[c] \in {"store", "append"}
             => anchor[c] \in Starts']_vars
  BY CutStepRecords
<1> QED
  BY <1>1, <1>2, InitTable, PTL DEF Spec, EveryCutIsMade
-----------------------------------------------------------------------------
(* Breaks in play, for one client: nothing is deleted, and the table takes
   every row. *)

(* A batch without events is stored alone. *)
SubsShape ==
  \A c \in Conns : {} \in subs[c] => subs[c] = {{}}

(* A task that has decided to append has cut where a cut was due. *)
GapReady ==
  \A c \in Conns :
    pc[c] = "append" =>
      \A sub \in subs[c] :
        IsFirst(sub, subs[c]) /\ sub # {} /\ IsSessionGap(LogLastTs, LatestTs(sub))
          => NextBatchId \in Starts

GapInv ==
  /\ HistoryInv
  /\ IndexMirrorsRows
  /\ GapsAreCut
  /\ SubsShape
  /\ GapReady
  /\ \A a \in Admins : adminPc[a] = "idle"

(* What is left of the invariant besides the parts proved above. *)
GapStep ==
  /\ GapsAreCut'
  /\ SubsShape'
  /\ GapReady'
  /\ \A a \in Admins : adminPc'[a] = "idle"

LEMMA NewestIn ==
  ASSUME NEW T \in SUBSET Nat, T # {}, NEW n \in Nat, \A x \in T : x <= n
  PROVE  /\ Newest(T) \in T
         /\ \A x \in T : x <= Newest(T)
<1>1. \E x \in T : \A y \in T : y <= x
  BY GreatestExists
<1> QED
  BY <1>1 DEF Newest

(* Only one sub-batch with events is stored next. *)
LEMMA FirstIsUnique ==
  ASSUME NEW sub \in SubBatch, NEW other \in SubBatch, NEW rest,
         sub \in rest, other \in rest, sub # {}, other # {},
         IsFirst(sub, rest), IsFirst(other, rest)
  PROVE  sub = other
<1> SUFFICES ASSUME sub # other PROVE FALSE
  OBVIOUS
<1>1. PICK e \in sub, f \in other : TRUE
  OBVIOUS
<1>2. e.ts < f.ts /\ f.ts < e.ts
  BY <1>1 DEF IsFirst
<1>3. sub \subseteq Event /\ other \subseteq Event
  BY InputAssumption DEF SubBatch
<1>4. e \in [ts : Times \cup {0}, kind : Kinds] /\ f \in [ts : Times \cup {0}, kind : Kinds]
  BY <1>1, <1>3 DEF Event
<1>5. Times \cup {0} \subseteq Nat
  BY InputAssumption
<1>6. e.ts \in Times \cup {0} /\ f.ts \in Times \cup {0}
  BY <1>4
<1>7. e.ts \in Nat /\ f.ts \in Nat
  BY <1>5, <1>6
<1> QED
  BY <1>2, <1>7

(* The row follows a break in play. *)
BreakBefore(id) ==
  LET earlier == {i \in DOMAIN rows : i < id}
  IN /\ earlier # {}
     /\ rows[id].log # None
     /\ IsSessionGap(EntryTs(rows[Newest(earlier)]), rows[id].log)

(* Storing a batch adds one row, which follows a break exactly when the batch
   is one session gap beyond the last log time of the index. *)
LEMMA StoredBreaks ==
  ASSUME Inductive, IndexMirrorsRows, NEW w, NEW sub \in SubBatch, NEW id,
         id = NextBatchId, JournalAppend(w, sub)
  PROVE  /\ DOMAIN rows' = DOMAIN rows \cup {id} /\ id \notin DOMAIN rows
         /\ rows'[id].log = MaxLogTs(sub)
         /\ \A i \in DOMAIN rows : rows'[i] = rows[i]
         /\ \A i \in DOMAIN rows : BreakBefore(i)' <=> BreakBefore(i)
         /\ BreakBefore(id)' <=> sub # {} /\ IsSessionGap(LogLastTs, LatestTs(sub))
<1>1. /\ DOMAIN rows' = DOMAIN rows \cup {id}
      /\ \A i \in DOMAIN rows : i # id => rows'[i] = rows[i]
      /\ rows'[id].log = MaxLogTs(sub)
  BY DEF JournalAppend
<1>2. /\ DOMAIN rows \in SUBSET Nat /\ id \in Nat /\ autoinc \in Nat
      /\ \A i \in DOMAIN rows : i <= autoinc /\ i < id
  BY HistoryTypes
<1>3. id \notin DOMAIN rows /\ \A i \in DOMAIN rows : rows'[i] = rows[i]
  BY <1>1, <1>2
<1>4. ASSUME NEW new \in DOMAIN rows', {i \in DOMAIN rows : i < new} # {}
      PROVE  Newest({i \in DOMAIN rows : i < new}) \in DOMAIN rows
  <2> DEFINE earlier == {i \in DOMAIN rows : i < new}
  <2>1. earlier \in SUBSET Nat /\ \A i \in earlier : i <= autoinc
    BY <1>2
  <2>2. Newest(earlier) \in earlier
    BY <1>2, <1>4, <2>1, NewestIn
  <2> QED
    BY <2>2
<1>5. ASSUME NEW new \in DOMAIN rows'
      PROVE  {i \in DOMAIN rows' : i < new} = {i \in DOMAIN rows : i < new}
  BY <1>1, <1>2
<1>6. ASSUME NEW i \in DOMAIN rows PROVE BreakBefore(i)' <=> BreakBefore(i)
  <2>1. i \in DOMAIN rows'
    BY <1>1
  <2> QED
    BY <1>3, <1>4, <1>5, <2>1 DEF BreakBefore
<1>7. BreakBefore(id)' <=> sub # {} /\ IsSessionGap(LogLastTs, LatestTs(sub))
  <2>1. id \in DOMAIN rows' /\ {i \in DOMAIN rows : i < id} = DOMAIN rows
    BY <1>1, <1>2
  <2>2. /\ DOMAIN index = DOMAIN rows
        /\ \A i \in DOMAIN rows :
             index[i] = [wall |-> rows[i].wall, log |-> rows[i].log]
    BY DEF IndexMirrorsRows, Entries
  <2>3. CASE DOMAIN rows = {}
    <3>1. index = <<>> /\ ~ IsSessionGap(LogLastTs, LatestTs(sub))
      BY <2>2, <2>3 DEF LogLastTs, IsSessionGap
    <3> QED
      BY <1>5, <2>1, <2>3, <3>1 DEF BreakBefore
  <2>4. CASE DOMAIN rows # {}
    <3>1. Newest(DOMAIN rows) \in DOMAIN rows
      BY <1>4, <2>1, <2>4
    <3>2. LogLastTs = EntryTs(rows[Newest(DOMAIN rows)])
      <4>1. /\ index[Newest(DOMAIN rows)].wall = rows[Newest(DOMAIN rows)].wall
            /\ index[Newest(DOMAIN rows)].log = rows[Newest(DOMAIN rows)].log
        BY <2>2, <3>1
      <4>2. index # <<>>
        BY <2>2, <2>4
      <4> QED
        BY <2>2, <4>1, <4>2 DEF LogLastTs, EntryTs
    <3>3. rows'[Newest(DOMAIN rows)] = rows[Newest(DOMAIN rows)]
      BY <1>3, <3>1
    <3>4. rows'[id].log # None <=> sub # {}
      BY <1>1, LatestTsType, NoneAssumption DEF MaxLogTs
    <3>5. sub # {} => rows'[id].log = LatestTs(sub)
      BY <1>1 DEF MaxLogTs
    <3> QED
      BY <1>5, <2>1, <2>4, <3>2, <3>3, <3>4, <3>5 DEF BreakBefore
  <2> QED
    BY <2>3, <2>4
<1> QED
  BY <1>1, <1>3, <1>6, <1>7

(* Breaks stay cut while the rows stay and no start goes. *)
LEMMA GapsSteady ==
  ASSUME GapsAreCut, UNCHANGED rows, Starts \subseteq Starts'
  PROVE  GapsAreCut'
BY DEF GapsAreCut

LEMMA ShapeSteady ==
  ASSUME SubsShape, NEW c \in Conns, subs \in [Conns -> SUBSET SubBatch],
         NEW new, subs' = [subs EXCEPT ![c] = new], {} \in new => new = {{}}
  PROVE  SubsShape'
BY DEF SubsShape

LEMMA ReceiveShape ==
  ASSUME NEW events \in Batches
  PROVE  {} \in SubBatches(events) => SubBatches(events) = {{}}
<1>1. CASE events = {}
  BY <1>1 DEF SubBatches
<1>2. CASE events # {}
  <2>1. {} \notin {{e \in events : Slot(e, EarliestTs(events)) = Slot(f, EarliestTs(events))} : f \in events}
    OBVIOUS
  <2> QED
    BY <1>2, <2>1 DEF SubBatches
<1> QED
  BY <1>1, <1>2

(* Steps of the client that touch neither the journal nor the sessions. *)
LEMMA DecidingGaps ==
  ASSUME GapInv, NEW c \in Conns,
         \/ Connect(c) \/ Close(c) \/ \E events \in Batches : Receive(c, events)
         \/ MarkCheck(c) \/ MarkAdd(c) \/ LoginAnchor(c) \/ GapCheck(c)
         \/ Dedup(c, "loginDedup", "loginCut", "store")
         \/ Dedup(c, "gapDedup", "gapCut", "append")
  PROVE  GapStep
<1>1. UNCHANGED <<journalVars, sessionVars, adminVars>>
  BY DEF Connect, Close, Receive, MarkCheck, MarkAdd, LoginAnchor, GapCheck, Dedup
<1>2. /\ UNCHANGED <<rows, index, autoinc, sessions>> /\ Starts' = Starts
      /\ LogLastTs' = LogLastTs /\ NextBatchId' = NextBatchId
  BY <1>1 DEF journalVars, sessionVars, Starts, LogLastTs, NextBatchId
<1>3. /\ pc \in [Conns -> IngestPc] /\ subs \in [Conns -> SUBSET SubBatch]
  BY DEF GapInv, HistoryInv, Inductive, TypeOK, TaskTypeOK
<1>4. GapsAreCut' /\ \A a \in Admins : adminPc'[a] = "idle"
  BY <1>1, <1>2, GapsSteady DEF GapInv, adminVars
<1>5. SubsShape'
  <2>1. CASE UNCHANGED subs
    BY <2>1 DEF GapInv, SubsShape
  <2>2. CASE \E events \in Batches : Receive(c, events)
    BY <1>3, <2>2, ReceiveShape, ShapeSteady DEF Receive, GapInv
  <2> QED
    BY <2>1, <2>2 DEF Connect, Close, MarkCheck, MarkAdd, LoginAnchor, GapCheck, Dedup
<1>6. GapReady'
  <2>1. CASE \E to \in IngestPc \ {"append"} : /\ pc' = [pc EXCEPT ![c] = to]
                                              /\ \A d \in Conns : d # c => subs'[d] = subs[d]
    BY <1>2, <1>3, <2>1 DEF GapInv, GapReady
  <2>2. CASE GapCheck(c) /\ pc' = [pc EXCEPT ![c] = "append"]
    <3>1. PICK sub \in subs[c] :
            /\ IsFirst(sub, subs[c])
            /\ sub # {} => ~ IsSessionGap(LogLastTs, LatestTs(sub))
      <4>1. pc'[c] = "append"
        BY <1>3, <2>2
      <4> QED
        BY <1>3, <2>2, <4>1 DEF GapCheck
    <3>2. ASSUME NEW other \in subs[c], IsFirst(other, subs[c]), other # {}
          PROVE  ~ IsSessionGap(LogLastTs, LatestTs(other))
      <4>1. sub # {}
        BY <3>1, <3>2 DEF GapInv, SubsShape
      <4>2. sub \in SubBatch /\ other \in SubBatch
        BY <1>3
      <4> QED
        BY <3>1, <3>2, <4>1, <4>2, FirstIsUnique
    <3> QED
      BY <1>2, <1>3, <2>2, <3>2 DEF GapInv, GapReady, GapCheck
  <2>3. CASE Dedup(c, "gapDedup", "gapCut", "append") /\ pc' = [pc EXCEPT ![c] = "append"]
    <3>1. anchor[c] = NextBatchId /\ LastStartId = anchor[c]
      <4>1. pc'[c] = "append"
        BY <1>3, <2>3
      <4> QED
        BY <1>3, <2>3, <4>1 DEF Dedup, GapInv, HistoryInv, AnchorIsNext
    <3>2. NextBatchId \in Starts
      <4>1. NextBatchId \in Nat /\ sessions \in Seq(Session)
        BY HistoryTypes DEF GapInv, HistoryInv
      <4>2. sessions # <<>>
        BY <3>1, <4>1, NoneAssumption DEF LastStartId
      <4>3. Len(sessions) \in DOMAIN sessions
        BY <4>1, <4>2
      <4> QED
        BY <3>1, <4>2, <4>3 DEF LastStartId, Starts
    <3> QED
      BY <1>2, <1>3, <2>3, <3>2 DEF GapInv, GapReady, Dedup
  <2> QED
    BY <1>3, <2>1, <2>2, <2>3 DEF Connect, Close, Receive, MarkCheck, MarkAdd,
       LoginAnchor, GapCheck, Dedup, AfterMarks, IngestPc
<1> QED
  BY <1>4, <1>5, <1>6 DEF GapStep

LEMMA CutGaps ==
  ASSUME GapInv, OneClient, "prune" \notin Ops, "session" \notin Faults,
         NEW c \in Conns, Cut(c, "loginCut", "store") \/ Cut(c, "gapCut", "append")
  PROVE  GapStep
<1>1. /\ UNCHANGED <<journalVars, subs, adminVars>>
      /\ pc[c] \in {"loginCut", "gapCut"}
      /\ CutSession(anchor[c])
  BY DEF Cut
<1>2. anchor[c] = NextBatchId /\ NextBatchId \in Nat \ {0}
  BY <1>1, HistoryTypes DEF GapInv, HistoryInv, AnchorIsNext
<1>3. Starts' = Starts \cup {NextBatchId}
  BY <1>1, <1>2, CutRecorded DEF GapInv, HistoryInv
<1>4. /\ UNCHANGED <<rows, index, autoinc>>
      /\ LogLastTs' = LogLastTs /\ NextBatchId' = NextBatchId
  BY <1>1 DEF journalVars, LogLastTs, NextBatchId
<1>5. GapsAreCut' /\ SubsShape' /\ \A a \in Admins : adminPc'[a] = "idle"
  BY <1>1, <1>3, <1>4, GapsSteady DEF GapInv, SubsShape, adminVars
<1>6. GapReady'
  BY <1>3, <1>4 DEF GapReady
<1> QED
  BY <1>5, <1>6 DEF GapStep

LEMMA StoreGaps ==
  ASSUME GapInv, OneClient, NEW c \in Conns, Store(c)
  PROVE  GapStep
<1>1. /\ UNCHANGED <<sessionVars, adminVars>>
      /\ pc[c] = "append"
      /\ pc' = [pc EXCEPT ![c] = "recv"] \/ pc' = [pc EXCEPT ![c] = "store"]
  BY DEF Store
<1>2. /\ pc \in [Conns -> IngestPc] /\ subs \in [Conns -> SUBSET SubBatch]
  BY DEF GapInv, HistoryInv, Inductive, TypeOK, TaskTypeOK
<1>3. PICK sub \in subs[c] :
        /\ IsFirst(sub, subs[c])
        /\ JournalAppend(wall[c], sub) \/ UNCHANGED journalVars
        /\ subs' = [subs EXCEPT ![c] = @ \ {sub}]
  BY DEF Store
<1>4. Starts' = Starts
  BY <1>1 DEF sessionVars, Starts
<1>5. SubsShape'
  BY <1>2, <1>3 DEF GapInv, SubsShape
<1>6. GapReady'
  BY <1>1, <1>2 DEF OneClient, GapReady
<1>7. GapsAreCut'
  <2>1. CASE UNCHANGED journalVars
    BY <1>4, <2>1, GapsSteady DEF GapInv, journalVars
  <2>2. CASE JournalAppend(wall[c], sub)
    <3>1. PICK id : id = NextBatchId
      OBVIOUS
    <3>2. sub \in SubBatch
      BY <1>2
    <3>3. /\ DOMAIN rows' = DOMAIN rows \cup {id}
          /\ \A i \in DOMAIN rows : BreakBefore(i)' <=> BreakBefore(i)
          /\ BreakBefore(id)' => sub # {} /\ IsSessionGap(LogLastTs, LatestTs(sub))
      BY <2>2, <3>1, <3>2, StoredBreaks DEF GapInv, HistoryInv
    <3>4. \A i \in DOMAIN rows : BreakBefore(i) => i \in Starts
      BY DEF GapInv, GapsAreCut, BreakBefore
    <3>5. BreakBefore(id)' => id \in Starts
      BY <1>1, <1>3, <3>1, <3>3 DEF GapInv, GapReady
    <3>6. \A i \in DOMAIN rows' : BreakBefore(i)' => i \in Starts'
      BY <1>4, <3>3, <3>4, <3>5
    <3> QED
      BY <3>6 DEF GapsAreCut, BreakBefore
  <2> QED
    BY <1>3, <2>1, <2>2
<1> QED
  BY <1>1, <1>5, <1>6, <1>7 DEF GapStep, GapInv, adminVars

(* An ascending enumeration of a finite set leaves none of it out. *)
LEMMA AscendingIsOnto ==
  ASSUME NEW S \in SUBSET Nat, IsFiniteSet(S), NEW starts \in Ascending(S),
         NEW x \in S
  PROVE  \E i \in DOMAIN starts : starts[i] = x
<1> DEFINE m == Cardinality(S)
<1>1. m \in Nat /\ IsFiniteSet(1..m) /\ Cardinality(1..m) = m
  BY FS_CardinalityType, FS_Interval
<1>2. /\ starts \in [1..m -> S]
      /\ \A i, j \in 1..m : i < j => starts[i] < starts[j]
  BY DEF Ascending
<1>3. \A i, j \in 1..m : starts[i] = starts[j] => i = j
  <2> SUFFICES ASSUME NEW i \in 1..m, NEW j \in 1..m, starts[i] = starts[j], i # j
               PROVE  FALSE
    OBVIOUS
  <2>1. starts[i] \in S /\ starts[j] \in S
    BY <1>2
  <2>2. starts[i] \in Nat
    BY <2>1
  <2>3. i < j \/ j < i
    <3> HIDE DEF m
    <3> QED
      BY <1>1
  <2> QED
    BY <1>2, <2>2, <2>3
<1> HIDE DEF m
<1>4. starts \in Injection(1..m, S)
  BY <1>2, <1>3 DEF Injection, IsInjective
<1>5. starts \in Surjection(1..m, S)
  BY <1>1, <1>4, FS_Injection DEF m
<1> QED
  BY <1>2, <1>5 DEF Surjection

LEMMA RestartGaps ==
  ASSUME GapInv, "prune" \notin Ops, "session" \notin Faults, Restart
  PROVE  GapStep
<1>1. /\ UNCHANGED rows
      /\ \A c \in Conns : pc'[c] = "closed" /\ subs'[c] = {}
      /\ \A a \in Admins : adminPc'[a] = "idle"
  BY DEF Restart, JournalOpen
<1>2. SubsShape' /\ GapReady'
  BY <1>1 DEF SubsShape, GapReady
<1>3. CASE SessionOpen
  <2>1. Starts' = Starts
    BY <1>3, OpenGivesBack DEF GapInv, HistoryInv
  <2> QED
    BY <1>1, <1>2, <2>1, GapsSteady DEF GapStep, GapInv
<1>4. CASE RetroactiveScan(Entries(rows))
  <2> DEFINE S == ScanStarts(Entries(rows))
  <2>1. DOMAIN rows \subseteq 1..autoinc /\ autoinc \in Nat
    BY InductiveParts DEF GapInv, HistoryInv, JournalInv, JournalTypeOK
  <2>2. S \in SUBSET Nat /\ IsFiniteSet(S)
    <3>1. S \subseteq 1..autoinc /\ 1..autoinc \in SUBSET Nat
      BY <2>1 DEF ScanStarts, Entries
    <3>2. IsFiniteSet(1..autoinc)
      BY <2>1, FS_Interval
    <3> HIDE DEF S
    <3> QED
      BY <3>1, <3>2, FS_Subset
  <2>3. PICK starts \in Ascending(S) :
          sessions' = [i \in 1..Len(starts) |-> [num |-> i, start |-> starts[i]]]
    BY <1>4 DEF RetroactiveScan, Scanned
  <2>4. DOMAIN starts = 1..Len(starts)
    <3>1. starts \in [1..Cardinality(S) -> S] /\ Cardinality(S) \in Nat
      BY <2>2, FS_CardinalityType DEF Ascending
    <3> QED
      BY <3>1
  <2>5. S \subseteq Starts'
    BY <2>2, <2>3, <2>4, AscendingIsOnto DEF Starts
  <2>6. GapsAreCut'
    <3> SUFFICES ASSUME NEW id \in DOMAIN rows,
                        {i \in DOMAIN rows : i < id} # {},
                        rows[id].log # None,
                        IsSessionGap(EntryTs(rows[Newest({i \in DOMAIN rows : i < id})]),
                                     rows[id].log)
                 PROVE  id \in S
      BY <1>1, <2>5 DEF GapsAreCut
    <3> DEFINE earlier == {i \in DOMAIN rows : i < id}
               table == Entries(rows)
    <3>1. DOMAIN table = DOMAIN rows
      BY DEF Entries
    <3>2. ASSUME NEW i \in DOMAIN rows PROVE EntryTs(table[i]) = EntryTs(rows[i])
      BY <3>2 DEF Entries, EntryTs
    <3>3. Newest(earlier) \in DOMAIN rows
      <4>1. earlier \in SUBSET Nat /\ earlier # {} /\ \A i \in earlier : i <= autoinc
        BY <2>1
      <4>2. Newest(earlier) \in earlier
        BY <2>1, <4>1, NewestIn
      <4> QED
        BY <4>2
    <3>4. EntryTs(table[id]) = rows[id].log
      BY <3>2 DEF EntryTs
    <3>5. IsSessionGap(EntryTs(table[Newest(earlier)]), EntryTs(table[id]))
      BY <3>2, <3>3, <3>4
    <3> QED
      BY <3>1, <3>5 DEF ScanStarts
  <2> QED
    BY <1>1, <1>2, <2>6 DEF GapStep
<1> QED
  BY <1>3, <1>4 DEF Restart

LEMMA GapSteps ==
  ASSUME GapInv, OneClient, "prune" \notin Ops, "reset" \notin Ops,
         "session" \notin Faults, [Next]_vars
  PROVE  GapInv'
<1>1. HistoryInv' /\ IndexMirrorsRows'
  BY HistorySteps, IndexExactStep DEF GapInv, HistoryInv
<1>2. GapStep
  <2>1. ASSUME UNCHANGED <<journalVars, sessionVars, ingestVars, adminVars>>
        PROVE  GapStep
    BY <2>1 DEF GapStep, GapInv, GapsAreCut, SubsShape, GapReady, IsFirst, LogLastTs,
       NextBatchId, Starts, journalVars, sessionVars, ingestVars, adminVars
  <2>2. CASE UNCHANGED vars
    BY <2>1, <2>2 DEF vars
  <2>3. CASE \E c \in Conns : \/ Connect(c)
                              \/ Close(c)
                              \/ \E events \in Batches : Receive(c, events)
                              \/ Ingest(c)
    BY <2>3, DecidingGaps, CutGaps, StoreGaps DEF Ingest
  <2>4. CASE \E a \in Admins : \/ \E cutoff \in Cutoffs : PruneJournal(a, cutoff)
                               \/ ResetJournal(a)
                               \/ Maintain(a)
    BY <2>4 DEF GapInv, PruneJournal, ResetJournal, Maintain, PruneSessions,
       PruneMarkers, ResetSessions
  <2>5. CASE (\E t \in Times : AddMarker(t) \/ DeleteMarker(t)) \/ Tick
    BY <2>1, <2>5 DEF AddMarker, DeleteMarker, Tick
  <2>6. CASE Restart
    BY <2>6, RestartGaps
  <2> QED
    BY <2>2, <2>3, <2>4, <2>5, <2>6 DEF Next
<1> QED
  BY <1>1, <1>2 DEF GapInv, GapStep

LEMMA InitGaps ==
  Init => GapInv
<1> SUFFICES ASSUME Init PROVE GapInv
  OBVIOUS
<1>1. /\ rows = <<>> /\ index = <<>>
      /\ \A c \in Conns : pc[c] = "closed" /\ subs[c] = {}
      /\ \A a \in Admins : adminPc[a] = "idle"
  BY DEF Init, JournalInit
<1>2. DOMAIN rows = {} /\ IndexMirrorsRows
  BY <1>1 DEF IndexMirrorsRows, Entries
<1>3. GapsAreCut /\ SubsShape /\ GapReady
  BY <1>1, <1>2 DEF GapsAreCut, SubsShape, GapReady
<1> QED
  BY <1>1, <1>2, <1>3, InitHistory DEF GapInv

(* A break in play between two neighbouring stored batches is a session
   boundary: one client pushes at a time, whatever writes of the journal fail
   and whenever the server restarts, as long as nothing is deleted and the
   session database takes its rows (ingest.rs:225-243, session_index.rs:51-56
   and 208-246). *)
THEOREM GapsStayCut ==
  ASSUME OneClient, "prune" \notin Ops, "reset" \notin Ops, "session" \notin Faults
  PROVE  Spec => []GapsAreCut
<1>1. GapInv /\ [Next]_vars => GapInv'
  BY GapSteps
<1>2. GapInv => GapsAreCut
  BY DEF GapInv
<1> QED
  BY <1>1, <1>2, InitGaps, PTL DEF Spec
-----------------------------------------------------------------------------
(* Live cuts against the scan, for one client that never logs in anew. *)

(* Every batch has events, and none is a login. *)
PlayOnly == \A b \in Batches : b # {} /\ \A e \in b : e.kind # "login"

(* The sub-batch a task stores next follows a break. *)
GapPending(c) ==
  \E sub \in subs[c] : /\ IsFirst(sub, subs[c])
                       /\ IsSessionGap(LogLastTs, LatestTs(sub))

(* The cut of a batch yet to be stored is there for a task about to do so. *)
CutAhead ==
  NextBatchId \in Starts => \E c \in Conns : pc[c] = "append" /\ GapPending(c)

LiveTasks ==
  \A c \in Conns :
    /\ pc[c] \in {"gapDedup", "gapCut"} => GapPending(c)
    /\ pc[c] \notin {"loginAnchor", "loginDedup", "loginCut"}
    /\ \A sub \in subs[c] : sub # {} /\ \A e \in sub : e.kind # "login"

LiveInv ==
  /\ GapInv
  /\ \A id \in DOMAIN rows : rows[id].log # None
  /\ \A id \in DOMAIN rows \cap Starts : BreakBefore(id)
  /\ CutAhead
  /\ LiveTasks

LEMMA ReceivePlayed ==
  ASSUME PlayOnly, NEW events \in Batches, NEW sub \in SubBatches(events)
  PROVE  sub # {} /\ \A e \in sub : e.kind # "login"
<1>1. events # {} /\ \A e \in events : e.kind # "login"
  BY DEF PlayOnly
<1>2. sub = events \/ \E f \in events :
        sub = {e \in events : Slot(e, EarliestTs(events)) = Slot(f, EarliestTs(events))}
  BY <1>1 DEF SubBatches
<1> QED
  BY <1>1, <1>2

(* Rows, sessions and the next id as they were. *)
LEMMA LiveSteady ==
  ASSUME LiveInv, UNCHANGED <<journalVars, sessionVars>>
  PROVE  /\ \A id \in DOMAIN rows' : rows'[id].log # None
         /\ \A id \in DOMAIN rows' \cap Starts' : BreakBefore(id)'
         /\ Starts' = Starts /\ NextBatchId' = NextBatchId /\ LogLastTs' = LogLastTs
BY DEF LiveInv, BreakBefore, journalVars, sessionVars, Starts, NextBatchId, LogLastTs

LEMMA DecidingLive ==
  ASSUME LiveInv, GapInv', OneClient, PlayOnly, NEW c \in Conns,
         \/ Connect(c) \/ Close(c) \/ \E events \in Batches : Receive(c, events)
         \/ MarkCheck(c) \/ MarkAdd(c) \/ GapCheck(c)
         \/ Dedup(c, "gapDedup", "gapCut", "append")
  PROVE  LiveInv'
<1>1. UNCHANGED <<journalVars, sessionVars>>
  BY DEF Connect, Close, Receive, MarkCheck, MarkAdd, GapCheck, Dedup
<1>2. /\ pc \in [Conns -> IngestPc] /\ subs \in [Conns -> SUBSET SubBatch]
  BY DEF LiveInv, GapInv, HistoryInv, Inductive, TypeOK, TaskTypeOK
<1>3. NextBatchId \notin Starts
  <2>1. pc[c] # "append"
    BY DEF Connect, Close, Receive, MarkCheck, MarkAdd, GapCheck, Dedup
  <2> QED
    BY <2>1 DEF OneClient, LiveInv, CutAhead
<1>4. CutAhead'
  BY <1>1, <1>3, LiveSteady DEF CutAhead
<1>5. \A sub \in subs'[c] : sub # {} /\ \A e \in sub : e.kind # "login"
  <2>1. CASE UNCHANGED subs
    BY <2>1 DEF LiveInv, LiveTasks
  <2>2. CASE \E events \in Batches : Receive(c, events)
    <3>1. PICK events \in Batches : subs' = [subs EXCEPT ![c] = SubBatches(events)]
      BY <2>2 DEF Receive
    <3> QED
      BY <1>2, <3>1, ReceivePlayed
  <2> QED
    BY <2>1, <2>2 DEF Connect, Close, MarkCheck, MarkAdd, GapCheck, Dedup
<1>6. ~ HasLogin(subs'[c])
  BY <1>5 DEF HasLogin
<1>7. /\ pc'[c] \in {"gapDedup", "gapCut"} => GapPending(c)'
      /\ pc'[c] \notin {"loginAnchor", "loginDedup", "loginCut"}
  <2>1. CASE GapCheck(c)
    <3>1. UNCHANGED subs
      BY <2>1 DEF GapCheck
    <3>2. PICK sub \in subs[c] :
            /\ IsFirst(sub, subs[c])
            /\ \/ pc' = [pc EXCEPT ![c] = "append"]
               \/ /\ pc' = [pc EXCEPT ![c] = "gapDedup"]
                  /\ IsSessionGap(LogLastTs, LatestTs(sub))
      BY <2>1 DEF GapCheck
    <3>3. pc'[c] = "gapDedup" => GapPending(c)'
      BY <1>1, <1>2, <3>1, <3>2, LiveSteady DEF GapPending
    <3> QED
      BY <1>2, <3>2, <3>3
  <2>2. CASE Dedup(c, "gapDedup", "gapCut", "append")
    <3>1. UNCHANGED subs /\ pc[c] = "gapDedup" /\ pc'[c] \in {"gapCut", "append"}
      BY <1>2, <2>2 DEF Dedup
    <3>2. GapPending(c)'
      BY <1>1, <3>1, LiveSteady DEF LiveInv, LiveTasks, GapPending
    <3> QED
      BY <3>1, <3>2
  <2>3. CASE Connect(c) \/ Close(c)
    BY <1>2, <2>3 DEF Connect, Close
  <2>4. CASE \/ \E events \in Batches : Receive(c, events)
             \/ MarkCheck(c) \/ MarkAdd(c)
    <3>1. \/ pc' = [pc EXCEPT ![c] = "markCheck"] \/ pc' = [pc EXCEPT ![c] = "markAdd"]
          \/ pc' = [pc EXCEPT ![c] = AfterMarks(subs'[c])]
      BY <1>2, <2>4 DEF Receive, MarkCheck, MarkAdd
    <3> QED
      BY <1>2, <1>6, <3>1 DEF AfterMarks
  <2> QED
    BY <2>1, <2>2, <2>3, <2>4
<1>8. LiveTasks'
  BY <1>5, <1>7 DEF OneClient, LiveTasks
<1> QED
  BY <1>1, <1>4, <1>8, LiveSteady DEF LiveInv

LEMMA CutLive ==
  ASSUME LiveInv, GapInv', OneClient, "prune" \notin Ops, "session" \notin Faults,
         NEW c \in Conns, Cut(c, "gapCut", "append")
  PROVE  LiveInv'
<1>1. /\ UNCHANGED <<journalVars, subs>>
      /\ pc[c] = "gapCut" /\ pc' = [pc EXCEPT ![c] = "append"]
      /\ CutSession(anchor[c])
  BY DEF Cut
<1>2. anchor[c] = NextBatchId /\ NextBatchId \in Nat \ {0} /\ NextBatchId \notin DOMAIN rows
  BY <1>1, HistoryTypes DEF LiveInv, GapInv, HistoryInv, AnchorIsNext
<1>3. Starts' = Starts \cup {NextBatchId}
  BY <1>1, <1>2, CutRecorded DEF LiveInv, GapInv, HistoryInv
<1>4. UNCHANGED <<rows, index, autoinc>> /\ LogLastTs' = LogLastTs
  BY <1>1 DEF journalVars, LogLastTs
<1>5. pc'[c] = "append" /\ GapPending(c)'
  <2>1. pc \in [Conns -> IngestPc]
    BY DEF LiveInv, GapInv, HistoryInv, Inductive, TypeOK, TaskTypeOK
  <2> QED
    BY <1>1, <1>4, <2>1 DEF LiveInv, LiveTasks, GapPending
<1>6. \A id \in DOMAIN rows' \cap Starts' : BreakBefore(id)'
  BY <1>2, <1>3, <1>4 DEF LiveInv, BreakBefore
<1>7. LiveTasks'
  BY <1>1, <1>5 DEF OneClient, LiveInv, LiveTasks
<1> QED
  BY <1>4, <1>5, <1>6, <1>7 DEF LiveInv, CutAhead

LEMMA StoreLive ==
  ASSUME LiveInv, GapInv', OneClient, "append" \notin Faults, NEW c \in Conns, Store(c)
  PROVE  LiveInv'
<1>1. /\ UNCHANGED sessionVars
      /\ pc[c] = "append"
      /\ pc' = [pc EXCEPT ![c] = "recv"] \/ pc' = [pc EXCEPT ![c] = "store"]
  BY DEF Store
<1>2. /\ pc \in [Conns -> IngestPc] /\ subs \in [Conns -> SUBSET SubBatch]
      /\ Inductive /\ IndexMirrorsRows
  BY DEF LiveInv, GapInv, HistoryInv, Inductive, TypeOK, TaskTypeOK
<1>3. PICK sub \in subs[c] :
        /\ IsFirst(sub, subs[c])
        /\ JournalAppend(wall[c], sub)
        /\ subs' = [subs EXCEPT ![c] = @ \ {sub}]
  BY DEF Store
<1>4. sub \in SubBatch /\ sub # {} /\ Starts' = Starts
  BY <1>1, <1>2 DEF LiveInv, LiveTasks, sessionVars, Starts
<1>5. PICK id : id = NextBatchId
  OBVIOUS
<1>6. /\ DOMAIN rows' = DOMAIN rows \cup {id} /\ id \notin DOMAIN rows
      /\ rows'[id].log = MaxLogTs(sub)
      /\ \A i \in DOMAIN rows : rows'[i] = rows[i]
      /\ \A i \in DOMAIN rows : BreakBefore(i)' <=> BreakBefore(i)
      /\ BreakBefore(id)' <=> sub # {} /\ IsSessionGap(LogLastTs, LatestTs(sub))
  BY <1>2, <1>3, <1>4, <1>5, StoredBreaks
<1>7. \A i \in DOMAIN rows' : rows'[i].log # None
  <2>1. rows'[id].log # None
    BY <1>4, <1>6, LatestTsType, NoneAssumption DEF MaxLogTs
  <2> QED
    BY <1>6, <2>1 DEF LiveInv
<1>8. id \in Starts => BreakBefore(id)'
  <2> SUFFICES ASSUME id \in Starts PROVE IsSessionGap(LogLastTs, LatestTs(sub))
    BY <1>4, <1>6
  <2>1. GapPending(c)
    BY <1>5 DEF LiveInv, CutAhead, OneClient
  <2>2. PICK other \in subs[c] : /\ IsFirst(other, subs[c])
                                 /\ IsSessionGap(LogLastTs, LatestTs(other))
    BY <2>1 DEF GapPending
  <2>3. other \in SubBatch /\ other # {}
    BY <1>2 DEF LiveInv, LiveTasks
  <2> QED
    BY <1>3, <1>4, <2>2, <2>3, FirstIsUnique
<1>9. \A i \in DOMAIN rows' \cap Starts' : BreakBefore(i)'
  BY <1>4, <1>6, <1>8 DEF LiveInv
<1>10. CutAhead'
  <2>1. NextBatchId' = NextBatchId + 1
    BY <1>3 DEF JournalAppend, NextBatchId
  <2>2. NextBatchId \in Nat /\ \A s \in Starts : s \in Nat /\ s <= NextBatchId
    BY <1>2, HistoryTypes
  <2>3. NextBatchId + 1 \notin Starts
    BY <2>2
  <2> QED
    BY <1>4, <2>1, <2>3 DEF CutAhead
<1>11. LiveTasks'
  BY <1>1, <1>2, <1>3 DEF OneClient, LiveInv, LiveTasks
<1> QED
  BY <1>7, <1>9, <1>10, <1>11 DEF LiveInv

LEMMA LiveSteps ==
  ASSUME LiveInv, OneClient, PlayOnly, Ops \cap {"prune", "reset", "restart"} = {},
         Faults \cap {"append", "session"} = {}, [Next]_vars
  PROVE  LiveInv'
<1>1. GapInv'
  BY GapSteps DEF LiveInv
<1>2. ASSUME UNCHANGED <<journalVars, sessionVars, ingestVars>> PROVE LiveInv'
  BY <1>1, <1>2, LiveSteady DEF LiveInv, CutAhead, LiveTasks, GapPending, ingestVars
<1>3. CASE UNCHANGED vars
  BY <1>2, <1>3 DEF vars
<1>4. CASE \E c \in Conns : \/ Connect(c)
                            \/ Close(c)
                            \/ \E events \in Batches : Receive(c, events)
                            \/ Ingest(c)
  <2>1. PICK c \in Conns : \/ Connect(c)
                           \/ Close(c)
                           \/ \E events \in Batches : Receive(c, events)
                           \/ Ingest(c)
    BY <1>4
  <2>2. pc[c] \notin {"loginAnchor", "loginDedup", "loginCut"}
    BY DEF LiveInv, LiveTasks
  <2>3. ~ LoginAnchor(c) /\ ~ Dedup(c, "loginDedup", "loginCut", "store")
        /\ ~ Cut(c, "loginCut", "store")
    BY <2>2 DEF LoginAnchor, Dedup, Cut
  <2> QED
    BY <1>1, <2>1, <2>3, DecidingLive, CutLive, StoreLive DEF Ingest
<1>5. CASE \E a \in Admins : \/ \E cutoff \in Cutoffs : PruneJournal(a, cutoff)
                             \/ ResetJournal(a)
                             \/ Maintain(a)
  BY <1>5 DEF LiveInv, GapInv, PruneJournal, ResetJournal, Maintain, PruneSessions,
     PruneMarkers, ResetSessions
<1>6. CASE (\E t \in Times : AddMarker(t) \/ DeleteMarker(t)) \/ Tick
  BY <1>2, <1>6 DEF AddMarker, DeleteMarker, Tick
<1>7. CASE Restart
  BY <1>7 DEF Restart
<1> QED
  BY <1>3, <1>4, <1>5, <1>6, <1>7 DEF Next

LEMMA InitLive ==
  Init => LiveInv
<1> SUFFICES ASSUME Init PROVE LiveInv
  OBVIOUS
<1>1. /\ rows = <<>> /\ sessions = <<>>
      /\ \A c \in Conns : pc[c] = "closed" /\ subs[c] = {}
  BY DEF Init, JournalInit, SessionInit
<1>2. DOMAIN rows = {} /\ Starts = {}
  BY <1>1 DEF Starts
<1> QED
  BY <1>1, <1>2, InitGaps DEF LiveInv, CutAhead, LiveTasks

(* Row by row, the scan begins a session at the first row and at each row that
   follows a break, and so did the live cuts. *)
LEMMA LiveIsScan ==
  LiveInv => LiveMatchesScan
<1> SUFFICES ASSUME LiveInv, rows # <<>>
             PROVE  (Starts \cap DOMAIN rows) \cup {Oldest(DOMAIN rows)} = ScanStarts(index)
  BY DEF LiveMatchesScan
<1>1. /\ DOMAIN rows \in SUBSET Nat /\ autoinc \in Nat
      /\ \A i \in DOMAIN rows : i <= autoinc
  BY HistoryTypes DEF LiveInv, GapInv, HistoryInv
<1>2. /\ DOMAIN index = DOMAIN rows
      /\ \A i \in DOMAIN rows : EntryTs(index[i]) = EntryTs(rows[i])
  BY DEF LiveInv, GapInv, IndexMirrorsRows, Entries, EntryTs
<1>3. Oldest(DOMAIN rows) \in DOMAIN rows /\ \A i \in DOMAIN rows : Oldest(DOMAIN rows) <= i
  <2>1. DOMAIN rows # {}
    <3>1. rows = [i \in DOMAIN rows |-> rows[i]]
      BY InductiveParts DEF LiveInv, GapInv, HistoryInv, JournalInv, JournalTypeOK
    <3> QED
      BY <3>1
  <2> QED
    BY <1>1, <2>1, LeastExists DEF Oldest
<1>4. ASSUME NEW id \in DOMAIN rows
      PROVE  id \in ScanStarts(index) <=> id \in Starts \/ id = Oldest(DOMAIN rows)
  <2> DEFINE earlier == {i \in DOMAIN rows : i < id}
  <2>1. earlier = {} <=> id = Oldest(DOMAIN rows)
    <3>1. Oldest(DOMAIN rows) \in Nat /\ id \in Nat
      BY <1>1, <1>3
    <3> QED
      BY <1>1, <1>3, <3>1
  <2>2. earlier # {} => Newest(earlier) \in DOMAIN rows
    <3> SUFFICES ASSUME earlier # {} PROVE Newest(earlier) \in earlier
      OBVIOUS
    <3>1. earlier \in SUBSET Nat /\ \A i \in earlier : i <= autoinc
      BY <1>1
    <3> QED
      BY <1>1, <3>1, NewestIn
  <2>3. id \in ScanStarts(index) <=>
          \/ earlier = {}
          \/ IsSessionGap(EntryTs(rows[Newest(earlier)]), EntryTs(rows[id]))
    BY <1>2, <2>2 DEF ScanStarts
  <2>4. EntryTs(rows[id]) = rows[id].log /\ rows[id].log # None
    BY DEF LiveInv, EntryTs
  <2>5. BreakBefore(id) <=> id \in Starts
    BY DEF LiveInv, GapInv, GapsAreCut, BreakBefore
  <2> QED
    BY <2>1, <2>3, <2>4, <2>5 DEF BreakBefore
<1>5. ScanStarts(index) \subseteq DOMAIN rows
  BY <1>2 DEF ScanStarts
<1> QED
  BY <1>3, <1>4, <1>5

(* The sessions live ingest cuts are those retroactive_scan finds in the same
   journal, the first apart: for one client whose batches hold play and no
   login, while nothing is deleted, restarted or fails (ingest.rs:225-243
   against session_index.rs:208-246). *)
THEOREM LiveCutsMatchScan ==
  ASSUME OneClient, PlayOnly, Ops \cap {"prune", "reset", "restart"} = {},
         Faults \cap {"append", "session"} = {}
  PROVE  Spec => []LiveMatchesScan
<1>1. LiveInv /\ [Next]_vars => LiveInv'
  BY LiveSteps
<1> QED
  BY <1>1, LiveIsScan, InitLive, PTL DEF Spec
=============================================================================
