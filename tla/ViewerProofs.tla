---------------------------- MODULE ViewerProofs ---------------------------
(***************************************************************************)
(* Proofs about Viewer and ViewerPage, for every burst size, channel       *)
(* capacity, sequence of batches, set of control messages and failing      *)
(* writes, and whatever the bounds on what happens.                        *)
(***************************************************************************)
EXTENDS ViewerPage, OrderLemmas, SequenceTheorems, FiniteSetTheorems, TLAPS

(* Positions in a finite set of row ids. *)

Pos(ids, x) == Cardinality({j \in ids : j < x})
Ids == {ids \in SUBSET Nat : IsFiniteSet(ids)}

LEMMA PosType ==
  ASSUME NEW D \in Ids, NEW x
  PROVE  /\ Cardinality(D) \in Nat
         /\ Pos(D, x) \in Nat
         /\ Pos(D, x) <= Cardinality(D)
<1>1. IsFiniteSet(D) /\ {j \in D : j < x} \in SUBSET D
  BY DEF Ids
<1>2. IsFiniteSet({j \in D : j < x}) /\ Pos(D, x) <= Cardinality(D)
  BY <1>1, FS_Subset DEF Pos
<1> QED
  BY <1>1, <1>2, FS_CardinalityType DEF Pos

LEMMA PosStrict ==
  ASSUME NEW D \in Ids, NEW i \in D, NEW j \in D, i < j
  PROVE  Pos(D, i) < Pos(D, j)
<1> DEFINE A == {k \in D : k < i}
           B == {k \in D : k < j}
<1>1. i \in Nat /\ j \in Nat /\ D \subseteq Nat
  BY DEF Ids
<1>2. A \in SUBSET B
  <2>1. \A k \in D : k < i => k < j
    BY <1>1
  <2> QED
    BY <2>1
<1>2a. i \in B /\ i \notin A
  BY <1>1
<1>3. IsFiniteSet(B)
  BY FS_Subset DEF Ids
<1>4. Cardinality(A) <= Cardinality(B) /\ Cardinality(A) # Cardinality(B)
  BY <1>2, <1>2a, <1>3, FS_Subset
<1>5. Cardinality(A) = Pos(D, i) /\ Cardinality(B) = Pos(D, j)
  BY DEF Pos
<1>6. Pos(D, i) \in Nat /\ Pos(D, j) \in Nat
  BY PosType
<1> HIDE DEF A, B
<1> QED
  BY <1>4, <1>5, <1>6

LEMMA PosInjective ==
  ASSUME NEW D \in Ids, NEW i \in D, NEW j \in D, Pos(D, i) = Pos(D, j)
  PROVE  i = j
<1>1. i \in Nat /\ j \in Nat /\ Pos(D, i) \in Nat
  BY PosType DEF Ids
<1>2. ~(i < j) /\ ~(j < i)
  BY <1>1, PosStrict
<1> QED
  BY <1>1, <1>2

LEMMA PosBound ==
  ASSUME NEW D \in Ids, NEW i \in D
  PROVE  Pos(D, i) < Cardinality(D)
<1> DEFINE A == {k \in D : k < i}
<1>1. i \in Nat /\ IsFiniteSet(D)
  BY DEF Ids
<1>2. A \in SUBSET D /\ A # D
  BY <1>1
<1>3. Cardinality(A) <= Cardinality(D) /\ Cardinality(A) # Cardinality(D)
  BY <1>1, <1>2, FS_Subset
<1>4. Cardinality(A) = Pos(D, i)
  BY DEF Pos
<1>5. Pos(D, i) \in Nat /\ Cardinality(D) \in Nat
  BY PosType
<1> HIDE DEF A
<1> QED
  BY <1>3, <1>4, <1>5

(* Every position below the length is some entry's. *)
LEMMA PosOnto ==
  ASSUME NEW D \in Ids, NEW k \in Nat, k < Cardinality(D)
  PROVE  \E i \in D : Pos(D, i) = k
<1> DEFINE n == Cardinality(D)
           f == [i \in D |-> Pos(D, i)]
           T == 0..n - 1
<1>1. n \in Nat
  BY PosType
<1>2. \A i \in D : Pos(D, i) \in T
  BY <1>1, PosType, PosBound
<1>3. f \in Injection(D, T)
  BY <1>2, PosInjective DEF Injection, IsInjective
<1>4. IsFiniteSet(T) /\ Cardinality(T) = n
  <2>1. n - 1 \in Int /\ 0 \in Int
    BY <1>1
  <2>2. IsFiniteSet(T) /\ Cardinality(T) = IF 0 > n - 1 THEN 0 ELSE (n - 1) - 0 + 1
    BY <2>1, FS_Interval
  <2> HIDE DEF T
  <2> QED
    BY <1>1, <2>2
<1>5. f \in Surjection(D, T)
  BY <1>3, <1>4, FS_Injection
<1>6. k \in T
  BY <1>1
<1>7. \E i \in D : f[i] = k
  BY <1>5, <1>6 DEF Surjection
<1> QED
  BY <1>7

(* A burst is as long as asked for, or ends the journal. *)
LEMMA BurstSize ==
  ASSUME NEW D \in Ids, NEW pos \in Nat, NEW count \in Nat, NEW B,
         B = {i \in D : Pos(D, i) >= pos /\ Pos(D, i) < pos + count}
  PROVE  /\ IsFiniteSet(B)
         /\ Cardinality(B) \in Nat
         /\ Cardinality(B) <= count
         /\ pos <= Cardinality(D) => pos + Cardinality(B) <= Cardinality(D)
         /\ Cardinality(B) < count => pos + Cardinality(B) >= Cardinality(D)
<1> DEFINE n == Cardinality(D)
           e == IF pos + count <= n THEN pos + count ELSE n
           T == pos..e - 1
           f == [i \in B |-> Pos(D, i)]
<1>1. n \in Nat /\ e \in Nat
  BY PosType
<1>2. \A i \in B : i \in D /\ Pos(D, i) \in T
  BY <1>1, PosType, PosBound
<1>3. f \in Injection(B, T)
  BY <1>2, PosInjective DEF Injection, IsInjective
<1>4. IsFiniteSet(T) /\ Cardinality(T) = IF pos > e - 1 THEN 0 ELSE (e - 1) - pos + 1
  <2>1. pos \in Int /\ e - 1 \in Int
    BY <1>1
  <2> HIDE DEF e
  <2> QED
    BY <2>1, FS_Interval
<1>5. ASSUME NEW k \in T PROVE \E i \in B : f[i] = k
  <2>1. k \in Nat /\ k < n /\ k >= pos /\ k < pos + count
    BY <1>1, <1>5
  <2>2. PICK i \in D : Pos(D, i) = k
    BY <2>1, PosOnto
  <2>3. i \in B
    BY <2>1, <2>2
  <2> QED
    BY <2>2, <2>3
<1>6. f \in Surjection(B, T)
  BY <1>3, <1>5 DEF Surjection, Injection
<1>7. IsFiniteSet(B) /\ Cardinality(B) = Cardinality(T)
  BY <1>3, <1>4, <1>6, FS_Injection
<1>8. Cardinality(B) = IF pos > e - 1 THEN 0 ELSE (e - 1) - pos + 1
  BY <1>4, <1>7
<1> HIDE DEF f, T
<1> QED
  BY <1>1, <1>7, <1>8

(* A new id is the largest, so it comes last and moves nobody. *)
LEMMA PosAppend ==
  ASSUME NEW D \in Ids, NEW n \in Nat, \A i \in D : i < n
  PROVE  /\ D \cup {n} \in Ids
         /\ Cardinality(D \cup {n}) = Cardinality(D) + 1
         /\ \A i \in D : Pos(D \cup {n}, i) = Pos(D, i)
<1>1. n \notin D /\ IsFiniteSet(D) /\ D \subseteq Nat
  BY DEF Ids
<1>2. IsFiniteSet(D \cup {n}) /\ Cardinality(D \cup {n}) = Cardinality(D) + 1
  BY <1>1, FS_AddElement
<1>3. ASSUME NEW i \in D PROVE Pos(D \cup {n}, i) = Pos(D, i)
  <2>1. {j \in D \cup {n} : j < i} = {j \in D : j < i}
    BY <1>1
  <2> QED
    BY <2>1 DEF Pos
<1> QED
  BY <1>1, <1>2, <1>3 DEF Ids

LEMMA IntervalIds ==
  ASSUME NEW n \in Nat, NEW D, D \subseteq 1..n
  PROVE  D \in Ids
<1>1. IsFiniteSet(1..n)
  BY FS_Interval
<1>2. IsFiniteSet(D)
  BY <1>1, FS_Subset
<1> QED
  BY <1>2 DEF Ids
-----------------------------------------------------------------------------
(* The journal, as far as the viewer's properties need it. *)

JournalOK ==
  /\ autoinc \in Nat
  /\ DOMAIN index \subseteq 1..autoinc
  /\ \A id \in DOMAIN index : index[id].wall \in Nat
  /\ cuts = 0 => DOMAIN rows = DOMAIN index

LEMMA IndexIds ==
  ASSUME JournalOK
  PROVE  /\ DOMAIN index \in Ids
         /\ JournalLen \in Nat
         /\ \A x : /\ PosOf(x) = Pos(DOMAIN index, x)
                  /\ PosOf(x) \in Nat
                  /\ PosOf(x) <= JournalLen
         /\ \A id \in DOMAIN index : PosOf(id) < JournalLen
         /\ \A id \in DOMAIN index : Number(id) \in Nat
<1>1. DOMAIN index \in Ids
  BY IntervalIds DEF JournalOK
<1>2. \A x : PosOf(x) = Pos(DOMAIN index, x)
  BY DEF PosOf, Pos
<1>3. \A x : PosOf(x) \in Nat /\ PosOf(x) <= JournalLen
  BY <1>1, <1>2, PosType DEF JournalLen
<1>4. JournalLen \in Nat
  BY <1>1, PosType DEF JournalLen
<1>5. \A id \in DOMAIN index : PosOf(id) < JournalLen
  BY <1>1, <1>2, PosBound DEF JournalLen
<1>6. \A id \in DOMAIN index : Number(id) \in Nat
  BY DEF JournalOK, Number
<1> QED
  BY <1>1, <1>2, <1>3, <1>4, <1>5, <1>6

LEMMA FirstPosType ==
  ASSUME JournalOK, NEW ids
  PROVE  FirstPos(ids) \in Nat /\ FirstPos(ids) <= JournalLen
<1>1. JournalLen \in Nat /\ \A x : PosOf(x) \in Nat /\ PosOf(x) <= JournalLen
  BY IndexIds
<1> QED
  BY <1>1 DEF FirstPos

LEMMA ReadBurstFacts ==
  ASSUME JournalOK, NEW pos \in Nat, NEW count \in Nat
  PROVE  LET burst == ReadBurst(pos, count)
         IN /\ burst \subseteq DOMAIN index
            /\ Cardinality(burst) \in Nat
            /\ Cardinality(burst) <= count
            /\ pos <= JournalLen => pos + Cardinality(burst) <= JournalLen
            /\ Cardinality(burst) < count => pos + Cardinality(burst) >= JournalLen
<1>1. DOMAIN index \in Ids /\ \A x : PosOf(x) = Pos(DOMAIN index, x)
  BY IndexIds
<1>2. ReadBurst(pos, count)
        = {i \in DOMAIN index : /\ Pos(DOMAIN index, i) >= pos
                                /\ Pos(DOMAIN index, i) < pos + count}
  BY <1>1 DEF ReadBurst
<1> QED
  BY <1>1, <1>2, BurstSize DEF JournalLen, ReadBurst

LEMMA AtFacts ==
  ASSUME JournalOK, NEW pos \in Nat, pos < JournalLen
  PROVE  At(pos) \in DOMAIN index /\ PosOf(At(pos)) = pos
<1>1. \E i \in DOMAIN index : PosOf(i) = pos
  BY IndexIds, PosOnto DEF JournalLen
<1> QED
  BY <1>1 DEF At

LEMMA AppendFacts ==
  ASSUME JournalOK, NEW w \in Nat, NEW events, JournalAppend(w, events), cuts' = cuts
  PROVE  /\ JournalOK'
         /\ JournalLen' = JournalLen + 1
         /\ DOMAIN index' = DOMAIN index \cup {autoinc + 1}
         /\ index'[autoinc + 1].wall = w
         /\ \A id \in DOMAIN index :
              /\ index'[id].wall = index[id].wall
              /\ Pos(DOMAIN index', id) = Pos(DOMAIN index, id)
<1> DEFINE n == autoinc + 1
           log == MaxLogTs(events)
<1>1. /\ rows' = [i \in DOMAIN rows \cup {n} |->
                    IF i = n THEN [wall |-> w, log |-> log, batch |-> events]
                             ELSE rows[i]]
      /\ index' = [i \in DOMAIN index \cup {n} |->
                    IF i = n THEN [wall |-> w, log |-> log] ELSE index[i]]
      /\ autoinc' = n
  BY DEF JournalAppend, NextBatchId
<1>2. n \in Nat /\ n \notin DOMAIN index /\ \A i \in DOMAIN index : i < n
  BY DEF JournalOK
<1>3. /\ DOMAIN index' = DOMAIN index \cup {n}
      /\ DOMAIN rows' = DOMAIN rows \cup {n}
  BY <1>1
<1>4. /\ Cardinality(DOMAIN index') = Cardinality(DOMAIN index) + 1
      /\ \A i \in DOMAIN index : Pos(DOMAIN index', i) = Pos(DOMAIN index, i)
  BY <1>2, <1>3, IndexIds, PosAppend
<1>5. JournalLen' = JournalLen + 1
  BY <1>4 DEF JournalLen
<1>6. index'[n].wall = w
  BY <1>1
<1>7. \A id \in DOMAIN index : index'[id].wall = index[id].wall
  BY <1>1, <1>2
<1>8. \A id \in DOMAIN index' : index'[id].wall \in Nat
  BY <1>3, <1>6, <1>7 DEF JournalOK
<1>9. DOMAIN index' \subseteq 1..autoinc'
  BY <1>1, <1>3 DEF JournalOK
<1>10. cuts' = 0 => DOMAIN rows' = DOMAIN index'
  BY <1>3 DEF JournalOK
<1>11. autoinc' \in Nat
  BY <1>1, <1>2
<1>12. JournalOK'
  BY <1>8, <1>9, <1>10, <1>11 DEF JournalOK
<1> HIDE DEF n
<1>13. n = autoinc + 1
  BY DEF n
<1> QED
  BY <1>3, <1>4, <1>5, <1>6, <1>7, <1>12, <1>13

LEMMA JournalInitOK ==
  ASSUME Init
  PROVE  JournalOK
<1>1. DOMAIN index = {} /\ DOMAIN rows = {} /\ autoinc = 0
  BY DEF Init, JournalInit
<1> QED
  BY <1>1 DEF JournalOK

LEMMA MaintainKeepsJournal ==
  ASSUME JournalOK, cuts \in Nat, Maintain
  PROVE  JournalOK'
<1>1. cuts' # 0 /\ autoinc' = autoinc
  BY DEF Maintain, JournalClear, JournalPrune
<1>2. CASE JournalClear
  <2>1. DOMAIN index' = {}
    BY <1>2 DEF JournalClear
  <2> QED
    BY <1>1, <2>1 DEF JournalOK
<1>3. ASSUME NEW cutoff \in Times, JournalPrune(cutoff) PROVE JournalOK'
  <2> DEFINE kept == Surviving(index, cutoff)
  <2>1. kept \subseteq DOMAIN index /\ index' = Restrict(index, kept)
    BY <1>3 DEF JournalPrune, Surviving
  <2>2. DOMAIN index' = kept /\ \A i \in kept : index'[i] = index[i]
    BY <2>1 DEF Restrict
  <2>3. DOMAIN index' \subseteq 1..autoinc'
    BY <1>1, <2>1, <2>2 DEF JournalOK
  <2>4. \A id \in DOMAIN index' : index'[id].wall \in Nat
    BY <2>1, <2>2 DEF JournalOK
  <2> QED
    BY <1>1, <2>3, <2>4 DEF JournalOK
<1> QED
  BY <1>2, <1>3 DEF Maintain
-----------------------------------------------------------------------------
(* The state of the handler. *)

LEMMA ModeFacts ==
  /\ NoHandler \in Modes /\ NoHandler.m = "none"
  /\ Live \in Modes /\ Live.m = "live"
  /\ \A p \in Nat :
       /\ CatchUp(p) \in Modes /\ CatchUp(p).m = "catchUp" /\ CatchUp(p).pos = p
       /\ Replay(p) \in Modes /\ Replay(p).m = "replay" /\ Replay(p).pos = p
       /\ Paused(p) \in Modes /\ Paused(p).m = "paused" /\ Paused(p).pos = p
  /\ \A p, t \in Nat : \A b \in BOOLEAN :
       /\ CatchUpTo(p, t, b) \in Modes /\ CatchUpTo(p, t, b).m = "catchUpTo"
       /\ CatchUpTo(p, t, b).pos = p /\ CatchUpTo(p, t, b).target = t
BY DEF NoHandler, Live, CatchUp, Replay, Paused, CatchUpTo, Modes

LEMMA ModeFields ==
  ASSUME NEW md \in Modes
  PROVE  /\ md.m \in {"none", "live", "catchUp", "replay", "paused", "catchUpTo"}
         /\ md.m = "none" <=> md = NoHandler
         /\ md.m \in {"catchUp", "replay", "paused", "catchUpTo"} => md.pos \in Nat
         /\ md.m = "catchUpTo" =>
              /\ md.target \in Nat /\ md.play \in BOOLEAN
              /\ \A p \in Nat : [md EXCEPT !.pos = p] = CatchUpTo(p, md.target, md.play)
BY DEF Modes, NoHandler, Live, CatchUpTo

WithinJournal(md) ==
  /\ md.m \in {"catchUp", "catchUpTo", "replay", "paused"} => md.pos <= JournalLen
  /\ md.m = "catchUpTo" => md.pos <= md.target /\ md.target <= JournalLen

LEMMA ModesWithin ==
  /\ WithinJournal(Live) /\ WithinJournal(NoHandler)
  /\ \A p \in Nat : p <= JournalLen =>
       WithinJournal(CatchUp(p)) /\ WithinJournal(Replay(p)) /\ WithinJournal(Paused(p))
  /\ \A p, t \in Nat : \A b \in BOOLEAN :
       p <= t /\ t <= JournalLen /\ p <= JournalLen => WithinJournal(CatchUpTo(p, t, b))
BY ModeFacts DEF WithinJournal

(* What a control message leads to. *)
LEMMA ModeAfterFacts ==
  ASSUME JournalOK, NEW msg \in ClientMsg, NEW current \in Nat
  PROVE  /\ ModeAfter(msg, current) \in Modes
         /\ ModeAfter(msg, current).m \notin {"none", "catchUp"}
         /\ current <= JournalLen => WithinJournal(ModeAfter(msg, current))
<1> USE ModeFacts, ModesWithin
<1>0. JournalLen \in Nat /\ 0 <= JournalLen
  BY IndexIds
<1>1. \A ts : /\ SeekIndex(ts) \in Nat /\ SeekIndex(ts) <= JournalLen
             /\ SeekIndexByLogTs(ts) \in Nat /\ SeekIndexByLogTs(ts) <= JournalLen
  BY FirstPosType DEF SeekIndex, SeekIndexByLogTs
<1>2. CASE msg.t = "seek"
  <2>1. Target(msg) \in Nat /\ Target(msg) <= JournalLen
    BY <1>1 DEF Target
  <2>2. ModeAfter(msg, current)
          = IF msg.play THEN Replay(Target(msg)) ELSE Paused(Target(msg))
    BY <1>2 DEF ModeAfter
  <2> QED
    BY <2>1, <2>2
<1>3. CASE msg.t = "seek_full"
  <2>1. Target(msg) \in Nat /\ Target(msg) <= JournalLen
    BY <1>1 DEF Target
  <2>2. ModeAfter(msg, current) = CatchUpTo(0, Target(msg), msg.play)
    BY <1>3 DEF ModeAfter
  <2>3. msg.play \in BOOLEAN
    BY <1>3 DEF ClientMsg
  <2>4. 0 <= Target(msg)
    BY <2>1
  <2> QED
    BY <1>0, <2>1, <2>2, <2>3, <2>4
<1>4. CASE msg.t = "preload_range"
  <2> DEFINE from == SeekIndexByLogTs(msg.from)
             to == PreloadBounds(from, SeekIndexByLogTs(msg.to))
  <2>1. from \in Nat /\ from <= JournalLen
    BY <1>1
  <2>2. to \in Nat /\ from <= to /\ to <= JournalLen
    BY <1>1, <1>0 DEF PreloadBounds
  <2>3. ModeAfter(msg, current) = CatchUpTo(from, to, FALSE)
    BY <1>4 DEF ModeAfter
  <2> HIDE DEF from, to
  <2>4. /\ CatchUpTo(from, to, FALSE) \in Modes
        /\ CatchUpTo(from, to, FALSE).m = "catchUpTo"
    BY ZenonT(40), <2>1, <2>2
  <2>5. WithinJournal(CatchUpTo(from, to, FALSE))
    BY ZenonT(40), <2>1, <2>2
  <2> QED
    BY <2>3, <2>4, <2>5
<1>5. CASE msg.t = "pause"
  <2>1. ModeAfter(msg, current) = Paused(current)
    BY <1>5 DEF ModeAfter
  <2> QED
    BY <2>1
<1>6. CASE msg.t = "resume"
  <2>1. ModeAfter(msg, current) = Replay(current)
    BY <1>6 DEF ModeAfter
  <2> QED
    BY <2>1
<1>7. CASE msg.t = "live"
  <2>1. ModeAfter(msg, current) = Live
    BY <1>7 DEF ModeAfter
  <2> QED
    BY <2>1
<1>8. msg.t \in {"seek", "seek_full", "preload_range", "pause", "resume", "live"}
  BY DEF ClientMsg
<1> QED
  BY <1>2, <1>3, <1>4, <1>5, <1>6, <1>7, <1>8
-----------------------------------------------------------------------------
(* The inductive invariant, in parts. *)

WorldOK ==
  /\ connected \in BOOLEAN /\ public \in BOOLEAN /\ revoked \in BOOLEAN
  /\ arrived \in Nat /\ unsent \in Nat /\ sent \in Seq(Nat)
  /\ drops \in Nat /\ cuts \in Nat

StepsOK ==
  /\ step \in Steps
  /\ step = "poll" => mode.m \in {"catchUp", "catchUpTo"}
  /\ step = "pace" => mode.m = "replay"
  /\ step = "caught" => mode.m \in {"catchUp", "replay"}
  /\ step = "gone" => mode.m = "live"
  /\ mode.m = "paused" => step \in {"top", "arm"}

HandlerOK ==
  /\ mode \in Modes /\ rx \in Nat \ {0} /\ msgs \in Nat
  /\ pausedByDisconnect \in BOOLEAN /\ ingestWasDown \in BOOLEAN

HistoryOK ==
  /\ wheel \in BOOLEAN /\ ended \in BOOLEAN
  /\ delivered \subseteq Nat /\ lagged \subseteq Nat /\ sinceRevoke \in Nat

(* A pause of the handler's own, and nobody has touched it. *)
FlagsOK == pausedByDisconnect => mode.m = "paused" /\ ~wheel

(* A burst begins only where no revocation was seen, so only that one burst
   is sent after it. *)
RevokeOK ==
  /\ sinceRevoke <= Burst
  /\ step = "arm" \/ ~revoked \/ mode = NoHandler => sinceRevoke = 0

(* The receiver is never ahead of the channel. *)
ChannelOK == rx <= Len(sent) + 1

Seen == delivered \cup lagged \cup Pending
Ahead(id) == CatchingUp /\ step # "caught" /\ PosOf(id) >= mode.pos

(* Whoever only watches is in one of three modes; and what he has not seen
   is ahead in the journal, with nothing left there once a short burst has
   ended the catch-up. *)
WatchMode ==
  /\ mode.m \in {"catchUp", "live", "paused"}
  /\ mode.m = "paused" => pausedByDisconnect

WatchOK ==
  mode # NoHandler /\ msgs = 0 =>
    /\ WatchMode
    /\ cuts = 0 => \A id \in DOMAIN rows : Number(id) \in Seen \/ Ahead(id)

Inv ==
  /\ WorldOK /\ JournalOK /\ StepsOK /\ HandlerOK /\ HistoryOK
  /\ PositionsInJournal /\ FlagsOK /\ RevokeOK /\ ChannelOK /\ WatchOK

LEMMA PositionsAreWithin ==
  PositionsInJournal <=> (cuts = 0 => WithinJournal(mode))
BY DEF PositionsInJournal, WithinJournal

LEMMA InitInv ==
  ASSUME Init
  PROVE  Inv
<1>1. JournalOK
  BY JournalInitOK
<1>2. WorldOK
  BY EmptySeq DEF Init, WorldOK
<1>3. HandlerOK /\ StepsOK
  <2>1. mode = NoHandler /\ step = "top" /\ rx = 1 /\ msgs = 0
    BY DEF Init
  <2>2. pausedByDisconnect \in BOOLEAN /\ ingestWasDown \in BOOLEAN
    BY DEF Init
  <2>3. mode \in Modes /\ mode.m = "none"
    BY <2>1, ModeFacts
  <2>4. StepsOK
    BY <2>1, <2>3 DEF StepsOK, Steps
  <2> QED
    BY <2>1, <2>2, <2>3, <2>4 DEF HandlerOK
<1>4. HistoryOK
  BY DEF Init, HistoryOK
<1>5. PositionsInJournal
  BY ModeFacts DEF Init, PositionsInJournal
<1>6. FlagsOK
  BY DEF Init, FlagsOK
<1>7. RevokeOK
  BY BurstAssumption DEF Init, RevokeOK
<1>8. ChannelOK
  BY <1>2 DEF Init, ChannelOK, WorldOK
<1>9. WatchOK
  BY DEF Init, WatchOK
<1> QED
  BY <1>1, <1>2, <1>3, <1>4, <1>5, <1>6, <1>7, <1>8, <1>9 DEF Inv

(* A step that touches neither journal nor channel. *)
LEMMA SameWorld ==
  ASSUME Inv, UNCHANGED <<rows, index, autoinc, cuts>>
  PROVE  /\ JournalOK'
         /\ JournalLen' = JournalLen
         /\ \A id \in DOMAIN rows : PosOf(id)' = PosOf(id) /\ Number(id)' = Number(id)
BY DEF Inv, JournalOK, JournalLen, PosOf, Number

LEMMA HandlerWorld ==
  ASSUME Inv, World
  PROVE  /\ WorldOK' /\ JournalOK' /\ JournalLen' = JournalLen
         /\ UNCHANGED <<rows, index, autoinc, cuts, sent, unsent, revoked, connected>>
<1>1. UNCHANGED <<rows, index, autoinc, connected, arrived, unsent, sent, drops,
                  cuts, public, revoked>>
  BY DEF World, journalVars, ingestVars
<1>2. WorldOK'
  BY <1>1 DEF Inv, WorldOK
<1> QED
  BY <1>1, <1>2, SameWorld

(* Steps that leave a watching viewer's situation alone, and steps after
   which nobody only watches. *)
LEMMA WatchIdle ==
  ASSUME Inv,
         UNCHANGED <<rows, index, autoinc, cuts, sent, unsent, mode, rx,
                     pausedByDisconnect, msgs, delivered, lagged>>,
         step' = step \/ (step # "caught" /\ step' # "caught")
  PROVE  WatchOK'
<1>1. Seen' = Seen
  BY DEF Seen, Pending
<1>2. \A id \in DOMAIN rows : Ahead(id)' = Ahead(id) /\ Number(id)' = Number(id)
  BY SameWorld DEF Ahead, CatchingUp
<1>3. WatchMode' = WatchMode
  BY DEF WatchMode
<1> QED
  BY <1>1, <1>2, <1>3 DEF Inv, WatchOK

LEMMA WatchOff ==
  ASSUME mode' = NoHandler \/ msgs' # 0
  PROVE  WatchOK'
BY DEF WatchOK

(* A handler that has taken no message is in a watching mode. *)
LEMMA WatchingMode ==
  ASSUME Inv, mode # NoHandler, mode.m \in {"catchUpTo", "replay"}
  PROVE  msgs # 0
BY DEF Inv, WatchOK, WatchMode
-----------------------------------------------------------------------------
(* The ingest client, the ingest task, maintenance and the owner. *)

LEMMA BystanderKeeps ==
  ASSUME Inv, Bystander
  PROVE  /\ StepsOK' /\ HandlerOK' /\ HistoryOK' /\ FlagsOK'
         /\ UNCHANGED <<mode, step, rx, pausedByDisconnect, msgs, delivered, lagged,
                        sinceRevoke>>
<1>1. UNCHANGED <<mode, step, rx, pausedByDisconnect, ingestWasDown, msgs, delivered,
                  lagged, wheel, ended, sinceRevoke>>
  BY DEF Bystander, handlerVars, historyVars
<1>2. StepsOK'
  BY <1>1 DEF Inv, StepsOK
<1>3. HandlerOK' /\ HistoryOK' /\ FlagsOK'
  BY <1>1 DEF Inv, HandlerOK, HistoryOK, FlagsOK
<1> QED
  BY <1>1, <1>2, <1>3

LEMMA EnvironmentElsewhere ==
  ASSUME Inv, ClientConnects \/ ClientDrops \/ MakePrivate \/ MakePublic
  PROVE  Inv'
<1>1. Bystander /\ UNCHANGED <<rows, index, autoinc, cuts, sent, unsent>>
  BY DEF ClientConnects, ClientDrops, MakePrivate, MakePublic, journalVars
<1>2. WorldOK'
  <2>1. CASE ClientConnects
    BY <2>1 DEF Inv, WorldOK, ClientConnects
  <2>2. CASE ClientDrops
    <3>1. drops' = drops + 1 /\ connected' = FALSE
          /\ UNCHANGED <<arrived, unsent, sent, cuts, public, revoked>>
      BY <2>2 DEF ClientDrops
    <3>2. connected' \in BOOLEAN
      BY <3>1
    <3>3. drops \in Nat
      BY DEF Inv, WorldOK
    <3>4. drops' \in Nat
      BY <3>1, <3>3
    <3> QED
      BY <3>1, <3>2, <3>4 DEF Inv, WorldOK
  <2>3. CASE MakePrivate
    <3>1. revoked' \in BOOLEAN /\ public' \in BOOLEAN
      BY <2>3 DEF MakePrivate
    <3> QED
      BY <2>3, <3>1 DEF Inv, WorldOK, MakePrivate
  <2>4. CASE MakePublic
    BY <2>4 DEF Inv, WorldOK, MakePublic
  <2> QED
    BY <2>1, <2>2, <2>3, <2>4
<1>3. JournalOK' /\ JournalLen' = JournalLen
  BY <1>1, SameWorld
<1>4. /\ StepsOK' /\ HandlerOK' /\ HistoryOK' /\ FlagsOK'
      /\ UNCHANGED <<mode, step, rx, pausedByDisconnect, msgs, delivered, lagged,
                     sinceRevoke>>
  BY <1>1, BystanderKeeps
<1>5. PositionsInJournal'
  BY <1>1, <1>3, <1>4 DEF Inv, PositionsInJournal
<1>6. RevokeOK'
  <2>1. revoked' = revoked \/ revoked' = (mode # NoHandler)
    BY DEF ClientConnects, ClientDrops, MakePrivate, MakePublic
  <2> QED
    BY <1>4, <2>1 DEF Inv, RevokeOK
<1>7. ChannelOK'
  BY <1>1, <1>4 DEF Inv, ChannelOK
<1>8. WatchOK'
  BY <1>1, <1>4, WatchIdle
<1> QED
  BY <1>2, <1>3, <1>4, <1>5, <1>6, <1>7, <1>8 DEF Inv

LEMMA MaintainStep ==
  ASSUME Inv, Maintain
  PROVE  Inv'
<1>1. Bystander /\ cuts' = cuts + 1 /\ cuts \in Nat
      /\ UNCHANGED <<connected, arrived, unsent, sent, drops, public, revoked>>
  BY DEF Maintain, Inv, WorldOK
<1>2. cuts' # 0 /\ WorldOK'
  BY <1>1 DEF Inv, WorldOK
<1>3. JournalOK'
  BY <1>1, MaintainKeepsJournal DEF Inv
<1>4. /\ StepsOK' /\ HandlerOK' /\ HistoryOK' /\ FlagsOK'
      /\ UNCHANGED <<mode, step, rx, pausedByDisconnect, msgs, delivered, lagged,
                     sinceRevoke>>
  BY <1>1, BystanderKeeps
<1>5. PositionsInJournal'
  BY <1>2 DEF PositionsInJournal
<1>6. RevokeOK' /\ ChannelOK'
  BY <1>1, <1>4 DEF Inv, RevokeOK, ChannelOK
<1>7. WatchOK'
  BY <1>2, <1>4 DEF Inv, WatchOK, WatchMode
<1> QED
  BY <1>2, <1>3, <1>4, <1>5, <1>6, <1>7 DEF Inv

(* A stored batch gets the last position and is pending at once. *)
LEMMA StoreStep ==
  ASSUME Inv, Store
  PROVE  Inv'
<1> DEFINE n == arrived + 1
<1>1. /\ Bystander /\ unsent = 0 /\ arrived' = n /\ unsent' = n
      /\ UNCHANGED <<connected, sent, drops, cuts, public, revoked>>
      /\ \/ JournalAppend(n, {[ts |-> LogTimes[n]]})
         \/ UNCHANGED <<rows, index, autoinc>>
  BY DEF Store, journalVars
<1>2. n \in Nat /\ n # 0
  BY DEF Inv, WorldOK
<1>3. WorldOK'
  BY <1>1, <1>2 DEF Inv, WorldOK
<1>4. /\ StepsOK' /\ HandlerOK' /\ HistoryOK' /\ FlagsOK'
      /\ UNCHANGED <<mode, step, rx, pausedByDisconnect, msgs, delivered, lagged,
                     sinceRevoke>>
  BY <1>1, BystanderKeeps
<1>5. RevokeOK' /\ ChannelOK'
  BY <1>1, <1>4 DEF Inv, RevokeOK, ChannelOK
<1>6. Seen' = Seen \cup {n}
  BY <1>1, <1>2, <1>4 DEF Seen, Pending
<1> HIDE DEF n
<1>7. WatchMode' = WatchMode /\ CatchingUp' = CatchingUp
  BY <1>4 DEF WatchMode, CatchingUp
<1>8. CASE UNCHANGED <<rows, index, autoinc>>
  <2>1. JournalOK' /\ JournalLen' = JournalLen
        /\ \A id \in DOMAIN rows : PosOf(id)' = PosOf(id) /\ Number(id)' = Number(id)
    BY <1>1, <1>8, SameWorld
  <2>2. PositionsInJournal'
    BY <1>1, <1>4, <2>1 DEF Inv, PositionsInJournal
  <2>3. \A id \in DOMAIN rows : Ahead(id)' = Ahead(id)
    BY <1>4, <1>7, <2>1 DEF Ahead
  <2>4. WatchOK'
    BY <1>1, <1>4, <1>6, <1>7, <1>8, <2>1, <2>3 DEF Inv, WatchOK
  <2> QED
    BY <1>3, <1>4, <1>5, <2>1, <2>2, <2>4 DEF Inv
<1>9. CASE JournalAppend(n, {[ts |-> LogTimes[n]]})
  <2>1. /\ JournalOK'
        /\ JournalLen' = JournalLen + 1
        /\ DOMAIN index' = DOMAIN index \cup {autoinc + 1}
        /\ index'[autoinc + 1].wall = n
        /\ \A id \in DOMAIN index :
             /\ index'[id].wall = index[id].wall
             /\ Pos(DOMAIN index', id) = Pos(DOMAIN index, id)
    BY <1>1, <1>2, <1>9, AppendFacts DEF Inv
  <2>2. PositionsInJournal'
    <3>1. JournalLen \in Nat
      BY IndexIds DEF Inv
    <3>2. SUFFICES ASSUME cuts = 0
                   PROVE  /\ mode.m \in {"catchUp", "catchUpTo", "replay", "paused"}
                               => mode.pos <= JournalLen + 1
                          /\ mode.m = "catchUpTo" => /\ mode.pos <= mode.target
                                                    /\ mode.target <= JournalLen + 1
      BY <1>1, <1>4, <2>1 DEF PositionsInJournal
    <3>3. mode \in Modes
      BY DEF Inv, HandlerOK
    <3>4. /\ mode.m \in {"catchUp", "catchUpTo", "replay", "paused"}
               => mode.pos \in Nat /\ mode.pos <= JournalLen
          /\ mode.m = "catchUpTo" => /\ mode.target \in Nat
                                    /\ mode.pos <= mode.target
                                    /\ mode.target <= JournalLen
      BY <3>2, <3>3, ModeFields DEF Inv, PositionsInJournal
    <3> QED
      BY <3>1, <3>4
  <2>3. WatchOK'
    <3> SUFFICES ASSUME mode # NoHandler, msgs = 0, cuts = 0, NEW id \in DOMAIN rows'
                 PROVE  Number(id)' \in Seen' \/ Ahead(id)'
      BY <1>1, <1>4, <1>7 DEF Inv, WatchOK
    <3>1. DOMAIN rows' = DOMAIN index' /\ DOMAIN rows = DOMAIN index
      BY <1>1, <2>1 DEF Inv, JournalOK
    <3>2. CASE id = autoinc + 1
      <4>1. Number(id)' = n
        BY <2>1, <3>2 DEF Number
      <4> QED
        BY <4>1, <1>6
    <3>3. CASE id # autoinc + 1
      <4>1. id \in DOMAIN index
        BY <2>1, <3>1, <3>3
      <4>2. Number(id)' = Number(id)
        BY <2>1, <4>1 DEF Number
      <4>3. PosOf(id)' = PosOf(id)
        BY <2>1, <4>1 DEF PosOf, Pos
      <4>4. Number(id) \in Seen \/ Ahead(id)
        BY <3>1, <4>1 DEF Inv, WatchOK
      <4> QED
        BY <1>4, <1>6, <1>7, <4>2, <4>3, <4>4 DEF Ahead
    <3> QED
      BY <3>2, <3>3
  <2> QED
    BY <1>3, <1>4, <1>5, <2>1, <2>2, <2>3 DEF Inv
<1> QED
  BY <1>1, <1>8, <1>9

LEMMA BroadcastStep ==
  ASSUME Inv, Broadcast
  PROVE  Inv'
<1>1. /\ Bystander /\ unsent # 0 /\ sent' = Append(sent, unsent) /\ unsent' = 0
      /\ UNCHANGED <<rows, index, autoinc, connected, arrived, drops, cuts, public,
                     revoked>>
  BY DEF Broadcast, journalVars
<1>2. /\ sent \in Seq(Nat) /\ unsent \in Nat /\ Len(sent) \in Nat
      /\ rx \in Nat \ {0} /\ rx <= Len(sent) + 1
  BY LenProperties DEF Inv, WorldOK, HandlerOK, ChannelOK
<1>3. /\ sent' \in Seq(Nat) /\ Len(sent') = Len(sent) + 1
      /\ \A i \in 1..Len(sent) : sent'[i] = sent[i]
      /\ sent'[Len(sent) + 1] = unsent
  BY <1>1, <1>2, AppendProperties
<1>4. WorldOK'
  BY <1>1, <1>3 DEF Inv, WorldOK
<1>5. /\ StepsOK' /\ HandlerOK' /\ HistoryOK' /\ FlagsOK'
      /\ UNCHANGED <<mode, step, rx, pausedByDisconnect, msgs, delivered, lagged,
                     sinceRevoke>>
  BY <1>1, BystanderKeeps
<1>6. /\ JournalOK' /\ JournalLen' = JournalLen
      /\ \A id \in DOMAIN rows : PosOf(id)' = PosOf(id) /\ Number(id)' = Number(id)
  BY <1>1, SameWorld
<1>7. PositionsInJournal' /\ RevokeOK'
  BY <1>1, <1>5, <1>6 DEF Inv, PositionsInJournal, RevokeOK
<1>8. ChannelOK'
  BY <1>2, <1>3, <1>5 DEF ChannelOK
<1>9. Pending \subseteq Pending'
  <2>1. \A p \in rx..Len(sent) : p \in rx'..Len(sent') /\ sent'[p] = sent[p]
    BY <1>2, <1>3, <1>5
  <2>2. Len(sent) + 1 \in rx'..Len(sent')
    BY <1>2, <1>3, <1>5
  <2> QED
    BY <1>3, <2>1, <2>2 DEF Pending
<1>10. Seen \subseteq Seen' /\ WatchMode' = WatchMode
  BY <1>5, <1>9 DEF Seen, WatchMode
<1>11. \A id \in DOMAIN rows : Ahead(id)' = Ahead(id)
  BY <1>5, <1>6 DEF Ahead, CatchingUp
<1>12. WatchOK'
  BY <1>1, <1>5, <1>6, <1>10, <1>11 DEF Inv, WatchOK
<1> QED
  BY <1>4, <1>5, <1>6, <1>7, <1>8, <1>12 DEF Inv
-----------------------------------------------------------------------------
(* Opening, closing and control messages. *)

LEMMA OpenStep ==
  ASSUME Inv, Open
  PROVE  Inv'
<1>1. /\ mode' = CatchUp(0) /\ step' = "info" /\ rx' = Len(sent) + 1 /\ msgs' = 0
      /\ sinceRevoke' = 0 /\ delivered' = {} /\ lagged' = {}
      /\ UNCHANGED <<rows, index, autoinc, connected, arrived, unsent, sent, drops,
                     cuts, public>>
  BY DEF Open, Goto, journalVars, ingestVars
<1>2. /\ revoked' = FALSE /\ pausedByDisconnect' = FALSE /\ ingestWasDown' = FALSE
      /\ wheel' = FALSE /\ ended' = FALSE
  BY DEF Open
<1>3. mode' \in Modes /\ mode'.m = "catchUp" /\ mode'.pos = 0
  BY <1>1, ModeFacts
<1>4. sent \in Seq(Nat) /\ Len(sent) \in Nat
  BY LenProperties DEF Inv, WorldOK
<1>5. WorldOK'
  BY <1>1, <1>2 DEF Inv, WorldOK
<1>6. /\ JournalOK' /\ JournalLen' = JournalLen /\ JournalLen \in Nat
      /\ \A id \in DOMAIN rows : PosOf(id)' = PosOf(id) /\ PosOf(id) \in Nat
  BY <1>1, SameWorld, IndexIds DEF Inv
<1>7. StepsOK'
  BY <1>1, <1>3 DEF StepsOK, Steps
<1>8. HandlerOK'
  <2>1. rx' \in Nat \ {0} /\ msgs' \in Nat
    BY <1>1, <1>4
  <2>2. pausedByDisconnect' \in BOOLEAN /\ ingestWasDown' \in BOOLEAN
    BY <1>2
  <2> QED
    BY <1>3, <2>1, <2>2 DEF HandlerOK
<1>9. HistoryOK'
  <2>1. wheel' \in BOOLEAN /\ ended' \in BOOLEAN
    BY <1>2
  <2> QED
    BY <1>1, <2>1 DEF HistoryOK
<1>10. PositionsInJournal'
  BY <1>3, <1>6 DEF PositionsInJournal
<1>11. FlagsOK'
  BY <1>2 DEF FlagsOK
<1>12. RevokeOK'
  BY <1>1, BurstAssumption DEF RevokeOK
<1>13. ChannelOK'
  BY <1>1, <1>4 DEF ChannelOK
<1>14. WatchOK'
  <2>1. WatchMode'
    BY <1>3 DEF WatchMode
  <2>2. \A id \in DOMAIN rows : Ahead(id)'
    BY <1>1, <1>3, <1>6 DEF Ahead, CatchingUp
  <2> QED
    BY <1>1, <2>1, <2>2 DEF WatchOK
<1> QED
  BY <1>5, <1>6, <1>7, <1>8, <1>9, <1>10, <1>11, <1>12, <1>13, <1>14 DEF Inv

LEMMA ReturnStep ==
  ASSUME Inv, Return
  PROVE  Inv'
<1>1. /\ mode' = NoHandler /\ step' = "top" /\ rx' = 1 /\ msgs' = 0
      /\ sinceRevoke' = 0 /\ delivered' = {} /\ lagged' = {}
      /\ UNCHANGED <<rows, index, autoinc, connected, arrived, unsent, sent, drops,
                     cuts, public>>
  BY DEF Return, journalVars, ingestVars
<1>2. /\ revoked' = FALSE /\ pausedByDisconnect' = FALSE /\ ingestWasDown' = FALSE
      /\ wheel' = FALSE /\ ended' = FALSE
  BY DEF Return
<1>3. mode' \in Modes /\ mode'.m = "none"
  BY <1>1, ModeFacts
<1>4. Len(sent) \in Nat
  BY LenProperties DEF Inv, WorldOK
<1>5. WorldOK'
  BY <1>1, <1>2 DEF Inv, WorldOK
<1>6. JournalOK'
  BY <1>1, SameWorld
<1>7. StepsOK'
  BY <1>1, <1>3 DEF StepsOK, Steps
<1>8. HandlerOK'
  <2>1. pausedByDisconnect' \in BOOLEAN /\ ingestWasDown' \in BOOLEAN
    BY <1>2
  <2> QED
    BY <1>1, <1>3, <2>1 DEF HandlerOK
<1>9. HistoryOK'
  <2>1. wheel' \in BOOLEAN /\ ended' \in BOOLEAN
    BY <1>2
  <2> QED
    BY <1>1, <2>1 DEF HistoryOK
<1>10. PositionsInJournal'
  BY <1>3 DEF PositionsInJournal
<1>11. FlagsOK'
  BY <1>2 DEF FlagsOK
<1>12. RevokeOK'
  BY <1>1, BurstAssumption DEF RevokeOK
<1>13. ChannelOK'
  BY <1>1, <1>4 DEF ChannelOK
<1>14. WatchOK'
  BY <1>1, WatchOff
<1> QED
  BY <1>5, <1>6, <1>7, <1>8, <1>9, <1>10, <1>11, <1>12, <1>13, <1>14 DEF Inv

(* The parts that are kept by a step of the handler to a well-formed mode. *)
LEMMA HandlerKeeps ==
  ASSUME Inv, World, mode' \in Modes, cuts = 0 => WithinJournal(mode'),
         rx' \in Nat \ {0}, rx' <= Len(sent) + 1, msgs' \in Nat,
         pausedByDisconnect' \in BOOLEAN, ingestWasDown' \in BOOLEAN
  PROVE  /\ WorldOK' /\ JournalOK' /\ HandlerOK' /\ PositionsInJournal' /\ ChannelOK'
<1>1. /\ WorldOK' /\ JournalOK' /\ JournalLen' = JournalLen
      /\ UNCHANGED <<cuts, sent>>
  BY HandlerWorld
<1>2. HandlerOK'
  BY DEF HandlerOK
<1>3. PositionsInJournal'
  BY <1>1 DEF PositionsInJournal, WithinJournal
<1>4. ChannelOK'
  BY <1>1 DEF ChannelOK
<1> QED
  BY <1>1, <1>2, <1>3, <1>4

LEMMA HandleStep ==
  ASSUME Inv, NEW msg \in ClientMsg, Handle(msg)
  PROVE  Inv'
<1>1. /\ Listening /\ World
      /\ mode' = ModeAfter(msg, CurrentPos) /\ step' = "top" /\ msgs' = msgs + 1
      /\ UNCHANGED <<rx, delivered, lagged, sinceRevoke>>
  BY DEF Handle, TakeMsg, World
<1>2. /\ pausedByDisconnect' = (pausedByDisconnect /\ mode.m # "paused")
      /\ wheel' = TRUE /\ UNCHANGED <<ingestWasDown, ended>>
  BY DEF Handle, TakeMsg
<1>3. /\ mode \in Modes /\ rx \in Nat \ {0} /\ msgs \in Nat /\ rx <= Len(sent) + 1
      /\ JournalOK /\ JournalLen \in Nat
  BY IndexIds DEF Inv, HandlerOK, ChannelOK
<1>4. mode.m \in {"catchUp", "catchUpTo", "replay", "live", "paused"}
  BY <1>1 DEF Listening, Inv, StepsOK
<1>5. CurrentPos \in Nat
  BY <1>3, <1>4, ModeFields DEF CurrentPos
<1>6. mode' \in Modes /\ mode'.m \notin {"none", "catchUp"}
  <2>1. msg \in ClientMsg
    BY MsgsAssumption
  <2>2. \A c \in Nat : ModeAfter(msg, c) \in Modes
                      /\ ModeAfter(msg, c).m \notin {"none", "catchUp"}
    BY <1>3, <2>1, ModeAfterFacts
  <2> QED
    BY <1>1, <1>5, <2>2
<1>7. cuts = 0 => WithinJournal(mode')
  <2> SUFFICES ASSUME cuts = 0 PROVE WithinJournal(mode')
    OBVIOUS
  <2>1. msg \in ClientMsg
    BY MsgsAssumption
  <2>2. CurrentPos <= JournalLen
    BY <1>3, <1>4 DEF CurrentPos, Inv, PositionsInJournal
  <2> QED
    BY <1>1, <1>3, <1>5, <2>1, <2>2, ModeAfterFacts
<1>8. FlagsOK /\ ~pausedByDisconnect'
  BY <1>2 DEF Inv, FlagsOK
<1>9. pausedByDisconnect' \in BOOLEAN /\ ingestWasDown' \in BOOLEAN
  BY <1>2 DEF Inv, HandlerOK
<1>10. msgs' \in Nat /\ msgs' # 0
  BY <1>1, <1>3
<1>11. WorldOK' /\ JournalOK' /\ HandlerOK' /\ PositionsInJournal' /\ ChannelOK'
  BY <1>1, <1>3, <1>6, <1>7, <1>9, <1>10, HandlerKeeps
<1>12. StepsOK'
  BY <1>1 DEF StepsOK, Steps
<1>13. HistoryOK'
  <2>1. wheel' \in BOOLEAN
    BY <1>2
  <2> QED
    BY <1>1, <1>2, <2>1 DEF Inv, HistoryOK
<1>14. FlagsOK'
  BY <1>8 DEF FlagsOK
<1>15. RevokeOK'
  <2>1. mode # NoHandler /\ mode' # NoHandler /\ revoked' = revoked
    BY <1>1, <1>4, <1>6, ModeFacts, HandlerWorld
  <2> QED
    BY <1>1, <2>1 DEF Inv, RevokeOK
<1>16. WatchOK'
  BY <1>10, WatchOff
<1> QED
  BY <1>11, <1>12, <1>13, <1>14, <1>15, <1>16 DEF Inv
-----------------------------------------------------------------------------
(* The handler's own steps. *)

(* Moving on within a mode, sending no batch. *)
LEMMA MoveStep ==
  ASSUME Inv, World, mode # NoHandler, StepsOK',
         UNCHANGED <<mode, rx, pausedByDisconnect, ingestWasDown, msgs, delivered,
                     lagged, wheel, ended, sinceRevoke>>,
         step' = "arm" => sinceRevoke = 0,
         (step # "caught" /\ step' # "caught") \/ mode.m = "replay"
  PROVE  Inv'
<1>1. /\ WorldOK' /\ JournalOK' /\ JournalLen' = JournalLen
      /\ UNCHANGED <<rows, index, autoinc, cuts, sent, unsent, revoked>>
  BY HandlerWorld
<1>2. HandlerOK' /\ HistoryOK' /\ FlagsOK' /\ ChannelOK' /\ PositionsInJournal'
  BY <1>1 DEF Inv, HandlerOK, HistoryOK, FlagsOK, ChannelOK, PositionsInJournal
<1>3. RevokeOK'
  BY <1>1 DEF Inv, RevokeOK
<1>4. WatchOK'
  <2>1. CASE step # "caught" /\ step' # "caught"
    BY <1>1, <2>1, WatchIdle
  <2>2. CASE mode.m = "replay"
    <3>1. msgs' # 0
      BY <2>2, WatchingMode
    <3> QED
      BY <3>1, WatchOff
  <2> QED
    BY <2>1, <2>2
<1> QED
  BY <1>1, <1>2, <1>3, <1>4 DEF Inv

LEMMA MovingSteps ==
  ASSUME Inv, SendInfo \/ Top \/ RevokeWakes \/ Continue \/ SeeDisconnect \/ ReplayEnd
  PROVE  Inv'
<1> USE DEF Goto, Quiet, Flags, historyVars
<1>0. NoHandler.m = "none"
  BY ModeFacts
<1>1. CASE SendInfo
  <2>1. /\ step = "info" /\ step' = "top" /\ World
        /\ UNCHANGED <<mode, rx, pausedByDisconnect, ingestWasDown, msgs, delivered,
                       lagged, wheel, ended, sinceRevoke>>
    BY <1>1 DEF SendInfo
  <2>2. StepsOK'
    BY <2>1 DEF StepsOK, Steps
  <2>3. CASE mode # NoHandler
    BY <2>1, <2>2, <2>3, MoveStep
  <2>4. CASE mode = NoHandler
    <3>1. /\ WorldOK' /\ JournalOK' /\ JournalLen' = JournalLen
          /\ UNCHANGED <<rows, index, autoinc, cuts, sent, unsent, revoked>>
      BY <2>1, HandlerWorld
    <3>2. HandlerOK' /\ HistoryOK' /\ FlagsOK' /\ ChannelOK' /\ PositionsInJournal'
      BY <2>1, <3>1 DEF Inv, HandlerOK, HistoryOK, FlagsOK, ChannelOK, PositionsInJournal
    <3>3. RevokeOK' /\ WatchOK'
      BY <2>1, <2>4, <3>1, WatchOff DEF Inv, RevokeOK
    <3> QED
      BY <2>2, <3>1, <3>2, <3>3 DEF Inv
  <2> QED
    BY <2>3, <2>4
<1>2. CASE Top
  <2>1. CASE revoked /\ Return
    BY <2>1, ReturnStep
  <2>2. CASE ~revoked /\ ~Return
    <3>1. /\ mode # NoHandler /\ step = "top" /\ step' = "arm" /\ World
          /\ UNCHANGED <<mode, rx, pausedByDisconnect, ingestWasDown, msgs, delivered,
                         lagged, wheel, ended, sinceRevoke>>
      BY <1>2, <2>2 DEF Top
    <3>2. StepsOK' /\ sinceRevoke = 0
      BY <2>2, <3>1 DEF StepsOK, Steps, Inv, RevokeOK
    <3> QED
      BY <3>1, <3>2, MoveStep
  <2> QED
    BY <1>2, <2>1, <2>2, ReturnStep DEF Top
<1>3. CASE RevokeWakes
  BY <1>3, ReturnStep DEF RevokeWakes
<1>4. CASE Continue
  <2>1. /\ step \in {"poll", "pace"} /\ step' = "top" /\ World
        /\ UNCHANGED <<mode, rx, pausedByDisconnect, ingestWasDown, msgs, delivered,
                       lagged, wheel, ended, sinceRevoke>>
    BY <1>4 DEF Continue
  <2>2. StepsOK' /\ mode # NoHandler
    BY <1>0, <2>1 DEF StepsOK, Steps, Inv
  <2> QED
    BY <2>1, <2>2, MoveStep
<1>5. CASE SeeDisconnect
  <2>1. /\ step = "arm" /\ mode.m = "live" /\ step' = "gone" /\ World
        /\ UNCHANGED <<mode, rx, pausedByDisconnect, ingestWasDown, msgs, delivered,
                       lagged, wheel, ended, sinceRevoke>>
    BY <1>5 DEF SeeDisconnect
  <2>2. StepsOK' /\ mode # NoHandler
    BY <1>0, <2>1 DEF StepsOK, Steps
  <2> QED
    BY <2>1, <2>2, MoveStep
<1>6. CASE ReplayEnd
  <2>1. /\ step = "arm" /\ mode.m = "replay" /\ step' = "caught" /\ World
        /\ UNCHANGED <<mode, rx, pausedByDisconnect, ingestWasDown, msgs, delivered,
                       lagged, wheel, ended, sinceRevoke>>
    BY <1>6 DEF ReplayEnd
  <2>2. StepsOK' /\ mode # NoHandler
    BY <1>0, <2>1 DEF StepsOK, Steps
  <2> QED
    BY <2>1, <2>2, MoveStep
<1> QED
  BY <1>1, <1>2, <1>3, <1>4, <1>5, <1>6

LEMMA SayFacts ==
  ASSUME Inv, NEW msg, Say(msg)
  PROVE  /\ HistoryOK' /\ UNCHANGED <<delivered, lagged, sinceRevoke>>
         /\ wheel' => wheel /\ msg # StreamDone
<1>1. /\ ended' = (msg = StreamDone \/ (ended /\ msg # NowLive))
      /\ wheel' = (wheel /\ msg # StreamDone)
      /\ UNCHANGED <<delivered, lagged, sinceRevoke>>
  BY DEF Say
<1>2. wheel' \in BOOLEAN /\ ended' \in BOOLEAN
  BY <1>1
<1>3. HistoryOK'
  BY <1>1, <1>2 DEF Inv, HistoryOK
<1> QED
  BY <1>1, <1>3

LEMMA SendFacts ==
  ASSUME Inv, NEW ids \in SUBSET DOMAIN index, NEW after, SendStored(ids, after),
         Cardinality(ids) \in Nat, Cardinality(ids) <= Burst,
         mode # NoHandler, step = "arm", step' # "arm", mode' # NoHandler,
         revoked' = revoked
  PROVE  /\ HistoryOK' /\ RevokeOK'
         /\ delivered' = delivered \cup {Number(id) : id \in ids}
         /\ UNCHANGED <<lagged, wheel>>
<1>1. /\ delivered' = delivered \cup {Number(id) : id \in ids}
      /\ sinceRevoke' = IF revoked THEN sinceRevoke + Cardinality(ids) ELSE 0
      /\ UNCHANGED <<lagged, wheel, ended>>
  BY DEF SendStored
<1>2. sinceRevoke = 0 /\ Burst \in Nat
  BY BurstAssumption DEF Inv, RevokeOK
<1>3. \A id \in ids : Number(id) \in Nat
  BY IndexIds DEF Inv
<1>4. delivered' \subseteq Nat
  BY <1>1, <1>3 DEF Inv, HistoryOK
<1>5. sinceRevoke' \in Nat /\ sinceRevoke' <= Burst /\ (~revoked => sinceRevoke' = 0)
  BY <1>1, <1>2
<1>6. HistoryOK'
  BY <1>1, <1>4, <1>5 DEF Inv, HistoryOK
<1>7. RevokeOK'
  BY <1>5 DEF RevokeOK
<1> QED
  BY <1>1, <1>6, <1>7

(* A burst takes the next entries; a short one leaves none. *)
LEMMA CatchUpBurstStep ==
  ASSUME Inv, CatchUpBurst
  PROVE  Inv'
<1> DEFINE burst == ReadBurst(mode.pos, Burst)
           pos == mode.pos + Cardinality(burst)
<1>1. /\ step = "arm" /\ mode.m = "catchUp" /\ SendStored(burst, <<>>)
      /\ mode' = CatchUp(pos)
      /\ step' = IF Cardinality(burst) < Burst THEN "caught" ELSE "poll"
      /\ UNCHANGED <<rx, pausedByDisconnect, ingestWasDown, msgs>> /\ World
  BY DEF CatchUpBurst, Goto, Flags
<1>2. /\ mode \in Modes /\ mode.pos \in Nat /\ mode # NoHandler /\ Burst \in Nat
      /\ rx \in Nat \ {0} /\ rx <= Len(sent) + 1 /\ msgs \in Nat
      /\ pausedByDisconnect \in BOOLEAN /\ ingestWasDown \in BOOLEAN
      /\ JournalLen \in Nat
  BY <1>1, ModeFields, ModeFacts, BurstAssumption, IndexIds
     DEF Inv, HandlerOK, ChannelOK
<1>3. /\ burst \subseteq DOMAIN index
      /\ Cardinality(burst) \in Nat
      /\ Cardinality(burst) <= Burst
      /\ mode.pos <= JournalLen => pos <= JournalLen
      /\ Cardinality(burst) < Burst => pos >= JournalLen
  BY <1>2, ReadBurstFacts DEF Inv
<1>3a. \A id \in DOMAIN index :
         PosOf(id) >= mode.pos /\ PosOf(id) < mode.pos + Burst => id \in burst
  BY DEF ReadBurst
<1> HIDE DEF burst
<1>4. pos \in Nat
  BY <1>2, <1>3
<1>4a. pos = mode.pos + Cardinality(burst)
  OBVIOUS
<1> HIDE DEF pos
<1>5. mode' \in Modes /\ mode'.m = "catchUp" /\ mode'.pos = pos /\ mode' # NoHandler
  BY <1>1, <1>4, ModeFacts
<1>6. cuts = 0 => WithinJournal(mode')
  BY <1>1, <1>3, <1>4, ModesWithin DEF Inv, PositionsInJournal
<1>7. WorldOK' /\ JournalOK' /\ HandlerOK' /\ PositionsInJournal' /\ ChannelOK'
  BY <1>1, <1>2, <1>5, <1>6, HandlerKeeps
<1>8. StepsOK' /\ step' # "arm"
  BY <1>1, <1>5 DEF StepsOK, Steps
<1>9. /\ JournalLen' = JournalLen
      /\ UNCHANGED <<rows, index, autoinc, cuts, sent, unsent, revoked>>
  BY <1>1, HandlerWorld
<1>10. /\ HistoryOK' /\ RevokeOK'
       /\ delivered' = delivered \cup {Number(id) : id \in burst}
       /\ UNCHANGED <<lagged, wheel>>
  BY <1>1, <1>2, <1>3, <1>5, <1>8, <1>9, SendFacts
<1>11. FlagsOK'
  BY <1>1 DEF Inv, FlagsOK
<1>12. WatchOK'
  <2> SUFFICES ASSUME msgs = 0, cuts = 0, NEW id \in DOMAIN rows
               PROVE  Number(id)' \in Seen' \/ Ahead(id)'
    BY <1>1, <1>5, <1>9 DEF WatchOK, WatchMode
  <2>1. id \in DOMAIN index
    BY DEF Inv, JournalOK
  <2>2. /\ Number(id)' = Number(id) /\ PosOf(id)' = PosOf(id)
        /\ PosOf(id) \in Nat /\ PosOf(id) < JournalLen
    BY <1>9, <2>1, SameWorld, IndexIds DEF Inv
  <2>3. Seen \subseteq Seen'
    BY <1>1, <1>9, <1>10 DEF Seen, Pending
  <2>4. CASE Number(id) \in Seen
    BY <2>2, <2>3, <2>4
  <2>5. CASE id \in burst
    BY <1>10, <2>2, <2>5 DEF Seen
  <2>6. CASE Ahead(id) /\ id \notin burst
    <3>1. PosOf(id) >= mode.pos
      BY <2>6 DEF Ahead
    <3>2. PosOf(id) >= mode.pos + Burst
      BY <1>2, <1>3a, <2>1, <2>2, <2>6, <3>1
    <3>3. PosOf(id) >= pos
      BY <1>2, <1>3, <1>4a, <2>2, <3>2
    <3>4. step' # "caught"
      BY <1>1, <1>2, <1>3, <1>4, <2>2, <3>3
    <3> QED
      BY <1>5, <2>2, <3>3, <3>4 DEF Ahead, CatchingUp
  <2> QED
    BY <1>2, <2>4, <2>5, <2>6 DEF Inv, WatchOK
<1> QED
  BY <1>7, <1>8, <1>10, <1>11, <1>12 DEF Inv

LEMMA GoLiveStep ==
  ASSUME Inv, GoLive
  PROVE  Inv'
<1>1. /\ step = "caught" /\ mode' = Live /\ step' = "top"
      /\ (Say(NowLive) \/ Quiet)
      /\ UNCHANGED <<rx, pausedByDisconnect, ingestWasDown, msgs>> /\ World
  BY DEF GoLive, Goto, Flags
<1>2. /\ HistoryOK' /\ UNCHANGED <<delivered, lagged, sinceRevoke>>
  <2>1. CASE Say(NowLive)
    BY <2>1, SayFacts
  <2>2. CASE Quiet
    BY <2>2 DEF Quiet, historyVars, Inv, HistoryOK
  <2> QED
    BY <1>1, <2>1, <2>2
<1>3. /\ mode.m \in {"catchUp", "replay"} /\ mode # NoHandler /\ ~pausedByDisconnect
  BY <1>1, ModeFacts DEF Inv, StepsOK, FlagsOK
<1>4. mode' \in Modes /\ mode'.m = "live" /\ mode' # NoHandler /\ WithinJournal(mode')
  BY <1>1, ModeFacts, ModesWithin
<1>5. /\ rx \in Nat \ {0} /\ rx <= Len(sent) + 1 /\ msgs \in Nat
      /\ pausedByDisconnect \in BOOLEAN /\ ingestWasDown \in BOOLEAN
  BY DEF Inv, HandlerOK, ChannelOK
<1>6. WorldOK' /\ JournalOK' /\ HandlerOK' /\ PositionsInJournal' /\ ChannelOK'
  BY <1>1, <1>4, <1>5, HandlerKeeps
<1>7. StepsOK'
  BY <1>1, <1>4 DEF StepsOK, Steps
<1>8. FlagsOK'
  BY <1>1, <1>3 DEF FlagsOK
<1>9. UNCHANGED <<rows, index, autoinc, cuts, sent, unsent, revoked>>
  BY <1>1, HandlerWorld
<1>10. RevokeOK'
  BY <1>1, <1>2, <1>3, <1>4, <1>9 DEF Inv, RevokeOK
<1>11. WatchOK'
  <2> SUFFICES ASSUME msgs = 0
               PROVE  WatchMode' /\ (cuts = 0 => \A id \in DOMAIN rows : Number(id)' \in Seen')
    BY <1>1, <1>9 DEF WatchOK
  <2>1. cuts = 0 => \A id \in DOMAIN rows : Number(id) \in Seen
    BY <1>1, <1>3 DEF Inv, WatchOK, Ahead
  <2>2. Seen' = Seen /\ \A id \in DOMAIN rows : Number(id)' = Number(id)
    BY <1>1, <1>2, <1>9, SameWorld DEF Seen, Pending
  <2> QED
    BY <1>4, <2>1, <2>2 DEF WatchMode
<1> QED
  BY <1>2, <1>6, <1>7, <1>8, <1>10, <1>11 DEF Inv

(* The stream ends where everything has been seen. *)
LEMMA EndAtStep ==
  ASSUME Inv, NEW pos \in Nat, EndAt(pos), step \in {"caught", "gone"},
         cuts = 0 => pos <= JournalLen
  PROVE  Inv'
<1>1. /\ mode' = Paused(pos) /\ step' = "top" /\ Say(StreamDone)
      /\ UNCHANGED <<rx, msgs>> /\ World
  BY DEF EndAt, Goto
<1>2. pausedByDisconnect' /\ pausedByDisconnect' \in BOOLEAN /\ ingestWasDown' \in BOOLEAN
  BY DEF EndAt
<1>3. HistoryOK' /\ UNCHANGED <<delivered, lagged, sinceRevoke>> /\ ~wheel'
  BY <1>1, SayFacts
<1>4. mode.m \in {"catchUp", "replay", "live"} /\ mode # NoHandler
  BY ModeFacts DEF Inv, StepsOK
<1>5. mode' \in Modes /\ mode'.m = "paused" /\ mode' # NoHandler
      /\ (cuts = 0 => WithinJournal(mode'))
  BY <1>1, ModeFacts, ModesWithin
<1>6. rx \in Nat \ {0} /\ rx <= Len(sent) + 1 /\ msgs \in Nat
  BY DEF Inv, HandlerOK, ChannelOK
<1>7. WorldOK' /\ JournalOK' /\ HandlerOK' /\ PositionsInJournal' /\ ChannelOK'
  BY <1>1, <1>2, <1>5, <1>6, HandlerKeeps
<1>8. StepsOK'
  BY <1>1, <1>5 DEF StepsOK, Steps
<1>9. FlagsOK'
  BY <1>3, <1>5 DEF FlagsOK
<1>10. UNCHANGED <<rows, index, autoinc, cuts, sent, unsent, revoked>>
  BY <1>1, HandlerWorld
<1>11. RevokeOK'
  BY <1>1, <1>3, <1>4, <1>5, <1>10 DEF Inv, RevokeOK
<1>12. WatchOK'
  <2> SUFFICES ASSUME msgs = 0
               PROVE  WatchMode' /\ (cuts = 0 => \A id \in DOMAIN rows : Number(id)' \in Seen')
    BY <1>1, <1>10 DEF WatchOK
  <2>1. step = "caught" \/ mode.m = "live"
    BY DEF Inv, StepsOK
  <2>2. \A id : ~Ahead(id)
    BY <2>1 DEF Ahead, CatchingUp
  <2>3. cuts = 0 => \A id \in DOMAIN rows : Number(id) \in Seen
    BY <1>4, <2>2 DEF Inv, WatchOK
  <2>4. Seen' = Seen /\ \A id \in DOMAIN rows : Number(id)' = Number(id)
    BY <1>1, <1>3, <1>10, SameWorld DEF Seen, Pending
  <2> QED
    BY <1>2, <1>5, <2>3, <2>4 DEF WatchMode
<1> QED
  BY <1>3, <1>7, <1>8, <1>9, <1>11, <1>12 DEF Inv

LEMMA EndSteps ==
  ASSUME Inv, FinishRecording \/ EndLive
  PROVE  Inv'
<1>1. CASE FinishRecording
  <2>1. step = "caught" /\ EndAt(mode.pos)
    BY <1>1 DEF FinishRecording
  <2>2. mode \in Modes /\ mode.m \in {"catchUp", "replay"}
    BY <2>1 DEF Inv, HandlerOK, StepsOK
  <2>3. mode.pos \in Nat /\ (cuts = 0 => mode.pos <= JournalLen)
    BY <2>2, ModeFields DEF Inv, PositionsInJournal
  <2> QED
    BY <2>1, <2>3, EndAtStep
<1>2. CASE EndLive
  <2>1. step = "gone" /\ EndAt(JournalLen)
    BY <1>2 DEF EndLive
  <2>2. JournalLen \in Nat /\ JournalLen <= JournalLen
    BY IndexIds DEF Inv
  <2> QED
    BY <2>1, <2>2, EndAtStep
<1> QED
  BY <1>1, <1>2

(* A broadcast is taken, or those the channel dropped are skipped. *)
LEMMA ReceiveStep ==
  ASSUME Inv, Receive
  PROVE  Inv'
<1> DEFINE oldest == IF Len(sent) > Capacity THEN Len(sent) - Capacity + 1 ELSE 1
<1>1. /\ step = "arm" /\ mode.m = "live" /\ rx <= Len(sent)
      /\ mode' = Live /\ step' = "top"
      /\ UNCHANGED <<wheel, ended, pausedByDisconnect, ingestWasDown, msgs>> /\ World
  BY DEF Receive, Goto, Flags
<1>2. /\ rx \in Nat \ {0} /\ rx <= Len(sent) + 1 /\ msgs \in Nat
      /\ pausedByDisconnect \in BOOLEAN /\ ingestWasDown \in BOOLEAN
      /\ sent \in Seq(Nat) /\ Len(sent) \in Nat /\ Capacity \in Nat \ {0}
  BY CapacityAssumption, LenProperties DEF Inv, HandlerOK, ChannelOK, WorldOK
<1>3. oldest \in Nat \ {0} /\ oldest <= Len(sent) + 1
  BY <1>2
<1>3a. \A p \in 1..Len(sent) : sent[p] \in Nat
  BY <1>2, ElementOfSeq
<1>4. \/ /\ rx < oldest /\ rx' = oldest
         /\ lagged' = lagged \cup ({sent[p] : p \in rx..oldest - 1} \ delivered)
         /\ UNCHANGED <<delivered, sinceRevoke>>
      \/ /\ ~(rx < oldest) /\ rx' = rx + 1
         /\ delivered' = delivered \cup {sent[rx]}
         /\ sinceRevoke' = IF revoked THEN sinceRevoke + 1 ELSE 0
         /\ UNCHANGED lagged
  BY DEF Receive
<1> HIDE DEF oldest
<1>5. rx' \in Nat \ {0} /\ rx' <= Len(sent) + 1
  BY <1>1, <1>2, <1>3, <1>4
<1>6. mode' \in Modes /\ mode'.m = "live" /\ mode' # NoHandler /\ WithinJournal(mode')
  BY <1>1, ModeFacts, ModesWithin
<1>7. WorldOK' /\ JournalOK' /\ HandlerOK' /\ PositionsInJournal' /\ ChannelOK'
  BY <1>1, <1>2, <1>5, <1>6, HandlerKeeps
<1>8. StepsOK'
  BY <1>1, <1>6 DEF StepsOK, Steps
<1>9. FlagsOK'
  BY <1>1 DEF Inv, FlagsOK
<1>10. UNCHANGED <<rows, index, autoinc, cuts, sent, unsent, revoked>>
  BY <1>1, HandlerWorld
<1>11. sinceRevoke = 0 /\ Burst \in Nat \ {0}
  BY <1>1, BurstAssumption DEF Inv, RevokeOK
<1>12. sinceRevoke' \in Nat /\ sinceRevoke' <= Burst /\ (~revoked => sinceRevoke' = 0)
  BY <1>4, <1>11
<1>13. delivered' \subseteq Nat /\ lagged' \subseteq Nat
  <2>1. delivered \subseteq Nat /\ lagged \subseteq Nat
    BY DEF Inv, HistoryOK
  <2>2. rx \in 1..Len(sent) /\ sent[rx] \in Nat
    BY <1>1, <1>2, <1>3a
  <2>3. \A p \in rx..oldest - 1 : p \in 1..Len(sent)
    BY <1>2, <1>3
  <2>4. {sent[p] : p \in rx..oldest - 1} \subseteq Nat
    BY <1>3a, <2>3
  <2> QED
    BY <1>4, <2>1, <2>2, <2>4
<1>14. HistoryOK'
  BY <1>1, <1>12, <1>13 DEF Inv, HistoryOK
<1>15. RevokeOK'
  BY <1>1, <1>6, <1>10, <1>12 DEF RevokeOK
<1>16. Seen \subseteq Seen'
  <2>1. \A p \in rx..Len(sent) : \/ p \in rx'..Len(sent)
                                 \/ sent[p] \in delivered' \cup lagged'
    <3> SUFFICES ASSUME NEW p \in rx..Len(sent), p \notin rx'..Len(sent)
                 PROVE  sent[p] \in delivered' \cup lagged'
      OBVIOUS
    <3>1. p \in Int /\ rx <= p /\ p < rx'
      BY <1>2, <1>5
    <3>2. CASE rx < oldest /\ rx' = oldest
      <4>1. p \in rx..oldest - 1
        BY <1>2, <1>3, <3>1, <3>2
      <4> QED
        BY <1>4, <3>2, <4>1
    <3>3. CASE ~(rx < oldest) /\ rx' = rx + 1
      <4>1. p = rx
        BY <1>2, <3>1, <3>3
      <4> QED
        BY <1>4, <3>3, <4>1
    <3> QED
      BY <1>4, <3>2, <3>3
  <2>2. delivered \subseteq delivered' /\ lagged \subseteq lagged'
    BY <1>4
  <2> QED
    BY <1>10, <2>1, <2>2 DEF Seen, Pending
<1>17. WatchOK'
  <2> SUFFICES ASSUME msgs = 0
               PROVE  WatchMode' /\ (cuts = 0 => \A id \in DOMAIN rows : Number(id)' \in Seen')
    BY <1>1, <1>10 DEF WatchOK
  <2>1. mode # NoHandler /\ \A id : ~Ahead(id)
    BY <1>1, ModeFacts DEF Ahead, CatchingUp
  <2>2. cuts = 0 => \A id \in DOMAIN rows : Number(id) \in Seen
    BY <2>1 DEF Inv, WatchOK
  <2>3. \A id \in DOMAIN rows : Number(id)' = Number(id)
    BY <1>10, SameWorld
  <2> QED
    BY <1>6, <1>16, <2>2, <2>3 DEF WatchMode
<1> QED
  BY <1>7, <1>8, <1>9, <1>14, <1>15, <1>17 DEF Inv

(* Bounded catch-ups and replays, which no watching viewer is in, go from one
   position in the journal to another. *)
LEMMA PlayStep ==
  ASSUME Inv, World, step = "arm", mode.m \in {"catchUpTo", "replay"},
         UNCHANGED <<rx, pausedByDisconnect, ingestWasDown, msgs>>,
         NEW ids \in SUBSET DOMAIN index, NEW after, SendStored(ids, after),
         Cardinality(ids) \in Nat, Cardinality(ids) <= Burst,
         mode' \in Modes, mode' # NoHandler, cuts = 0 => WithinJournal(mode'),
         \/ step' = "top"
         \/ step' = "poll" /\ mode'.m = "catchUpTo"
         \/ step' = "pace" /\ mode'.m = "replay"
  PROVE  Inv'
<1>1. /\ rx \in Nat \ {0} /\ rx <= Len(sent) + 1 /\ msgs \in Nat
      /\ pausedByDisconnect \in BOOLEAN /\ ingestWasDown \in BOOLEAN
  BY DEF Inv, HandlerOK, ChannelOK
<1>2. WorldOK' /\ JournalOK' /\ HandlerOK' /\ PositionsInJournal' /\ ChannelOK'
  BY <1>1, HandlerKeeps
<1>3. mode # NoHandler /\ ~pausedByDisconnect
  BY ModeFacts DEF Inv, FlagsOK
<1>4. StepsOK' /\ step' # "arm"
  BY DEF StepsOK, Steps
<1>5. FlagsOK'
  BY <1>3 DEF FlagsOK
<1>6. revoked' = revoked
  BY HandlerWorld
<1>7. HistoryOK' /\ RevokeOK'
  BY <1>3, <1>4, <1>6, SendFacts
<1>8. msgs' # 0
  BY <1>3, WatchingMode
<1>9. WatchOK'
  BY <1>8, WatchOff
<1> QED
  BY <1>2, <1>4, <1>5, <1>7, <1>9 DEF Inv

LEMMA PreloadedFacts ==
  ASSUME NEW pos \in Nat, Preloaded(pos)
  PROVE  /\ step' = "top" /\ mode' \in Modes /\ mode' # NoHandler
         /\ pos <= JournalLen => WithinJournal(mode')
<1>1. step' = "top" /\ (mode' = Replay(pos) \/ mode' = Paused(pos))
  BY DEF Preloaded, Goto
<1> QED
  BY <1>1, ModeFacts, ModesWithin

LEMMA CatchUpToSteps ==
  ASSUME Inv, CatchUpToDone \/ CatchUpToBurst
  PROVE  Inv'
<1>1. /\ step = "arm" /\ mode.m = "catchUpTo" /\ World
      /\ UNCHANGED <<rx, pausedByDisconnect, ingestWasDown, msgs>>
  BY DEF CatchUpToDone, CatchUpToBurst, Flags
<1>2. /\ mode.pos \in Nat /\ mode.target \in Nat /\ mode.play \in BOOLEAN
      /\ \A p \in Nat : [mode EXCEPT !.pos = p] = CatchUpTo(p, mode.target, mode.play)
  BY <1>1, ModeFields DEF Inv, HandlerOK
<1>3. JournalLen \in Nat /\ Burst \in Nat \ {0}
  BY IndexIds, BurstAssumption DEF Inv
<1>4. cuts = 0 => mode.pos <= mode.target /\ mode.target <= JournalLen
  BY <1>1 DEF Inv, PositionsInJournal
<1>5. CASE CatchUpToDone
  <2>1. Preloaded(mode.target) /\ SendStored({}, PreloadedMsg)
    BY <1>5 DEF CatchUpToDone
  <2>2. /\ step' = "top" /\ mode' \in Modes /\ mode' # NoHandler
        /\ (cuts = 0 => WithinJournal(mode'))
    BY <1>2, <1>4, <2>1, PreloadedFacts
  <2>3. {} \in SUBSET DOMAIN index /\ Cardinality({}) \in Nat /\ Cardinality({}) <= Burst
    BY <1>3, FS_EmptySet
  <2> QED
    BY <1>1, <2>1, <2>2, <2>3, PlayStep
<1>6. CASE CatchUpToBurst
  <2> DEFINE left == mode.target - mode.pos
             count == IF left < Burst THEN left ELSE Burst
             burst == ReadBurst(mode.pos, count)
             pos == mode.pos + Cardinality(burst)
  <2>1. /\ mode.pos < mode.target
        /\ \/ Preloaded(pos) /\ SendStored(burst, PreloadedMsg)
           \/ /\ mode' = [mode EXCEPT !.pos = pos] /\ step' = "poll"
              /\ SendStored(burst, <<>>)
    BY <1>6 DEF CatchUpToBurst, Goto
  <2>2. count \in Nat /\ count <= Burst /\ mode.pos + count <= mode.target
    BY <1>2, <1>3, <2>1
  <2>3. /\ burst \subseteq DOMAIN index
        /\ Cardinality(burst) \in Nat
        /\ Cardinality(burst) <= count
        /\ mode.pos <= JournalLen => pos <= JournalLen
    BY <1>2, <2>2, ReadBurstFacts DEF Inv
  <2> HIDE DEF count, burst
  <2>4. Cardinality(burst) <= Burst /\ pos \in Nat /\ pos <= mode.target
    BY <1>2, <1>3, <2>2, <2>3
  <2>5. cuts = 0 => pos <= JournalLen
    BY <1>2, <1>3, <1>4, <2>3
  <2> HIDE DEF pos
  <2>6. CASE Preloaded(pos) /\ SendStored(burst, PreloadedMsg)
    <3>1. /\ step' = "top" /\ mode' \in Modes /\ mode' # NoHandler
          /\ (cuts = 0 => WithinJournal(mode'))
      BY <2>4, <2>5, <2>6, PreloadedFacts
    <3> QED
      BY <1>1, <2>3, <2>4, <2>6, <3>1, PlayStep
  <2>7. CASE /\ mode' = [mode EXCEPT !.pos = pos] /\ step' = "poll"
             /\ SendStored(burst, <<>>)
    <3>1. mode' = CatchUpTo(pos, mode.target, mode.play)
      BY <1>2, <2>4, <2>7
    <3>2. mode' \in Modes /\ mode'.m = "catchUpTo" /\ mode' # NoHandler
      BY <1>2, <2>4, <3>1, ModeFacts
    <3>3. cuts = 0 => WithinJournal(mode')
      BY <1>2, <1>4, <2>4, <2>5, <3>1, ModesWithin
    <3> QED
      BY <1>1, <2>3, <2>4, <2>7, <3>2, <3>3, PlayStep
  <2> QED
    BY <2>1, <2>6, <2>7
<1> QED
  BY <1>5, <1>6

LEMMA ReplayBatchStep ==
  ASSUME Inv, ReplayBatch
  PROVE  Inv'
<1> DEFINE next == mode.pos + 1
<1>1. /\ step = "arm" /\ mode.m = "replay" /\ mode.pos < JournalLen /\ World
      /\ mode' = Replay(next) /\ step' \in {"pace", "top"}
      /\ SendStored({At(mode.pos)}, <<>>)
      /\ UNCHANGED <<rx, pausedByDisconnect, ingestWasDown, msgs>>
  BY DEF ReplayBatch, Goto, Flags
<1>2. mode.pos \in Nat /\ JournalLen \in Nat /\ Burst \in Nat \ {0}
  BY <1>1, ModeFields, IndexIds, BurstAssumption DEF Inv, HandlerOK
<1>3. next \in Nat /\ next <= JournalLen
  BY <1>1, <1>2
<1> HIDE DEF next
<1>4. /\ mode' \in Modes /\ mode'.m = "replay" /\ mode' # NoHandler
      /\ WithinJournal(mode')
  BY <1>1, <1>3, ModeFacts, ModesWithin
<1>5. {At(mode.pos)} \in SUBSET DOMAIN index
  BY <1>1, <1>2, AtFacts DEF Inv
<1>6. Cardinality({At(mode.pos)}) = 1
  BY FS_Singleton
<1>7. Cardinality({At(mode.pos)}) \in Nat /\ Cardinality({At(mode.pos)}) <= Burst
  BY <1>2, <1>6
<1> QED
  BY <1>1, <1>4, <1>5, <1>7, PlayStep

(* A pause of the handler's own ends where it began. *)
LEMMA PausedTickStep ==
  ASSUME Inv, PausedTick
  PROVE  Inv'
<1>1. /\ step = "arm" /\ mode.m = "paused" /\ step' = "top" /\ Say(NowLive)
      /\ mode' = IF pausedByDisconnect THEN CatchUp(mode.pos) ELSE mode
      /\ UNCHANGED <<rx, msgs>> /\ World
  BY DEF PausedTick, Goto
<1>2. /\ ~pausedByDisconnect' /\ pausedByDisconnect' \in BOOLEAN
      /\ ingestWasDown' \in BOOLEAN
  BY DEF PausedTick
<1>3. HistoryOK' /\ UNCHANGED <<delivered, lagged, sinceRevoke>>
  BY <1>1, SayFacts
<1>4. /\ mode \in Modes /\ mode.pos \in Nat /\ mode # NoHandler
      /\ rx \in Nat \ {0} /\ rx <= Len(sent) + 1 /\ msgs \in Nat
      /\ (cuts = 0 => WithinJournal(mode))
  BY <1>1, ModeFields, ModeFacts, PositionsAreWithin DEF Inv, HandlerOK, ChannelOK
<1>5. mode' \in Modes /\ mode'.m \in {"catchUp", "paused"} /\ mode' # NoHandler
  BY <1>1, <1>4, ModeFacts
<1>6. cuts = 0 => WithinJournal(mode')
  <2>1. cuts = 0 => mode.pos <= JournalLen
    BY <1>1, <1>4 DEF WithinJournal
  <2> QED
    BY <1>1, <1>4, <2>1, ModesWithin
<1>7. WorldOK' /\ JournalOK' /\ HandlerOK' /\ PositionsInJournal' /\ ChannelOK'
  BY <1>1, <1>2, <1>4, <1>5, <1>6, HandlerKeeps
<1>8. StepsOK'
  BY <1>1, <1>5 DEF StepsOK, Steps
<1>9. FlagsOK'
  BY <1>2 DEF FlagsOK
<1>10. UNCHANGED <<rows, index, autoinc, cuts, sent, unsent, revoked>>
  BY <1>1, HandlerWorld
<1>11. RevokeOK'
  BY <1>1, <1>3, <1>4, <1>5, <1>10 DEF Inv, RevokeOK
<1>12. WatchOK'
  <2> SUFFICES ASSUME msgs = 0
               PROVE  /\ WatchMode'
                      /\ cuts = 0 => \A id \in DOMAIN rows :
                                       Number(id)' \in Seen' \/ Ahead(id)'
    BY <1>1, <1>10 DEF WatchOK
  <2>1. pausedByDisconnect
    BY <1>1, <1>4 DEF Inv, WatchOK, WatchMode
  <2>2. mode'.m = "catchUp" /\ mode'.pos = mode.pos
    BY <1>1, <1>4, <2>1, ModeFacts
  <2>3. cuts = 0 => \A id \in DOMAIN rows : Number(id) \in Seen \/ Ahead(id)
    BY <1>4 DEF Inv, WatchOK
  <2>4. Seen' = Seen
    BY <1>1, <1>3, <1>10 DEF Seen, Pending
  <2>5. \A id \in DOMAIN rows : Number(id)' = Number(id) /\ PosOf(id)' = PosOf(id)
    BY <1>10, SameWorld
  <2>6. \A id \in DOMAIN rows : Ahead(id) => Ahead(id)'
    BY <1>1, <2>2, <2>5 DEF Ahead, CatchingUp
  <2> QED
    BY <2>2, <2>3, <2>4, <2>5, <2>6 DEF WatchMode
<1> QED
  BY <1>3, <1>7, <1>8, <1>9, <1>11, <1>12 DEF Inv
-----------------------------------------------------------------------------
LEMMA StepInv ==
  ASSUME Inv, [Next]_vars
  PROVE  Inv'
<1>1. ASSUME UNCHANGED vars PROVE Inv'
  <2>1. /\ UNCHANGED <<rows, index, autoinc, connected, arrived, unsent, sent, drops,
                       cuts, public, revoked, mode, step, rx, pausedByDisconnect,
                       ingestWasDown, msgs, delivered, lagged, wheel, ended, sinceRevoke>>
    BY <1>1 DEF vars, journalVars, ingestVars, handlerVars, historyVars
  <2>2. /\ WorldOK' /\ HandlerOK' /\ HistoryOK' /\ FlagsOK' /\ RevokeOK' /\ ChannelOK'
    BY <2>1 DEF Inv, WorldOK, HandlerOK, HistoryOK, FlagsOK, RevokeOK, ChannelOK
  <2>3. JournalOK' /\ JournalLen' = JournalLen
    BY <2>1, SameWorld
  <2>4. PositionsInJournal' /\ StepsOK'
    BY <2>1, <2>3 DEF Inv, PositionsInJournal, StepsOK
  <2>5. WatchOK'
    BY <2>1, WatchIdle
  <2> QED
    BY <2>2, <2>3, <2>4, <2>5 DEF Inv
<1>2. CASE Environment
  BY <1>2, EnvironmentElsewhere, StoreStep, BroadcastStep, MaintainStep DEF Environment
<1>3. CASE AnyPage
  BY <1>3, MsgsAssumption, OpenStep, ReturnStep, HandleStep DEF AnyPage, PageLeaves
<1>4. CASE Handler
  BY <1>4, MovingSteps, CatchUpBurstStep, GoLiveStep, EndSteps, ReceiveStep,
     CatchUpToSteps, ReplayBatchStep, PausedTickStep DEF Handler
<1> QED
  BY <1>1, <1>2, <1>3, <1>4 DEF Next

(* The inductive invariant holds in every reachable state. *)
THEOREM ViewerInvariant == Spec => []Inv
<1>1. Init => Inv
  BY InitInv
<1>2. Inv /\ [Next]_vars => Inv'
  BY StepInv
<1> QED
  BY <1>1, <1>2, PTL DEF Spec

(* Every variable keeps its type, and the handler is only at steps its mode
   has. *)
THEOREM ViewerTypes == Spec => []TypeOK
<1>1. Inv => TypeOK
  BY DEF Inv, WorldOK, StepsOK, HandlerOK, HistoryOK, TypeOK
<1> QED
  BY <1>1, ViewerInvariant, PTL

(* Positions stay in the journal until maintenance shortens it. *)
THEOREM PositionsStayInJournal == Spec => []PositionsInJournal
<1>1. Inv => PositionsInJournal
  BY DEF Inv
<1> QED
  BY <1>1, ViewerInvariant, PTL

(* Whoever only watches has been sent every stored batch, or has it ahead:
   subscribing before reading, storing before broadcasting and ending a
   catch-up on a short burst leave no gap. *)
THEOREM WatchersMissNothing == Spec => []NothingMissed
<1>1. Inv => NothingMissed
  BY DEF Inv, WatchOK, NothingMissed, Seen, Ahead
<1> QED
  BY <1>1, ViewerInvariant, PTL

(* At most one burst is sent after public access is revoked. *)
THEOREM RevocationBites == Spec => []RevokedSeesLittle
<1>1. Inv => RevokedSeesLittle
  BY DEF Inv, RevokeOK, RevokedSeesLittle
<1> QED
  BY <1>1, ViewerInvariant, PTL

(* The server ends a pause by itself only if nobody took the wheel. *)
THEOREM PausesAreRespected == Spec => WheelIsRespected
<1> DEFINE P == mode.m = "paused" /\ mode'.m = "catchUp" => ~wheel
<1>1. ASSUME Inv, [Next]_vars PROVE [P]_vars
  <2> SUFFICES ASSUME Next, mode.m = "paused", mode'.m = "catchUp"
               PROVE  ~wheel
    BY <1>1
  <2>1. step \in {"top", "arm"} /\ mode # NoHandler
    BY <1>1, ModeFacts DEF Inv, StepsOK
  <2>2. ASSUME Environment PROVE FALSE
    <3>1. mode' = mode
      BY <2>2 DEF Environment, ClientConnects, ClientDrops, Store, Broadcast, Maintain,
                  MakePrivate, MakePublic, Bystander, handlerVars
    <3> QED
      BY <3>1
  <2>3. ASSUME AnyPage PROVE FALSE
    <3>1. CASE Open
      BY <2>1, <3>1 DEF Open
    <3>2. CASE PageLeaves
      BY <3>2, ModeFacts DEF PageLeaves, Return
    <3>3. ASSUME NEW msg \in Msgs, Handle(msg) PROVE FALSE
      <4>1. mode' = ModeAfter(msg, CurrentPos)
        BY <3>3 DEF Handle, TakeMsg
      <4>2. CurrentPos \in Nat /\ JournalOK
        BY <1>1, ModeFields DEF CurrentPos, Inv, HandlerOK
      <4>3. msg \in ClientMsg
        BY MsgsAssumption
      <4> QED
        BY <4>1, <4>2, <4>3, ModeAfterFacts
    <3> QED
      BY <2>3, <3>1, <3>2, <3>3 DEF AnyPage
  <2>4. ASSUME Handler PROVE pausedByDisconnect
    <3>1. SendInfo \/ Top \/ RevokeWakes \/ Continue => mode' = mode \/ mode'.m = "none"
      BY ModeFacts DEF SendInfo, Top, RevokeWakes, Continue, Return, Goto
    <3>2. ~(GoLive \/ FinishRecording \/ EndLive)
      BY <2>1 DEF GoLive, FinishRecording, EndLive
    <3>3. ~(CatchUpBurst \/ Receive \/ SeeDisconnect \/ CatchUpToDone \/ CatchUpToBurst
              \/ ReplayBatch \/ ReplayEnd)
      BY DEF CatchUpBurst, Receive, SeeDisconnect, CatchUpToDone, CatchUpToBurst,
             ReplayBatch, ReplayEnd
    <3>4. PausedTick
      BY <2>4, <3>1, <3>2, <3>3 DEF Handler
    <3>5. mode' = IF pausedByDisconnect THEN CatchUp(mode.pos) ELSE mode
      BY <3>4 DEF PausedTick, Goto
    <3> QED
      BY <3>5
  <2> QED
    BY <1>1, <2>2, <2>3, <2>4 DEF Next, Inv, FlagsOK
<1>2. Spec => [][P]_vars
  BY <1>1, ViewerInvariant, PTL DEF Spec
<1> QED
  BY <1>2 DEF WheelIsRespected
-----------------------------------------------------------------------------
(* The page of the whole stream whose user only watches, on its first
   connection. *)

Listed == 1..MaxBatches
JustLive == [t |-> "live"]

PageFields ==
  {"scope", "canGoLive", "endedByDisconnect", "isLive", "paused", "preloading",
   "logLast", "cache", "known", "complete", "applied", "due", "send"}

(* What it keeps it has applied, and it sends nothing but "live". *)
PageOK(p) ==
  /\ DOMAIN p = PageFields
  /\ p.scope = "all" /\ p.preloading = FALSE /\ p.endedByDisconnect \in BOOLEAN
  /\ p.cache \in Seq(Listed)
  /\ p.known \subseteq ToSet(p.cache)
  /\ p.applied \in [Listed -> 0..2]
  /\ \A n \in ToSet(p.cache) : p.applied[n] > 0
  /\ p.send \in Seq({JustLive})

(* What a handler sends. *)
PageMsgs ==
  {StreamDone, NowLive, CatchUpDone} \cup {BatchMsg(n) : n \in Listed}
  \cup [t : {"info"}, isLive : BOOLEAN, logLast : Nat \cup {None}]

(* Messages that change neither what the page has been told of the client nor
   what it sends. *)
Plain(msg) == msg.t = "info" \/ \E n \in Listed : msg = BatchMsg(n)

LEMMA ListedFacts == MaxBatches \in Nat /\ Listed \subseteq Nat
BY LogTimesAssumption, LenProperties DEF Listed, MaxBatches

LEMMA CacheGrows ==
  ASSUME NEW c \in Seq(Listed), NEW n \in Listed
  PROVE  /\ Append(c, n) \in Seq(Listed)
         /\ ToSet(Append(c, n)) = ToSet(c) \cup {n}
<1>1. /\ Append(c, n) \in Seq(Listed) /\ Len(Append(c, n)) = Len(c) + 1 /\ Len(c) \in Nat
      /\ \A i \in 1..Len(c) : Append(c, n)[i] = c[i]
      /\ Append(c, n)[Len(c) + 1] = n
  BY AppendProperties, LenProperties
<1>2. DOMAIN c = 1..Len(c) /\ DOMAIN Append(c, n) = 1..(Len(c) + 1)
  BY <1>1, LenProperties
<1> QED
  BY <1>1, <1>2 DEF ToSet

LEMMA OnceFacts ==
  ASSUME NEW a \in [Listed -> 0..2], NEW n \in Listed
  PROVE  /\ Once(a, n) \in [Listed -> 0..2]
         /\ Once(a, n)[n] > 0
         /\ \A m \in Listed : a[m] > 0 => Once(a, n)[m] > 0
BY DEF Once

LEMMA RebuiltFacts ==
  ASSUME NEW shown
  PROVE  /\ Rebuilt(shown) \in [Listed -> 0..2]
         /\ \A n \in shown \cap Listed : Rebuilt(shown)[n] > 0
BY DEF Rebuilt, Listed

LEMMA CacheIsListed ==
  ASSUME NEW c \in Seq(Listed)
  PROVE  ToSet(c) \subseteq Listed
BY ElementOfSeq, LenProperties DEF ToSet
-----------------------------------------------------------------------------
(* The page's handlers. *)

LEMMA SendsLive ==
  ASSUME NEW s \in Seq({JustLive})
  PROVE  Append(s, [t |-> "live"]) \in Seq({JustLive})
BY AppendProperties DEF JustLive

LEMMA ReactToBatch ==
  ASSUME NEW p, PageOK(p), NEW n \in Listed
  PROVE  LET q == React(p, BatchMsg(n))
         IN /\ PageOK(q)
            /\ ToSet(q.cache) = ToSet(p.cache) \cup {n}
            /\ q.endedByDisconnect = p.endedByDisconnect /\ q.send = p.send
<1> DEFINE q == OnBatch(p, n)
<1>1. React(p, BatchMsg(n)) = q
  BY DEF React, BatchMsg
<1>2. /\ p.cache \in Seq(Listed) /\ p.applied \in [Listed -> 0..2] /\ p.preloading = FALSE
      /\ p.scope = "all" /\ DOMAIN p = PageFields
  BY DEF PageOK
<1>3. CASE n \in p.known
  <2>1. q = [p EXCEPT !.applied = Once(p.applied, n)]
    BY <1>2, <1>3 DEF OnBatch
  <2>2. n \in ToSet(p.cache)
    BY <1>3 DEF PageOK
  <2>3. /\ DOMAIN q = DOMAIN p /\ q.applied = Once(p.applied, n)
        /\ \A f \in PageFields : f # "applied" => q[f] = p[f]
    BY <1>2, <2>1 DEF PageFields
  <2> HIDE DEF q
  <2>4. PageOK(q)
    BY <1>2, <2>3, OnceFacts, CacheIsListed DEF PageOK, PageFields
  <2> QED
    BY <1>1, <2>2, <2>3, <2>4 DEF PageFields
<1>4. CASE n \notin p.known
  <2>1. \E last : q = [[p EXCEPT !.cache = Append(@, n), !.known = @ \cup {n}]
                         EXCEPT !.applied = Once(@, n), !.logLast = last]
    BY <1>2, <1>4 DEF OnBatch
  <2>2. /\ DOMAIN q = DOMAIN p /\ q.applied = Once(p.applied, n)
        /\ q.cache = Append(p.cache, n) /\ q.known = p.known \cup {n}
        /\ \A f \in PageFields : f \notin {"applied", "cache", "known", "logLast"} => q[f] = p[f]
    BY <1>2, <2>1 DEF PageFields
  <2> HIDE DEF q
  <2>3. q.cache \in Seq(Listed) /\ ToSet(q.cache) = ToSet(p.cache) \cup {n}
    BY <1>2, <2>2, CacheGrows
  <2>4. PageOK(q)
    <3>1. \A m \in ToSet(q.cache) : q.applied[m] > 0
      BY <1>2, <2>2, <2>3, OnceFacts, CacheIsListed DEF PageOK
    <3> QED
      BY <1>2, <2>2, <2>3, <3>1, OnceFacts DEF PageOK, PageFields
  <2> QED
    BY <1>1, <2>2, <2>3, <2>4 DEF PageFields
<1> QED
  BY <1>3, <1>4

(* A page on its own state p, its history and timeline aside. *)
LEMMA PageElsewhere ==
  ASSUME NEW p, PageOK(p), NEW q, DOMAIN q = DOMAIN p,
         q.scope = p.scope, q.preloading = FALSE, q.endedByDisconnect \in BOOLEAN,
         q.cache = p.cache, q.known = p.known, q.applied = p.applied, q.send = p.send
  PROVE  PageOK(q)
BY DEF PageOK

LEMMA ReactToInfo ==
  ASSUME NEW p, PageOK(p), NEW msg, msg.t = "info"
  PROVE  LET q == React(p, msg)
         IN /\ PageOK(q)
            /\ ToSet(q.cache) = ToSet(p.cache)
            /\ q.endedByDisconnect = p.endedByDisconnect /\ q.send = p.send
<1> DEFINE q == OnInfo(p, msg)
<1>1. React(p, msg) = q
  BY DEF React
<1>2. /\ p.preloading = FALSE /\ p.scope = "all" /\ DOMAIN p = PageFields
      /\ p.endedByDisconnect \in BOOLEAN
  BY DEF PageOK
<1>3. q = [p EXCEPT !.logLast = IF msg.logLast = None THEN p.logLast ELSE msg.logLast,
                    !.isLive = p.isLive /\ msg.isLive,
                    !.canGoLive = p.canGoLive /\ msg.isLive,
                    !.due = StoredNumbers]
  BY <1>2 DEF OnInfo
<1>4. /\ DOMAIN q = DOMAIN p
      /\ \A f \in PageFields : f \notin {"logLast", "isLive", "canGoLive", "due"} => q[f] = p[f]
  BY <1>2, <1>3 DEF PageFields
<1> HIDE DEF q
<1>5. /\ q.scope = p.scope /\ q.preloading = FALSE /\ q.cache = p.cache /\ q.known = p.known
      /\ q.applied = p.applied /\ q.send = p.send
      /\ q.endedByDisconnect = p.endedByDisconnect
  BY <1>2, <1>4 DEF PageFields
<1>6. PageOK(q)
  BY <1>2, <1>4, <1>5, PageElsewhere
<1> QED
  BY <1>1, <1>5, <1>6

LEMMA ReactToDone ==
  ASSUME NEW p, PageOK(p), NEW msg, msg \in {StreamDone, CatchUpDone}
  PROVE  LET q == React(p, msg)
         IN PageOK(q) /\ ToSet(q.cache) = ToSet(p.cache)
<1> DEFINE q == React(p, msg)
<1>1. q = IF msg = StreamDone THEN OnStreamDone(p) ELSE OnCatchUpDone(p)
  BY DEF React, StreamDone, CatchUpDone
<1>2. /\ p.preloading = FALSE /\ p.scope = "all" /\ DOMAIN p = PageFields
      /\ p.endedByDisconnect \in BOOLEAN
  BY DEF PageOK
<1>3. \/ q = [p EXCEPT !.complete = TRUE]
      \/ q = [[p EXCEPT !.complete = TRUE, !.canGoLive = FALSE, !.endedByDisconnect = TRUE]
                EXCEPT !.isLive = FALSE, !.paused = TRUE]
  BY <1>1, <1>2 DEF OnStreamDone, OnCatchUpDone, AtRest
<1>4. /\ DOMAIN q = DOMAIN p
      /\ q.endedByDisconnect \in BOOLEAN
      /\ \A f \in PageFields :
           f \notin {"complete", "isLive", "canGoLive", "endedByDisconnect", "paused"} => q[f] = p[f]
  BY <1>2, <1>3 DEF PageFields
<1> HIDE DEF q
<1>5. /\ q.scope = p.scope /\ q.preloading = FALSE /\ q.cache = p.cache /\ q.known = p.known
      /\ q.applied = p.applied /\ q.send = p.send
  BY <1>2, <1>4 DEF PageFields
<1>6. PageOK(q)
  BY <1>4, <1>5, PageElsewhere
<1> QED
  BY <1>5, <1>6 DEF q

LEMMA ReactToNowLive ==
  ASSUME NEW p, PageOK(p)
  PROVE  LET q == React(p, NowLive)
         IN PageOK(q) /\ ToSet(q.cache) = ToSet(p.cache)
<1> DEFINE q == OnNowLive(p)
           back == [p EXCEPT !.complete = TRUE, !.canGoLive = TRUE, !.endedByDisconnect = FALSE]
<1>1. React(p, NowLive) = q
  BY DEF React, NowLive
<1>2. /\ p.preloading = FALSE /\ p.scope = "all" /\ DOMAIN p = PageFields
      /\ p.endedByDisconnect \in BOOLEAN /\ p.cache \in Seq(Listed) /\ p.send \in Seq({JustLive})
  BY DEF PageOK
<1>3. /\ DOMAIN back = DOMAIN p /\ back.endedByDisconnect = FALSE
      /\ \A f \in PageFields : f \notin {"complete", "canGoLive", "endedByDisconnect"} => back[f] = p[f]
  BY <1>2 DEF PageFields
<1>4. q = IF p.endedByDisconnect THEN GoLivePage(back)
          ELSE [back EXCEPT !.isLive = TRUE, !.paused = FALSE]
  BY <1>2 DEF OnNowLive
<1>5. CASE p.endedByDisconnect
  <2>1. q = [[back EXCEPT !.isLive = TRUE, !.paused = FALSE,
                          !.applied = Rebuilt(ToSet(back.cache))]
               EXCEPT !.send = Append(@, [t |-> "live"])]
    BY <1>4, <1>5 DEF GoLivePage, Sends
  <2> HIDE DEF back
  <2>2. /\ DOMAIN q = DOMAIN p /\ q.applied = Rebuilt(ToSet(p.cache))
        /\ q.send = Append(p.send, [t |-> "live"])
        /\ q.endedByDisconnect = FALSE /\ q.scope = "all" /\ q.preloading = FALSE
        /\ q.cache = p.cache /\ q.known = p.known
    BY <1>2, <1>3, <2>1 DEF PageFields
  <2> HIDE DEF q
  <2>3. /\ q.applied \in [Listed -> 0..2] /\ \A n \in ToSet(p.cache) : q.applied[n] > 0
        /\ q.send \in Seq({JustLive})
    BY <1>2, <2>2, RebuiltFacts, SendsLive, CacheIsListed
  <2> QED
    BY <1>1, <1>2, <2>2, <2>3 DEF PageOK
<1>6. CASE ~p.endedByDisconnect
  <2>1. q = [back EXCEPT !.isLive = TRUE, !.paused = FALSE]
    BY <1>4, <1>6
  <2> HIDE DEF back
  <2>2. /\ DOMAIN q = DOMAIN p /\ q.applied = p.applied /\ q.send = p.send
        /\ q.endedByDisconnect = FALSE /\ q.scope = p.scope /\ q.preloading = FALSE
        /\ q.cache = p.cache /\ q.known = p.known
    BY <1>2, <1>3, <2>1 DEF PageFields
  <2> HIDE DEF q
  <2>3. PageOK(q)
    BY <2>2, PageElsewhere
  <2> QED
    BY <1>1, <2>2, <2>3
<1> QED
  BY <1>5, <1>6

(* All that a page makes of one message. *)
LEMMA ReactKeeps ==
  ASSUME NEW p, PageOK(p), NEW msg \in PageMsgs
  PROVE  LET q == React(p, msg)
         IN /\ PageOK(q)
            /\ ToSet(p.cache) \subseteq ToSet(q.cache)
            /\ \A n \in Listed : msg = BatchMsg(n) => n \in ToSet(q.cache)
            /\ Plain(msg) => q.endedByDisconnect = p.endedByDisconnect /\ q.send = p.send
<1>1. /\ \A n \in Listed : BatchMsg(n).t = "batch"
      /\ StreamDone.t = "stream_done" /\ NowLive.t = "now_live" /\ CatchUpDone.t = "catch_up_done"
  BY DEF BatchMsg, StreamDone, NowLive, CatchUpDone
<1>2. CASE msg \in {StreamDone, CatchUpDone}
  <2>1. ~Plain(msg) /\ \A n \in Listed : msg # BatchMsg(n)
    BY <1>1, <1>2 DEF Plain
  <2> QED
    BY <1>2, <2>1, ReactToDone
<1>3. CASE msg = NowLive
  <2>1. ~Plain(msg) /\ \A n \in Listed : msg # BatchMsg(n)
    BY <1>1, <1>3 DEF Plain
  <2> QED
    BY <1>3, <2>1, ReactToNowLive
<1>4. CASE msg.t = "info"
  <2>1. \A n \in Listed : msg # BatchMsg(n)
    BY <1>1, <1>4
  <2> QED
    BY <1>4, <2>1, ReactToInfo
<1>5. ASSUME NEW m \in Listed, msg = BatchMsg(m)
      PROVE  LET q == React(p, msg)
             IN /\ PageOK(q)
                /\ ToSet(p.cache) \subseteq ToSet(q.cache)
                /\ \A n \in Listed : msg = BatchMsg(n) => n \in ToSet(q.cache)
                /\ Plain(msg) => q.endedByDisconnect = p.endedByDisconnect /\ q.send = p.send
  <2>1. \A n \in Listed : msg = BatchMsg(n) => n = m
    BY <1>5 DEF BatchMsg
  <2> QED
    BY <1>5, <2>1, ReactToBatch
<1> QED
  BY <1>2, <1>3, <1>4, <1>5 DEF PageMsgs

(* The states a page goes through as it takes in some messages. *)
Reading(g, p, ms) ==
  /\ g[0] = p /\ After(p, ms) = g[Len(ms)]
  /\ \A i \in 1..Len(ms) : g[i] = React(g[i - 1], ms[i])

LEMMA AfterIs ==
  ASSUME NEW p, NEW ms \in Seq(PageMsgs)
  PROVE  \E g : Reading(g, p, ms)
<1> DEFINE n == Len(ms)
           Reads(g, m) == g = [k \in 0..m |-> IF k = 0 THEN p ELSE React(g[k - 1], ms[k])]
           read == CHOOSE g : Reads(g, n)
<1>1. n \in Nat
  BY LenProperties
<1>2. After(p, ms) = read[n]
  BY DEF After
<1>3. Reads(read, n)
  <2> DEFINE T == {m \in 0..n : \E g : Reads(g, m)}
  <2>1. 0 \in T
    <3>1. Reads([k \in 0..0 |-> p], 0)
      OBVIOUS
    <3>2. 0 \in 0..n
      BY <1>1
    <3> HIDE DEF Reads
    <3> QED
      BY <3>1, <3>2
  <2>2. ASSUME NEW m \in 1..n, m - 1 \in T PROVE m \in T
    <3>1. PICK g : Reads(g, m - 1)
      BY <2>2
    <3> DEFINE h == [k \in 0..m |-> IF k = m THEN React(g[m - 1], ms[m]) ELSE g[k]]
    <3>2. \A k \in 0..m - 1 : g[k] = IF k = 0 THEN p ELSE React(g[k - 1], ms[k])
      BY <3>1
    <3>3. \A k \in 0..m : h[k] = IF k = 0 THEN p ELSE React(h[k - 1], ms[k])
      <4> SUFFICES ASSUME NEW k \in 0..m
                   PROVE  h[k] = IF k = 0 THEN p ELSE React(h[k - 1], ms[k])
        OBVIOUS
      <4>1. CASE k = m
        <5>1. k # 0 /\ k - 1 \in 0..m /\ k - 1 # m
          BY <4>1, <1>1
        <5> QED
          BY <4>1, <5>1
      <4>2. CASE k # m
        <5>1. k \in 0..m - 1 /\ (k # 0 => k - 1 \in 0..m /\ k - 1 # m)
          BY <4>2, <1>1
        <5> QED
          BY <4>2, <5>1, <3>2
      <4> QED
        BY <4>1, <4>2
    <3>4. Reads(h, m)
      BY <3>3
    <3>5. m \in 0..n
      BY <1>1
    <3> QED
      BY <3>4, <3>5
  <2>3. n \in T
    <3> HIDE DEF T, n
    <3>1. \A i \in 0..n : i \in T
      BY <1>1, <2>1, <2>2, InductionUpTo
    <3> QED
      BY <1>1, <3>1
  <2>4. \E g : Reads(g, n)
    BY <2>3
  <2> HIDE DEF Reads
  <2> QED
    BY <2>4
<1>4. /\ read[0] = p
      /\ \A i \in 1..n : read[i] = React(read[i - 1], ms[i])
  <2>1. \A k \in 0..n : read[k] = IF k = 0 THEN p ELSE React(read[k - 1], ms[k])
    BY <1>3
  <2> HIDE DEF read
  <2>2. 0 \in 0..n /\ \A i \in 1..n : i \in 0..n /\ i # 0
    BY <1>1
  <2> QED
    BY <2>1, <2>2
<1>5. Reading(read, p, ms)
  <2> HIDE DEF read
  <2> QED
    BY <1>2, <1>4 DEF Reading
<1> QED
  BY <1>5
-----------------------------------------------------------------------------
(* Any page, whatever its user does. *)

PageTypes(p) ==
  /\ DOMAIN p = PageFields
  /\ p.canGoLive \in BOOLEAN /\ p.endedByDisconnect \in BOOLEAN
  /\ p.paused \in BOOLEAN /\ p.preloading \in BOOLEAN
  /\ p.logLast \in Nat \cup {None}
  /\ p.cache \in Seq(Listed)
  /\ p.send \in Seq(ClientMsg)

LEMMA MessageTypes ==
  /\ [t |-> "live"] \in ClientMsg /\ [t |-> "resume"] \in ClientMsg
  /\ [t |-> "pause"] \in ClientMsg
  /\ \A ts \in Nat, play \in BOOLEAN :
       SeekMsg(ts, play) \in ClientMsg /\ SeekFullMsg(ts, play) \in ClientMsg
  /\ \A from, to \in Nat : PreloadMsg(from, to) \in ClientMsg
BY DEF ClientMsg, SeekMsg, SeekFullMsg, PreloadMsg

LEMMA BatchTimes ==
  /\ \A n \in Listed : LogTimes[n] \in Nat
  /\ \A c \in Seq(Listed) : c # <<>> => LogTimes[Last(c)] \in Nat
<1>1. \A n \in Listed : LogTimes[n] \in Nat
  BY LogTimesAssumption, LenProperties, ElementOfSeq DEF Listed, MaxBatches
<1>2. ASSUME NEW c \in Seq(Listed), c # <<>> PROVE Last(c) \in Listed
  <2>1. Len(c) \in Nat /\ Len(c) # 0
    BY <1>2, LenProperties, EmptySeq
  <2>2. c[Len(c)] \in Listed
    BY <2>1, ElementOfSeq
  <2> QED
    BY <2>2 DEF Last
<1> QED
  BY <1>1, <1>2

LEMMA SendsTypes ==
  ASSUME NEW p, PageTypes(p), NEW msg \in ClientMsg
  PROVE  PageTypes(Sends(p, msg)) /\ Sends(p, msg).scope = p.scope
<1> DEFINE q == Sends(p, msg)
<1>1. q = [p EXCEPT !.send = Append(p.send, msg)]
  BY DEF Sends
<1>2. Append(p.send, msg) \in Seq(ClientMsg)
  BY AppendProperties DEF PageTypes
<1>3. DOMAIN p = PageFields
  BY DEF PageTypes
<1>4. /\ DOMAIN q = DOMAIN p /\ q.send = Append(p.send, msg)
      /\ \A f \in PageFields : f # "send" => q[f] = p[f]
  BY <1>1, <1>3 DEF PageFields
<1> HIDE DEF q
<1> QED
  BY <1>2, <1>3, <1>4 DEF PageTypes, PageFields, q

LEMMA RestTypes ==
  ASSUME NEW p, PageTypes(p)
  PROVE  /\ PageTypes(AtRest(p)) /\ AtRest(p).scope = p.scope
         /\ AtRest(p).logLast = p.logLast
BY DEF AtRest, PageTypes, PageFields

LEMMA GoLiveTypes ==
  ASSUME NEW p, PageTypes(p)
  PROVE  PageTypes(GoLivePage(p)) /\ GoLivePage(p).scope = p.scope
<1> DEFINE q == [p EXCEPT !.isLive = TRUE, !.paused = FALSE, !.applied = Rebuilt(ToSet(p.cache))]
<1>1. DOMAIN p = PageFields /\ p.preloading \in BOOLEAN
  BY DEF PageTypes
<1>2. PageTypes(q) /\ q.scope = p.scope
  BY <1>1 DEF PageTypes, PageFields
<1>3. GoLivePage(p) = Sends(q, [t |-> "live"])
  BY DEF GoLivePage
<1> HIDE DEF q
<1> QED
  BY <1>2, <1>3, SendsTypes, MessageTypes

LEMMA SnapTypes ==
  ASSUME NEW p, PageTypes(p)
  PROVE  PageTypes(Snap(p)) /\ Snap(p).scope = p.scope
<1> DEFINE shown == [p EXCEPT !.preloading = FALSE, !.applied = Rebuilt(ToSet(p.cache))]
           last == IF p.cache = <<>> THEN None ELSE LogTimes[Last(p.cache)]
           end == IF last # None /\ p.logLast # None /\ last < p.logLast
                  THEN last ELSE p.logLast
           follows == [shown EXCEPT !.isLive = TRUE, !.paused = FALSE]
           parked == [shown EXCEPT !.logLast = end]
           ts == IF end = None THEN SessionStart ELSE end
<1>1. Snap(p) = IF p.canGoLive THEN Sends(follows, [t |-> "live"])
                ELSE Sends(parked, SeekMsg(ts, FALSE))
  BY DEF Snap
<1>2. /\ DOMAIN p = PageFields /\ p.logLast \in Nat \cup {None} /\ p.cache \in Seq(Listed)
  BY DEF PageTypes
<1>3. end \in Nat \cup {None} /\ ts \in Nat
  <2>1. last \in Nat \cup {None}
    BY <1>2, BatchTimes
  <2> QED
    BY <1>2, <2>1, StartAssumption
<1>4. PageTypes(follows) /\ follows.scope = p.scope
  BY <1>2 DEF PageTypes, PageFields
<1>5. PageTypes(parked) /\ parked.scope = p.scope
  <2> HIDE DEF end
  <2> QED
    BY <1>2, <1>3 DEF PageTypes, PageFields
<1>6. [t |-> "live"] \in ClientMsg /\ SeekMsg(ts, FALSE) \in ClientMsg
  BY <1>3, MessageTypes
<1> HIDE DEF follows, parked, ts
<1>7. /\ PageTypes(Sends(follows, [t |-> "live"]))
      /\ Sends(follows, [t |-> "live"]).scope = p.scope
  BY <1>4, <1>6, SendsTypes
<1>8. /\ PageTypes(Sends(parked, SeekMsg(ts, FALSE)))
      /\ Sends(parked, SeekMsg(ts, FALSE)).scope = p.scope
  BY <1>5, <1>6, SendsTypes
<1> QED
  BY <1>1, <1>7, <1>8

LEMMA SeekToTypes ==
  ASSUME NEW p, PageTypes(p), NEW ts \in Nat, NEW play \in BOOLEAN
  PROVE  PageTypes(SeekTo(p, ts, play)) /\ SeekTo(p, ts, play).scope = p.scope
<1> DEFINE q(a) == [p EXCEPT !.applied = a]
<1>1. DOMAIN p = PageFields
  BY DEF PageTypes
<1>2. \A a : PageTypes(q(a)) /\ q(a).scope = p.scope
  BY <1>1 DEF PageTypes, PageFields
<1>3. \E a : \/ SeekTo(p, ts, play) = Sends(q(a), SeekMsg(ts, play))
             \/ SeekTo(p, ts, play) = Sends(q(a), SeekFullMsg(ts, play))
  BY DEF SeekTo
<1> HIDE DEF q
<1>4. /\ SeekMsg(ts, play) \in ClientMsg /\ SeekFullMsg(ts, play) \in ClientMsg
  BY MessageTypes
<1>5. PICK a : \/ SeekTo(p, ts, play) = Sends(q(a), SeekMsg(ts, play))
               \/ SeekTo(p, ts, play) = Sends(q(a), SeekFullMsg(ts, play))
  BY <1>3
<1>6. PageTypes(q(a)) /\ q(a).scope = p.scope
  BY <1>2
<1> QED
  BY <1>4, <1>5, <1>6, SendsTypes

LEMMA InfoTypes ==
  ASSUME NEW p, PageTypes(p), NEW msg, msg.isLive \in BOOLEAN, msg.logLast \in Nat \cup {None}
  PROVE  PageTypes(OnInfo(p, msg)) /\ OnInfo(p, msg).scope = p.scope
<1> DEFINE known == [p EXCEPT !.logLast = IF msg.logLast = None THEN @ ELSE msg.logLast,
                              !.isLive = @ /\ msg.isLive,
                              !.canGoLive = @ /\ msg.isLive,
                              !.due = StoredNumbers]
           loads == msg.logLast # None /\ msg.logLast > SessionStart
           clean == [known EXCEPT !.cache = <<>>, !.known = {}, !.complete = FALSE,
                                  !.applied = Unapplied, !.isLive = FALSE, !.paused = TRUE,
                                  !.preloading = loads]
<1>1. /\ DOMAIN p = PageFields /\ p.logLast \in Nat \cup {None}
  BY DEF PageTypes
<1>2. PageTypes(known) /\ known.scope = p.scope
  BY <1>1 DEF PageTypes, PageFields
<1>3. PageTypes(clean) /\ clean.scope = p.scope /\ clean.preloading = loads
  <2>1. <<>> \in Seq(Listed) /\ DOMAIN known = PageFields
    BY <1>2 DEF PageTypes
  <2> HIDE DEF known, loads
  <2>2. loads \in BOOLEAN
    BY DEF loads
  <2> QED
    BY <1>2, <2>1, <2>2 DEF PageTypes, PageFields
<1>4. \/ OnInfo(p, msg) = known
      \/ loads /\ OnInfo(p, msg) = Sends(clean, PreloadMsg(SessionStart, msg.logLast))
      \/ OnInfo(p, msg) = Sends(clean, PreloadMsg(SessionStart, SessionStart))
  <2> HIDE DEF loads
  <2>1. clean.preloading = loads
    BY <1>3
  <2>2. OnInfo(p, msg) =
          CASE p.scope = "all" -> known
            [] p.scope = "latest" /\ clean.preloading ->
                 Sends(clean, PreloadMsg(SessionStart, msg.logLast))
            [] OTHER -> Sends(clean, PreloadMsg(SessionStart, SessionStart))
    BY DEF OnInfo, loads
  <2> HIDE DEF known, clean
  <2> QED
    BY <2>1, <2>2
<1>5. loads => msg.logLast \in Nat
  OBVIOUS
<1>6. /\ PreloadMsg(SessionStart, SessionStart) \in ClientMsg
      /\ loads => PreloadMsg(SessionStart, msg.logLast) \in ClientMsg
  BY <1>5, MessageTypes, StartAssumption
<1> HIDE DEF known, clean, loads
<1>7. \A m \in ClientMsg : PageTypes(Sends(clean, m)) /\ Sends(clean, m).scope = p.scope
  BY <1>3, SendsTypes
<1> QED
  BY <1>2, <1>4, <1>6, <1>7

LEMMA BatchTypes ==
  ASSUME NEW p, PageTypes(p), NEW n \in Listed
  PROVE  PageTypes(OnBatch(p, n)) /\ OnBatch(p, n).scope = p.scope
<1> DEFINE ts == LogTimes[n]
           new == [p EXCEPT !.cache = Append(@, n), !.known = @ \cup {n}]
           last == IF p.logLast = None \/ (p.isLive /\ ts > p.logLast) THEN ts ELSE p.logLast
           shown == [new EXCEPT !.applied = Once(@, n), !.logLast = last]
           again == [p EXCEPT !.applied = Once(@, n)]
<1>1. DOMAIN p = PageFields /\ Append(p.cache, n) \in Seq(Listed)
  BY CacheGrows DEF PageTypes
<1>2. last \in Nat \cup {None}
  BY BatchTimes DEF PageTypes
<1>3. /\ PageTypes(new) /\ new.scope = p.scope /\ new.logLast = p.logLast
      /\ new.isLive = p.isLive
  BY <1>1 DEF PageTypes, PageFields
<1>4. PageTypes(shown) /\ shown.scope = p.scope
  <2> HIDE DEF new, last
  <2>1. DOMAIN new = PageFields
    BY <1>3 DEF PageTypes
  <2> QED
    BY <1>2, <1>3, <2>1 DEF PageTypes, PageFields
<1>5. PageTypes(again) /\ again.scope = p.scope
  BY <1>1 DEF PageTypes, PageFields
<1>6. OnBatch(p, n) \in {p, new, again, shown}
  <2>1. shown = [new EXCEPT !.applied = Once(@, n),
                   !.logLast = IF @ = None \/ (p.isLive /\ ts > @) THEN ts ELSE @]
    <3> HIDE DEF new
    <3> QED
      BY <1>3
  <2> HIDE DEF shown, again, new, last
  <2> QED
    BY <2>1 DEF OnBatch, new, again, ts
<1> HIDE DEF shown, again, new
<1> QED
  BY <1>3, <1>4, <1>5, <1>6

LEMMA DoneTypes ==
  ASSUME NEW p, PageTypes(p)
  PROVE  /\ PageTypes(OnCatchUpDone(p)) /\ OnCatchUpDone(p).scope = p.scope
         /\ PageTypes(OnStreamDone(p)) /\ OnStreamDone(p).scope = p.scope
         /\ PageTypes(OnNowLive(p)) /\ OnNowLive(p).scope = p.scope
<1> DEFINE done == [p EXCEPT !.complete = TRUE]
           over == [p EXCEPT !.complete = TRUE, !.canGoLive = FALSE,
                             !.endedByDisconnect = TRUE]
           back == [p EXCEPT !.complete = TRUE, !.canGoLive = TRUE,
                             !.endedByDisconnect = FALSE]
           fed == [back EXCEPT !.isLive = TRUE, !.paused = FALSE]
<1>1. PageTypes(done) /\ done.scope = p.scope
  BY DEF PageTypes, PageFields
<1>2. PageTypes(over) /\ over.scope = p.scope
  BY DEF PageTypes, PageFields
<1>3. PageTypes(back) /\ back.scope = p.scope
  BY DEF PageTypes, PageFields
<1>4. PageTypes(fed) /\ fed.scope = p.scope
  <2> HIDE DEF back
  <2> QED
    BY <1>3 DEF PageTypes, PageFields
<1>5. OnCatchUpDone(p) \in {done, Snap(AtRest(done))}
  BY DEF OnCatchUpDone
<1>6. OnStreamDone(p) \in {AtRest(over), Snap(AtRest(over))}
  BY DEF OnStreamDone
<1>7. OnNowLive(p) \in {Snap(AtRest(back)), GoLivePage(back), fed}
  <2>1. p.preloading \in BOOLEAN /\ p.endedByDisconnect \in BOOLEAN
    BY DEF PageTypes
  <2>2. OnNowLive(p) = CASE p.preloading -> Snap(AtRest(back))
                         [] ~p.preloading /\ p.endedByDisconnect -> GoLivePage(back)
                         [] OTHER -> fed
    BY DEF OnNowLive
  <2> HIDE DEF back, fed
  <2> QED
    BY <2>1, <2>2
<1> HIDE DEF done, over, back, fed
<1>8. PageTypes(Snap(AtRest(done))) /\ Snap(AtRest(done)).scope = p.scope
  BY <1>1, RestTypes, SnapTypes
<1>9. /\ PageTypes(AtRest(over)) /\ AtRest(over).scope = p.scope
      /\ PageTypes(Snap(AtRest(over))) /\ Snap(AtRest(over)).scope = p.scope
  BY <1>2, RestTypes, SnapTypes
<1>10. /\ PageTypes(Snap(AtRest(back))) /\ Snap(AtRest(back)).scope = p.scope
       /\ PageTypes(GoLivePage(back)) /\ GoLivePage(back).scope = p.scope
  BY <1>3, RestTypes, SnapTypes, GoLiveTypes
<1> QED
  BY <1>1, <1>4, <1>5, <1>6, <1>7, <1>8, <1>9, <1>10

LEMMA ReactTypes ==
  ASSUME NEW p, PageTypes(p), NEW msg \in PageMsgs
  PROVE  PageTypes(React(p, msg)) /\ React(p, msg).scope = p.scope
<1>1. CASE msg = StreamDone
  <2>1. React(p, msg) = OnStreamDone(p)
    BY <1>1 DEF React, StreamDone
  <2> QED
    BY <2>1, DoneTypes
<1>2. CASE msg = NowLive
  <2>1. React(p, msg) = OnNowLive(p)
    BY <1>2 DEF React, NowLive
  <2> QED
    BY <2>1, DoneTypes
<1>3. CASE msg = CatchUpDone
  <2>1. React(p, msg) = OnCatchUpDone(p)
    BY <1>3 DEF React, CatchUpDone
  <2> QED
    BY <2>1, DoneTypes
<1>4. ASSUME NEW n \in Listed, msg = BatchMsg(n)
      PROVE  PageTypes(React(p, msg)) /\ React(p, msg).scope = p.scope
  <2>1. React(p, msg) = OnBatch(p, n)
    BY <1>4 DEF React, BatchMsg
  <2> QED
    BY <2>1, BatchTypes
<1>5. CASE msg \in [t : {"info"}, isLive : BOOLEAN, logLast : Nat \cup {None}]
  <2>1. React(p, msg) = OnInfo(p, msg)
    BY <1>5 DEF React
  <2>2. msg.isLive \in BOOLEAN /\ msg.logLast \in Nat \cup {None}
    BY <1>5
  <2> QED
    BY <2>1, <2>2, InfoTypes
<1> QED
  BY <1>1, <1>2, <1>3, <1>4, <1>5 DEF PageMsgs

(* Reading a step's messages. *)
LEMMA AfterTypes ==
  ASSUME NEW p, PageTypes(p), NEW ms \in Seq(PageMsgs)
  PROVE  PageTypes(After(p, ms)) /\ After(p, ms).scope = p.scope
<1>1. Len(ms) \in Nat
  BY LenProperties
<1>0. PICK g : Reading(g, p, ms)
  BY AfterIs
<1>2. /\ g[0] = p /\ After(p, ms) = g[Len(ms)]
      /\ \A i \in 1..Len(ms) : g[i] = React(g[i - 1], ms[i])
  BY <1>0 DEF Reading
<1> DEFINE T == {i \in 0..Len(ms) : PageTypes(g[i]) /\ g[i].scope = p.scope}
<1>3. 0 \in T
  BY <1>1, <1>2
<1>4. ASSUME NEW i \in 1..Len(ms), i - 1 \in T PROVE i \in T
  <2>1. ms[i] \in PageMsgs
    BY ElementOfSeq
  <2>2. PageTypes(React(g[i - 1], ms[i])) /\ React(g[i - 1], ms[i]).scope = p.scope
    BY <1>4, <2>1, ReactTypes
  <2> QED
    BY <1>1, <1>2, <2>2
<1>5. \A i \in 0..Len(ms) : i \in T
  <2> HIDE DEF T
  <2> QED
    BY <1>1, <1>3, <1>4, InductionUpTo
<1>6. Len(ms) \in T
  BY <1>1, <1>5
<1> QED
  BY <1>2, <1>6

(* The batches among some messages. *)
Handed(ms) == {n \in Listed : \E i \in 1..Len(ms) : ms[i] = BatchMsg(n)}

LEMMA AfterKeeps ==
  ASSUME NEW p, PageOK(p), NEW ms \in Seq(PageMsgs)
  PROVE  LET q == After(p, ms)
         IN /\ PageOK(q)
            /\ ToSet(p.cache) \cup Handed(ms) \subseteq ToSet(q.cache)
            /\ (\A i \in 1..Len(ms) : Plain(ms[i]))
                 => q.endedByDisconnect = p.endedByDisconnect /\ q.send = p.send
<1>1. Len(ms) \in Nat
  BY LenProperties
<1>0. PICK g : Reading(g, p, ms)
  BY AfterIs
<1>2. /\ g[0] = p /\ After(p, ms) = g[Len(ms)]
      /\ \A i \in 1..Len(ms) : g[i] = React(g[i - 1], ms[i])
  BY <1>0 DEF Reading
<1> DEFINE Read(i) ==
             /\ PageOK(g[i])
             /\ ToSet(p.cache) \subseteq ToSet(g[i].cache)
             /\ \A k \in 1..i : \A n \in Listed : ms[k] = BatchMsg(n) => n \in ToSet(g[i].cache)
             /\ (\A k \in 1..Len(ms) : Plain(ms[k]))
                  => g[i].endedByDisconnect = p.endedByDisconnect /\ g[i].send = p.send
           T == {i \in 0..Len(ms) : Read(i)}
<1>3. 0 \in T
  BY <1>1, <1>2
<1>4. ASSUME NEW i \in 1..Len(ms), i - 1 \in T PROVE i \in T
  <2> DEFINE q == React(g[i - 1], ms[i])
  <2>1. ms[i] \in PageMsgs /\ Read(i - 1)
    BY <1>4, ElementOfSeq
  <2>2. /\ PageOK(q) /\ ToSet(g[i - 1].cache) \subseteq ToSet(q.cache)
        /\ \A n \in Listed : ms[i] = BatchMsg(n) => n \in ToSet(q.cache)
        /\ Plain(ms[i]) => /\ q.endedByDisconnect = g[i - 1].endedByDisconnect
                           /\ q.send = g[i - 1].send
    BY <2>1, ReactKeeps
  <2>3. g[i] = q
    BY <1>2
  <2> HIDE DEF q
  <2>4. \A k \in 1..i : k = i \/ k \in 1..i - 1
    BY <1>1
  <2>5. Read(i)
    <3>1. \A k \in 1..i : \A n \in Listed : ms[k] = BatchMsg(n) => n \in ToSet(g[i].cache)
      BY <2>1, <2>2, <2>3, <2>4
    <3> QED
      BY <2>1, <2>2, <2>3, <3>1
  <2> QED
    BY <2>5
<1>5. \A i \in 0..Len(ms) : i \in T
  <2> HIDE DEF T
  <2> QED
    BY <1>1, <1>3, <1>4, InductionUpTo
<1>6. Read(Len(ms))
  BY <1>1, <1>5
<1> QED
  BY <1>2, <1>6 DEF Handed

(* What a user does. *)
LEMMA UserTypes ==
  ASSUME NEW p, PageTypes(p), NEW q \in UserChoices(p)
  PROVE  PageTypes(q) /\ q.scope = p.scope
<1>1. p.logLast \in Nat \cup {None} /\ DOMAIN p = PageFields
      /\ p.canGoLive \in BOOLEAN /\ p.paused \in BOOLEAN
  BY DEF PageTypes
<1>2. \/ q = GoLivePage(p)
      \/ /\ p.logLast # None
         /\ q = PlayPause(p) \/ q = SeekBarEnd(p) \/ \E ts \in Times : q = SeekBar(p, ts)
  BY DEF UserChoices
<1>3. CASE q = GoLivePage(p)
  BY <1>3, GoLiveTypes
<1>4. CASE p.logLast # None /\ q = PlayPause(p)
  <2> DEFINE runs == [p EXCEPT !.paused = FALSE]
             rests == [p EXCEPT !.paused = TRUE]
  <2>1. /\ PageTypes(runs) /\ runs.scope = p.scope
        /\ PageTypes(rests) /\ rests.scope = p.scope
    BY <1>1 DEF PageTypes, PageFields
  <2>2. \/ q = SeekTo(AtRest(p), p.logLast, FALSE)
        \/ q = Sends(runs, [t |-> "resume"])
        \/ q = Sends(rests, [t |-> "pause"])
    BY <1>4 DEF PlayPause
  <2> HIDE DEF runs, rests
  <2>3. CASE q = SeekTo(AtRest(p), p.logLast, FALSE)
    <3>1. p.logLast \in Nat /\ PageTypes(AtRest(p)) /\ AtRest(p).scope = p.scope
      BY <1>1, <1>4, RestTypes
    <3> QED
      BY <2>3, <3>1, SeekToTypes
  <2>4. CASE q = Sends(runs, [t |-> "resume"])
    BY <2>1, <2>4, SendsTypes, MessageTypes
  <2>5. CASE q = Sends(rests, [t |-> "pause"])
    BY <2>1, <2>5, SendsTypes, MessageTypes
  <2> QED
    BY <2>2, <2>3, <2>4, <2>5
<1>5. CASE p.logLast # None /\ q = SeekBarEnd(p)
  <2> DEFINE bar == [p EXCEPT !.isLive = FALSE]
  <2>1. PageTypes(bar) /\ bar.scope = p.scope
    BY <1>1 DEF PageTypes, PageFields
  <2>2. q = SeekTo(bar, p.logLast, ~p.paused) \/ q = GoLivePage(p)
    BY <1>5 DEF SeekBarEnd
  <2> HIDE DEF bar
  <2>3. (~p.paused) \in BOOLEAN /\ p.logLast \in Nat
    BY <1>1, <1>5
  <2>4. CASE q = SeekTo(bar, p.logLast, ~p.paused)
    BY <2>1, <2>3, <2>4, SeekToTypes
  <2> QED
    BY <1>3, <2>2, <2>4
<1>6. ASSUME NEW ts \in Times, q = SeekBar(p, ts) PROVE PageTypes(q) /\ q.scope = p.scope
  <2> DEFINE bar == [p EXCEPT !.isLive = FALSE, !.paused = ~p.canGoLive]
  <2>1. PageTypes(bar) /\ bar.scope = p.scope
    <3>1. (~p.canGoLive) \in BOOLEAN
      BY <1>1
    <3> QED
      BY <1>1, <3>1 DEF PageTypes, PageFields
  <2>2. q = SeekTo(bar, ts, p.canGoLive)
    BY <1>6 DEF SeekBar
  <2>3. ts \in Nat
    BY BatchTimes DEF Times, Listed
  <2> HIDE DEF bar
  <2> QED
    BY <1>1, <2>1, <2>2, <2>3, SeekToTypes
<1> QED
  BY <1>2, <1>3, <1>4, <1>5, <1>6
-----------------------------------------------------------------------------
(* What the handler sends in one step. *)

Numbered ==
  /\ arrived \in 0..MaxBatches /\ unsent \in 0..arrived
  /\ sent \in Seq(Listed)
  /\ \A id \in DOMAIN index : Number(id) \in Listed /\ EntryTs(index[id]) \in Nat

LEMMA SentTypes ==
  /\ StreamDone \in PageMsgs /\ NowLive \in PageMsgs /\ CatchUpDone \in PageMsgs
  /\ \A n \in Listed : BatchMsg(n) \in PageMsgs
BY DEF PageMsgs

LEMMA InfoIsSent ==
  ASSUME Inv, Numbered
  PROVE  InfoMsg \in PageMsgs
<1>1. connected \in BOOLEAN
  BY DEF Inv, WorldOK
<1>2. LogLastTs \in Nat \cup {None}
  <2>1. CASE index = <<>>
    BY <2>1 DEF LogLastTs
  <2>2. CASE index # <<>> /\ DOMAIN index = {}
    <3>1. LogLastTs = EntryTs(index[Newest(DOMAIN index)])
      BY <2>2 DEF LogLastTs
    <3> QED
      BY <2>2, <3>1 DEF Numbered
  <2>3. CASE index # <<>> /\ DOMAIN index # {}
    <3>1. DOMAIN index \in SUBSET Nat /\ autoinc \in Nat
          /\ \A id \in DOMAIN index : id <= autoinc
      BY DEF Inv, JournalOK
    <3>2. \E x \in DOMAIN index : \A y \in DOMAIN index : y <= x
      BY <2>3, <3>1, GreatestExists
    <3>3. Newest(DOMAIN index) \in DOMAIN index
      BY <3>2 DEF Newest
    <3> QED
      BY <2>3, <3>3 DEF LogLastTs, Numbered
  <2> QED
    BY <2>1, <2>2, <2>3
<1> QED
  BY <1>1, <1>2 DEF InfoMsg, PageMsgs

(* Stored batches are sent one message each. *)
LEMMA InOrderSends ==
  ASSUME NEW ids \in Ids, \A id \in ids : Number(id) \in Listed
  PROVE  /\ InOrder(ids) \in Seq({BatchMsg(n) : n \in Listed})
         /\ Len(InOrder(ids)) = Cardinality(ids)
         /\ \A id \in ids : \E i \in 1..Cardinality(ids) :
              InOrder(ids)[i] = BatchMsg(Number(id))
<1> DEFINE n == Cardinality(ids)
           Nth(p) == CHOOSE id \in ids : Cardinality({j \in ids : j < id}) = p - 1
<1>1. n \in Nat
  BY PosType
<1>2. InOrder(ids) = [p \in 1..n |-> BatchMsg(Number(Nth(p)))]
  BY DEF InOrder
<1>3. ASSUME NEW p \in 1..n PROVE Nth(p) \in ids /\ Pos(ids, Nth(p)) = p - 1
  <2>1. p - 1 \in Nat /\ p - 1 < Cardinality(ids)
    BY <1>1
  <2>2. \E id \in ids : Pos(ids, id) = p - 1
    BY <2>1, PosOnto
  <2> QED
    BY <2>2 DEF Pos
<1>4. ASSUME NEW id \in ids PROVE \E p \in 1..n : Nth(p) = id
  <2>1. Pos(ids, id) \in Nat /\ Pos(ids, id) < n
    BY PosType, PosBound
  <2>2. Pos(ids, id) + 1 \in 1..n /\ (Pos(ids, id) + 1) - 1 = Pos(ids, id)
    BY <1>1, <2>1
  <2>3. Nth(Pos(ids, id) + 1) \in ids /\ Pos(ids, Nth(Pos(ids, id) + 1)) = Pos(ids, id)
    BY <1>3, <2>2
  <2>4. Nth(Pos(ids, id) + 1) = id
    <3> HIDE DEF Nth
    <3> QED
      BY <2>3, PosInjective
  <2> QED
    BY <2>2, <2>4
<1> HIDE DEF Nth
<1>5. \A p \in 1..n : BatchMsg(Number(Nth(p))) \in {BatchMsg(m) : m \in Listed}
  BY <1>3
<1>6. InOrder(ids) \in [1..n -> {BatchMsg(m) : m \in Listed}]
  BY <1>2, <1>5
<1>7. InOrder(ids) \in Seq({BatchMsg(m) : m \in Listed}) /\ Len(InOrder(ids)) = n
  <2> HIDE DEF n
  <2> QED
    BY <1>1, <1>6, SeqDef, LenProperties
<1>8. \A id \in ids : \E p \in 1..n : InOrder(ids)[p] = BatchMsg(Number(id))
  BY <1>2, <1>4
<1> QED
  BY <1>7, <1>8

LEMMA StoredAreSent ==
  ASSUME Inv, Numbered, NEW ids \in SUBSET DOMAIN index, NEW after \in Seq({CatchUpDone}),
         SendStored(ids, after)
  PROVE  /\ out' \in Seq(PageMsgs)
         /\ delivered' \subseteq delivered \cup Handed(out')
         /\ after = <<>> => \A i \in 1..Len(out') : Plain(out'[i])
<1> DEFINE M == {BatchMsg(n) : n \in Listed}
           s == InOrder(ids)
<1>1. ids \in Ids /\ \A id \in ids : Number(id) \in Listed
  <2>1. DOMAIN index \in Ids
    BY IndexIds DEF Inv
  <2> QED
    BY <2>1, FS_Subset DEF Ids, Numbered
<1>2. /\ s \in Seq(M) /\ Len(s) = Cardinality(ids)
      /\ \A id \in ids : \E i \in 1..Len(s) : s[i] = BatchMsg(Number(id))
  BY <1>1, InOrderSends
<1>3. out' = s \o after /\ delivered' = delivered \cup {Number(id) : id \in ids}
  BY DEF SendStored
<1> HIDE DEF s
<1>4. s \in Seq(PageMsgs) /\ after \in Seq(PageMsgs)
  <2>1. M \subseteq PageMsgs /\ {CatchUpDone} \subseteq PageMsgs
    BY SentTypes
  <2> HIDE DEF M
  <2> QED
    BY <1>2, <2>1, SeqMonotonic
<1>5. /\ out' \in Seq(PageMsgs) /\ Len(out') = Len(s) + Len(after)
      /\ \A i \in 1..Len(s) : out'[i] = s[i]
      /\ Len(s) \in Nat /\ Len(after) \in Nat
  BY <1>3, <1>4, ConcatProperties, LenProperties
<1>6. delivered' \subseteq delivered \cup Handed(out')
  <2>1. ASSUME NEW id \in ids PROVE Number(id) \in Handed(out')
    <3>1. PICK i \in 1..Len(s) : s[i] = BatchMsg(Number(id))
      BY <1>2
    <3>2. i \in 1..Len(out') /\ out'[i] = BatchMsg(Number(id))
      BY <1>5, <3>1
    <3> QED
      BY <1>1, <3>2 DEF Handed
  <2> QED
    BY <1>3, <2>1
<1>7. ASSUME after = <<>>, NEW i \in 1..Len(out') PROVE Plain(out'[i])
  <2>1. i \in 1..Len(s)
    BY <1>5, <1>7, EmptySeq
  <2>2. s[i] \in M
    BY <1>2, <2>1, ElementOfSeq
  <2>3. out'[i] \in M
    BY <1>5, <2>1, <2>2
  <2> QED
    BY <2>3 DEF Plain
<1> QED
  BY <1>5, <1>6, <1>7

(* A step that ends the handler, or one that sends a message or some stored
   batches. *)
OneMessage(msgSet) ==
  /\ out' = <<>> \/ \E msg \in msgSet : out' = <<msg>>
  /\ delivered' = delivered

OneBatch == \E n \in Listed : out' = <<BatchMsg(n)>> /\ delivered' = delivered \cup {n}

Stored(after) == \E ids \in SUBSET DOMAIN index : SendStored(ids, after)

LEMMA HandlerForms ==
  ASSUME Inv, Numbered, Handler, mode # NoHandler
  PROVE  \/ Return
         \/ /\ World /\ mode' # NoHandler
            /\ OneMessage(PageMsgs) \/ OneBatch \/ Stored(<<>>) \/ Stored(<<CatchUpDone>>)
<1> USE DEF Goto, Quiet, Flags, historyVars
<1>0. /\ NoHandler.m = "none" /\ mode.m # "none" /\ mode \in Modes
      /\ \A p \in Nat : Replay(p) # NoHandler /\ Paused(p) # NoHandler
                        /\ CatchUp(p) # NoHandler
      /\ Live # NoHandler
  BY ModeFacts, ModeFields DEF Inv, HandlerOK
<1>1. CASE SendInfo
  BY <1>1, InfoIsSent DEF SendInfo, OneMessage
<1>2. CASE Top \/ RevokeWakes \/ Continue \/ SeeDisconnect \/ ReplayEnd
  BY <1>2 DEF Top, RevokeWakes, Continue, SeeDisconnect, ReplayEnd, OneMessage
<1>3. CASE CatchUpBurst
  <2> DEFINE burst == ReadBurst(mode.pos, Burst)
  <2>1. /\ World /\ mode' = CatchUp(mode.pos + Cardinality(burst)) /\ mode.m = "catchUp"
        /\ SendStored(burst, <<>>)
    BY <1>3 DEF CatchUpBurst
  <2>2. mode.pos \in Nat /\ Burst \in Nat
    BY <1>0, <2>1, ModeFields, BurstAssumption
  <2>3. burst \subseteq DOMAIN index /\ Cardinality(burst) \in Nat
    BY <2>2, ReadBurstFacts DEF Inv
  <2> HIDE DEF burst
  <2>4. mode' # NoHandler
    BY <1>0, <2>1, <2>2, <2>3
  <2> QED
    BY <2>1, <2>3, <2>4 DEF Stored
<1>4. CASE GoLive
  <2>1. World /\ mode' = Live /\ (Say(NowLive) \/ Quiet)
    BY <1>4 DEF GoLive
  <2> QED
    BY <1>0, <2>1, SentTypes DEF Say, OneMessage
<1>5. CASE FinishRecording \/ EndLive
  <2>1. ASSUME NEW p, EndAt(p) PROVE World /\ OneMessage(PageMsgs) /\ mode' = Paused(p)
    BY <2>1, SentTypes DEF EndAt, Say, OneMessage
  <2>2. \A p : Paused(p) # NoHandler
    BY DEF Paused, NoHandler
  <2> QED
    BY <1>5, <2>1, <2>2 DEF FinishRecording, EndLive
<1>6. CASE Receive
  <2>1. World /\ mode' = Live /\ rx <= Len(sent) /\ rx \in Nat \ {0}
    BY <1>6 DEF Receive, Inv, HandlerOK
  <2>2. \/ out' = <<>> /\ delivered' = delivered
        \/ out' = <<BatchMsg(sent[rx])>> /\ delivered' = delivered \cup {sent[rx]}
    BY <1>6 DEF Receive
  <2>3. sent[rx] \in Listed
    <3>1. sent \in Seq(Listed) /\ Len(sent) \in Nat
      BY LenProperties DEF Numbered
    <3>2. rx \in 1..Len(sent)
      BY <2>1, <3>1
    <3> QED
      BY <3>1, <3>2, ElementOfSeq
  <2> QED
    BY <1>0, <2>1, <2>2, <2>3 DEF OneMessage, OneBatch
<1>7. CASE CatchUpToDone
  <2>1. /\ World /\ SendStored({}, PreloadedMsg)
        /\ mode' = Replay(mode.target) \/ mode' = Paused(mode.target)
    BY <1>7 DEF CatchUpToDone, Preloaded
  <2>2. \A p : Paused(p) # NoHandler /\ Replay(p) # NoHandler
    BY DEF Paused, Replay, NoHandler
  <2> QED
    BY <2>1, <2>2 DEF Stored, PreloadedMsg
<1>8. CASE CatchUpToBurst
  <2>1. mode.m = "catchUpTo" /\ mode.pos < mode.target /\ World
    BY <1>8 DEF CatchUpToBurst
  <2>2. mode.pos \in Nat /\ mode.target \in Nat /\ Burst \in Nat
    BY <1>0, <2>1, ModeFields, BurstAssumption
  <2>3. PICK count \in Nat : LET burst == ReadBurst(mode.pos, count)
                                 pos == mode.pos + Cardinality(burst)
                             IN \/ Preloaded(pos) /\ SendStored(burst, PreloadedMsg)
                                \/ mode' = [mode EXCEPT !.pos = pos]
                                   /\ SendStored(burst, <<>>)
    BY <1>8, <2>1, <2>2 DEF CatchUpToBurst
  <2> DEFINE burst == ReadBurst(mode.pos, count)
             pos == mode.pos + Cardinality(burst)
  <2>4. burst \subseteq DOMAIN index /\ Cardinality(burst) \in Nat
    BY <2>2, ReadBurstFacts DEF Inv
  <2>5. \/ Preloaded(pos) /\ SendStored(burst, PreloadedMsg)
        \/ mode' = [mode EXCEPT !.pos = pos] /\ SendStored(burst, <<>>)
    BY <2>3
  <2> HIDE DEF burst
  <2>6. pos \in Nat
    BY <2>2, <2>4
  <2> HIDE DEF pos
  <2>7. [mode EXCEPT !.pos = pos] # NoHandler
    <3>1. /\ mode.target \in Nat /\ mode.play \in BOOLEAN
          /\ [mode EXCEPT !.pos = pos] = CatchUpTo(pos, mode.target, mode.play)
      BY <1>0, <2>1, <2>6, ModeFields
    <3> QED
      BY <3>1 DEF CatchUpTo, NoHandler
  <2>8. Preloaded(pos) => mode' # NoHandler
    BY DEF Preloaded, Paused, Replay, NoHandler
  <2> QED
    BY <2>1, <2>4, <2>5, <2>7, <2>8 DEF Stored, PreloadedMsg
<1>9. CASE ReplayBatch
  <2>1. /\ World /\ mode' = Replay(mode.pos + 1) /\ mode.m = "replay"
        /\ mode.pos < JournalLen /\ SendStored({At(mode.pos)}, <<>>)
    BY <1>9 DEF ReplayBatch
  <2>2. mode.pos \in Nat
    BY <1>0, <2>1, ModeFields
  <2>3. At(mode.pos) \in DOMAIN index
    BY <2>1, <2>2, AtFacts DEF Inv
  <2> QED
    BY <1>0, <2>1, <2>2, <2>3 DEF Stored
<1>10. CASE PausedTick
  <2>1. /\ World /\ Say(NowLive) /\ mode.m = "paused"
        /\ mode' = CatchUp(mode.pos) \/ mode' = mode
    BY <1>10 DEF PausedTick
  <2>2. mode.pos \in Nat
    BY <1>0, <2>1, ModeFields
  <2> QED
    BY <1>0, <2>1, <2>2, SentTypes DEF Say, OneMessage
<1> QED
  BY <1>1, <1>2, <1>3, <1>4, <1>5, <1>6, <1>7, <1>8, <1>9, <1>10 DEF Handler

LEMMA HandlerSends ==
  ASSUME Inv, Numbered, Handler, mode # NoHandler, mode' # NoHandler
  PROVE  /\ World /\ out' \in Seq(PageMsgs)
         /\ delivered' \subseteq delivered \cup Handed(out')
<1>1. ~Return
  BY DEF Return
<1>2. World
  BY <1>1, HandlerForms
<1>3. CASE OneMessage(PageMsgs)
  <2>1. \A msg \in PageMsgs : <<msg>> \in Seq(PageMsgs)
    OBVIOUS
  <2>2. <<>> \in Seq(PageMsgs)
    BY EmptySeq
  <2> QED
    BY <1>2, <1>3, <2>1, <2>2 DEF OneMessage
<1>4. CASE OneBatch
  <2>1. PICK n \in Listed : out' = <<BatchMsg(n)>> /\ delivered' = delivered \cup {n}
    BY <1>4 DEF OneBatch
  <2>2. BatchMsg(n) \in PageMsgs
    BY SentTypes
  <2>3. out' \in Seq(PageMsgs) /\ Len(out') = 1 /\ out'[1] = BatchMsg(n)
    BY <2>1, <2>2
  <2>4. n \in Handed(out')
    BY <2>3 DEF Handed
  <2> QED
    BY <1>2, <2>1, <2>3, <2>4
<1>5. CASE Stored(<<>>) \/ Stored(<<CatchUpDone>>)
  <2>1. PICK after \in {<<>>, <<CatchUpDone>>} : Stored(after)
    BY <1>5
  <2>2. after \in Seq({CatchUpDone})
    <3>1. <<>> \in Seq({CatchUpDone}) /\ <<CatchUpDone>> \in Seq({CatchUpDone})
      OBVIOUS
    <3> QED
      BY <3>1
  <2>3. PICK ids \in SUBSET DOMAIN index : SendStored(ids, after)
    BY <2>1 DEF Stored
  <2> QED
    BY <1>2, <2>2, <2>3, StoredAreSent
<1> QED
  BY <1>1, <1>3, <1>4, <1>5, HandlerForms

(* What was seen stays seen for as long as the handler runs. *)
LEMMA HandlerSeen ==
  ASSUME Inv, Handler, mode # NoHandler, mode' # NoHandler
  PROVE  Seen \subseteq Seen'
<1>0. ~Return /\ ~PageLeaves
  BY DEF Return, PageLeaves
<1>1. CASE Receive
  <2> DEFINE oldest == IF Len(sent) > Capacity THEN Len(sent) - Capacity + 1 ELSE 1
  <2>1. /\ World /\ rx \in Nat \ {0} /\ Len(sent) \in Nat /\ Capacity \in Nat \ {0}
        /\ rx <= Len(sent)
    BY <1>1, CapacityAssumption, LenProperties DEF Receive, Inv, HandlerOK, WorldOK
  <2>2. oldest \in Nat
    BY <2>1
  <2>3. \/ /\ rx < oldest /\ rx' = oldest
           /\ lagged' = lagged \cup ({sent[p] : p \in rx..oldest - 1} \ delivered)
           /\ UNCHANGED delivered
        \/ /\ rx' = rx + 1
           /\ delivered' = delivered \cup {sent[rx]}
           /\ UNCHANGED lagged
    BY <1>1 DEF Receive
  <2>4. UNCHANGED <<sent, unsent>>
    BY <2>1 DEF World, ingestVars
  <2> HIDE DEF oldest
  <2>5. ASSUME NEW p \in rx..Len(sent) PROVE sent[p] \in Seen'
    <3>1. CASE p \in rx'..Len(sent)
      BY <2>4, <3>1 DEF Seen, Pending
    <3>2. CASE p \notin rx'..Len(sent)
      <4>1. CASE rx < oldest /\ rx' = oldest
        <5>1. p \in rx..oldest - 1
          BY <2>1, <2>2, <3>2, <4>1
        <5> QED
          BY <2>1, <2>3, <4>1, <5>1 DEF Seen
      <4>2. CASE rx' = rx + 1 /\ delivered' = delivered \cup {sent[rx]}
        <5>1. p = rx
          BY <2>1, <3>2, <4>2
        <5> QED
          BY <4>2, <5>1 DEF Seen
      <4> QED
        BY <2>3, <4>1, <4>2
    <3> QED
      BY <3>1, <3>2
  <2> QED
    BY <2>3, <2>4, <2>5 DEF Seen, Pending
<1>2. CASE ~Receive
  <2>1. World
    BY <1>0, <1>2 DEF Handler, SendInfo, Top, RevokeWakes, Continue, CatchUpBurst, GoLive,
          FinishRecording, SeeDisconnect, EndLive, EndAt, CatchUpToDone, CatchUpToBurst,
          ReplayBatch, ReplayEnd, PausedTick
  <2>2. UNCHANGED rx
    BY <1>0, <1>2 DEF Handler, SendInfo, Top, RevokeWakes, Continue, CatchUpBurst, GoLive,
          FinishRecording, SeeDisconnect, EndLive, EndAt, CatchUpToDone, CatchUpToBurst,
          ReplayBatch, ReplayEnd, PausedTick
  <2>3. UNCHANGED lagged /\ delivered \subseteq delivered'
    BY <1>0, <1>2 DEF Handler, SendInfo, Top, RevokeWakes, Continue, CatchUpBurst, GoLive,
          FinishRecording, SeeDisconnect, EndLive, EndAt, CatchUpToDone, CatchUpToBurst,
          ReplayBatch, ReplayEnd, PausedTick, Quiet, Say, SendStored, historyVars
  <2> QED
    BY <2>1, <2>2, <2>3 DEF World, ingestVars, Seen, Pending
<1> QED
  BY <1>1, <1>2

(* A handler that is catching up and has been told nothing sends information
   and batches, and goes on catching up. *)
LEMMA CatchUpSends ==
  ASSUME Inv, Numbered, Handler, mode.m = "catchUp", step # "caught", mode' # NoHandler
  PROVE  /\ mode'.m = "catchUp" /\ msgs' = msgs
         /\ \A i \in 1..Len(out') : Plain(out'[i])
<1> USE DEF Goto, Quiet, Flags, historyVars
<1>0. ~Return
  BY DEF Return
<1>1. CASE SendInfo
  <2>1. out' = <<InfoMsg>> /\ InfoMsg.t = "info" /\ mode' = mode /\ msgs' = msgs
    BY <1>1 DEF SendInfo, InfoMsg
  <2>2. \A i \in 1..Len(out') : out'[i] = InfoMsg
    BY <2>1
  <2> QED
    BY <2>1, <2>2 DEF Plain
<1>2. CASE Top \/ Continue
  <2>1. out' = <<>> /\ mode' = mode /\ msgs' = msgs
    BY <1>0, <1>2 DEF Top, Continue
  <2> QED
    BY <2>1
<1>3. CASE CatchUpBurst
  <2> DEFINE burst == ReadBurst(mode.pos, Burst)
  <2>1. /\ mode' = CatchUp(mode.pos + Cardinality(burst)) /\ msgs' = msgs
        /\ SendStored(burst, <<>>)
    BY <1>3 DEF CatchUpBurst
  <2>2. burst \in SUBSET DOMAIN index
    BY DEF ReadBurst
  <2>3. <<>> \in Seq({CatchUpDone})
    BY EmptySeq
  <2> HIDE DEF burst
  <2>4. \A i \in 1..Len(out') : Plain(out'[i])
    BY <2>1, <2>2, <2>3, StoredAreSent
  <2> QED
    BY <2>1, <2>4 DEF CatchUp
<1>4. ~(RevokeWakes \/ GoLive \/ FinishRecording \/ Receive \/ SeeDisconnect \/ EndLive
          \/ CatchUpToDone \/ CatchUpToBurst \/ ReplayBatch \/ ReplayEnd \/ PausedTick)
  <2>1. step = "gone" => mode.m = "live"
    BY DEF Inv, StepsOK
  <2>2. ~RevokeWakes
    BY <1>0 DEF RevokeWakes
  <2>3. ~(GoLive \/ FinishRecording \/ EndLive)
    BY <2>1 DEF GoLive, FinishRecording, EndLive
  <2>4. ~(Receive \/ SeeDisconnect \/ CatchUpToDone \/ CatchUpToBurst \/ ReplayBatch
            \/ ReplayEnd \/ PausedTick)
    BY DEF Receive, SeeDisconnect, CatchUpToDone, CatchUpToBurst, ReplayBatch, ReplayEnd,
           PausedTick
  <2> QED
    BY <2>2, <2>3, <2>4
<1> QED
  BY <1>1, <1>2, <1>3, <1>4 DEF Handler

(* A step of the handler either ends it or leaves the world alone. *)
LEMMA HandlerEnds ==
  ASSUME Handler, mode' = NoHandler, Inv, Numbered, mode # NoHandler
  PROVE  Return
BY HandlerForms
-----------------------------------------------------------------------------
(* The invariant of the page and its handler. *)

WatchingPage == page.scope = "all" /\ user = 0 /\ opens <= 1

(* Nothing stored is left to the catch-up alone. *)
Covered == \A id \in DOMAIN rows : Number(id) \in Seen

(* The handler has come to the end of the journal, or the page may have had
   it leave the catch-up. *)
Beyond ==
  \/ step = "caught" \/ mode.m \in {"live", "paused"} \/ msgs # 0
  \/ page.endedByDisconnect \/ up # <<>>

PageState ==
  /\ user \in Nat /\ opens \in Nat
  /\ up \in Seq(ClientMsg)
  /\ PageTypes(page) /\ page.send = <<>>
  /\ mode = NoHandler => step = "top" /\ up = <<>>

Watched ==
  WatchingPage =>
    /\ opens = 0 => mode = NoHandler /\ ~page.endedByDisconnect
    /\ up \in Seq({JustLive})
    /\ opens = 0 \/ mode # NoHandler => PageOK(page)
    /\ mode # NoHandler =>
         /\ delivered \subseteq ToSet(page.cache)
         /\ Beyond => Covered

PageInv == Inv /\ cuts = 0 /\ Numbered /\ PageState /\ Watched

LEMMA PageInvShows ==
  ASSUME PageInv
  PROVE  PageShowsAll
<1> SUFFICES ASSUME page.scope = "all", opens = 1, user = 0, lagged = {}, mode.m = "live",
                    Pending = {}, NEW n \in StoredNumbers
             PROVE  page.applied[n] > 0
  BY DEF PageShowsAll
<1>1. mode # NoHandler /\ WatchingPage
  BY DEF WatchingPage, NoHandler
<1>2. Beyond
  BY DEF Beyond
<1>3. PageOK(page) /\ delivered \subseteq ToSet(page.cache) /\ Covered
  BY <1>1, <1>2 DEF PageInv, Watched
<1>4. n \in Seen
  BY <1>3 DEF Covered, StoredNumbers
<1>5. n \in ToSet(page.cache)
  BY <1>3, <1>4 DEF Seen
<1> QED
  BY <1>3, <1>5 DEF PageOK

LEMMA SameNumbers ==
  ASSUME Numbered, UNCHANGED <<journalVars, ingestVars>>
  PROVE  /\ Numbered'
         /\ UNCHANGED <<cuts, rows, index, sent, unsent>>
         /\ \A id : Number(id)' = Number(id)
<1>1. UNCHANGED <<rows, index, arrived, unsent, sent, cuts>>
  BY DEF journalVars, ingestVars
<1>2. \A id : Number(id)' = Number(id)
  BY <1>1 DEF Number
<1>3. Numbered'
  BY <1>1, <1>2 DEF Numbered, EntryTs
<1> QED
  BY <1>1, <1>2, <1>3

LEMMA EmptySends == <<>> \in Seq(ClientMsg) /\ <<>> \in Seq({JustLive})
BY EmptySeq

(* A page once its messages have been taken. *)
LEMMA SentAway ==
  ASSUME NEW p, PageTypes(p)
  PROVE  LET q == [p EXCEPT !.send = <<>>]
         IN /\ PageTypes(q) /\ q.send = <<>> /\ q.scope = p.scope /\ q.cache = p.cache
            /\ q.endedByDisconnect = p.endedByDisconnect
            /\ PageOK(p) => PageOK(q)
<1> DEFINE q == [p EXCEPT !.send = <<>>]
<1>1. DOMAIN p = PageFields
  BY DEF PageTypes
<1>2. /\ DOMAIN q = DOMAIN p /\ q.send = <<>>
      /\ \A f \in PageFields : f # "send" => q[f] = p[f]
  BY <1>1 DEF PageFields
<1> HIDE DEF q
<1>3. PageTypes(q)
  BY <1>1, <1>2, EmptySends DEF PageTypes, PageFields
<1>4. PageOK(p) => PageOK(q)
  BY <1>1, <1>2, EmptySends DEF PageOK, PageFields
<1> QED
  BY <1>1, <1>2, <1>3, <1>4 DEF PageFields, q

LEMMA PageInitInv ==
  ASSUME PageInit
  PROVE  PageInv
<1>1. PICK scope \in Scopes : page = InitPage(scope)
  BY DEF PageInit
<1>2. /\ Init /\ up = <<>> /\ user = 0 /\ opens = 0
  BY DEF PageInit
<1>3. /\ mode = NoHandler /\ step = "top" /\ cuts = 0 /\ arrived = 0 /\ unsent = 0
      /\ sent = <<>> /\ DOMAIN index = {}
  BY <1>2 DEF Init, JournalInit
<1>4. Numbered
  <2>1. 0 \in 0..MaxBatches /\ 0 \in 0..0
    BY ListedFacts
  <2>2. <<>> \in Seq(Listed)
    BY EmptySeq
  <2> QED
    BY <1>3, <2>1, <2>2 DEF Numbered
<1>5. /\ DOMAIN page = PageFields /\ page.send = <<>> /\ page.cache = <<>>
      /\ page.known = {} /\ page.applied = Unapplied /\ page.logLast = None
      /\ page.scope = scope /\ page.preloading = FALSE /\ page.endedByDisconnect = FALSE
      /\ page.canGoLive = TRUE /\ page.paused = FALSE
  BY <1>1 DEF InitPage, PageFields
<1>6. <<>> \in Seq(Listed)
  BY EmptySeq
<1>7. PageState
  <2>1. PageTypes(page)
    BY <1>5, <1>6, EmptySends DEF PageTypes
  <2> QED
    BY <1>2, <1>3, <1>5, <2>1, EmptySends DEF PageState
<1>8. PageOK(page) \/ page.scope # "all"
  <2>1. Unapplied \in [Listed -> 0..2]
    BY DEF Unapplied, Listed
  <2>2. ToSet(<<>>) = {}
    BY DEF ToSet
  <2> QED
    BY <1>5, <1>6, <2>1, <2>2, EmptySends DEF PageOK
<1>9. Watched
  BY <1>2, <1>3, <1>5, <1>8, EmptySends DEF Watched, WatchingPage
<1>10. Inv
  BY <1>2, InitInv
<1> QED
  BY <1>3, <1>4, <1>7, <1>9, <1>10 DEF PageInv

(* The handler has ended, or the page has left: the socket is closed. *)
LEMMA ClosedStep ==
  ASSUME PageInv, mode # NoHandler, Return, page' = OnClose(page), up' = <<>>,
         UNCHANGED <<user, opens>>
  PROVE  PageInv'
<1>1. Inv'
  BY ReturnStep DEF PageInv
<1>2. mode' = NoHandler /\ step' = "top" /\ UNCHANGED <<journalVars, ingestVars>>
  BY DEF Return
<1>3. Numbered' /\ cuts' = 0
  BY <1>2, SameNumbers DEF PageInv
<1>4. PageTypes(page') /\ page'.send = <<>> /\ page'.scope = page.scope
  <2>1. <<>> \in Seq(Listed) /\ PageTypes(page) /\ page.send = <<>>
    BY EmptySeq DEF PageInv, PageState
  <2> QED
    BY <2>1 DEF OnClose, PageTypes, PageFields
<1>5. PageState'
  BY <1>2, <1>4, EmptySends DEF PageInv, PageState
<1>6. Watched'
  <2> SUFFICES ASSUME WatchingPage' PROVE opens' # 0
    BY <1>2, EmptySends DEF Watched
  <2>1. WatchingPage
    BY <1>4 DEF WatchingPage
  <2> QED
    BY <2>1 DEF PageInv, Watched
<1> QED
  BY <1>1, <1>3, <1>5, <1>6 DEF PageInv

(* What it sends reaches the page, which answers. *)
LEMMA ReadStep ==
  ASSUME PageInv, Handler, mode # NoHandler, mode' # NoHandler, PageReacts,
         UNCHANGED <<user, opens>>
  PROVE  PageInv'
<1> DEFINE q == After(page, out')
<1>1. Inv /\ Numbered /\ PageState /\ Watched /\ cuts = 0
  BY DEF PageInv
<1>2. Inv'
  BY <1>1, StepInv DEF Next
<1>3. /\ World /\ out' \in Seq(PageMsgs)
      /\ delivered' \subseteq delivered \cup Handed(out')
  BY <1>1, HandlerSends
<1>4. /\ Numbered' /\ UNCHANGED <<cuts, rows>> /\ \A id : Number(id)' = Number(id)
  BY <1>1, <1>3, SameNumbers DEF World
<1>5. PageTypes(q) /\ q.scope = page.scope
  BY <1>1, <1>3, AfterTypes DEF PageState
<1>6. page' = [q EXCEPT !.send = <<>>] /\ up' = up \o q.send
  BY DEF PageReacts
<1>7. PageOK(page) => /\ PageOK(q)
                      /\ ToSet(page.cache) \cup Handed(out') \subseteq ToSet(q.cache)
                      /\ (\A i \in 1..Len(out') : Plain(out'[i]))
                           => /\ q.endedByDisconnect = page.endedByDisconnect
                              /\ q.send = page.send
  BY <1>3, AfterKeeps
<1> HIDE DEF q
<1>8. /\ PageTypes(page') /\ page'.send = <<>> /\ page'.scope = page.scope
      /\ page'.cache = q.cache /\ page'.endedByDisconnect = q.endedByDisconnect
      /\ PageOK(q) => PageOK(page')
  BY <1>5, <1>6, SentAway
<1>9. PageState'
  <2>1. up' \in Seq(ClientMsg)
    BY <1>1, <1>5, <1>6, ConcatProperties DEF PageState, PageTypes
  <2> QED
    BY <1>1, <1>8, <2>1 DEF PageState
<1>10. Watched'
  <2> SUFFICES ASSUME WatchingPage'
               PROVE  /\ opens # 0
                      /\ up' \in Seq({JustLive})
                      /\ PageOK(page')
                      /\ delivered' \subseteq ToSet(page'.cache)
                      /\ Beyond' => Covered'
    BY DEF Watched
  <2>1. WatchingPage
    BY <1>8 DEF WatchingPage
  <2>2. /\ opens # 0 /\ PageOK(page) /\ up \in Seq({JustLive})
        /\ delivered \subseteq ToSet(page.cache) /\ (Beyond => Covered)
    BY <1>1, <2>1 DEF Watched
  <2>3. PageOK(q) /\ PageOK(page')
    BY <1>7, <1>8, <2>2
  <2>4. up' \in Seq({JustLive})
    BY <1>6, <2>2, <2>3, ConcatProperties DEF PageOK
  <2>5. delivered' \subseteq ToSet(page'.cache)
    BY <1>3, <1>7, <1>8, <2>2
  <2>6. CASE Beyond
    <3>1. Seen \subseteq Seen'
      BY <1>1, HandlerSeen
    <3>2. Covered'
      BY <1>4, <2>2, <2>6, <3>1 DEF Covered
    <3> QED
      BY <2>2, <2>3, <2>4, <2>5, <3>2
  <2>7. CASE ~Beyond
    <3>1. msgs = 0 /\ step # "caught" /\ mode.m = "catchUp" /\ up = <<>>
          /\ ~page.endedByDisconnect
      BY <1>1, <2>7 DEF Beyond, Inv, WatchOK, WatchMode
    <3>2. /\ mode'.m = "catchUp" /\ msgs' = msgs
          /\ \A i \in 1..Len(out') : Plain(out'[i])
      BY <1>1, <3>1, CatchUpSends
    <3>3. q.endedByDisconnect = page.endedByDisconnect /\ q.send = <<>>
      BY <1>1, <1>7, <2>2, <3>2 DEF PageState
    <3>4. ~page'.endedByDisconnect /\ up' = <<>>
      BY <1>6, <1>8, <3>1, <3>3
    <3>5. Beyond' => step' = "caught"
      BY <3>1, <3>2, <3>4 DEF Beyond
    <3>6. step' = "caught" => Covered'
      BY <1>1, <1>2, <1>4, <3>1, <3>2 DEF Inv, WatchOK, Ahead, Covered
    <3> QED
      BY <2>2, <2>3, <2>4, <2>5, <3>5, <3>6
  <2> QED
    BY <2>6, <2>7
<1> QED
  BY <1>1, <1>2, <1>4, <1>9, <1>10 DEF PageInv

LEMMA HandlerRunsStep ==
  ASSUME PageInv, HandlerRuns
  PROVE  PageInv'
<1>1. Handler /\ UNCHANGED <<user, opens>>
  BY DEF HandlerRuns
<1>2. mode # NoHandler
  <2> SUFFICES ASSUME mode = NoHandler PROVE FALSE
    OBVIOUS
  <2>1. step = "top"
    BY DEF PageInv, PageState
  <2> QED
    BY <1>1, <2>1 DEF Handler, SendInfo, Top, RevokeWakes, Continue, CatchUpBurst, GoLive,
       FinishRecording, Receive, SeeDisconnect, EndLive, CatchUpToDone, CatchUpToBurst,
       ReplayBatch, ReplayEnd, PausedTick
<1>3. CASE mode' # NoHandler
  BY <1>1, <1>2, <1>3, ReadStep DEF HandlerRuns
<1>4. CASE mode' = NoHandler
  <2>1. page' = OnClose(page) /\ up' = <<>>
    BY <1>4 DEF HandlerRuns
  <2>2. Return
    BY <1>1, <1>2, <1>4, HandlerEnds DEF PageInv
  <2> QED
    BY <1>1, <1>2, <2>1, <2>2, ClosedStep
<1> QED
  BY <1>3, <1>4

LEMMA HandlerListensStep ==
  ASSUME PageInv, HandlerListens
  PROVE  PageInv'
<1>1. Inv /\ Numbered /\ PageState /\ Watched /\ cuts = 0
  BY DEF PageInv
<1>2. /\ up # <<>> /\ Handle(Head(up)) /\ up' = Tail(up) /\ UNCHANGED <<page, user, opens>>
  BY DEF HandlerListens
<1>3. up \in Seq(ClientMsg) /\ Head(up) \in ClientMsg /\ up' \in Seq(ClientMsg)
  BY <1>1, <1>2, HeadTailProperties DEF PageState
<1>4. Inv'
  BY <1>1, <1>2, <1>3, HandleStep
<1>5. /\ UNCHANGED <<journalVars, ingestVars, rx, delivered, lagged>>
      /\ msgs' # 0
  BY <1>1, <1>2 DEF Handle, TakeMsg, Inv, HandlerOK
<1>6. /\ Numbered' /\ UNCHANGED <<cuts, rows, sent, unsent>>
      /\ \A id : Number(id)' = Number(id)
  BY <1>1, <1>5, SameNumbers
<1>7. mode # NoHandler
  BY <1>1, <1>2 DEF PageState
<1>8. mode' # NoHandler
  <2>1. mode' = ModeAfter(Head(up), CurrentPos)
    BY <1>2 DEF Handle, TakeMsg
  <2>2. CurrentPos \in Nat
    <3>1. mode \in Modes /\ Listening /\ JournalLen \in Nat
      BY <1>1, <1>2, IndexIds DEF Inv, HandlerOK, Handle
    <3>2. mode.m \in {"catchUp", "catchUpTo", "replay", "live", "paused"}
      BY <1>1, <3>1 DEF Listening, Inv, StepsOK
    <3> QED
      BY <3>1, <3>2, ModeFields DEF CurrentPos
  <2>3. mode'.m # "none"
    BY <1>1, <1>3, <2>1, <2>2, ModeAfterFacts DEF Inv
  <2> QED
    BY <2>3, ModeFacts
<1>9. PageState'
  BY <1>1, <1>2, <1>3, <1>8 DEF PageState
<1>10. Watched'
  <2> SUFFICES ASSUME WatchingPage'
               PROVE  /\ opens # 0
                      /\ up' \in Seq({JustLive})
                      /\ PageOK(page)
                      /\ delivered' \subseteq ToSet(page.cache)
                      /\ Covered'
    BY <1>2, <1>8 DEF Watched
  <2>1. WatchingPage
    BY <1>2 DEF WatchingPage
  <2>2. /\ opens # 0 /\ PageOK(page) /\ up \in Seq({JustLive})
        /\ delivered \subseteq ToSet(page.cache) /\ (Beyond => Covered)
    BY <1>1, <1>7, <2>1 DEF Watched
  <2>3. up' \in Seq({JustLive})
    BY <1>2, <2>2, HeadTailProperties
  <2>4. Covered
    BY <1>2, <2>2 DEF Beyond
  <2>5. Seen' = Seen
    BY <1>5, <1>6 DEF Seen, Pending
  <2>6. Covered'
    BY <1>6, <2>4, <2>5 DEF Covered
  <2> QED
    BY <1>5, <2>2, <2>3, <2>6
<1> QED
  BY <1>1, <1>4, <1>6, <1>9, <1>10 DEF PageInv

LEMMA PageOpensStep ==
  ASSUME PageInv, PageOpens
  PROVE  PageInv'
<1>1. Inv /\ Numbered /\ PageState /\ Watched /\ cuts = 0
  BY DEF PageInv
<1>2. /\ Open /\ page' = OnOpen(page) /\ opens' = opens + 1 /\ UNCHANGED <<up, user>>
  BY DEF PageOpens
<1>3. /\ mode = NoHandler /\ mode' = CatchUp(0) /\ step' = "info" /\ msgs' = 0
      /\ delivered' = {} /\ UNCHANGED <<journalVars, ingestVars>>
  BY <1>2 DEF Open, Goto
<1>4. Inv'
  BY <1>1, <1>2, OpenStep
<1>5. Numbered' /\ cuts' = 0
  BY <1>1, <1>3, SameNumbers
<1>6. mode' # NoHandler /\ mode'.m = "catchUp"
  BY <1>3 DEF CatchUp, NoHandler
<1>7. /\ PageTypes(page') /\ page'.send = <<>> /\ page'.scope = page.scope
      /\ page'.endedByDisconnect = page.endedByDisconnect
      /\ PageOK(page) => PageOK(page')
  <2>1. PageTypes(page) /\ page.send = <<>> /\ page' = [page EXCEPT !.isLive = TRUE, !.paused = FALSE]
    BY <1>1, <1>2 DEF PageState, OnOpen
  <2> QED
    BY <2>1 DEF PageTypes, PageOK, PageFields
<1>8. PageState'
  BY <1>1, <1>2, <1>6, <1>7 DEF PageState
<1>9. Watched'
  <2> SUFFICES ASSUME WatchingPage'
               PROVE  /\ opens' # 0
                      /\ up' \in Seq({JustLive})
                      /\ PageOK(page')
                      /\ delivered' \subseteq ToSet(page'.cache)
                      /\ ~Beyond'
    BY DEF Watched
  <2>1. WatchingPage /\ opens = 0
    BY <1>1, <1>2, <1>7 DEF WatchingPage, PageState
  <2>2. PageOK(page) /\ up = <<>> /\ ~page.endedByDisconnect
    BY <1>1, <1>3, <2>1 DEF Watched, PageState
  <2>3. ~Beyond'
    BY <1>2, <1>3, <1>6, <1>7, <2>2 DEF Beyond
  <2> QED
    BY <1>2, <1>3, <1>7, <2>1, <2>2, <2>3, EmptySends
<1> QED
  BY <1>1, <1>4, <1>5, <1>8, <1>9 DEF PageInv

LEMMA PageIngestStep ==
  ASSUME PageInv, IngestActs
  PROVE  PageInv'
<1>1. Inv /\ Numbered /\ PageState /\ Watched /\ cuts = 0
  BY DEF PageInv
<1>2. /\ ClientConnects \/ ClientDrops \/ Store \/ Broadcast
      /\ UNCHANGED <<page, up, user, opens>>
  BY DEF IngestActs
<1>3. Inv' /\ cuts' = 0
  <2>1. Next
    BY <1>2 DEF Next, Environment
  <2>2. UNCHANGED cuts
    BY <1>2 DEF ClientConnects, ClientDrops, Store, Broadcast
  <2> QED
    BY <1>1, <2>1, <2>2, StepInv
<1>4. UNCHANGED <<mode, step, rx, msgs, delivered, lagged>>
  BY <1>2 DEF ClientConnects, ClientDrops, Store, Broadcast, Bystander, handlerVars,
     historyVars
<1>5. Numbered' /\ (Covered => Covered')
  <2>0. /\ arrived \in Nat /\ MaxBatches \in Nat /\ unsent \in Nat
        /\ unsent # 0 => unsent \in Listed
    BY <1>1, ListedFacts DEF Numbered, Listed
  <2>1. CASE ClientConnects \/ ClientDrops
    <3>1. UNCHANGED <<rows, index, arrived, unsent, sent>>
      BY <2>1 DEF ClientConnects, ClientDrops, journalVars
    <3>2. \A id : Number(id)' = Number(id)
      BY <3>1 DEF Number
    <3>3. Seen' = Seen
      BY <1>4, <3>1 DEF Seen, Pending
    <3> QED
      BY <1>1, <3>1, <3>2, <3>3 DEF Numbered, Covered, EntryTs
  <2>2. CASE Broadcast
    <3>1. /\ unsent # 0 /\ sent' = Append(sent, unsent) /\ unsent' = 0
          /\ UNCHANGED <<rows, index, arrived>>
      BY <2>2 DEF Broadcast, journalVars
    <3>2. \A id : Number(id)' = Number(id)
      BY <3>1 DEF Number
    <3>3. sent' \in Seq(Listed)
      BY <1>1, <2>0, <3>1, AppendProperties DEF Numbered
    <3>4. Numbered'
      BY <1>1, <2>0, <3>1, <3>2, <3>3 DEF Numbered, EntryTs
    <3>5. Seen \subseteq Seen'
      <4>1. /\ Len(sent) \in Nat /\ rx \in Nat \ {0} /\ rx <= Len(sent) + 1
            /\ Len(sent') = Len(sent) + 1 /\ sent'[Len(sent) + 1] = unsent
            /\ \A i \in 1..Len(sent) : sent'[i] = sent[i]
        BY <1>1, <2>0, <3>1, AppendProperties, LenProperties
           DEF Numbered, Inv, HandlerOK, ChannelOK
      <4>2. /\ \A p \in rx..Len(sent) : p \in rx'..Len(sent') /\ sent'[p] = sent[p]
            /\ Len(sent) + 1 \in rx'..Len(sent')
        BY <1>4, <4>1
      <4> QED
        BY <1>4, <3>1, <4>1, <4>2 DEF Seen, Pending
    <3> QED
      BY <3>1, <3>2, <3>4, <3>5 DEF Covered
  <2>3. CASE Store
    <3> DEFINE n == arrived + 1
    <3>1. /\ arrived < MaxBatches /\ unsent = 0 /\ arrived' = n /\ unsent' = n
          /\ UNCHANGED sent
          /\ \/ JournalAppend(n, {[ts |-> LogTimes[n]]})
             \/ UNCHANGED <<rows, index>>
      BY <2>3 DEF Store, journalVars
    <3>2. n \in Listed /\ n \in 0..MaxBatches /\ n \in 0..n /\ n # 0
      BY <2>0, <3>1 DEF Listed
    <3>3. Seen' = Seen \cup {n}
      BY <1>4, <3>1, <3>2 DEF Seen, Pending
    <3> HIDE DEF n
    <3>4. CASE UNCHANGED <<rows, index>>
      <4>1. \A id : Number(id)' = Number(id)
        BY <3>4 DEF Number
      <4>2. Numbered'
        BY <1>1, <3>1, <3>2, <3>4, <4>1 DEF Numbered, EntryTs
      <4> QED
        BY <3>3, <3>4, <4>1, <4>2 DEF Covered
    <3>5. CASE JournalAppend(n, {[ts |-> LogTimes[n]]})
      <4> DEFINE new == autoinc + 1
                 log == MaxLogTs({[ts |-> LogTimes[n]]})
      <4>1. /\ rows' = [i \in DOMAIN rows \cup {new} |->
                          IF i = new THEN [wall |-> n, log |-> log,
                                           batch |-> {[ts |-> LogTimes[n]]}]
                                     ELSE rows[i]]
            /\ index' = [i \in DOMAIN index \cup {new} |->
                           IF i = new THEN [wall |-> n, log |-> log] ELSE index[i]]
        BY <3>5 DEF JournalAppend, NextBatchId
      <4>2. log \in Nat
        <5>1. LogTimes[n] \in Nat
          BY <3>2, BatchTimes
        <5>2. log = LogTimes[n]
          BY <5>1 DEF MaxLogTs, LatestTs
        <5> QED
          BY <5>1, <5>2
      <4>3. new \notin DOMAIN index /\ DOMAIN rows = DOMAIN index
        BY <1>1 DEF Inv, JournalOK
      <4> HIDE DEF new, log
      <4>4. /\ DOMAIN index' = DOMAIN index \cup {new} /\ DOMAIN rows' = DOMAIN rows \cup {new}
            /\ index'[new] = [wall |-> n, log |-> log]
            /\ \A id \in DOMAIN index : index'[id] = index[id]
        BY <4>1, <4>3
      <4>5. /\ \A id \in DOMAIN index' : id = new => Number(id)' = n
            /\ \A id \in DOMAIN index :
                 Number(id)' = Number(id) /\ EntryTs(index[id])' = EntryTs(index[id])
        BY <4>4 DEF Number, EntryTs
      <4>5a. \A id \in DOMAIN index' : id = new => EntryTs(index[id])' \in Nat
        BY <3>2, <4>2, <4>4, ListedFacts DEF EntryTs
      <4>6. Numbered'
        <5>1. \A id \in DOMAIN index' : id = new \/ id \in DOMAIN index
          BY <4>4
        <5> QED
          BY <1>1, <3>1, <3>2, <4>5, <4>5a, <5>1 DEF Numbered
      <4>7. Covered => Covered'
        <5>1. \A id \in DOMAIN rows' : id \in DOMAIN index'
                                       /\ (id = new \/ id \in DOMAIN rows)
          BY <4>3, <4>4
        <5> QED
          BY <3>3, <4>3, <4>5, <5>1 DEF Covered
      <4> QED
        BY <4>6, <4>7
    <3> QED
      BY <3>1, <3>4, <3>5
  <2> QED
    BY <1>2, <2>1, <2>2, <2>3
<1>6. PageState'
  BY <1>1, <1>2, <1>4 DEF PageState
<1>7. Watched'
  <2>1. Beyond' = Beyond /\ WatchingPage' = WatchingPage
    BY <1>2, <1>4 DEF Beyond, WatchingPage
  <2> QED
    BY <1>1, <1>2, <1>4, <1>5, <2>1 DEF Watched
<1> QED
  BY <1>3, <1>5, <1>6, <1>7 DEF PageInv

LEMMA UserActsStep ==
  ASSUME PageInv, UserActs
  PROVE  PageInv'
<1>1. Inv /\ Numbered /\ PageState /\ cuts = 0
  BY DEF PageInv
<1>2. /\ mode # NoHandler /\ user' = user + 1 /\ UNCHANGED <<vars, opens>>
  BY DEF UserActs
<1>3. PICK p \in UserChoices(page) : page' = [p EXCEPT !.send = <<>>] /\ up' = up \o p.send
  BY DEF UserActs
<1>4. Inv'
  BY <1>1, <1>2, StepInv
<1>5. UNCHANGED <<mode, step, journalVars, ingestVars>>
  BY <1>2 DEF vars, handlerVars
<1>6. Numbered' /\ cuts' = 0
  BY <1>1, <1>5, SameNumbers
<1>7. PageTypes(p)
  BY <1>1, UserTypes DEF PageState
<1>8. PageTypes(page') /\ page'.send = <<>>
  BY <1>3, <1>7, SentAway
<1>9. up' \in Seq(ClientMsg)
  BY <1>1, <1>3, <1>7, ConcatProperties DEF PageState, PageTypes
<1>10. user' # 0 /\ user' \in Nat
  BY <1>1, <1>2 DEF PageState
<1>11. PageState'
  BY <1>1, <1>2, <1>5, <1>8, <1>9, <1>10 DEF PageState
<1>12. Watched'
  BY <1>10 DEF Watched, WatchingPage
<1> QED
  BY <1>4, <1>6, <1>11, <1>12 DEF PageInv

LEMMA PageStepInv ==
  ASSUME PageInv, [PageNext]_pageVars
  PROVE  PageInv'
<1>1. CASE PageCloses
  BY <1>1, ClosedStep DEF PageCloses, PageLeaves
<1>2. CASE PageNext
  BY <1>1, <1>2, HandlerRunsStep, HandlerListensStep, PageOpensStep, PageIngestStep,
     UserActsStep DEF PageNext
<1>3. CASE UNCHANGED pageVars
  <2>1. UNCHANGED <<vars, page, up, user, opens>>
    BY <1>3 DEF pageVars
  <2>2. Inv'
    BY <2>1, StepInv DEF PageInv
  <2>3. UNCHANGED <<mode, step, rx, msgs, delivered, lagged, journalVars, ingestVars>>
    BY <2>1 DEF vars, handlerVars, historyVars
  <2>4. /\ Numbered' /\ UNCHANGED <<cuts, rows, sent, unsent>>
        /\ \A id : Number(id)' = Number(id)
    BY <2>3, SameNumbers DEF PageInv
  <2>5. PageState'
    BY <2>1, <2>3 DEF PageInv, PageState
  <2>6. Beyond' = Beyond /\ Covered' = Covered /\ WatchingPage' = WatchingPage
    BY <2>1, <2>3, <2>4 DEF Beyond, Covered, WatchingPage, Seen, Pending
  <2>7. Watched'
    BY <2>1, <2>3, <2>6 DEF PageInv, Watched
  <2> QED
    BY <2>2, <2>4, <2>5, <2>7 DEF PageInv
<1> QED
  BY <1>2, <1>3

(* The invariant of the viewer holds with the page it has, whatever the page
   and its user send, and so does what relates the two. *)
THEOREM PageInvariant == PageSpec => []PageInv
<1>1. PageInit => PageInv
  BY PageInitInv
<1>2. PageInv /\ [PageNext]_pageVars => PageInv'
  BY PageStepInv
<1> QED
  BY <1>1, <1>2, PTL DEF PageSpec

(* A page of the whole stream whose user only watches shows every stored
   batch, on its first connection, once the handler has nothing left to send:
   what was broadcast while it caught up, what it was told of an end and a
   return, and the rebuild that follows, lose nothing. *)
THEOREM PagesShowAll == PageSpec => []PageShowsAll
<1>1. PageInv => PageShowsAll
  BY PageInvShows
<1> QED
  BY <1>1, PageInvariant, PTL
=============================================================================
