------------------------------ MODULE LogProofs ------------------------------
(***************************************************************************)
(* Proofs about the lines of the log and what is made of them: the parser's *)
(* marks, the alerts of the trigger engine, the fights that the log         *)
(* generator invents.                                                       *)
(***************************************************************************)
EXTENDS Marks, Alerts, Encounter, OrderLemmas, SequenceTheorems

-----------------------------------------------------------------------------
(* The parser's marks *)

Zones == Tiered \cup Plain
Instance == DOMAIN made

MarksType ==
  /\ now \in Nat
  /\ pendingInstance \in [zone : Zones, num : Nat, at : Nat] \cup {None}
  /\ \E k \in 0 .. MaxInstances : made \in [1 .. k -> Zones]
  /\ inside \in Instance \cup {0}
  /\ unseen \in Instance \cup {0}

(* Until the new instance is entered its number waits, and no zone counts as
   the current one. *)
NewIsPending ==
  /\ unseen # 0 => /\ pendingInstance # None /\ pendingInstance.num = unseen
                   /\ pendingInstance.zone = made[unseen]
  /\ pendingInstance # None => current = None

(* A tiered instance entered last is the current zone, unless a newer one
   was made since. *)
InsideIsCurrent ==
  inside # 0 /\ unseen = 0 /\ made[inside] \in Tiered =>
    pendingInstance = None /\ current = made[inside]

MarksInv == MarksType /\ NewIsPending /\ InsideIsCurrent

LEMMA MarksInitInv == MarksInit => MarksInv
  <1> SUFFICES ASSUME MarksInit PROVE MarksInv
    OBVIOUS
  <1>1. made \in [1 .. 0 -> Zones]
    BY DEF MarksInit
  <1> QED
    BY <1>1, MarksAssumption
       DEF MarksInit, MarksInv, MarksType, NewIsPending, InsideIsCurrent

(* Facts about the lines that touch no instance. *)
LEMMA MarksQuiet ==
  ASSUME MarksInv, UNCHANGED <<pendingInstance, current, made, inside, unseen>>, now' \in Nat
  PROVE  MarksInv'
  BY DEF MarksInv, MarksType, NewIsPending, InsideIsCurrent, Instance

LEMMA MarksCreate ==
  ASSUME MarksInv, NEW wait \in Waits, NEW zone \in Zones, NEW own \in BOOLEAN,
         CreateInstance(wait, zone, own)
  PROVE  MarksInv'
  <1> DEFINE n == CHOOSE k \in Numbers : k \notin DOMAIN made
                    /\ \A j \in Numbers : j < k => j \in DOMAIN made
  <1>1. PICK k \in 0 .. MaxInstances : made \in [1 .. k -> Zones]
    BY DEF MarksInv, MarksType
  <1>2. n \in Numbers /\ n \notin DOMAIN made /\ n = k + 1 /\ k + 1 \in 0 .. MaxInstances
    <2>1. k # MaxInstances
      BY <1>1 DEF CreateInstance, Numbers
    <2>2. k + 1 \in Numbers
      BY <2>1, MarksAssumption DEF Numbers
    <2>3. k + 1 \notin DOMAIN made /\ \A j \in Numbers : j < k + 1 => j \in DOMAIN made
      BY <1>1, MarksAssumption DEF Numbers
    <2>4. \A j \in Numbers : (j \notin DOMAIN made /\ \A i \in Numbers : i < j => i \in DOMAIN made)
            => j = k + 1
      BY <1>1, <2>2, MarksAssumption DEF Numbers
    <2> QED BY <2>2, <2>3, <2>4, <1>1, MarksAssumption DEF Numbers
  <1>3. /\ now' = now + wait /\ now' \in Nat
        /\ made' = [j \in DOMAIN made \cup {n} |-> IF j = n THEN zone ELSE made[j]]
        /\ IF own
           THEN /\ pendingInstance' = [zone |-> zone, num |-> n, at |-> now']
                /\ current' = None /\ unseen' = n
           ELSE UNCHANGED <<pendingInstance, current, unseen>>
        /\ UNCHANGED inside
    BY MarksAssumption DEF CreateInstance, Tick, CurrentAfterCreate, MarksInv, MarksType
  <1> HIDE DEF n
  <1>4. made' \in [1 .. (k + 1) -> Zones] /\ DOMAIN made' = DOMAIN made \cup {n}
    BY <1>1, <1>2, <1>3
  <1>5. \A j \in DOMAIN made : made'[j] = made[j]
    BY <1>2, <1>3
  <1>6. made'[n] = zone /\ n \in Nat /\ n # 0
    BY <1>2, <1>3, MarksAssumption DEF Numbers
  <1>7. pendingInstance' \in [zone : Zones, num : Nat, at : Nat] \cup {None}
    BY <1>3, <1>6 DEF MarksInv, MarksType
  <1>8. MarksType'
    BY <1>2, <1>3, <1>4, <1>7 DEF MarksInv, MarksType, Instance
  <1>9. NewIsPending'
    <2>1. CASE own
      <3>1. pendingInstance' = [zone |-> zone, num |-> n, at |-> now']
        BY <2>1, <1>3
      <3>2. pendingInstance' \in [zone : Zones, num : Nat, at : Nat]
        BY <3>1, <1>3, <1>6
      <3> QED BY <2>1, <3>1, <3>2, <1>3, <1>6, MarksAssumption DEF NewIsPending, Zones
    <2>2. CASE ~own
      BY <2>2, <1>3, <1>5 DEF NewIsPending, MarksInv, MarksType, Instance
    <2> QED BY <2>1, <2>2
  <1>10. InsideIsCurrent'
    <2>1. CASE own
      BY <2>1, <1>3, <1>6 DEF InsideIsCurrent
    <2>2. CASE ~own
      BY <2>2, <1>3, <1>5 DEF InsideIsCurrent, MarksInv, MarksType, Instance
    <2> QED BY <2>1, <2>2
  <1> QED BY <1>8, <1>9, <1>10 DEF MarksInv

LEMMA MarksEnterInstance ==
  ASSUME MarksInv, NEW wait \in Waits, NEW n \in DOMAIN made, Enter(wait, n, made[n])
  PROVE  MarksInv'
  <1>1. n # 0 /\ made[n] \in Zones
    BY DEF MarksInv, MarksType
  <1>2. now' \in Nat /\ UNCHANGED made /\ inside' = n /\ unseen' = 0
    BY <1>1, MarksAssumption DEF Enter, Tick, MarksInv, MarksType
  <1>3. /\ pendingInstance' = pendingInstance \/ pendingInstance' = None
        /\ pendingInstance' # None => current' = current
        /\ made[n] \in Tiered => current' = made[n]
        /\ (made[n] \in Tiered /\ pendingInstance' # None) => current = made[n]
    BY DEF Enter, EnterTiered, EnterPlain
  <1>4. MarksType'
    BY <1>2, <1>3 DEF MarksInv, MarksType, Instance
  <1>5. NewIsPending'
    BY <1>2, <1>3 DEF MarksInv, NewIsPending
  <1>6. InsideIsCurrent'
    BY <1>1, <1>2, <1>3, MarksAssumption DEF MarksInv, NewIsPending, InsideIsCurrent
  <1> QED BY <1>4, <1>5, <1>6 DEF MarksInv

LEMMA MarksEnterWorld ==
  ASSUME MarksInv, NEW wait \in Waits, EnterWorld(wait)
  PROVE  MarksInv'
  <1>1. PICK zone \in Plain : (unseen # 0 => made[unseen] # zone) /\ Enter(wait, 0, zone)
    BY DEF EnterWorld
  <1>2. now' \in Nat /\ UNCHANGED <<made, inside, unseen>>
    BY <1>1, MarksAssumption DEF Enter, Tick, MarksInv, MarksType
  <1>3. EnterPlain(zone)
    BY <1>1, MarksAssumption DEF Enter
  <1>4. CASE Confirms(zone)
    <2>1. unseen = 0 /\ pendingInstance # None
      BY <1>1, <1>4 DEF Confirms, MarksInv, NewIsPending
    <2>2. pendingInstance' = None
      BY <1>3, <1>4 DEF EnterPlain
    <2>3. InsideIsCurrent'
      BY <1>2, <2>1 DEF MarksInv, InsideIsCurrent
    <2>4. MarksType' /\ NewIsPending'
      BY <1>2, <2>1, <2>2 DEF MarksInv, MarksType, NewIsPending, Instance
    <2> QED BY <2>3, <2>4 DEF MarksInv
  <1>5. CASE ~Confirms(zone)
    BY <1>2, <1>3, <1>5, MarksQuiet DEF EnterPlain
  <1> QED BY <1>4, <1>5

LEMMA MarksStep == MarksInv /\ [MarksNext]_marksVars => MarksInv'
  <1> SUFFICES ASSUME MarksInv, [MarksNext]_marksVars PROVE MarksInv'
    OBVIOUS
  <1>1. CASE UNCHANGED marksVars
    BY <1>1, MarksQuiet DEF marksVars, MarksInv, MarksType
  <1>2. ASSUME NEW wait \in Waits,
               \/ EnterInstance(wait) \/ EnterWorld(wait)
               \/ \E zone \in Tiered \cup Plain, own \in BOOLEAN : CreateInstance(wait, zone, own)
        PROVE  MarksInv'
    BY <1>2, MarksCreate, MarksEnterInstance, MarksEnterWorld DEF EnterInstance, Zones
  <1>3. ASSUME NEW wait \in Waits,
               \/ Stun(wait)
               \/ \E own \in BOOLEAN, call \in {"raid_start", "raid_end", None} : Chat(wait, own, call)
        PROVE  MarksInv'
    <2>1. now' \in Nat /\ UNCHANGED <<pendingInstance, current, made, inside, unseen>>
      BY <1>3, MarksAssumption DEF Stun, Chat, Tick, MarksInv, MarksType
    <2> QED BY <2>1, MarksQuiet
  <1> QED BY <1>1, <1>2, <1>3 DEF MarksNext

(* Arrival in one's own new instance is marked with its number, a return to
   the instance one was in is not (parser.rs, patterns.rs), whatever is
   created, entered and said in between. *)
THEOREM ArrivalsAreMarked == MarksSpec => MarksAreArrivals
  <1>1. ASSUME MarksInv, NEW wait \in Waits, EnterInstance(wait)
        PROVE  /\ (unseen # 0 /\ inside' = unseen /\ now' - pendingInstance.at < 600)
                    => out' = Mark("instance", unseen)
               /\ (inside' = inside /\ unseen = 0 /\ pendingInstance = None) => out' = None
    <2>1. PICK n \in DOMAIN made : Enter(wait, n, made[n])
      BY <1>1 DEF EnterInstance
    <2>2. n # 0 /\ inside' = n /\ made[n] \in Zones
      BY <2>1, <1>1 DEF Enter, MarksInv, MarksType
    <2>3. ASSUME unseen # 0, inside' = unseen, now' - pendingInstance.at < 600
          PROVE  out' = Mark("instance", unseen)
      <3>1. Confirms(made[n]) /\ pendingInstance.num = unseen /\ current # made[n]
        BY <2>2, <2>3, <1>1, MarksAssumption DEF Confirms, MarksInv, NewIsPending, Zones
      <3> QED BY <3>1, <2>1 DEF Enter, EnterTiered, EnterPlain
    <2>4. ASSUME inside' = inside, unseen = 0, pendingInstance = None
          PROVE  out' = None
      BY <2>1, <2>2, <2>4, <1>1
         DEF MarksInv, InsideIsCurrent, Enter, EnterTiered, EnterPlain, Confirms
    <2> QED BY <2>3, <2>4
  <1>2. MarksInv /\ [MarksNext]_marksVars =>
          [\A wait \in Waits : EnterInstance(wait) =>
             /\ (unseen # 0 /\ inside' = unseen /\ now' - pendingInstance.at < 600)
                  => out' = Mark("instance", unseen)
             /\ (inside' = inside /\ unseen = 0 /\ pendingInstance = None) => out' = None]_marksVars
    BY <1>1
  <1> QED BY <1>2, MarksInitInv, MarksStep, PTL DEF MarksSpec, MarksAreArrivals

-----------------------------------------------------------------------------
(* Sequences with a member taken out *)

LEMMA RemoveIs ==
  ASSUME NEW seq, IsSequence(seq), NEW i \in DOMAIN seq
  PROVE  IsSequence(RemoveAt(seq, i)) /\ Range(RemoveAt(seq, i)) \subseteq Range(seq)
  <1>1. /\ Len(seq) \in Nat /\ DOMAIN seq = 1 .. Len(seq) /\ i \in 1 .. Len(seq)
        /\ \A k \in DOMAIN seq : seq[k] \in Range(seq)
    BY SequenceIs
  <1>2. ASSUME NEW a \in 1 .. Len(seq) + 1, NEW b \in 0 .. Len(seq)
        PROVE  IsSequence(SubSeq(seq, a, b)) /\ Range(SubSeq(seq, a, b)) \subseteq Range(seq)
    <2> DEFINE q == SubSeq(seq, a, b)
    <2>1. a \in Int /\ b \in Int /\ \A k \in a .. b : seq[k] \in Range(seq)
      BY <1>1
    <2>2. q \in Seq(Range(seq))
      BY <2>1, SubSeqProperties
    <2>3. Len(q) \in Nat /\ q \in [1 .. Len(q) -> Range(seq)]
      BY <2>2, LenProperties
    <2> HIDE DEF q
    <2>4. DOMAIN q = 1 .. Len(q) /\ q = [k \in 1 .. Len(q) |-> q[k]] /\ Range(q) \subseteq Range(seq)
      BY <2>3 DEF Range
    <2> QED BY <2>3, <2>4, ListIsSequence DEF q
  <1>3. RemoveAt(seq, i) = SubSeq(seq, 1, i - 1) \o SubSeq(seq, i + 1, Len(seq))
    BY DEF RemoveAt
  <1>4. /\ 1 \in 1 .. Len(seq) + 1 /\ i - 1 \in 0 .. Len(seq)
        /\ i + 1 \in 1 .. Len(seq) + 1 /\ Len(seq) \in 0 .. Len(seq)
    BY <1>1
  <1>5. /\ IsSequence(SubSeq(seq, 1, i - 1)) /\ Range(SubSeq(seq, 1, i - 1)) \subseteq Range(seq)
        /\ IsSequence(SubSeq(seq, i + 1, Len(seq))) /\ Range(SubSeq(seq, i + 1, Len(seq))) \subseteq Range(seq)
    BY <1>2, <1>4
  <1> QED BY <1>3, <1>5, ConcatIs

-----------------------------------------------------------------------------
(* Alerts, in sequences *)

(* NumbersOf but for the placeholder's tell the members of a sequence apart. *)
Distinct(seq) == \A i, j \in DOMAIN seq : seq[i].n = seq[j].n /\ seq[i].n # 0 => i = j

LEMMA ConcatIsDistinct ==
  ASSUME NEW seq \in Seq(AnAlert), NEW t \in Seq(AnAlert)
  PROVE  /\ seq \o t \in Seq(AnAlert)
         /\ ToSet(seq \o t) = ToSet(seq) \cup ToSet(t)
         /\ Distinct(seq) /\ Distinct(t)
            /\ (\A x \in ToSet(seq), y \in ToSet(t) : x.n = y.n => x.n = 0)
            => Distinct(seq \o t)
  <1>1. /\ seq \o t \in Seq(AnAlert) /\ Len(seq \o t) = Len(seq) + Len(t)
        /\ \A i \in 1 .. Len(seq) + Len(t) :
             (seq \o t)[i] = IF i <= Len(seq) THEN seq[i] ELSE t[i - Len(seq)]
    BY ConcatProperties
  <1>2. /\ Len(seq) \in Nat /\ Len(t) \in Nat /\ DOMAIN seq = 1 .. Len(seq) /\ DOMAIN t = 1 .. Len(t)
        /\ DOMAIN (seq \o t) = 1 .. Len(seq) + Len(t)
    BY <1>1, LenProperties
  <1> DEFINE u == seq \o t
  <1>3. \A i \in DOMAIN u : \/ i \in DOMAIN seq /\ u[i] = seq[i]
                            \/ i > Len(seq) /\ i - Len(seq) \in DOMAIN t /\ u[i] = t[i - Len(seq)]
    BY <1>1, <1>2
  <1>4. \A i \in DOMAIN seq : i \in DOMAIN u /\ u[i] = seq[i]
    BY <1>1, <1>2
  <1>5. \A i \in DOMAIN t : i + Len(seq) \in DOMAIN u /\ u[i + Len(seq)] = t[i]
    BY <1>1, <1>2
  <1>6. ToSet(u) = ToSet(seq) \cup ToSet(t)
    <2> HIDE DEF u
    <2> QED BY <1>3, <1>4, <1>5 DEF ToSet
  <1>7. ASSUME Distinct(seq), Distinct(t),
               \A x \in ToSet(seq), y \in ToSet(t) : x.n = y.n => x.n = 0,
               NEW i \in DOMAIN u, NEW j \in DOMAIN u, u[i].n = u[j].n, u[i].n # 0
        PROVE  i = j
    <2> HIDE DEF u
    <2>1. i \in Int /\ j \in Int
      BY <1>2 DEF u
    <2>2. CASE i \in DOMAIN seq /\ u[i] = seq[i] /\ j \in DOMAIN seq /\ u[j] = seq[j]
      BY <1>7, <2>2 DEF Distinct
    <2>3. CASE /\ i - Len(seq) \in DOMAIN t /\ u[i] = t[i - Len(seq)]
               /\ j - Len(seq) \in DOMAIN t /\ u[j] = t[j - Len(seq)]
      <3>1. i - Len(seq) = j - Len(seq)
        BY <1>7, <2>3 DEF Distinct
      <3> QED BY <3>1, <2>1, <1>2
    <2>4. CASE i \in DOMAIN seq /\ u[i] = seq[i] /\ j - Len(seq) \in DOMAIN t /\ u[j] = t[j - Len(seq)]
      BY <1>7, <2>4 DEF ToSet
    <2>5. CASE j \in DOMAIN seq /\ u[j] = seq[j] /\ i - Len(seq) \in DOMAIN t /\ u[i] = t[i - Len(seq)]
      BY <1>7, <2>5 DEF ToSet
    <2> QED BY <1>3, <2>2, <2>3, <2>4, <2>5
  <1> QED BY <1>1, <1>6, <1>7 DEF Distinct

(* A part of a sequence holds what was at its positions. *)
LEMMA PartFacts ==
  ASSUME NEW seq \in Seq(AnAlert), NEW S \in SUBSET DOMAIN seq
  PROVE  /\ Part(seq, S) \in Seq(AnAlert)
         /\ ToSet(Part(seq, S)) = {seq[i] : i \in S}
         /\ Distinct(seq) => Distinct(Part(seq, S))
  <1> DEFINE p == Part(seq, S)
  <1>1. IsSequence(seq) /\ \A i \in S : seq[i] \in AnAlert
    <2>1. Len(seq) \in Nat /\ DOMAIN seq = 1 .. Len(seq) /\ seq = [k \in 1 .. Len(seq) |-> seq[k]]
          /\ \A k \in DOMAIN seq : seq[k] \in AnAlert
      BY LenProperties, ElementOfSeq
    <2> QED BY <2>1, ListIsSequence
  <1>2. /\ IsSequence(p)
        /\ \A k \in DOMAIN p : \E i \in S : Rank(S, i) = k - 1 /\ p[k] = seq[i]
        /\ \A i \in S : Rank(S, i) + 1 \in DOMAIN p /\ p[Rank(S, i) + 1] = seq[i]
    BY <1>1, PartIs
  <1> HIDE DEF p
  <1>3. p \in Seq(AnAlert)
    <2>1. Len(p) \in Nat /\ DOMAIN p = 1 .. Len(p) /\ p = [k \in 1 .. Len(p) |-> p[k]]
      BY <1>2, SequenceIs
    <2>2. p \in [1 .. Len(p) -> AnAlert]
      BY <1>1, <1>2, <2>1
    <2> QED BY <2>1, <2>2, IsASeq
  <1>4. ToSet(p) = {seq[i] : i \in S}
    BY <1>2 DEF ToSet
  <1>5. ASSUME Distinct(seq), NEW k \in DOMAIN p, NEW l \in DOMAIN p, p[k].n = p[l].n, p[k].n # 0
        PROVE  k = l
    <2>1. PICK i \in S : Rank(S, i) = k - 1 /\ p[k] = seq[i]
      BY <1>2
    <2>2. PICK j \in S : Rank(S, j) = l - 1 /\ p[l] = seq[j]
      BY <1>2
    <2>3. i = j
      BY <1>5, <2>1, <2>2 DEF Distinct
    <2>4. k \in Int /\ l \in Int /\ k - 1 = l - 1
      BY <1>2, <2>1, <2>2, <2>3, SequenceIs
    <2> QED BY <2>4
  <1> QED BY <1>3, <1>4, <1>5 DEF Distinct, p

-----------------------------------------------------------------------------
(* A window *)

Phases == {"none", "place", "fly", "hold", "shrink"}
AWindow == [queue : Seq(AnAlert), active : AnAlert \cup {Nothing}, phase : Phases]

(* What a window will show, and has not filed. *)
Playing(v) == IF v.active = Nothing THEN <<>> ELSE <<v.active>>
Upcoming(v) == Playing(v) \o v.queue

Proper(v) ==
  /\ v \in AWindow
  /\ v.active = Nothing <=> v.phase = "none"
  /\ v.phase = "place" => v.active = Placeholder
  /\ Distinct(Upcoming(v))

LEMMA SingleIsDistinct ==
  ASSUME NEW e \in AnAlert
  PROVE  <<e>> \in Seq(AnAlert) /\ ToSet(<<e>>) = {e} /\ Distinct(<<e>>)
  BY DEF ToSet, Distinct

LEMMA LineFacts ==
  ASSUME NEW v \in AWindow
  PROVE  /\ Playing(v) \in Seq(AnAlert)
         /\ Upcoming(v) \in Seq(AnAlert)
         /\ ToSet(Upcoming(v)) = ToSet(v.queue) \cup (IF v.active = Nothing THEN {} ELSE {v.active})
  <1>1. v.queue \in Seq(AnAlert) /\ v.active \in AnAlert \cup {Nothing}
    BY DEF AWindow
  <1>2. /\ Playing(v) \in Seq(AnAlert)
        /\ ToSet(Playing(v)) = IF v.active = Nothing THEN {} ELSE {v.active}
    BY <1>1, SingleIsDistinct DEF Playing, ToSet
  <1>3. ToSet(Upcoming(v)) = ToSet(Playing(v)) \cup ToSet(v.queue) /\ Upcoming(v) \in Seq(AnAlert)
    BY <1>1, <1>2, ConcatIsDistinct DEF Upcoming
  <1> QED BY <1>2, <1>3

(* An alert that comes in waits its turn or takes it, unless it is ambient. *)
LEMMA TakeFacts ==
  ASSUME NEW v, Proper(v), NEW e \in AnAlert, \A x \in ToSet(Upcoming(v)) : x.n # e.n
  PROVE  /\ Proper(Take(v, e))
         /\ \/ ToSet(Upcoming(Take(v, e))) = ToSet(Upcoming(v)) \cup {e}
            \/ e.urgency = "ambient" /\ ToSet(Upcoming(Take(v, e))) = ToSet(Upcoming(v))
  <1>1. /\ v \in AWindow /\ v.queue \in Seq(AnAlert) /\ v.active \in AnAlert \cup {Nothing}
        /\ Playing(v) \in Seq(AnAlert) /\ Upcoming(v) \in Seq(AnAlert) /\ Distinct(Upcoming(v))
        /\ <<e>> \in Seq(AnAlert) /\ ToSet(<<e>>) = {e} /\ Distinct(<<e>>)
    BY LineFacts, SingleIsDistinct DEF Proper, AWindow
  <1>2. CASE e.urgency = "emergency"
    <2> DEFINE q == <<e>> \o Playing(v) \o v.queue
    <2>1. Take(v, e) = [queue |-> q, active |-> Nothing, phase |-> "none"]
      BY <1>1, <1>2 DEF Take, Interrupt, AWindow, Playing
    <2>2. q = <<e>> \o Upcoming(v)
      <3>1. \A x, y, z \in Seq(AnAlert) : (x \o y) \o z = x \o (y \o z)
        BY ConcatAssociative
      <3> QED BY <1>1, <3>1 DEF Upcoming
    <2>3. q \in Seq(AnAlert) /\ ToSet(q) = {e} \cup ToSet(Upcoming(v)) /\ Distinct(q)
      <3>1. \A x \in ToSet(<<e>>), y \in ToSet(Upcoming(v)) : x.n # y.n
        BY <1>1
      <3> QED BY <1>1, <2>2, <3>1, ConcatIsDistinct
    <2> HIDE DEF q
    <2>4. Upcoming(Take(v, e)) = q
      BY <2>1, <2>3, ConcatEmptySeq DEF Upcoming, Playing
    <2> QED BY <2>1, <2>3, <2>4 DEF Proper, AWindow, Phases
  <1>3. CASE e.urgency # "emergency" /\ TooLate(v, e)
    BY <1>3 DEF Take, TooLate
  <1>4. CASE e.urgency # "emergency" /\ ~TooLate(v, e)
    <2>1. Take(v, e) = [v EXCEPT !.queue = Append(v.queue, e)]
      BY <1>4 DEF Take
    <2>2. Append(v.queue, e) = v.queue \o <<e>> /\ Append(v.queue, e) \in Seq(AnAlert)
      BY <1>1, AppendIsConcat
    <2>3. Upcoming(Take(v, e)) = Upcoming(v) \o <<e>>
      <3>1. \A x, y, z \in Seq(AnAlert) : (x \o y) \o z = x \o (y \o z)
        BY ConcatAssociative
      <3>2. Upcoming(Take(v, e)) = Playing(v) \o (v.queue \o <<e>>)
        BY <1>1, <2>1, <2>2 DEF Upcoming, Playing, AWindow
      <3> QED BY <1>1, <3>1, <3>2 DEF Upcoming
    <2>4. ToSet(Upcoming(Take(v, e))) = ToSet(Upcoming(v)) \cup {e}
      BY <1>1, <2>3, ConcatIsDistinct
    <2>5. Distinct(Upcoming(Take(v, e)))
      <3>1. \A x \in ToSet(Upcoming(v)), y \in ToSet(<<e>>) : x.n # y.n
        BY <1>1
      <3>2. Distinct(Upcoming(v) \o <<e>>)
        BY <1>1, <3>1, ConcatIsDistinct
      <3> QED BY <2>3, <3>2
    <2>6. /\ Take(v, e) \in AWindow
          /\ Take(v, e).active = v.active /\ Take(v, e).phase = v.phase
      BY <1>1, <2>1, <2>2 DEF AWindow
    <2> QED BY <2>4, <2>5, <2>6, <1>1 DEF Proper
  <1> QED BY <1>2, <1>3, <1>4

(* Taking over what waits in a queue, one alert after the other. *)
LEMMA DrainedIs ==
  ASSUME NEW w, queue[Source(w)] \in Seq(AnAlert)
  PROVE  \E g : /\ g[0] = win[w] /\ Drained(w) = g[Len(queue[Source(w)])]
               /\ \A i \in 1 .. Len(queue[Source(w)]) : g[i] = Take(g[i - 1], queue[Source(w)][i])
  <1> DEFINE q == queue[Source(w)]
             n == Len(q)
             Steps(g, m) == g = [i \in 0 .. m |-> IF i = 0 THEN win[w] ELSE Take(g[i - 1], q[i])]
             after == CHOOSE g : Steps(g, n)
  <1>1. n \in Nat /\ DOMAIN q = 1 .. n /\ \A i \in 1 .. n : q[i] \in AnAlert
    BY LenProperties, ElementOfSeq
  <1>2. Drained(w) = after[n]
    BY DEF Drained
  <1>3. Steps(after, n)
    <2> DEFINE T == {m \in 0 .. n : \E g : Steps(g, m)}
    <2>1. 0 \in T
      <3>1. Steps([i \in 0 .. 0 |-> win[w]], 0)
        OBVIOUS
      <3>2. 0 \in 0 .. n
        BY <1>1
      <3> HIDE DEF Steps
      <3> QED BY <3>1, <3>2
    <2>2. ASSUME NEW m \in 1 .. n, m - 1 \in T PROVE m \in T
      <3>1. PICK g : Steps(g, m - 1)
        BY <2>2
      <3> DEFINE h == [i \in 0 .. m |-> IF i = m THEN Take(g[m - 1], q[m]) ELSE g[i]]
      <3>2. \A i \in 0 .. m - 1 : g[i] = IF i = 0 THEN win[w] ELSE Take(g[i - 1], q[i])
        BY <3>1
      <3>3. \A i \in 0 .. m : h[i] = IF i = 0 THEN win[w] ELSE Take(h[i - 1], q[i])
        <4> SUFFICES ASSUME NEW i \in 0 .. m
                     PROVE  h[i] = IF i = 0 THEN win[w] ELSE Take(h[i - 1], q[i])
          OBVIOUS
        <4>1. CASE i = m
          <5>1. i # 0 /\ i - 1 \in 0 .. m /\ i - 1 # m
            BY <4>1, <1>1
          <5> QED BY <4>1, <5>1
        <4>2. CASE i # m
          <5>1. i \in 0 .. m - 1 /\ (i # 0 => i - 1 \in 0 .. m /\ i - 1 # m)
            BY <4>2, <1>1
          <5> QED BY <4>2, <5>1, <3>2
        <4> QED BY <4>1, <4>2
      <3>4. Steps(h, m)
        BY <3>3
      <3>5. m \in 0 .. n
        BY <1>1
      <3> QED BY <3>4, <3>5
    <2>3. n \in T
      <3>1. n \in Nat /\ n \in 0 .. n /\ \A m \in 1 .. n : m - 1 \in T => m \in T
        BY <1>1, <2>2
      <3> HIDE DEF T, n
      <3> QED BY <2>1, <3>1, InductionUpTo
    <2> QED BY <2>3
  <1> HIDE DEF after
  <1>4. /\ after[0] = win[w]
        /\ \A i \in 1 .. n : after[i] = Take(after[i - 1], q[i])
    BY <1>3, <1>1
  <1> QED BY <1>2, <1>4

LEMMA DrainedFacts ==
  ASSUME NEW w \in Windows, Proper(win[w]), queue[Source(w)] \in Seq(AnAlert),
         Distinct(queue[Source(w)]), \A e \in ToSet(queue[Source(w)]) : e.n # 0,
         \A x \in ToSet(Upcoming(win[w])), e \in ToSet(queue[Source(w)]) : x.n # e.n
  PROVE  /\ Proper(Drained(w))
         /\ ToSet(Upcoming(win[w])) \subseteq ToSet(Upcoming(Drained(w)))
         /\ ToSet(Upcoming(Drained(w))) \subseteq ToSet(Upcoming(win[w])) \cup ToSet(queue[Source(w)])
         /\ \A e \in ToSet(queue[Source(w)]) :
              e \in ToSet(Upcoming(Drained(w))) \/ e.urgency = "ambient"
  <1> DEFINE q == queue[Source(w)]
             n == Len(q)
  <1>1. n \in Nat /\ DOMAIN q = 1 .. n /\ \A i \in 1 .. n : q[i] \in AnAlert /\ q[i] \in ToSet(q)
    BY LenProperties, ElementOfSeq DEF ToSet
  <1>2. PICK after : /\ after[0] = win[w] /\ Drained(w) = after[n]
                     /\ \A i \in 1 .. n : after[i] = Take(after[i - 1], q[i])
    BY DrainedIs
  <1> DEFINE Ok(i) == /\ Proper(after[i])
                      /\ ToSet(Upcoming(win[w])) \subseteq ToSet(Upcoming(after[i]))
                      /\ \A x \in ToSet(Upcoming(after[i])) :
                           x \in ToSet(Upcoming(win[w])) \/ \E j \in 1 .. i : x = q[j]
                      /\ \A j \in 1 .. i : q[j] \in ToSet(Upcoming(after[i])) \/ q[j].urgency = "ambient"
             T == {i \in 0 .. n : Ok(i)}
  <1>5. 0 \in T
    BY <1>1, <1>2
  <1>6. ASSUME NEW i \in 1 .. n, i - 1 \in T PROVE i \in T
    <2> DEFINE v == after[i - 1]
               e == q[i]
    <2>1. Ok(i - 1) /\ i \in 0 .. n /\ e \in AnAlert
      BY <1>6, <1>1
    <2>2. ASSUME NEW x \in ToSet(Upcoming(v)) PROVE x.n # e.n
      <3>1. CASE x \in ToSet(Upcoming(win[w]))
        BY <3>1, <1>1
      <3>2. ASSUME NEW j \in 1 .. i - 1, x = q[j] PROVE x.n # e.n
        <4>1. j \in 1 .. n /\ j # i
          BY <1>1
        <4> QED BY <4>1, <3>2, <1>1 DEF Distinct
      <3> QED BY <2>1, <3>1, <3>2
    <2>3. after[i] = Take(v, e)
      BY <1>2
    <2>4. /\ Proper(after[i])
          /\ \/ ToSet(Upcoming(after[i])) = ToSet(Upcoming(v)) \cup {e}
             \/ e.urgency = "ambient" /\ ToSet(Upcoming(after[i])) = ToSet(Upcoming(v))
      BY <2>1, <2>2, <2>3, TakeFacts
    <2>5. \A j \in 1 .. i : j \in 1 .. i - 1 \/ j = i
      BY <1>1
    <2>6. \A j \in 1 .. i - 1 : j \in 1 .. i
      BY <1>1
    <2>7. Ok(i)
      <3> HIDE DEF v
      <3>1. \A x \in ToSet(Upcoming(after[i])) :
              x \in ToSet(Upcoming(win[w])) \/ \E j \in 1 .. i : x = q[j]
        BY <2>1, <2>4, <2>6 DEF v
      <3>2. \A j \in 1 .. i : q[j] \in ToSet(Upcoming(after[i])) \/ q[j].urgency = "ambient"
        BY <2>1, <2>4, <2>5 DEF v
      <3> QED BY <2>1, <2>4, <3>1, <3>2 DEF v
    <2> QED BY <2>1, <2>7
  <1>7. Ok(n)
    <2>1. n \in T
      <3>1. n \in Nat /\ n \in 0 .. n /\ \A i \in 1 .. n : i - 1 \in T => i \in T
        BY <1>1, <1>6
      <3> HIDE DEF T, n
      <3> QED BY <1>5, <3>1, InductionUpTo
    <2> QED BY <2>1
  <1>8. \A e \in ToSet(q) : \E j \in 1 .. n : e = q[j]
    BY <1>1 DEF ToSet
  <1>9. Drained(w) = after[n] /\ \A j \in 1 .. n : q[j] \in ToSet(q)
    BY <1>1, <1>2
  <1> QED BY <1>7, <1>8, <1>9

-----------------------------------------------------------------------------
(* The trigger engine *)

(* What a line has fired so far: each number once, now or later. *)
FiredOnce(e) ==
  /\ DOMAIN e = {"vars", "now", "later", "fired"}
  /\ e.now \in Seq(AnAlert) /\ Distinct(e.now)
  /\ e.later \in Seq(AnAlert) /\ Distinct(e.later)
  /\ e.fired \in Nat /\ fired <= e.fired
  /\ \A x \in ToSet(e.now) \cup ToSet(e.later) : fired < x.n /\ x.n <= e.fired
  /\ \A x \in ToSet(e.now), y \in ToSet(e.later) : x.n # y.n
  /\ \A n \in fired + 1 .. e.fired : \E x \in ToSet(e.now) \cup ToSet(e.later) : x.n = n

LEMMA AppendedIsDistinct ==
  ASSUME NEW seq \in Seq(AnAlert), Distinct(seq), NEW x \in AnAlert,
         \A y \in ToSet(seq) : y.n # x.n
  PROVE  /\ Append(seq, x) \in Seq(AnAlert) /\ Distinct(Append(seq, x))
         /\ ToSet(Append(seq, x)) = ToSet(seq) \cup {x}
  <1>1. Append(seq, x) = seq \o <<x>>
    BY AppendIsConcat
  <1>2. <<x>> \in Seq(AnAlert) /\ ToSet(<<x>>) = {x} /\ Distinct(<<x>>)
    BY SingleIsDistinct
  <1>3. \A y \in ToSet(seq), z \in ToSet(<<x>>) : y.n # z.n
    BY <1>2
  <1>4. Distinct(seq \o <<x>>)
    BY <1>2, <1>3, ConcatIsDistinct
  <1>5. seq \o <<x>> \in Seq(AnAlert) /\ ToSet(seq \o <<x>>) = ToSet(seq) \cup ToSet(<<x>>)
    BY <1>2, ConcatIsDistinct
  <1> QED BY <1>1, <1>2, <1>4, <1>5

LEMMA ExecutedFacts ==
  ASSUME fired \in Nat, NEW e, FiredOnce(e), NEW a, IsAction(a), NEW caps, NEW test \in BOOLEAN
  PROVE  FiredOnce(Executed(e, a, caps, test))
  <1> DEFINE f == Executed(e, a, caps, test)
  <1>1. CASE a.kind = "store"
    <2>1. /\ DOMAIN f = DOMAIN e
          /\ f.now = e.now /\ f.later = e.later /\ f.fired = e.fired
      BY <1>1 DEF Executed, FiredOnce
    <2> HIDE DEF f
    <2> QED BY <2>1 DEF FiredOnce, f
  <1>2. CASE a.kind # "store"
    <2> DEFINE alert == Alert(e.fired + 1, a, test)
    <2>1. /\ alert \in AnAlert /\ alert.n = e.fired + 1 /\ e.fired \in Nat
          /\ a.delayed \in BOOLEAN
      BY <1>2 DEF FiredOnce, IsAction, Alert, AnAlert
    <2>2. /\ DOMAIN f = DOMAIN e
          /\ f.now = IF a.delayed THEN e.now ELSE Append(e.now, alert)
          /\ f.later = IF a.delayed THEN Append(e.later, alert) ELSE e.later
          /\ f.fired = e.fired + 1
      BY <1>2 DEF Executed, FiredOnce
    <2> HIDE DEF f, alert
    <2>3. /\ e.now \in Seq(AnAlert) /\ Distinct(e.now)
          /\ e.later \in Seq(AnAlert) /\ Distinct(e.later)
          /\ \A y \in ToSet(e.now) : y \in AnAlert /\ y.n # alert.n
          /\ \A y \in ToSet(e.later) : y \in AnAlert /\ y.n # alert.n
      <3>1. \A y \in ToSet(e.now) \cup ToSet(e.later) : y \in AnAlert
        BY ElementOfSeq, LenProperties DEF FiredOnce, ToSet
      <3>2. \A y \in AnAlert : y.n \in Nat
        BY DEF AnAlert
      <3>3. \A y \in ToSet(e.now) \cup ToSet(e.later) : y.n <= e.fired
        BY DEF FiredOnce
      <3>4. \A y \in ToSet(e.now) \cup ToSet(e.later) : y.n # alert.n
        BY <3>1, <3>2, <3>3, <2>1
      <3> QED BY <3>1, <3>4 DEF FiredOnce
    <2>4. ToSet(f.now) \cup ToSet(f.later) = ToSet(e.now) \cup ToSet(e.later) \cup {alert}
      BY <2>1, <2>2, <2>3, AppendedIsDistinct
    <2>5. /\ f.now \in Seq(AnAlert) /\ Distinct(f.now)
          /\ f.later \in Seq(AnAlert) /\ Distinct(f.later)
      BY <2>1, <2>2, <2>3, AppendedIsDistinct
    <2>6. \A x \in ToSet(f.now), y \in ToSet(f.later) : x.n # y.n
      <3>1. CASE a.delayed
        <4>1. f.now = e.now /\ ToSet(f.later) = ToSet(e.later) \cup {alert}
          BY <3>1, <2>1, <2>2, <2>3, AppendedIsDistinct
        <4> QED BY <4>1, <2>3 DEF FiredOnce
      <3>2. CASE ~a.delayed
        <4>1. f.later = e.later /\ ToSet(f.now) = ToSet(e.now) \cup {alert}
          BY <3>2, <2>1, <2>2, <2>3, AppendedIsDistinct
        <4> QED BY <4>1, <2>3 DEF FiredOnce
      <3> QED BY <3>1, <3>2
    <2>7. \A x \in ToSet(f.now) \cup ToSet(f.later) : fired < x.n /\ x.n <= f.fired
      <3>1. \A x \in ToSet(e.now) \cup ToSet(e.later) : x.n \in Nat /\ fired < x.n /\ x.n <= e.fired
        BY <2>3 DEF FiredOnce, AnAlert
      <3>2. fired <= e.fired
        BY DEF FiredOnce
      <3> QED BY <3>1, <3>2, <2>1, <2>2, <2>4
    <2>8. \A n \in fired + 1 .. f.fired : \E x \in ToSet(f.now) \cup ToSet(f.later) : x.n = n
      <3>1. \A n \in fired + 1 .. f.fired : n \in fired + 1 .. e.fired \/ n = e.fired + 1
        BY <2>1, <2>2
      <3> QED BY <3>1, <2>1, <2>4 DEF FiredOnce
    <2>9. fired <= f.fired /\ f.fired \in Nat
      BY <2>1, <2>2 DEF FiredOnce
    <2> QED BY <2>2, <2>5, <2>6, <2>7, <2>8, <2>9 DEF FiredOnce, f
  <1> QED BY <1>1, <1>2

LEMMA ExecuteFacts ==
  ASSUME fired \in Nat, NEW actions, actions \in Seq(ToSet(actions)),
         \A a \in ToSet(actions) : IsAction(a), NEW caps, NEW e, FiredOnce(e), NEW test \in BOOLEAN
  PROVE  FiredOnce(Execute(actions, caps, e, test))
  <1> DEFINE n == Len(actions)
             Steps(g, m) ==
               g = [i \in 0 .. m |-> IF i = 0 THEN e ELSE Executed(g[i - 1], actions[i], caps, test)]
             after == CHOOSE g : Steps(g, n)
  <1>1. n \in Nat /\ DOMAIN actions = 1 .. n /\ \A i \in 1 .. n : IsAction(actions[i])
    BY LenProperties DEF ToSet
  <1>2. Execute(actions, caps, e, test) = after[n]
    BY DEF Execute
  <1>3. Steps(after, n)
    <2> DEFINE T == {m \in 0 .. n : \E g : Steps(g, m)}
    <2>1. 0 \in T
      <3>1. Steps([i \in 0 .. 0 |-> e], 0)
        OBVIOUS
      <3>2. 0 \in 0 .. n
        BY <1>1
      <3> HIDE DEF Steps
      <3> QED BY <3>1, <3>2
    <2>2. ASSUME NEW m \in 1 .. n, m - 1 \in T PROVE m \in T
      <3>1. PICK g : Steps(g, m - 1)
        BY <2>2
      <3> DEFINE h == [i \in 0 .. m |->
                         IF i = m THEN Executed(g[m - 1], actions[m], caps, test) ELSE g[i]]
      <3>2. \A i \in 0 .. m - 1 :
              g[i] = IF i = 0 THEN e ELSE Executed(g[i - 1], actions[i], caps, test)
        BY <3>1
      <3>3. ASSUME NEW i \in 0 .. m
            PROVE  h[i] = IF i = 0 THEN e ELSE Executed(h[i - 1], actions[i], caps, test)
        <4>1. CASE i = m
          <5>1. i # 0 /\ i - 1 \in 0 .. m /\ i - 1 # m
            BY <4>1, <1>1
          <5> QED BY <4>1, <5>1
        <4>2. CASE i # m
          <5>1. i \in 0 .. m - 1 /\ (i # 0 => i - 1 \in 0 .. m /\ i - 1 # m)
            BY <4>2, <1>1
          <5> QED BY <4>2, <5>1, <3>2
        <4> QED BY <4>1, <4>2
      <3>4. Steps(h, m)
        BY <3>3
      <3>5. m \in 0 .. n
        BY <1>1
      <3> QED BY <3>4, <3>5
    <2>3. n \in T
      <3>1. n \in Nat /\ n \in 0 .. n /\ \A m \in 1 .. n : m - 1 \in T => m \in T
        BY <1>1, <2>2
      <3> HIDE DEF T, n
      <3> QED BY <2>1, <3>1, InductionUpTo
    <2> QED BY <2>3
  <1> HIDE DEF after
  <1>4. /\ after[0] = e
        /\ \A i \in 1 .. n : after[i] = Executed(after[i - 1], actions[i], caps, test)
    BY <1>3, <1>1
  <1> DEFINE T == {i \in 0 .. n : FiredOnce(after[i])}
  <1>5. 0 \in T
    BY <1>1, <1>4
  <1>6. ASSUME NEW i \in 1 .. n, i - 1 \in T PROVE i \in T
    BY <1>1, <1>4, <1>6, ExecutedFacts
  <1>7. n \in T
    <2>1. n \in Nat /\ n \in 0 .. n /\ \A i \in 1 .. n : i - 1 \in T => i \in T
      BY <1>1, <1>6
    <2> HIDE DEF T, n
    <2> QED BY <1>5, <2>1, InductionUpTo
  <1> QED BY <1>2, <1>7

LEMMA NothingIsFiredOnce ==
  ASSUME fired \in Nat
  PROVE  FiredOnce(NothingFired)
  BY DEF FiredOnce, NothingFired, Distinct, ToSet

LEMMA ProcessFacts ==
  ASSUME fired \in Nat, cfg \in Configs, NEW line
  PROVE  FiredOnce(Process(line))
  <1> DEFINE n == Len(cfg)
             Steps(g, m) ==
               g = [i \in 0 .. m |-> IF i = 0 THEN NothingFired ELSE Matched(g[i - 1], cfg[i], line)]
             after == CHOOSE g : Steps(g, n)
  <1>1. /\ n \in Nat /\ DOMAIN cfg = 1 .. n
        /\ \A i \in 1 .. n : /\ cfg[i].actions \in Seq(ToSet(cfg[i].actions))
                             /\ \A a \in ToSet(cfg[i].actions) : IsAction(a)
    <2>1. cfg \in Seq(ToSet(cfg))
      BY AlertsAssumption
    <2>2. n \in Nat /\ DOMAIN cfg = 1 .. n
      BY <2>1, LenProperties
    <2>3. \A i \in 1 .. n : cfg[i] \in ToSet(cfg)
      BY <2>2 DEF ToSet
    <2> QED BY <2>2, <2>3, AlertsAssumption
  <1>2. Process(line) = after[n]
    BY DEF Process
  <1>3. Steps(after, n)
    <2> DEFINE T == {m \in 0 .. n : \E g : Steps(g, m)}
    <2>1. 0 \in T
      <3>1. Steps([i \in 0 .. 0 |-> NothingFired], 0)
        OBVIOUS
      <3>2. 0 \in 0 .. n
        BY <1>1
      <3> HIDE DEF Steps
      <3> QED BY <3>1, <3>2
    <2>2. ASSUME NEW m \in 1 .. n, m - 1 \in T PROVE m \in T
      <3>1. PICK g : Steps(g, m - 1)
        BY <2>2
      <3> DEFINE h == [i \in 0 .. m |->
                         IF i = m THEN Matched(g[m - 1], cfg[m], line) ELSE g[i]]
      <3>2. \A i \in 0 .. m - 1 :
              g[i] = IF i = 0 THEN NothingFired ELSE Matched(g[i - 1], cfg[i], line)
        BY <3>1
      <3>3. ASSUME NEW i \in 0 .. m
            PROVE  h[i] = IF i = 0 THEN NothingFired ELSE Matched(h[i - 1], cfg[i], line)
        <4>1. CASE i = m
          <5>1. i # 0 /\ i - 1 \in 0 .. m /\ i - 1 # m
            BY <4>1, <1>1
          <5> QED BY <4>1, <5>1
        <4>2. CASE i # m
          <5>1. i \in 0 .. m - 1 /\ (i # 0 => i - 1 \in 0 .. m /\ i - 1 # m)
            BY <4>2, <1>1
          <5> QED BY <4>2, <5>1, <3>2
        <4> QED BY <4>1, <4>2
      <3>4. Steps(h, m)
        BY <3>3
      <3>5. m \in 0 .. n
        BY <1>1
      <3> QED BY <3>4, <3>5
    <2>3. n \in T
      <3>1. n \in Nat /\ n \in 0 .. n /\ \A m \in 1 .. n : m - 1 \in T => m \in T
        BY <1>1, <2>2
      <3> HIDE DEF T, n
      <3> QED BY <2>1, <3>1, InductionUpTo
    <2> QED BY <2>3
  <1> HIDE DEF after
  <1>4. /\ after[0] = NothingFired
        /\ \A i \in 1 .. n : after[i] = Matched(after[i - 1], cfg[i], line)
    <2>1. \A i \in 0 .. n :
            after[i] = IF i = 0 THEN NothingFired ELSE Matched(after[i - 1], cfg[i], line)
      BY <1>3
    <2>2. 0 \in 0 .. n /\ \A i \in 1 .. n : i \in 0 .. n /\ i # 0
      BY <1>1
    <2> HIDE DEF n
    <2> QED BY <2>1, <2>2
  <1> DEFINE T == {i \in 0 .. n : FiredOnce(after[i])}
  <1>5. 0 \in T
    BY <1>1, <1>4, NothingIsFiredOnce
  <1>6. ASSUME NEW i \in 1 .. n, i - 1 \in T PROVE i \in T
    <2>1. FiredOnce(Matched(after[i - 1], cfg[i], line))
      BY <1>1, <1>6, ExecuteFacts DEF Matched
    <2> QED BY <1>1, <1>4, <1>6, <2>1
  <1>7. n \in T
    <2>1. n \in Nat /\ n \in 0 .. n /\ \A i \in 1 .. n : i - 1 \in T => i \in T
      BY <1>1, <1>6
    <2> HIDE DEF T, n
    <2> QED BY <1>5, <2>1, InductionUpTo
  <1> QED BY <1>2, <1>7

-----------------------------------------------------------------------------
(* A tick of a window *)

LEMMA HeadAndTail ==
  ASSUME NEW e \in AnAlert, NEW seq \in Seq(AnAlert), Distinct(<<e>> \o seq)
  PROVE  Distinct(seq) /\ \A x \in ToSet(seq) : x.n = e.n => x.n = 0
  <1> DEFINE u == <<e>> \o seq
  <1>1. /\ DOMAIN seq = 1 .. Len(seq) /\ Len(seq) \in Nat
        /\ DOMAIN u = 1 .. 1 + Len(seq) /\ u[1] = e
        /\ \A i \in 1 .. Len(seq) : 1 + i \in DOMAIN u /\ u[1 + i] = seq[i]
    <2>1. <<e>> \in Seq(AnAlert) /\ Len(<<e>>) = 1 /\ <<e>>[1] = e
      OBVIOUS
    <2>2. /\ u \in Seq(AnAlert) /\ Len(u) = 1 + Len(seq)
          /\ \A i \in 1 .. 1 + Len(seq) : u[i] = IF i <= 1 THEN <<e>>[i] ELSE seq[i - 1]
      BY <2>1, ConcatProperties
    <2>3. Len(seq) \in Nat /\ DOMAIN seq = 1 .. Len(seq) /\ DOMAIN u = 1 .. 1 + Len(seq)
      BY <2>2, LenProperties
    <2>4. \A i \in 1 .. Len(seq) : 1 + i \in 1 .. 1 + Len(seq) /\ ~(1 + i <= 1) /\ (1 + i) - 1 = i
      BY <2>3
    <2>5. 1 \in 1 .. 1 + Len(seq) /\ 1 <= 1
      BY <2>3
    <2> HIDE DEF u
    <2> QED BY <2>1, <2>2, <2>3, <2>4, <2>5
  <1> HIDE DEF u
  <1>2. Distinct(u)
    BY DEF u
  <1>3. ASSUME NEW i \in DOMAIN seq, NEW j \in DOMAIN seq, seq[i].n = seq[j].n, seq[i].n # 0 PROVE i = j
    <2>1. 1 + i = 1 + j
      BY <1>1, <1>2, <1>3 DEF Distinct
    <2> QED BY <2>1, <1>1
  <1>4. ASSUME NEW i \in DOMAIN seq, seq[i].n = e.n, seq[i].n # 0 PROVE FALSE
    <2>1. 1 + i = 1
      BY <1>1, <1>2, <1>4 DEF Distinct
    <2> QED BY <2>1, <1>1
  <1> QED BY <1>3, <1>4 DEF Distinct, ToSet

LEMMA PlaceholderIsAnAlert == Placeholder \in AnAlert /\ Placeholder.n = 0
  BY DEF Placeholder, AnAlert, Urgencies

(* Showing something for being placed aside, nothing is lost or made up. *)
LEMMA ShownFacts ==
  ASSUME NEW v, Proper(v)
  PROVE  /\ Proper(Shown(v))
         /\ \A x : x.n # 0 => (x \in ToSet(Upcoming(Shown(v))) <=> x \in ToSet(Upcoming(v)))
  <1> DEFINE u == IF v.phase = "place" /\ ~showAll
                  THEN [v EXCEPT !.active = Nothing, !.phase = "none"] ELSE v
  <1>1. Shown(v) = IF u.active # Nothing THEN u
                   ELSE IF showAll THEN [u EXCEPT !.active = Placeholder, !.phase = "place"]
                   ELSE IF u.queue # <<>>
                   THEN [queue |-> Tail(u.queue), active |-> Head(u.queue), phase |-> "fly"]
                   ELSE u
    BY DEF Shown
  <1>2. /\ Proper(u)
        /\ \A x : x.n # 0 => (x \in ToSet(Upcoming(u)) <=> x \in ToSet(Upcoming(v)))
    <2>1. CASE v.phase = "place" /\ ~showAll
      <3>1. /\ v \in AWindow /\ v.queue \in Seq(AnAlert) /\ v.active = Placeholder
            /\ v.active # Nothing
        BY <2>1, PlaceholderIsAnAlert DEF Proper, AWindow
      <3>2. u = [queue |-> v.queue, active |-> Nothing, phase |-> "none"] /\ u \in AWindow
        BY <2>1, <3>1 DEF AWindow, Phases
      <3> HIDE DEF u
      <3>3. Upcoming(u) = v.queue
        BY <3>1, <3>2, ConcatEmptySeq DEF Upcoming, Playing
      <3>4. Upcoming(v) = <<Placeholder>> \o v.queue
        BY <3>1 DEF Upcoming, Playing
      <3>5. Distinct(v.queue)
        BY <3>1, <3>4, HeadAndTail, PlaceholderIsAnAlert DEF Proper
      <3>6. ToSet(Upcoming(v)) = ToSet(v.queue) \cup {Placeholder}
        BY <3>1, LineFacts
      <3>7. Proper(u)
        BY <3>2, <3>3, <3>5 DEF Proper
      <3> QED BY <3>3, <3>6, <3>7, PlaceholderIsAnAlert
    <2>2. CASE ~(v.phase = "place" /\ ~showAll)
      BY <2>2
    <2> QED BY <2>1, <2>2
  <1> HIDE DEF u
  <1>3. CASE u.active # Nothing
    BY <1>1, <1>2, <1>3
  <1>4. CASE u.active = Nothing
    <2>1. /\ u \in AWindow /\ u.queue \in Seq(AnAlert) /\ u.phase = "none"
          /\ Upcoming(u) = u.queue /\ Distinct(u.queue)
      <3>1. u.queue \in Seq(AnAlert) /\ u \in AWindow
        BY <1>2 DEF Proper, AWindow
      <3>2. Upcoming(u) = u.queue
        BY <1>4, <3>1, ConcatEmptySeq DEF Upcoming, Playing
      <3> QED BY <1>2, <1>4, <3>1, <3>2 DEF Proper
    <2>2. CASE showAll
      <3> DEFINE y == [queue |-> u.queue, active |-> Placeholder, phase |-> "place"]
      <3>1. Shown(v) = y /\ y \in AWindow
        BY <1>1, <1>4, <2>1, <2>2, PlaceholderIsAnAlert DEF AWindow, Phases
      <3>2. Placeholder # Nothing /\ Upcoming(y) = <<Placeholder>> \o u.queue
        BY PlaceholderIsAnAlert, AlertsAssumption DEF Upcoming, Playing
      <3>3. ToSet(Upcoming(y)) = ToSet(u.queue) \cup {Placeholder}
        BY <3>1, <3>2, LineFacts
      <3>4. Distinct(Upcoming(y))
        <4>1. \A x \in ToSet(<<Placeholder>>), z \in ToSet(u.queue) : x.n = z.n => x.n = 0
          BY SingleIsDistinct, PlaceholderIsAnAlert
        <4>2. Distinct(<<Placeholder>> \o u.queue)
          BY <2>1, <4>1, SingleIsDistinct, PlaceholderIsAnAlert, ConcatIsDistinct
        <4> QED BY <3>2, <4>2
      <3>5. Proper(y)
        BY <3>1, <3>2, <3>4 DEF Proper
      <3> QED BY <1>2, <2>1, <3>1, <3>3, <3>5, PlaceholderIsAnAlert
    <2>3. CASE ~showAll /\ u.queue # <<>>
      <3> DEFINE y == [queue |-> Tail(u.queue), active |-> Head(u.queue), phase |-> "fly"]
      <3>1. /\ Shown(v) = y /\ Head(u.queue) \in AnAlert /\ Tail(u.queue) \in Seq(AnAlert)
            /\ u.queue = <<Head(u.queue)>> \o Tail(u.queue)
        <4>1. Shown(v) = y
          BY <1>1, <1>4, <2>3
        <4>2. Head(u.queue) \in AnAlert /\ Tail(u.queue) \in Seq(AnAlert)
          BY <2>1, <2>3, HeadTailProperties
        <4>3. u.queue = <<Head(u.queue)>> \o Tail(u.queue)
          BY <2>1, <2>3, HeadTailAppend
        <4> QED BY <4>1, <4>2, <4>3
      <3>2. y \in AWindow /\ y.active # Nothing /\ Upcoming(y) = u.queue
        BY <3>1, AlertsAssumption DEF AWindow, Phases, Upcoming, Playing
      <3>3. Proper(y)
        BY <2>1, <3>2 DEF Proper
      <3> QED BY <1>2, <2>1, <3>1, <3>2, <3>3
    <2>4. CASE ~showAll /\ u.queue = <<>>
      BY <1>1, <1>2, <1>4, <2>4
    <2> QED BY <2>2, <2>3, <2>4
  <1> QED BY <1>3, <1>4

(* A phase that ends leaves the line as it was, but the last one files what
   was shown. *)
LEMMA AdvancedFacts ==
  ASSUME NEW v, Proper(v)
  PROVE  /\ Proper(Advanced(v))
         /\ v.phase # "shrink" => ToSet(Upcoming(Advanced(v))) = ToSet(Upcoming(v))
         /\ v.phase = "shrink" =>
              /\ v.active \in AnAlert
              /\ ToSet(Upcoming(v)) = ToSet(Upcoming(Advanced(v))) \cup {v.active}
              /\ \A x \in ToSet(Upcoming(Advanced(v))) : x.n = v.active.n => x.n = 0
  <1>1. v \in AWindow /\ v.queue \in Seq(AnAlert) /\ Distinct(Upcoming(v))
    BY DEF Proper, AWindow
  <1>2. CASE v.phase = "shrink"
    <2> DEFINE y == [queue |-> v.queue, active |-> Nothing, phase |-> "none"]
    <2>1. Advanced(v) = y /\ y \in AWindow
      BY <1>1, <1>2 DEF Advanced, AWindow, Phases
    <2>2. Upcoming(y) = v.queue
      BY <1>1, ConcatEmptySeq DEF Upcoming, Playing
    <2>3. v.active \in AnAlert /\ v.active # Nothing
      BY <1>1, <1>2 DEF Proper, AWindow
    <2>4. Upcoming(v) = <<v.active>> \o v.queue
      BY <2>3 DEF Upcoming, Playing
    <2>5. Distinct(v.queue) /\ \A x \in ToSet(v.queue) : x.n = v.active.n => x.n = 0
      BY <1>1, <2>3, <2>4, HeadAndTail
    <2>6. ToSet(Upcoming(v)) = ToSet(v.queue) \cup {v.active}
      BY <1>1, <2>3, LineFacts
    <2>7. Proper(y)
      BY <2>1, <2>2, <2>5 DEF Proper
    <2> QED BY <1>2, <2>1, <2>2, <2>3, <2>5, <2>6, <2>7
  <1>3. CASE v.phase \in {"fly", "hold"}
    <2> DEFINE y == [queue |-> v.queue, active |-> v.active,
                     phase |-> IF v.phase = "fly" THEN "hold" ELSE "shrink"]
    <2>1. Advanced(v) = y /\ y \in AWindow
      BY <1>1, <1>3 DEF Advanced, AWindow, Phases
    <2>2. Upcoming(y) = Upcoming(v) /\ v.active # Nothing
      BY <1>3 DEF Upcoming, Playing, Proper
    <2>3. Proper(y)
      BY <1>1, <1>3, <2>1, <2>2 DEF Proper
    <2> QED BY <1>3, <2>1, <2>2, <2>3
  <1>4. CASE v.phase \notin {"shrink", "fly", "hold"}
    BY <1>4 DEF Advanced
  <1> QED BY <1>2, <1>3, <1>4

-----------------------------------------------------------------------------
(* Where alerts are *)

NumbersOf(seq) == {e.n : e \in ToSet(seq)}

Waiting(seq) ==
  seq \in Seq(AnAlert) /\ Distinct(seq) /\ \A e \in ToSet(seq) : e.n # 0

TypeInv ==
  /\ cfg \in Configs /\ fired \in Nat /\ forgotten \subseteq Nat
  /\ DOMAIN queue = {"alert", "notice"} /\ DOMAIN win = Windows
  /\ \A t \in {"alert", "notice"} : Waiting(queue[t])
  /\ Waiting(pending)
  /\ \A w \in Windows : Proper(win[w])
  /\ hist \in Seq(AnAlert) /\ Distinct(hist)

Places == 1 .. 8

(* A number is in one place and no other. *)
Once(n) ==
  \E i \in Places : n \in Everywhere[i] /\ \A j \in Places : n \in Everywhere[j] => j = i

AlertsInv ==
  /\ TypeInv
  /\ \A i \in Places : \A n \in Everywhere[i] : n <= fired
  /\ \A n \in 1 .. fired : Once(n)

LEMMA NumbersFacts ==
  ASSUME NEW seq \in Seq(AnAlert)
  PROVE  /\ NumbersOf(seq) \subseteq Nat /\ \A e \in ToSet(seq) : e \in AnAlert /\ e.n \in Nat
         /\ \A i \in DOMAIN seq : seq[i] \in ToSet(seq)
  <1>1. \A e \in ToSet(seq) : e \in AnAlert
    BY ElementOfSeq, LenProperties DEF ToSet
  <1>2. \A e \in AnAlert : e.n \in Nat
    BY DEF AnAlert
  <1> QED BY <1>1, <1>2 DEF NumbersOf, ToSet

LEMMA PlacesAre ==
  /\ Everywhere[1] = NumbersOf(pending)
  /\ Everywhere[2] = NumbersOf(queue["alert"]) /\ Everywhere[3] = NumbersOf(queue["notice"])
  /\ Everywhere[4] = Held("alert") /\ Everywhere[5] = Held("merged")
  /\ Everywhere[6] = Held("notice")
  /\ Everywhere[7] = NumbersOf(hist) /\ Everywhere[8] = forgotten
  /\ DOMAIN Everywhere = Places
  BY DEF Everywhere, NumbersOf, Places

HeldBy(v) ==
  {e.n : e \in ToSet(v.queue \o IF v.active = Nothing THEN <<>> ELSE <<v.active>>)}

LEMMA HeldByFacts ==
  ASSUME NEW v, Proper(v)
  PROVE  HeldBy(v) = NumbersOf(Upcoming(v))
  <1> DEFINE a == IF v.active = Nothing THEN <<>> ELSE <<v.active>>
  <1>1. v \in AWindow /\ v.queue \in Seq(AnAlert) /\ a = Playing(v) /\ a \in Seq(AnAlert)
    BY LineFacts DEF Proper, AWindow, Playing
  <1>2. ToSet(v.queue \o a) = ToSet(v.queue) \cup ToSet(a)
    BY <1>1, ConcatIsDistinct
  <1>3. ToSet(Upcoming(v)) = ToSet(a) \cup ToSet(v.queue)
    BY <1>1, ConcatIsDistinct DEF Upcoming
  <1>4. HeldBy(v) = {e.n : e \in ToSet(v.queue \o a)}
    BY DEF HeldBy
  <1> HIDE DEF a
  <1>5. ToSet(v.queue \o a) = ToSet(Upcoming(v))
    BY <1>2, <1>3
  <1> QED BY <1>4, <1>5 DEF NumbersOf

LEMMA HeldFacts ==
  ASSUME NEW w, Proper(win[w])
  PROVE  Held(w) = NumbersOf(Upcoming(win[w]))
  BY HeldByFacts DEF Held, HeldBy

(* Nothing is in two places. *)
LEMMA Apart ==
  ASSUME AlertsInv, NEW n \in Nat \ {0}, NEW i \in Places, NEW j \in Places,
         n \in Everywhere[i], n \in Everywhere[j]
  PROVE  i = j
  BY DEF AlertsInv, TypeInv, Once

LEMMA InitHolds ==
  ASSUME AlertsInit
  PROVE  AlertsInv
  <1>1. Upcoming(Idle) = <<>> /\ ToSet(<<>>) = {} /\ Idle \in AWindow
    BY ConcatEmptySeq DEF Upcoming, Playing, Idle, ToSet, AWindow, Phases
  <1>2. Distinct(<<>>) /\ Waiting(<<>>) /\ Proper(Idle) /\ <<>> \in Seq(AnAlert)
    BY <1>1 DEF Distinct, Waiting, Proper, Idle, ToSet
  <1>3. \A w \in Windows : win[w] = Idle
    BY DEF AlertsInit
  <1>4. TypeInv
    BY <1>2, <1>3 DEF AlertsInit, TypeInv
  <1>5. \A w \in Windows : Held(w) = {}
    BY <1>1, <1>2, <1>3, HeldFacts DEF NumbersOf
  <1>6. NumbersOf(<<>>) = {}
    BY <1>1 DEF NumbersOf
  <1>7. \A i \in Places : Everywhere[i] = {}
    <2>1. /\ NumbersOf(pending) = {} /\ NumbersOf(hist) = {} /\ forgotten = {}
          /\ NumbersOf(queue["alert"]) = {} /\ NumbersOf(queue["notice"]) = {}
      BY <1>6 DEF AlertsInit
    <2>2. Held("alert") = {} /\ Held("merged") = {} /\ Held("notice") = {}
      BY <1>5 DEF Windows
    <2> QED BY <2>1, <2>2, PlacesAre DEF Places
  <1>8. 1 .. fired = {}
    BY DEF AlertsInit
  <1> QED BY <1>4, <1>7, <1>8 DEF AlertsInv

(* What a dispatch adds to a queue. *)
LEMMA DispatchFacts ==
  ASSUME DOMAIN queue = {"alert", "notice"}, NEW events \in Seq(AnAlert), Distinct(events),
         \A e \in ToSet(events) : e.n # 0,
         \A t \in {"alert", "notice"} : Waiting(queue[t]),
         \A t \in {"alert", "notice"} : \A x \in ToSet(queue[t]), e \in ToSet(events) : x.n # e.n,
         Dispatch(events)
  PROVE  /\ DOMAIN queue' = {"alert", "notice"}
         /\ \A t \in {"alert", "notice"} :
              /\ Waiting(queue'[t])
              /\ ToSet(queue'[t]) = ToSet(queue[t]) \cup {e \in ToSet(events) : e.target = t}
  <1> DEFINE at(t) == {i \in DOMAIN events : events[i].target = t}
  <1>1. queue' = [t \in DOMAIN queue |-> queue[t] \o Part(events, at(t))]
    BY DEF Dispatch
  <1>2. SUFFICES ASSUME NEW t \in {"alert", "notice"}
                 PROVE  /\ Waiting(queue'[t])
                        /\ ToSet(queue'[t]) = ToSet(queue[t]) \cup {e \in ToSet(events) : e.target = t}
    BY <1>1
  <1> DEFINE p == Part(events, at(t))
  <1>3. /\ p \in Seq(AnAlert) /\ Distinct(p)
        /\ ToSet(p) = {e \in ToSet(events) : e.target = t}
    <2>1. at(t) \in SUBSET DOMAIN events
      OBVIOUS
    <2>2. p \in Seq(AnAlert) /\ Distinct(p) /\ ToSet(p) = {events[i] : i \in at(t)}
      BY <2>1, PartFacts
    <2>3. {events[i] : i \in at(t)} = {e \in ToSet(events) : e.target = t}
      BY DEF ToSet
    <2> QED BY <2>2, <2>3
  <1>4. queue'[t] = queue[t] \o p
    BY <1>1
  <1> HIDE DEF p
  <1>5. queue[t] \in Seq(AnAlert) /\ Distinct(queue[t]) /\ \A e \in ToSet(queue[t]) : e.n # 0
    BY DEF Waiting
  <1>6. \A x \in ToSet(queue[t]), e \in ToSet(p) : x.n # e.n
    BY <1>3
  <1>7. /\ queue[t] \o p \in Seq(AnAlert) /\ Distinct(queue[t] \o p)
        /\ ToSet(queue[t] \o p) = ToSet(queue[t]) \cup ToSet(p)
    BY <1>3, <1>5, <1>6, ConcatIsDistinct
  <1> QED BY <1>3, <1>4, <1>5, <1>7 DEF Waiting

LEMMA PlacesAfter ==
  ASSUME AlertsInv, TypeInv'
  PROVE  /\ Everywhere'[1] = NumbersOf(pending')
         /\ Everywhere'[2] = NumbersOf(queue'["alert"]) /\ Everywhere'[3] = NumbersOf(queue'["notice"])
         /\ Everywhere'[4] = NumbersOf(Upcoming(win'["alert"]))
         /\ Everywhere'[5] = NumbersOf(Upcoming(win'["merged"]))
         /\ Everywhere'[6] = NumbersOf(Upcoming(win'["notice"]))
         /\ Everywhere'[7] = NumbersOf(hist') /\ Everywhere'[8] = forgotten'
         /\ Everywhere[4] = NumbersOf(Upcoming(win["alert"]))
         /\ Everywhere[5] = NumbersOf(Upcoming(win["merged"]))
         /\ Everywhere[6] = NumbersOf(Upcoming(win["notice"]))
  <1>1. /\ Everywhere'[1] = NumbersOf(pending')
        /\ Everywhere'[2] = NumbersOf(queue'["alert"]) /\ Everywhere'[3] = NumbersOf(queue'["notice"])
        /\ Everywhere'[4] = Held("alert")' /\ Everywhere'[5] = Held("merged")'
        /\ Everywhere'[6] = Held("notice")'
        /\ Everywhere'[7] = NumbersOf(hist') /\ Everywhere'[8] = forgotten'
    BY DEF Everywhere, NumbersOf
  <1>2. \A w \in Windows : Held(w) = NumbersOf(Upcoming(win[w]))
    BY HeldFacts DEF AlertsInv, TypeInv
  <1>3. \A w \in Windows : Held(w)' = NumbersOf(Upcoming(win'[w]))
    <2>1. SUFFICES ASSUME NEW w \in Windows PROVE Held(w)' = NumbersOf(Upcoming(win'[w]))
      OBVIOUS
    <2>2. Proper(win'[w])
      BY DEF TypeInv
    <2>3. Held(w)' = HeldBy(win'[w])
      BY DEF Held, HeldBy
    <2> QED BY <2>2, <2>3, HeldByFacts
  <1> QED BY <1>1, <1>2, <1>3, PlacesAre DEF Windows

(* A step may leave a number where it is or move it. *)
LEMMA StaysOnce ==
  ASSUME NEW n, Once(n), \A i \in Places : n \in Everywhere'[i] <=> n \in Everywhere[i]
  PROVE  Once(n)'
  BY DEF Once

LEMMA MovesOnce ==
  ASSUME NEW n, NEW i \in Places, n \in Everywhere'[i],
         \A j \in Places : n \in Everywhere'[j] => j = i
  PROVE  Once(n)'
  BY DEF Once

LEMMA Bounded ==
  ASSUME AlertsInv, NEW i \in Places, NEW n \in Everywhere[i]
  PROVE  n \in Nat /\ n <= fired
  <1>1. \A j \in Places : Everywhere[j] \subseteq Nat
    <2>1. /\ NumbersOf(pending) \subseteq Nat /\ NumbersOf(hist) \subseteq Nat
          /\ NumbersOf(queue["alert"]) \subseteq Nat /\ NumbersOf(queue["notice"]) \subseteq Nat
      BY NumbersFacts DEF AlertsInv, TypeInv, Waiting
    <2>2. \A w \in Windows : Held(w) \subseteq Nat
      BY SMTT(20), HeldFacts, LineFacts, NumbersFacts DEF AlertsInv, TypeInv, Proper
    <2>3. Held("alert") \subseteq Nat /\ Held("merged") \subseteq Nat /\ Held("notice") \subseteq Nat
      BY <2>2 DEF Windows
    <2>4. forgotten \subseteq Nat
      BY DEF AlertsInv, TypeInv
    <2>5. \A j \in Places : j \in {1, 2, 3, 4, 5, 6, 7, 8}
      BY DEF Places
    <2>6. /\ Everywhere[1] \subseteq Nat /\ Everywhere[2] \subseteq Nat
          /\ Everywhere[3] \subseteq Nat /\ Everywhere[7] \subseteq Nat
      BY <2>1, PlacesAre
    <2>7. /\ Everywhere[4] \subseteq Nat /\ Everywhere[5] \subseteq Nat
          /\ Everywhere[6] \subseteq Nat /\ Everywhere[8] \subseteq Nat
      BY <2>3, <2>4, PlacesAre
    <2> QED BY <2>5, <2>6, <2>7
  <1> QED BY <1>1 DEF AlertsInv

(* What a line or the Test button fires. *)
LEMMA ApplyStep ==
  ASSUME AlertsInv, NEW e, FiredOnce(e), Apply(e), UNCHANGED <<cfg, win, hist, forgotten>>
  PROVE  AlertsInv'
  <1>1. /\ fired' = e.fired /\ pending' = pending \o e.later /\ Dispatch(e.now)
        /\ fired \in Nat /\ fired' \in Nat /\ fired <= fired'
        /\ DOMAIN queue = {"alert", "notice"}
        /\ \A t \in {"alert", "notice"} : Waiting(queue[t])
        /\ Waiting(pending)
    BY DEF Apply, FiredOnce, AlertsInv, TypeInv
  <1>2. /\ e.now \in Seq(AnAlert) /\ Distinct(e.now)
        /\ e.later \in Seq(AnAlert) /\ Distinct(e.later)
        /\ \A x \in ToSet(e.now) \cup ToSet(e.later) :
             x \in AnAlert /\ x.n \in Nat /\ fired < x.n /\ x.n <= fired' /\ x.n # 0
    <2>1. /\ e.now \in Seq(AnAlert) /\ Distinct(e.now)
          /\ e.later \in Seq(AnAlert) /\ Distinct(e.later)
          /\ \A x \in ToSet(e.now) \cup ToSet(e.later) : fired < x.n /\ x.n <= e.fired
      BY DEF FiredOnce
    <2>2. \A x \in ToSet(e.now) \cup ToSet(e.later) : x \in AnAlert /\ x.n \in Nat
      BY <2>1, NumbersFacts
    <2>3. \A x \in ToSet(e.now) \cup ToSet(e.later) : x.n # 0
      BY <2>1, <2>2, <1>1
    <2> QED BY <2>1, <2>2, <2>3, <1>1
  <1>3. \A seq \in {pending, queue["alert"], queue["notice"]}, x \in ToSet(e.now) \cup ToSet(e.later) :
          \A y \in ToSet(seq) : y.n # x.n
    <2>1. \A n \in NumbersOf(pending) \cup NumbersOf(queue["alert"]) \cup NumbersOf(queue["notice"]) :
            n \in Nat /\ n <= fired
      BY Bounded, PlacesAre DEF Places
    <2>2. \A seq \in {pending, queue["alert"], queue["notice"]} : \A y \in ToSet(seq) :
            y.n \in Nat /\ y.n <= fired
      BY <2>1 DEF NumbersOf
    <2> QED BY <2>2, <1>1, <1>2
  <1>4. /\ DOMAIN queue' = {"alert", "notice"}
        /\ \A t \in {"alert", "notice"} :
             /\ Waiting(queue'[t])
             /\ ToSet(queue'[t]) = ToSet(queue[t]) \cup {x \in ToSet(e.now) : x.target = t}
    <2>1. \A t \in {"alert", "notice"} : \A x \in ToSet(queue[t]), y \in ToSet(e.now) : x.n # y.n
      BY <1>3
    <2>2. \A x \in ToSet(e.now) : x.n # 0
      BY <1>2
    <2> QED BY <1>1, <1>2, <2>1, <2>2, DispatchFacts
  <1>5. Waiting(pending') /\ ToSet(pending') = ToSet(pending) \cup ToSet(e.later)
    <2>1. \A x \in ToSet(pending), y \in ToSet(e.later) : x.n # y.n
      BY <1>3
    <2>2. /\ pending \o e.later \in Seq(AnAlert) /\ Distinct(pending \o e.later)
          /\ ToSet(pending \o e.later) = ToSet(pending) \cup ToSet(e.later)
      BY <1>1, <1>2, <2>1, ConcatIsDistinct DEF Waiting
    <2> QED BY <1>1, <1>2, <2>2 DEF Waiting
  <1>6. TypeInv'
    BY <1>1, <1>4, <1>5 DEF AlertsInv, TypeInv
  <1>7. /\ Everywhere'[1] = Everywhere[1] \cup NumbersOf(e.later)
        /\ Everywhere'[2] = Everywhere[2] \cup {x.n : x \in {y \in ToSet(e.now) : y.target = "alert"}}
        /\ Everywhere'[3] = Everywhere[3] \cup {x.n : x \in {y \in ToSet(e.now) : y.target = "notice"}}
        /\ \A i \in Places : i > 3 => Everywhere'[i] = Everywhere[i]
    <2>1. NumbersOf(pending') = NumbersOf(pending) \cup NumbersOf(e.later)
      BY <1>5 DEF NumbersOf
    <2>2. \A t \in {"alert", "notice"} :
            NumbersOf(queue'[t]) = NumbersOf(queue[t]) \cup {x.n : x \in {y \in ToSet(e.now) : y.target = t}}
      BY <1>4 DEF NumbersOf
    <2>3. \A i \in Places : i > 3 => i \in {4, 5, 6, 7, 8}
      BY DEF Places
    <2> QED BY <1>6, <2>1, <2>2, <2>3, PlacesAre, PlacesAfter
  <1>8. \A x \in ToSet(e.now) : x.target \in {"alert", "notice"}
    BY <1>2 DEF AnAlert
  <1>9. ASSUME NEW n \in 1 .. fired PROVE Once(n)'
    <2>1. n \notin NumbersOf(e.later) /\ \A x \in ToSet(e.now) : x.n # n
      BY <1>1, <1>2 DEF NumbersOf
    <2>2. \A i \in Places : i = 1 \/ i = 2 \/ i = 3 \/ i > 3
      BY DEF Places
    <2>3. \A i \in Places : n \in Everywhere'[i] <=> n \in Everywhere[i]
      BY <1>7, <2>1, <2>2
    <2>4. Once(n)
      BY DEF AlertsInv
    <2> QED BY <2>3, <2>4, StaysOnce
  <1>10. ASSUME NEW n \in fired + 1 .. fired' PROVE Once(n)'
    <2>1. \A i \in Places : n \notin Everywhere[i]
      <3>1. n \in Nat /\ ~(n <= fired)
        BY <1>1
      <3> QED BY <3>1 DEF AlertsInv
    <2>2. PICK x \in ToSet(e.now) \cup ToSet(e.later) : x.n = n
      BY <1>1 DEF FiredOnce
    <2>3. \A i \in Places : i = 1 \/ i = 2 \/ i = 3 \/ i > 3
      BY DEF Places
    <2>4. \A y \in ToSet(e.now), z \in ToSet(e.later) : y.n # z.n
      BY DEF FiredOnce
    <2>5. \A i \in Places : n \in Everywhere'[i] =>
            \/ i = 1 /\ n \in NumbersOf(e.later)
            \/ i = 2 /\ n \in {y.n : y \in {z \in ToSet(e.now) : z.target = "alert"}}
            \/ i = 3 /\ n \in {y.n : y \in {z \in ToSet(e.now) : z.target = "notice"}}
      BY <1>7, <2>1, <2>3
    <2>6. CASE x \in ToSet(e.later)
      <3>1. n \in Everywhere'[1] /\ 1 \in Places
        BY <1>7, <2>2, <2>6 DEF NumbersOf, Places
      <3>2. \A i \in Places : n \in Everywhere'[i] => i = 1
        BY <2>2, <2>4, <2>5, <2>6
      <3> QED BY <3>1, <3>2, MovesOnce
    <2>7. CASE x \in ToSet(e.now)
      <3>1. \A y \in ToSet(e.now) : y.n = n => y = x
        <4>1. \A y \in ToSet(e.now) : \E i \in DOMAIN e.now : e.now[i] = y
          BY DEF ToSet
        <4> QED BY <2>2, <2>7, <4>1, <1>2 DEF Distinct
      <3>2. n \notin NumbersOf(e.later)
        BY <2>2, <2>4, <2>7 DEF NumbersOf
      <3>3. CASE x.target = "alert"
        <4>1. n \in Everywhere'[2] /\ 2 \in Places
          BY <1>7, <2>2, <2>7, <3>3 DEF Places
        <4>2. \A i \in Places : n \in Everywhere'[i] => i = 2
          BY <2>5, <3>1, <3>2, <3>3
        <4> QED BY <4>1, <4>2, MovesOnce
      <3>4. CASE x.target = "notice"
        <4>1. n \in Everywhere'[3] /\ 3 \in Places
          BY <1>7, <2>2, <2>7, <3>4 DEF Places
        <4>2. \A i \in Places : n \in Everywhere'[i] => i = 3
          BY <2>5, <3>1, <3>2, <3>4
        <4> QED BY <4>1, <4>2, MovesOnce
      <3> QED BY <1>8, <2>7, <3>3, <3>4
    <2> QED BY <2>2, <2>6, <2>7
  <1>11. \A i \in Places : \A n \in Everywhere'[i] : n <= fired'
    <2>1. \A i \in Places : i = 1 \/ i = 2 \/ i = 3 \/ i > 3
      BY DEF Places
    <2>2. \A i \in Places : \A n \in Everywhere'[i] :
            \/ n \in Everywhere[i]
            \/ \E x \in ToSet(e.now) \cup ToSet(e.later) : n = x.n
      BY <1>7, <2>1 DEF NumbersOf
    <2>3. \A i \in Places : \A n \in Everywhere[i] : n \in Nat /\ n <= fired
      BY Bounded
    <2>4. \A n \in Nat : n <= fired => n <= fired'
      BY <1>1
    <2> QED BY <1>2, <2>2, <2>3, <2>4
  <1>12. \A n \in 1 .. fired' : n \in 1 .. fired \/ n \in fired + 1 .. fired'
    BY <1>1
  <1>13. \A n \in 1 .. fired' : Once(n)'
    BY <1>9, <1>10, <1>12
  <1> QED BY <1>6, <1>11, <1>13 DEF AlertsInv

(* TriggerTick: what is due leaves the engine for its queue. *)
LEMMA TickStep ==
  ASSUME AlertsInv, TriggerTick
  PROVE  AlertsInv'
  <1>1. PICK due \in SUBSET DOMAIN pending :
          /\ pending' = Part(pending, DOMAIN pending \ due)
          /\ Dispatch(Part(pending, due))
          /\ UNCHANGED <<cfg, win, hist, forgotten, fired>>
    BY DEF TriggerTick
  <1> DEFINE sent == Part(pending, due)
  <1>2. /\ fired \in Nat /\ fired' = fired
        /\ DOMAIN queue = {"alert", "notice"}
        /\ \A t \in {"alert", "notice"} : Waiting(queue[t])
        /\ Waiting(pending)
    BY <1>1 DEF AlertsInv, TypeInv
  <1>3. /\ sent \in Seq(AnAlert) /\ Distinct(sent) /\ ToSet(sent) = {pending[i] : i \in due}
        /\ pending' \in Seq(AnAlert) /\ Distinct(pending')
        /\ ToSet(pending') = {pending[i] : i \in DOMAIN pending \ due}
    <2>1. due \in SUBSET DOMAIN pending /\ DOMAIN pending \ due \in SUBSET DOMAIN pending
      OBVIOUS
    <2> QED BY <1>1, <1>2, <2>1, PartFacts DEF Waiting
  <1>4. /\ ToSet(sent) \subseteq ToSet(pending) /\ ToSet(pending') \subseteq ToSet(pending)
        /\ \A x \in ToSet(pending) : x \in ToSet(sent) \/ x \in ToSet(pending')
        /\ \A x \in ToSet(sent), y \in ToSet(pending') : x.n # y.n
        /\ \A x \in ToSet(pending) : x \in AnAlert /\ x.n \in Nat /\ x.n # 0
    <2>1. /\ ToSet(sent) \subseteq ToSet(pending) /\ ToSet(pending') \subseteq ToSet(pending)
          /\ \A x \in ToSet(pending) : x \in ToSet(sent) \/ x \in ToSet(pending')
      BY <1>3 DEF ToSet
    <2>2. \A x \in ToSet(pending) : x \in AnAlert /\ x.n \in Nat /\ x.n # 0
      BY <1>2, NumbersFacts DEF Waiting
    <2>3. \A i, j \in DOMAIN pending : pending[i].n = pending[j].n => i = j
      BY <1>2, <2>2, NumbersFacts DEF Waiting, Distinct
    <2>4. \A x \in ToSet(sent), y \in ToSet(pending') : x.n # y.n
      BY <1>3, <2>3
    <2> QED BY <2>1, <2>2, <2>4
  <1> HIDE DEF sent
  <1>5. Dispatch(sent)
    BY <1>1 DEF sent
  <1>6. \A t \in {"alert", "notice"} : \A x \in ToSet(queue[t]), y \in ToSet(sent) : x.n # y.n
    <2> SUFFICES ASSUME NEW t \in {"alert", "notice"}, NEW x \in ToSet(queue[t]),
                        NEW y \in ToSet(sent), x.n = y.n
                 PROVE  FALSE
      OBVIOUS
    <2>1. y.n \in Nat \ {0} /\ y.n \in Everywhere[1]
      BY <1>4, PlacesAre DEF NumbersOf
    <2>2. y.n \in Everywhere[2] \/ y.n \in Everywhere[3]
      BY PlacesAre DEF NumbersOf
    <2> QED BY <2>1, <2>2, Apart DEF Places
  <1>7. /\ DOMAIN queue' = {"alert", "notice"}
        /\ \A t \in {"alert", "notice"} :
             /\ Waiting(queue'[t])
             /\ ToSet(queue'[t]) = ToSet(queue[t]) \cup {x \in ToSet(sent) : x.target = t}
    <2>1. \A x \in ToSet(sent) : x.n # 0
      BY <1>4
    <2> QED BY <1>2, <1>3, <1>5, <1>6, <2>1, DispatchFacts
  <1>8. Waiting(pending')
    BY <1>3, <1>4 DEF Waiting
  <1>9. TypeInv'
    BY <1>1, <1>7, <1>8 DEF AlertsInv, TypeInv
  <1>10. /\ Everywhere[1] = {x.n : x \in ToSet(pending)}
         /\ Everywhere'[1] = {x.n : x \in ToSet(pending')}
         /\ Everywhere'[2] = Everywhere[2] \cup {x.n : x \in {y \in ToSet(sent) : y.target = "alert"}}
         /\ Everywhere'[3] = Everywhere[3] \cup {x.n : x \in {y \in ToSet(sent) : y.target = "notice"}}
         /\ \A i \in Places : i > 3 => Everywhere'[i] = Everywhere[i]
    <2>1. \A t \in {"alert", "notice"} :
            NumbersOf(queue'[t]) = NumbersOf(queue[t]) \cup {x.n : x \in {y \in ToSet(sent) : y.target = t}}
      BY <1>7 DEF NumbersOf
    <2>2. \A i \in Places : i > 3 => i \in {4, 5, 6, 7, 8}
      BY DEF Places
    <2>3. NumbersOf(pending) = {x.n : x \in ToSet(pending)} /\ NumbersOf(pending') = {x.n : x \in ToSet(pending')}
      BY DEF NumbersOf
    <2> QED BY <1>1, <1>9, <2>1, <2>2, <2>3, PlacesAre, PlacesAfter
  <1>11. \A i \in Places : i = 1 \/ i = 2 \/ i = 3 \/ i > 3
    BY DEF Places
  <1>12. 1 \in Places /\ 2 \in Places /\ 3 \in Places
    BY DEF Places
  <1>13. \A i \in Places : \A n \in Everywhere'[i] : n <= fired'
    <2>1. \A i \in Places : \A n \in Everywhere'[i] : n \in Everywhere[i] \/ n \in Everywhere[1]
      BY <1>4, <1>10, <1>11
    <2> QED BY <1>2, <1>12, <2>1 DEF AlertsInv
  <1>14. ASSUME NEW n \in 1 .. fired PROVE Once(n)'
    <2>1. Once(n) /\ n \in Nat \ {0}
      BY <1>2 DEF AlertsInv
    <2>2. CASE \E x \in ToSet(sent) : x.n = n
      <3>1. PICK x \in ToSet(sent) : x.n = n
        BY <2>2
      <3>2. n \in Everywhere[1] /\ n \notin Everywhere'[1]
        BY <1>4, <1>10, <3>1
      <3>3. \A i \in Places : i # 1 => n \notin Everywhere[i]
        BY <1>12, <2>1, <3>2, Apart
      <3>4. \A y \in ToSet(sent) : y.n = n => y = x
        <4>1. \A y \in ToSet(sent) : \E i \in DOMAIN sent : sent[i] = y
          BY DEF ToSet
        <4> QED BY <1>3, <2>1, <3>1, <4>1 DEF Distinct
      <3>5. x.target \in {"alert", "notice"}
        BY <1>4, <3>1 DEF AnAlert
      <3>6. CASE x.target = "alert"
        <4>1. n \in Everywhere'[2]
          BY <1>10, <3>1, <3>6
        <4>2. \A i \in Places : n \in Everywhere'[i] => i = 2
          BY <1>10, <1>11, <3>2, <3>3, <3>4, <3>6
        <4> QED BY <1>12, <4>1, <4>2, MovesOnce
      <3>7. CASE x.target = "notice"
        <4>1. n \in Everywhere'[3]
          BY <1>10, <3>1, <3>7
        <4>2. \A i \in Places : n \in Everywhere'[i] => i = 3
          BY <1>10, <1>11, <3>2, <3>3, <3>4, <3>7
        <4> QED BY <1>12, <4>1, <4>2, MovesOnce
      <3> QED BY <3>5, <3>6, <3>7
    <2>3. CASE \A x \in ToSet(sent) : x.n # n
      <3>1. \A i \in Places : n \in Everywhere'[i] <=> n \in Everywhere[i]
        BY <1>4, <1>10, <1>11, <2>3
      <3> QED BY <2>1, <3>1, StaysOnce
    <2> QED BY <2>2, <2>3
  <1> QED BY <1>2, <1>9, <1>13, <1>14 DEF AlertsInv

(* Reload: what was on its way is given up. *)
LEMMA ReloadStep ==
  ASSUME AlertsInv, Reload
  PROVE  AlertsInv'
  <1>1. /\ cfg' \in Configs /\ pending' = <<>> /\ forgotten' = forgotten \cup NumbersOf(pending)
        /\ UNCHANGED <<queue, win, hist, fired>> /\ fired \in Nat
    BY DEF Reload, AlertsInv, TypeInv, NumbersOf
  <1>2. Waiting(<<>>) /\ NumbersOf(<<>>) = {}
    BY DEF Waiting, Distinct, ToSet, NumbersOf
  <1>3. NumbersOf(pending) \subseteq Nat
    BY NumbersFacts DEF AlertsInv, TypeInv, Waiting
  <1>4. TypeInv'
    BY <1>1, <1>2, <1>3 DEF AlertsInv, TypeInv
  <1>5. /\ Everywhere'[1] = {} /\ Everywhere'[8] = Everywhere[8] \cup Everywhere[1]
        /\ \A i \in Places : i # 1 /\ i # 8 => Everywhere'[i] = Everywhere[i]
    <2>1. \A i \in Places : i # 1 /\ i # 8 => i \in {2, 3, 4, 5, 6, 7}
      BY DEF Places
    <2> QED BY <1>1, <1>2, <1>4, <2>1, PlacesAre, PlacesAfter
  <1>6. 1 \in Places /\ 8 \in Places
    BY DEF Places
  <1>7. \A i \in Places : \A n \in Everywhere'[i] : n <= fired'
    BY <1>1, <1>5, <1>6 DEF AlertsInv
  <1>8. ASSUME NEW n \in 1 .. fired PROVE Once(n)'
    <2>1. Once(n) /\ n \in Nat \ {0}
      BY <1>1 DEF AlertsInv
    <2>2. CASE n \in Everywhere[1]
      <3>1. \A i \in Places : i # 1 => n \notin Everywhere[i]
        BY <1>6, <2>1, <2>2, Apart
      <3> QED BY <1>5, <1>6, <2>2, <3>1, MovesOnce
    <2>3. CASE n \notin Everywhere[1]
      <3>1. \A i \in Places : n \in Everywhere'[i] <=> n \in Everywhere[i]
        BY <1>5, <2>3
      <3> QED BY <2>1, <3>1, StaysOnce
    <2> QED BY <2>2, <2>3
  <1> QED BY <1>1, <1>4, <1>7, <1>8 DEF AlertsInv

(* WindowTick: what waits goes into the window's line or, ambient, is given
   up, and what has been shown into the history. *)
LEMMA WindowStep ==
  ASSUME AlertsInv, NEW w \in Windows, NEW aged, NEW idle, WindowTick(w, aged, idle)
  PROVE  AlertsInv'
  <1> DEFINE waits == queue[Source(w)]
             v == Shown(Drained(w))
             u == IF aged THEN Advanced(v) ELSE v
             filed == IF aged /\ v.phase = "shrink" THEN {v.active} ELSE {}
             lost == {e \in ToSet(waits) : e.urgency = "ambient" /\ e \notin ToSet(v.queue)
                                           /\ e # v.active}
             h == CASE w = "alert" -> 4 [] w = "merged" -> 5 [] w = "notice" -> 6
             slot == IF w = "notice" THEN 3 ELSE 2
  <1>1. /\ win' = [win EXCEPT ![w] = u]
        /\ hist' = IF aged /\ v.phase = "shrink" THEN Append(hist, v.active) ELSE hist
        /\ queue' = [queue EXCEPT ![Source(w)] = <<>>]
        /\ UNCHANGED <<cfg, pending, fired>>
    BY DEF WindowTick
  <1>2. forgotten' = forgotten \cup {e.n : e \in lost}
    <2>1. forgotten' = forgotten \cup
            {e.n : e \in {x \in {e \in ToSet(waits) : e.urgency = "ambient"} :
                            x \notin ToSet(v.queue) /\ x # v.active}}
      BY DEF WindowTick
    <2>2. {x \in {e \in ToSet(waits) : e.urgency = "ambient"} :
              x \notin ToSet(v.queue) /\ x # v.active} = lost
      OBVIOUS
    <2> QED BY <2>1, <2>2
  <1>3. /\ fired \in Nat /\ Proper(win[w]) /\ Source(w) \in {"alert", "notice"}
        /\ waits \in Seq(AnAlert) /\ Distinct(waits)
        /\ \A e \in ToSet(waits) : e.n # 0 /\ e \in AnAlert /\ e.n \in Nat
        /\ h \in Places /\ slot \in Places /\ h \in {4, 5, 6} /\ slot \in {2, 3}
    <2>1. Source(w) \in {"alert", "notice"}
      BY DEF Source
    <2>2. fired \in Nat /\ Proper(win[w]) /\ Waiting(waits)
      BY <2>1 DEF AlertsInv, TypeInv
    <2>3. waits \in Seq(AnAlert) /\ Distinct(waits) /\ \A e \in ToSet(waits) : e.n # 0
      BY <2>2 DEF Waiting
    <2>4. \A e \in ToSet(waits) : e \in AnAlert /\ e.n \in Nat
      BY <2>3, NumbersFacts
    <2>5. h \in {4, 5, 6} /\ slot \in {2, 3}
      BY DEF Windows
    <2> HIDE DEF waits, h, slot
    <2> QED BY <2>1, <2>2, <2>3, <2>4, <2>5 DEF Places
  <1>4. /\ Everywhere[h] = NumbersOf(Upcoming(win[w])) /\ Everywhere[slot] = NumbersOf(waits)
        /\ Everywhere[7] = NumbersOf(hist) /\ Everywhere[8] = forgotten
    <2>1. \A x \in Windows : Held(x) = NumbersOf(Upcoming(win[x]))
      BY HeldFacts DEF AlertsInv, TypeInv
    <2>2. CASE w = "alert"
      BY <2>1, <2>2, PlacesAre DEF Windows, Source
    <2>3. CASE w = "merged"
      BY <2>1, <2>3, PlacesAre DEF Windows, Source
    <2>4. CASE w = "notice"
      BY <2>1, <2>4, PlacesAre DEF Windows, Source
    <2> QED BY <2>2, <2>3, <2>4 DEF Windows
  <1>5. \A x \in ToSet(Upcoming(win[w])), e \in ToSet(waits) : x.n # e.n
    <2> SUFFICES ASSUME NEW x \in ToSet(Upcoming(win[w])), NEW e \in ToSet(waits), x.n = e.n
                 PROVE  FALSE
      OBVIOUS
    <2> HIDE DEF h, slot
    <2>1. e.n \in Nat \ {0} /\ e.n \in Everywhere[h] /\ e.n \in Everywhere[slot]
      BY <1>3, <1>4 DEF NumbersOf
    <2>2. h # slot
      BY <1>3
    <2> QED BY <1>3, <2>1, <2>2, Apart
  <1>6. /\ Proper(Drained(w))
        /\ ToSet(Upcoming(win[w])) \subseteq ToSet(Upcoming(Drained(w)))
        /\ ToSet(Upcoming(Drained(w))) \subseteq ToSet(Upcoming(win[w])) \cup ToSet(waits)
        /\ \A e \in ToSet(waits) : e \in ToSet(Upcoming(Drained(w))) \/ e.urgency = "ambient"
    BY <1>3, <1>5, DrainedFacts
  <1>7. /\ Proper(v)
        /\ \A x : x.n # 0 => (x \in ToSet(Upcoming(v)) <=> x \in ToSet(Upcoming(Drained(w))))
    BY <1>6, ShownFacts
  <1> HIDE DEF v, waits, h, slot
  <1>8. ToSet(Upcoming(v)) = ToSet(v.queue) \cup (IF v.active = Nothing THEN {} ELSE {v.active})
    BY <1>7, LineFacts DEF Proper
  <1>9. /\ Proper(u) /\ filed \subseteq AnAlert
        /\ ToSet(Upcoming(v)) = ToSet(Upcoming(u)) \cup filed
        /\ \A x \in ToSet(Upcoming(u)), y \in filed : x.n = y.n => x.n = 0
    BY <1>7, AdvancedFacts
  <1>10. lost = {e \in ToSet(waits) : e.urgency = "ambient" /\ e \notin ToSet(Upcoming(v))}
    <2>1. \A e \in ToSet(waits) : e # Nothing
      BY <1>3, AlertsAssumption
    <2> QED BY <1>8, <2>1
  <1>11. /\ hist \in Seq(AnAlert) /\ Distinct(hist) /\ Proper(u)
         /\ \A x \in ToSet(hist) : x \in AnAlert /\ x.n \in Nat
    <2>1. hist \in Seq(AnAlert) /\ Distinct(hist)
      BY DEF AlertsInv, TypeInv
    <2> QED BY <1>9, <2>1, NumbersFacts
  <1>12. \A x \in ToSet(Upcoming(v)) : /\ x \in AnAlert /\ x.n \in Nat
                                       /\ x.n # 0 => x.n \in Everywhere[h] \/ x.n \in Everywhere[slot]
    <2>1. \A x \in ToSet(Upcoming(v)) : x \in AnAlert /\ x.n \in Nat
      BY <1>7, LineFacts, NumbersFacts DEF Proper
    <2>2. \A x \in ToSet(Upcoming(v)) : x.n # 0 => x \in ToSet(Upcoming(win[w])) \cup ToSet(waits)
      BY <1>6, <1>7
    <2> QED BY <1>4, <2>1, <2>2 DEF NumbersOf
  <1>13. \A x \in filed : \A y \in ToSet(hist) : x.n = y.n => x.n = 0
    <2> SUFFICES ASSUME NEW x \in filed, NEW y \in ToSet(hist), x.n = y.n, x.n # 0 PROVE FALSE
      OBVIOUS
    <2>1. x.n \in Nat \ {0} /\ (x.n \in Everywhere[h] \/ x.n \in Everywhere[slot])
      BY <1>9, <1>12
    <2>2. x.n \in Everywhere[7] /\ 7 \in Places
      BY <1>4 DEF NumbersOf, Places
    <2>3. h # 7 /\ slot # 7
      BY <1>3
    <2> QED BY <1>3, <2>1, <2>2, <2>3, Apart
  <1>14. hist' \in Seq(AnAlert) /\ Distinct(hist') /\ ToSet(hist') = ToSet(hist) \cup filed
    <2>1. CASE aged /\ v.phase = "shrink"
      <3>1. hist' = hist \o <<v.active>> /\ filed = {v.active} /\ v.active \in AnAlert
        BY <1>1, <1>9, <1>11, <2>1, AppendIsConcat
      <3>2. <<v.active>> \in Seq(AnAlert) /\ ToSet(<<v.active>>) = {v.active} /\ Distinct(<<v.active>>)
        BY <3>1, SingleIsDistinct
      <3>3. \A x \in ToSet(hist), y \in ToSet(<<v.active>>) : x.n = y.n => x.n = 0
        BY <1>13, <3>1, <3>2
      <3>4. Distinct(hist \o <<v.active>>)
        BY <1>11, <3>2, <3>3, ConcatIsDistinct
      <3>5. /\ hist \o <<v.active>> \in Seq(AnAlert)
            /\ ToSet(hist \o <<v.active>>) = ToSet(hist) \cup ToSet(<<v.active>>)
        BY <1>11, <3>2, ConcatIsDistinct
      <3> QED BY <3>1, <3>2, <3>4, <3>5
    <2>2. CASE ~(aged /\ v.phase = "shrink")
      <3>1. hist' = hist /\ filed = {}
        BY <1>1, <2>2
      <3> QED BY <1>11, <3>1
    <2> QED BY <2>1, <2>2
  <1>15. TypeInv'
    <2> HIDE DEF u, lost
    <2>1. Waiting(<<>>)
      BY DEF Waiting, Distinct, ToSet
    <2>2. /\ DOMAIN queue' = {"alert", "notice"} /\ DOMAIN win' = Windows
          /\ \A t \in {"alert", "notice"} : Waiting(queue'[t])
          /\ \A x \in Windows : Proper(win'[x])
      BY <1>1, <1>9, <2>1 DEF AlertsInv, TypeInv
    <2>3. forgotten' \subseteq Nat
      BY <1>2, <1>3 DEF lost, AlertsInv, TypeInv
    <2> QED BY <1>1, <1>14, <2>2, <2>3 DEF AlertsInv, TypeInv
  <1>16. /\ Everywhere'[h] = NumbersOf(Upcoming(u)) /\ Everywhere'[slot] = {}
         /\ Everywhere'[7] = Everywhere[7] \cup {x.n : x \in filed}
         /\ Everywhere'[8] = Everywhere[8] \cup {x.n : x \in lost}
         /\ \A i \in Places : i \notin {h, slot, 7, 8} => Everywhere'[i] = Everywhere[i]
    <2> HIDE DEF u, lost, filed
    <2>1. NumbersOf(<<>>) = {}
      BY DEF NumbersOf, ToSet
    <2>2. NumbersOf(hist') = NumbersOf(hist) \cup {x.n : x \in filed}
      BY <1>14 DEF NumbersOf
    <2>3. \A x \in Windows : win'[x] = IF x = w THEN u ELSE win[x]
      BY <1>1 DEF AlertsInv, TypeInv
    <2>4. \A t \in {"alert", "notice"} : queue'[t] = IF t = Source(w) THEN <<>> ELSE queue[t]
      BY <1>1 DEF AlertsInv, TypeInv
    <2>5. \A i \in Places : i \in {1, 2, 3, 4, 5, 6, 7, 8}
      BY DEF Places
    <2>6. Everywhere'[7] = Everywhere[7] \cup {x.n : x \in filed}
      BY <1>15, <2>2, PlacesAre, PlacesAfter
    <2>7. Everywhere'[8] = Everywhere[8] \cup {x.n : x \in lost}
      BY <1>2, <1>15, PlacesAre, PlacesAfter
    <2>8. CASE w = "alert"
      <3>1. h = 4 /\ slot = 2 /\ Source(w) = "alert"
        BY <2>8 DEF h, slot, Source
      <3> QED BY <1>1, <1>15, <2>1, <2>3, <2>4, <2>5, <2>6, <2>7, <2>8, <3>1, PlacesAre, PlacesAfter
              DEF Windows
    <2>9. CASE w = "merged"
      <3>1. h = 5 /\ slot = 2 /\ Source(w) = "alert"
        BY <2>9 DEF h, slot, Source
      <3> QED BY <1>1, <1>15, <2>1, <2>3, <2>4, <2>5, <2>6, <2>7, <2>9, <3>1, PlacesAre, PlacesAfter
              DEF Windows
    <2>10. CASE w = "notice"
      <3>1. h = 6 /\ slot = 3 /\ Source(w) = "notice"
        BY <2>10 DEF h, slot, Source
      <3> QED BY <1>1, <1>15, <2>1, <2>3, <2>4, <2>5, <2>6, <2>7, <2>10, <3>1, PlacesAre, PlacesAfter
              DEF Windows
    <2> QED BY <2>8, <2>9, <2>10 DEF Windows
  <1>17. 7 \in Places /\ 8 \in Places
    BY DEF Places
  <1> DEFINE LineHas(n) == \E x \in ToSet(Upcoming(u)) : x.n = n
             FiledHas(n) == \E x \in filed : x.n = n
             LostHas(n) == \E x \in lost : x.n = n
  <1>18. \A n \in Nat \ {0} :
           LineHas(n) \/ FiledHas(n) \/ LostHas(n) => n \in Everywhere[h] \/ n \in Everywhere[slot]
    <2>1. \A n \in Nat \ {0} : LineHas(n) \/ FiledHas(n) => n \in Everywhere[h] \/ n \in Everywhere[slot]
      BY <1>9, <1>12
    <2>2. \A n \in Nat \ {0} : LostHas(n) => n \in Everywhere[slot]
      BY <1>4, <1>10 DEF NumbersOf
    <2> QED BY <2>1, <2>2
  <1>19. /\ \A n \in Nat : n \in Everywhere'[h] <=> LineHas(n)
         /\ \A n \in Nat : n \in Everywhere'[7] <=> n \in Everywhere[7] \/ FiledHas(n)
         /\ \A n \in Nat : n \in Everywhere'[8] <=> n \in Everywhere[8] \/ LostHas(n)
    <2> HIDE DEF u, lost, filed
    <2> QED BY <1>16 DEF NumbersOf
  <1>20. ASSUME NEW n \in Nat \ {0}, n \in Everywhere[h] \/ n \in Everywhere[slot]
         PROVE  \/ LineHas(n) /\ ~FiledHas(n) /\ ~LostHas(n)
                \/ ~LineHas(n) /\ FiledHas(n) /\ ~LostHas(n)
                \/ ~LineHas(n) /\ ~FiledHas(n) /\ LostHas(n)
    <2>1. ~(LineHas(n) /\ FiledHas(n))
      BY <1>9, <1>20
    <2>2. PICK x \in ToSet(Upcoming(win[w])) \cup ToSet(waits) : x.n = n
      BY <1>4, <1>20 DEF NumbersOf
    <2>3. (LineHas(n) \/ FiledHas(n)) <=> \E y \in ToSet(Upcoming(v)) : y.n = n
      BY <1>9
    <2>4. CASE x \in ToSet(Upcoming(v))
      <3>1. LineHas(n) \/ FiledHas(n)
        BY <2>2, <2>3, <2>4
      <3>2. ASSUME NEW y \in lost, y.n = n PROVE FALSE
        <4>1. y \in ToSet(waits) /\ y \notin ToSet(Upcoming(v))
          BY <1>10
        <4>2. x \in ToSet(waits)
          BY <1>5, <2>2, <3>2, <4>1
        <4>3. x = y
          <5>1. \A z \in ToSet(waits) : \E i \in DOMAIN waits : waits[i] = z
            BY DEF ToSet
          <5> QED BY <1>3, <2>2, <3>2, <4>1, <4>2, <5>1 DEF Distinct
        <4> QED BY <2>4, <4>1, <4>3
      <3> QED BY <2>1, <3>1, <3>2
    <2>5. CASE x \notin ToSet(Upcoming(v))
      <3>1. x \notin ToSet(Upcoming(Drained(w))) /\ x.n # 0
        BY <1>7, <1>20, <2>2, <2>5
      <3>2. x \in ToSet(waits) /\ x.urgency = "ambient"
        BY <1>6, <2>2, <3>1
      <3>3. LostHas(n)
        BY <1>10, <2>2, <2>5, <3>2
      <3>4. ASSUME NEW y \in ToSet(Upcoming(v)), y.n = n PROVE FALSE
        <4>1. y \in ToSet(Upcoming(win[w])) \/ y \in ToSet(waits)
          BY <1>6, <1>7, <1>20, <3>4
        <4>2. CASE y \in ToSet(waits)
          <5>1. \A z \in ToSet(waits) : \E i \in DOMAIN waits : waits[i] = z
            BY DEF ToSet
          <5>2. x = y
            BY <1>3, <2>2, <3>2, <3>4, <4>2, <5>1 DEF Distinct
          <5> QED BY <2>5, <3>4, <5>2
        <4>3. CASE y \in ToSet(Upcoming(win[w]))
          BY <1>5, <2>2, <3>2, <3>4, <4>3
        <4> QED BY <4>1, <4>2, <4>3
      <3> QED BY <2>3, <3>3, <3>4
    <2> QED BY <2>4, <2>5
  <1> HIDE DEF u, lost, filed, LineHas, FiledHas, LostHas
  <1>21. \A i \in Places : \A n \in Everywhere'[i] : n <= fired'
    <2> SUFFICES ASSUME NEW i \in Places, NEW n \in Everywhere'[i] PROVE n <= fired'
      OBVIOUS
    <2>1. n \in Nat
      <3>1. CASE i = h
        BY <1>9, <1>16, <3>1, LineFacts, NumbersFacts DEF Proper
      <3>2. CASE i = slot
        BY <1>16, <3>2
      <3>3. CASE i = 7
        BY <1>9, <1>16, <3>3, Bounded, <1>17 DEF AnAlert
      <3>4. CASE i = 8
        BY <1>3, <1>16, <3>4, Bounded, <1>17 DEF lost
      <3>5. CASE i \notin {h, slot, 7, 8}
        BY <1>16, <3>5, Bounded
      <3> QED BY <3>1, <3>2, <3>3, <3>4, <3>5
    <2>2. n = 0 \/ \E j \in Places : n \in Everywhere[j]
      BY <1>3, <1>16, <1>17, <1>18, <1>19, <2>1
    <2> QED BY <1>1, <1>3, <2>1, <2>2, Bounded
  <1>22. ASSUME NEW n \in 1 .. fired PROVE Once(n)'
    <2>1. Once(n) /\ n \in Nat \ {0}
      BY <1>3 DEF AlertsInv
    <2>2. CASE n \in Everywhere[h] \/ n \in Everywhere[slot]
      <3>1. \A i \in Places : i \notin {h, slot} => n \notin Everywhere[i]
        BY <1>3, <2>1, <2>2, Apart
      <3>2. h # 7 /\ h # 8 /\ slot # 7 /\ slot # 8 /\ h # slot
        BY <1>3
      <3>3. CASE LineHas(n) /\ ~FiledHas(n) /\ ~LostHas(n)
        <4>1. n \in Everywhere'[h]
          BY <1>19, <2>1, <3>3
        <4>2. \A i \in Places : n \in Everywhere'[i] => i = h
          BY <1>16, <1>17, <1>19, <2>1, <3>1, <3>2, <3>3
        <4> QED BY <1>3, <4>1, <4>2, MovesOnce
      <3>4. CASE ~LineHas(n) /\ FiledHas(n) /\ ~LostHas(n)
        <4>1. n \in Everywhere'[7]
          BY <1>19, <2>1, <3>4
        <4>2. \A i \in Places : n \in Everywhere'[i] => i = 7
          BY <1>16, <1>17, <1>19, <2>1, <3>1, <3>2, <3>4
        <4> QED BY <1>17, <4>1, <4>2, MovesOnce
      <3>5. CASE ~LineHas(n) /\ ~FiledHas(n) /\ LostHas(n)
        <4>1. n \in Everywhere'[8]
          BY <1>19, <2>1, <3>5
        <4>2. \A i \in Places : n \in Everywhere'[i] => i = 8
          BY <1>16, <1>17, <1>19, <2>1, <3>1, <3>2, <3>5
        <4> QED BY <1>17, <4>1, <4>2, MovesOnce
      <3> QED BY <1>20, <2>1, <2>2, <3>3, <3>4, <3>5
    <2>3. CASE n \notin Everywhere[h] /\ n \notin Everywhere[slot]
      <3>1. ~LineHas(n) /\ ~FiledHas(n) /\ ~LostHas(n)
        BY <1>18, <2>1, <2>3
      <3>2. h # 7 /\ h # 8 /\ slot # 7 /\ slot # 8 /\ h # slot
        BY <1>3
      <3>3. \A i \in Places : n \in Everywhere'[i] <=> n \in Everywhere[i]
        BY <1>16, <1>19, <2>1, <2>3, <3>1, <3>2
      <3> QED BY <2>1, <3>3, StaysOnce
    <2> QED BY <2>2, <2>3
  <1>23. fired' = fired
    BY <1>1
  <1> QED BY <1>15, <1>21, <1>22, <1>23 DEF AlertsInv

-----------------------------------------------------------------------------
LEMMA StepHolds ==
  ASSUME AlertsInv, [AlertsNext]_alertVars
  PROVE  AlertsInv'
  <1>1. CASE LogLine
    <2>1. PICK line : Apply(Process(line)) /\ UNCHANGED <<cfg, win, hist, forgotten>>
      BY <1>1 DEF LogLine
    <2>2. FiredOnce(Process(line))
      BY ProcessFacts DEF AlertsInv, TypeInv
    <2> QED BY <2>1, <2>2, ApplyStep
  <1>2. CASE TriggerTick
    BY <1>2, TickStep
  <1>3. CASE \E w \in Windows, aged, idle \in BOOLEAN : WindowTick(w, aged, idle)
    BY <1>3, WindowStep
  <1>4. CASE Reload
    BY <1>4, ReloadStep
  <1>5. CASE TestFire
    <2>1. PICK i \in DOMAIN cfg :
            /\ Apply(Execute(cfg[i].actions, [x \in {} |-> Nothing], NothingFired, TRUE))
            /\ UNCHANGED <<cfg, win, hist, forgotten>>
      BY <1>5 DEF TestFire
    <2>2. fired \in Nat /\ cfg \in Configs
      BY DEF AlertsInv, TypeInv
    <2>3. /\ cfg[i].actions \in Seq(ToSet(cfg[i].actions))
          /\ \A a \in ToSet(cfg[i].actions) : IsAction(a)
      <3>1. cfg[i] \in ToSet(cfg)
        BY DEF ToSet
      <3> QED BY <2>2, <3>1, AlertsAssumption
    <2>4. FiredOnce(Execute(cfg[i].actions, [x \in {} |-> Nothing], NothingFired, TRUE))
      BY <2>2, <2>3, ExecuteFacts, NothingIsFiredOnce
    <2> QED BY <2>1, <2>4, ApplyStep
  <1>6. CASE \/ SwitchStyle \/ ToggleShowAll \/ FallSilent \/ UNCHANGED alertVars
    <2>1. UNCHANGED <<cfg, pending, queue, win, hist, fired, forgotten>>
      BY <1>6 DEF SwitchStyle, ToggleShowAll, FallSilent, alertVars
    <2>2. TypeInv'
      BY <2>1 DEF AlertsInv, TypeInv
    <2>3. Everywhere' = Everywhere
      BY <2>1 DEF Everywhere, Held
    <2> QED BY <2>1, <2>2, <2>3 DEF AlertsInv, Once
  <1> QED BY <1>1, <1>2, <1>3, <1>4, <1>5, <1>6 DEF AlertsNext

LEMMA AlertsInvHolds == AlertsSpec => []AlertsInv
  BY InitHolds, StepHolds, PTL DEF AlertsSpec

(* Every alert fired is in exactly one place at any time: on its way, in one
   window's hands, in the history once, or given up by a reload or the
   ambient rule, whatever the triggers, the lines, the ticks and the settings
   (triggers.rs, alert_engine.rs, overlay*.rs). *)
THEOREM AlertsAreNeverLost == AlertsSpec => []EveryAlertOnce
  <1>1. ASSUME AlertsInv PROVE EveryAlertOnce
    <2>1. ASSUME NEW n \in 1 .. fired
          PROVE  Cardinality({i \in DOMAIN Everywhere : n \in Everywhere[i]}) = 1
      <3>1. PICK i \in Places : n \in Everywhere[i] /\ \A j \in Places : n \in Everywhere[j] => j = i
        BY <1>1 DEF AlertsInv, Once
      <3>2. {j \in DOMAIN Everywhere : n \in Everywhere[j]} = {i}
        BY <3>1, PlacesAre
      <3> QED BY <3>2, FS_Singleton
    <2>2. Distinct(hist)
      BY <1>1 DEF AlertsInv, TypeInv
    <2> QED BY <2>1, <2>2 DEF EveryAlertOnce, Distinct
  <1> QED BY <1>1, AlertsInvHolds, PTL

-----------------------------------------------------------------------------
(* The order of operational alerts *)

(* A part of two sequences on end is the first's part and the second's. *)
LEMMA ShiftedSize ==
  ASSUME NEW S \in SUBSET Nat, IsFiniteSet(S), NEW n \in Nat
  PROVE  /\ IsFiniteSet({i + n : i \in S}) /\ Cardinality({i + n : i \in S}) = Cardinality(S)
  <1> DEFINE T == {i + n : i \in S}
             f == [i \in S |-> i + n]
  <1>1. f \in Bijection(S, T)
    <2>1. f \in [S -> T]
      OBVIOUS
    <2>2. \A t \in T : \E i \in S : f[i] = t
      OBVIOUS
    <2>3. \A i, j \in S : f[i] = f[j] => i = j
      OBVIOUS
    <2> HIDE DEF f, T
    <2> QED BY <2>1, <2>2, <2>3 DEF Bijection, Injection, Surjection, IsInjective
  <1>2. ExistsBijection(S, T)
    BY <1>1 DEF ExistsBijection
  <1> HIDE DEF T
  <1> QED BY <1>2, FS_Bijection DEF T

LEMMA SizeOfBoth ==
  ASSUME NEW S \in SUBSET Nat, IsFiniteSet(S), NEW T \in SUBSET Nat, IsFiniteSet(T),
         NEW n \in Nat, \A i \in S : i <= n, \A i \in T : i > 0
  PROVE  /\ IsFiniteSet(S \cup {i + n : i \in T})
         /\ Cardinality(S \cup {i + n : i \in T}) = Cardinality(S) + Cardinality(T)
  <1> DEFINE R == {i + n : i \in T}
  <1>1. IsFiniteSet(R) /\ Cardinality(R) = Cardinality(T)
    BY ShiftedSize
  <1>2. S \cap R = {}
    OBVIOUS
  <1>3. Cardinality(S) \in Nat /\ Cardinality(T) \in Nat
    BY FS_CardinalityType
  <1> HIDE DEF R
  <1>4. IsFiniteSet(S \cup R) /\ Cardinality(S \cup R) = Cardinality(S) + Cardinality(R) - 0
    BY <1>1, <1>2, FS_Union, FS_EmptySet
  <1> QED BY <1>1, <1>3, <1>4 DEF R

Joins(U, S, n, T) == \A x : x \in U <=> x \in S \/ \E i \in T : x = i + n

LEMMA PartOfBoth ==
  ASSUME NEW seq, IsSequence(seq), NEW S \in SUBSET DOMAIN seq,
         NEW t, IsSequence(t), NEW T \in SUBSET DOMAIN t,
         NEW U, Joins(U, S, Len(seq), T)
  PROVE  Part(seq \o t, U) = Part(seq, S) \o Part(t, T)
  <1> DEFINE n == Len(seq)
             u == seq \o t
             p == Part(seq, S)
             q == Part(t, T)
             r == Part(u, U)
  <1>1. /\ n \in Nat /\ Len(t) \in Nat /\ DOMAIN seq = 1 .. n /\ DOMAIN t = 1 .. Len(t)
        /\ IsSequence(u) /\ DOMAIN u = 1 .. n + Len(t) /\ Len(u) = n + Len(t)
        /\ \A i \in 1 .. n + Len(t) : u[i] = IF i <= n THEN seq[i] ELSE t[i - n]
    <2>1. /\ n \in Nat /\ Len(t) \in Nat /\ DOMAIN seq = 1 .. n /\ DOMAIN t = 1 .. Len(t)
      BY SequenceIs
    <2>2. /\ IsSequence(u) /\ Len(u) = n + Len(t)
          /\ \A i \in 1 .. n + Len(t) : u[i] = IF i <= n THEN seq[i] ELSE t[i - n]
      BY ConcatIs
    <2>3. DOMAIN u = 1 .. Len(u)
      BY <2>2, SequenceIs
    <2> QED BY <2>1, <2>2, <2>3
  <1> HIDE DEF n, u
  <1>2. /\ S \in SUBSET Nat /\ IsFiniteSet(S) /\ \A i \in S : i <= n
        /\ T \in SUBSET Nat /\ IsFiniteSet(T) /\ \A i \in T : i > 0
        /\ Cardinality(S) \in Nat /\ Cardinality(T) \in Nat
    <2>1. IsFiniteSet(1 .. n) /\ IsFiniteSet(1 .. Len(t))
      BY <1>1, FS_Interval
    <2>2. IsFiniteSet(S) /\ IsFiniteSet(T)
      BY <1>1, <2>1, FS_Subset
    <2> QED BY <1>1, <2>2, FS_CardinalityType
  <1>0. \A x : x \in U <=> x \in S \/ \E i \in T : x = i + n
    BY DEF n, Joins
  <1>3. /\ U \in SUBSET DOMAIN u /\ U \in SUBSET Nat /\ IsFiniteSet(U)
        /\ Cardinality(U) = Cardinality(S) + Cardinality(T)
    <2>1. U \in SUBSET DOMAIN u /\ U \in SUBSET Nat
      BY <1>1, <1>0
    <2>2. U = S \cup {i + n : i \in T}
      BY <1>0
    <2> QED BY <1>1, <1>2, <2>1, <2>2, SizeOfBoth
  <1>4. ASSUME NEW i \in S PROVE Rank(U, i) = Rank(S, i)
    <2>1. \A j \in T : ~(j + n < i)
      BY <1>1, <1>2
    <2>2. {y \in U : y < i} = {y \in S : y < i}
      BY <2>1, <1>0
    <2> QED BY <2>2 DEF Rank
  <1>5. ASSUME NEW i \in T PROVE Rank(U, i + n) = Cardinality(S) + Rank(T, i)
    <2> DEFINE B == {y \in T : y < i}
    <2>1. \A y \in S : y < i + n
      BY <1>1, <1>2
    <2>2. {y \in U : y < i + n} = S \cup {y + n : y \in B}
      <3>1. \A y \in T : y + n < i + n <=> y < i
        BY <1>1, <1>2
      <3> QED BY <2>1, <3>1, <1>0
    <2>3. B \in SUBSET Nat /\ IsFiniteSet(B) /\ \A j \in B : j > 0
      BY <1>2, FS_Subset
    <2> HIDE DEF B
    <2>4. Cardinality(S \cup {y + n : y \in B}) = Cardinality(S) + Cardinality(B)
      BY <1>1, <1>2, <2>3, SizeOfBoth
    <2> QED BY <2>2, <2>4 DEF Rank, B
  <1>6. /\ IsSequence(r) /\ DOMAIN r = 1 .. Cardinality(S) + Cardinality(T)
        /\ \A i \in U : r[Rank(U, i) + 1] = u[i]
        /\ \A k \in DOMAIN r : \E i \in U : Rank(U, i) = k - 1
    BY <1>1, <1>3, PartIs
  <1>7. /\ IsSequence(p) /\ DOMAIN p = 1 .. Cardinality(S)
        /\ \A i \in S : Rank(S, i) \in Nat /\ Rank(S, i) + 1 \in DOMAIN p /\ p[Rank(S, i) + 1] = seq[i]
    BY PartIs
  <1>8. /\ IsSequence(q) /\ DOMAIN q = 1 .. Cardinality(T)
        /\ \A i \in T : Rank(T, i) \in Nat /\ Rank(T, i) + 1 \in DOMAIN q /\ q[Rank(T, i) + 1] = t[i]
    BY PartIs
  <1> HIDE DEF p, q, r
  <1>9. /\ Len(p) = Cardinality(S) /\ Len(q) = Cardinality(T)
        /\ Len(r) = Cardinality(S) + Cardinality(T)
    BY <1>2, <1>6, <1>7, <1>8, SequenceIs
  <1>10. /\ IsSequence(p \o q) /\ Len(p \o q) = Len(p) + Len(q)
         /\ \A k \in 1 .. Len(p) + Len(q) :
              (p \o q)[k] = IF k <= Len(p) THEN p[k] ELSE q[k - Len(p)]
    BY <1>7, <1>8, ConcatIs
  <1>11. ASSUME NEW k \in 1 .. Len(r) PROVE r[k] = (p \o q)[k]
    <2>1. PICK i \in U : Rank(U, i) = k - 1
      BY <1>6, <1>9
    <2>2. k \in Int /\ r[k] = u[i] /\ k \in 1 .. Len(p) + Len(q)
      <3>1. k = Rank(U, i) + 1
        BY <2>1
      <3> QED BY <1>6, <1>9, <3>1
    <2>3. CASE i \in S
      <3>1. Rank(S, i) = k - 1 /\ Rank(S, i) + 1 = k /\ k \in 1 .. Cardinality(S)
        BY <1>4, <1>7, <2>1, <2>2, <2>3
      <3>2. p[k] = seq[i] /\ u[i] = seq[i] /\ k <= Len(p)
        BY <1>1, <1>2, <1>7, <1>9, <2>3, <3>1
      <3> QED BY <1>10, <2>2, <3>2
    <2>4. ASSUME NEW j \in T, i = j + n PROVE r[k] = (p \o q)[k]
      <3>1. Cardinality(S) + Rank(T, j) = k - 1 /\ Rank(T, j) \in Nat
        BY <1>5, <1>8, <2>1, <2>4
      <3>2. Rank(T, j) + 1 = k - Len(p) /\ ~(k <= Len(p))
        BY <1>2, <1>9, <2>2, <3>1
      <3>3. q[k - Len(p)] = t[j]
        BY <1>8, <3>2
      <3>4. i \in 1 .. n + Len(t) /\ ~(i <= n) /\ i - n = j
        BY <1>1, <1>2, <2>4
      <3>5. u[i] = t[j]
        BY <1>1, <3>4
      <3> QED BY <1>10, <2>2, <3>2, <3>3, <3>5
    <2> QED BY <2>3, <2>4, <1>0
  <1>12. r = [k \in 1 .. Len(r) |-> r[k]] /\ p \o q = [k \in 1 .. Len(p \o q) |-> (p \o q)[k]]
    BY <1>6, <1>10, SequenceIs
  <1>13. r = p \o q
    BY <1>9, <1>10, <1>11, <1>12
  <1> QED BY <1>13 DEF n, u, p, q, r

LEMMA AlertsAreASequence ==
  ASSUME NEW seq \in Seq(AnAlert)
  PROVE  IsSequence(seq) /\ Len(seq) \in Nat /\ DOMAIN seq = 1 .. Len(seq)
  <1>1. Len(seq) \in Nat /\ DOMAIN seq = 1 .. Len(seq) /\ seq = [k \in 1 .. Len(seq) |-> seq[k]]
    BY LenProperties
  <1> QED BY <1>1, ListIsSequence

LEMMA CalmOfBoth ==
  ASSUME NEW seq \in Seq(AnAlert), NEW t \in Seq(AnAlert)
  PROVE  /\ Calm(seq) \in Seq(AnAlert)
         /\ Calm(seq \o t) = Calm(seq) \o Calm(t)
  <1> DEFINE At(x) == {i \in DOMAIN x : x[i].urgency = "operational"}
  <1>1. /\ IsSequence(seq) /\ Len(seq) \in Nat /\ DOMAIN seq = 1 .. Len(seq)
        /\ IsSequence(t) /\ Len(t) \in Nat /\ DOMAIN t = 1 .. Len(t)
    BY AlertsAreASequence
  <1>2. /\ DOMAIN (seq \o t) = 1 .. Len(seq) + Len(t)
        /\ \A i \in 1 .. Len(seq) + Len(t) :
             (seq \o t)[i] = IF i <= Len(seq) THEN seq[i] ELSE t[i - Len(seq)]
    <2>1. /\ seq \o t \in Seq(AnAlert) /\ Len(seq \o t) = Len(seq) + Len(t)
          /\ \A i \in 1 .. Len(seq) + Len(t) :
               (seq \o t)[i] = IF i <= Len(seq) THEN seq[i] ELSE t[i - Len(seq)]
      BY ConcatProperties
    <2> QED BY <2>1, LenProperties
  <1>3. At(seq \o t) = At(seq) \cup {i + Len(seq) : i \in At(t)}
    <2>1. \A i \in At(seq \o t) : i \in At(seq) \/ (i - Len(seq) \in At(t) /\ i = (i - Len(seq)) + Len(seq))
      BY <1>1, <1>2
    <2>2. \A i \in At(seq) : i \in At(seq \o t)
      BY <1>1, <1>2
    <2>3. \A i \in At(t) : i + Len(seq) \in At(seq \o t)
      <3> SUFFICES ASSUME NEW i \in At(t) PROVE i + Len(seq) \in At(seq \o t)
        OBVIOUS
      <3>1. i + Len(seq) \in 1 .. Len(seq) + Len(t) /\ ~(i + Len(seq) <= Len(seq)) /\ (i + Len(seq)) - Len(seq) = i
        BY <1>1
      <3> QED BY <1>2, <3>1
    <2> HIDE DEF At
    <2> QED BY <2>1, <2>2, <2>3
  <1>4. At(seq) \in SUBSET DOMAIN seq /\ At(t) \in SUBSET DOMAIN t
    OBVIOUS
  <1>5. Calm(seq) = Part(seq, At(seq)) /\ Calm(t) = Part(t, At(t)) /\ Calm(seq \o t) = Part(seq \o t, At(seq \o t))
    BY DEF Calm
  <1> HIDE DEF At
  <1>6. Part(seq, At(seq)) \in Seq(AnAlert)
    BY <1>4, PartFacts
  <1>7. Joins(At(seq \o t), At(seq), Len(seq), At(t))
    BY <1>3 DEF Joins
  <1>8. Part(seq \o t, At(seq \o t)) = Part(seq, At(seq)) \o Part(t, At(t))
    BY SMTT(20), <1>1, <1>4, <1>7, PartOfBoth
  <1> QED BY <1>5, <1>6, <1>8

LEMMA CalmOfNone ==
  ASSUME NEW seq \in Seq(AnAlert), \A i \in DOMAIN seq : seq[i].urgency # "operational"
  PROVE  Calm(seq) = <<>>
  <1>1. {i \in DOMAIN seq : seq[i].urgency = "operational"} = {}
    OBVIOUS
  <1>2. Calm(seq) = Part(seq, {})
    BY <1>1 DEF Calm
  <1>3. Cardinality({}) = 0
    BY FS_EmptySet
  <1>4. Part(seq, {}) \in Seq(AnAlert) /\ DOMAIN Part(seq, {}) = 1 .. 0
    <2>1. {} \in SUBSET DOMAIN seq
      OBVIOUS
    <2> QED BY <1>3, <2>1, PartFacts, PartIs, AlertsAreASequence
  <1>5. Len(Part(seq, {})) = 0
    BY <1>4, LenProperties
  <1> QED BY <1>2, <1>4, <1>5, EmptySeq

LEMMA CalmOfOne ==
  ASSUME NEW seq \in Seq(AnAlert), NEW e \in AnAlert
  PROVE  /\ <<e>> \in Seq(AnAlert) /\ Calm(<<e>>) \in Seq(AnAlert)
         /\ e.urgency # "operational" => Calm(seq) \o Calm(<<e>>) = Calm(seq)
  <1>1. <<e>> \in Seq(AnAlert) /\ Calm(<<e>>) \in Seq(AnAlert) /\ Calm(seq) \in Seq(AnAlert)
    BY SingleIsDistinct, CalmOfBoth
  <1>2. ASSUME e.urgency # "operational" PROVE Calm(<<e>>) = <<>>
    <2>1. \A i \in DOMAIN <<e>> : <<e>>[i].urgency # "operational"
      BY <1>2
    <2> QED BY <1>1, <2>1, CalmOfNone
  <1> QED BY <1>1, <1>2, ConcatEmptySeq

LEMMA AlertsAssociate ==
  ASSUME NEW x \in Seq(AnAlert), NEW y \in Seq(AnAlert), NEW z \in Seq(AnAlert)
  PROVE  (x \o y) \o z = x \o (y \o z)
  BY ConcatAssociative

LEMMA LastOne ==
  ASSUME NEW seq \in Seq(AnAlert), NEW e \in AnAlert
  PROVE  SubSeq(Append(seq, e), Len(seq) + 1, Len(Append(seq, e))) = <<e>>
  <1> DEFINE u == Append(seq, e)
             n == Len(seq) + 1
  <1>1. u \in Seq(AnAlert) /\ Len(u) = n /\ u[n] = e /\ n \in Nat /\ n >= 1
    BY AppendProperties, LenProperties
  <1> HIDE DEF u, n
  <1>2. n \in 1 .. Len(u) /\ n \in n .. Len(u) /\ n + 1 \in Int /\ n \in Int /\ n < n + 1
    BY <1>1
  <1>3. SubSeq(u, n, n) = <<u[n]>> \o SubSeq(u, n + 1, n)
    BY <1>1, <1>2, SubSeqRecursiveFirst
  <1>4. SubSeq(u, n + 1, n) = <<>>
    BY <1>2, SubSeqEmpty
  <1>5. <<e>> \o <<>> = <<e>>
    BY SingleIsDistinct, ConcatEmptySeq
  <1> QED BY <1>1, <1>3, <1>4, <1>5 DEF u, n

Steady(v) == v \in AWindow /\ (v.active = Nothing <=> v.phase = "none")

(* An alert taken over goes behind the operational ones, or is none. *)
LEMMA TakeKeepsOrder ==
  ASSUME NEW v, Steady(v), NEW e \in AnAlert
  PROVE  /\ Steady(Take(v, e)) /\ Take(v, e).phase \in {v.phase, "none"}
         /\ Calm(Upcoming(Take(v, e))) = Calm(Upcoming(v)) \o Calm(<<e>>)
  <1>1. /\ v \in AWindow /\ v.queue \in Seq(AnAlert) /\ v.active \in AnAlert \cup {Nothing}
        /\ Playing(v) \in Seq(AnAlert) /\ Upcoming(v) \in Seq(AnAlert) /\ <<e>> \in Seq(AnAlert)
    BY LineFacts, SingleIsDistinct DEF AWindow, Steady
  <1>2. \A x, y, z \in Seq(AnAlert) : (x \o y) \o z = x \o (y \o z) /\ x \o y \in Seq(AnAlert)
    BY ConcatAssociative, ConcatProperties
  <1>3. CASE e.urgency = "emergency"
    <2> DEFINE q == <<e>> \o Playing(v) \o v.queue
    <2>1. Take(v, e) = [queue |-> q, active |-> Nothing, phase |-> "none"]
      BY <1>1, <1>3 DEF Take, Interrupt, AWindow, Playing
    <2>2. q = <<e>> \o Upcoming(v) /\ q \in Seq(AnAlert)
      BY <1>1, <1>2 DEF Upcoming
    <2> HIDE DEF q
    <2>3. Upcoming(Take(v, e)) = q /\ Steady(Take(v, e))
      BY <2>1, <2>2, ConcatEmptySeq DEF Upcoming, Playing, AWindow, Phases, Steady
    <2>4. Calm(q) = Calm(<<e>>) \o Calm(Upcoming(v))
      BY <1>1, <2>2, CalmOfBoth
    <2>5. Calm(<<e>>) = <<>>
      <3>1. \A i \in DOMAIN <<e>> : <<e>>[i].urgency # "operational"
        BY <1>3
      <3> QED BY <1>1, <3>1, CalmOfNone
    <2>6. Calm(Upcoming(v)) \in Seq(AnAlert)
      BY <1>1, CalmOfBoth
    <2> QED BY <2>1, <2>3, <2>4, <2>5, <2>6, ConcatEmptySeq
  <1>4. CASE e.urgency # "emergency" /\ TooLate(v, e)
    <2>1. Take(v, e) = v /\ e.urgency # "operational"
      BY <1>4 DEF Take, TooLate
    <2> QED BY <1>1, <2>1, CalmOfOne
  <1>5. CASE e.urgency # "emergency" /\ ~TooLate(v, e)
    <2>1. Take(v, e) = [v EXCEPT !.queue = Append(v.queue, e)]
      BY <1>5 DEF Take
    <2>2. Append(v.queue, e) = v.queue \o <<e>> /\ Append(v.queue, e) \in Seq(AnAlert)
      BY <1>1, AppendIsConcat
    <2>3. Upcoming(Take(v, e)) = Playing(v) \o (v.queue \o <<e>>)
      BY <1>1, <2>1, <2>2 DEF Upcoming, Playing, AWindow
    <2>4. Upcoming(Take(v, e)) = Upcoming(v) \o <<e>>
      BY ZenonT(40), <1>1, <1>2, <2>3 DEF Upcoming
    <2>5. Steady(Take(v, e)) /\ Take(v, e).phase = v.phase
      BY <1>1, <2>1, <2>2 DEF AWindow, Steady
    <2> QED BY <1>1, <2>4, <2>5, CalmOfBoth
  <1> QED BY <1>3, <1>4, <1>5

LEMMA DrainedKeepsOrder ==
  ASSUME NEW w, Steady(win[w]), queue[Source(w)] \in Seq(AnAlert)
  PROVE  /\ Steady(Drained(w)) /\ Drained(w).phase \in {win[w].phase, "none"}
         /\ Calm(Upcoming(Drained(w))) = Calm(Upcoming(win[w])) \o Calm(queue[Source(w)])
  <1> DEFINE q == queue[Source(w)]
             n == Len(q)
             upTo(i) == SubSeq(q, 1, i)
  <1>1. n \in Nat /\ DOMAIN q = 1 .. n /\ \A i \in 1 .. n : q[i] \in AnAlert
    BY LenProperties, ElementOfSeq
  <1>2. PICK after : /\ after[0] = win[w] /\ Drained(w) = after[n]
                     /\ \A i \in 1 .. n : after[i] = Take(after[i - 1], q[i])
    BY DrainedIs
  <1>3. /\ upTo(0) = <<>> /\ upTo(n) = q
        /\ \A i \in 1 .. n : upTo(i) = upTo(i - 1) \o <<q[i]>> /\ upTo(i - 1) \in Seq(AnAlert)
    <2>1. upTo(0) = <<>>
      BY SubSeqEmpty
    <2>2. upTo(n) = q
      BY SubSeqFull
    <2>3. ASSUME NEW i \in 1 .. n PROVE upTo(i) = upTo(i - 1) \o <<q[i]>>
      <3>1. 1 \in 1 .. Len(q) /\ i \in 1 .. Len(q)
        BY <1>1
      <3> QED BY <3>1, SubSeqRecursiveSecond
    <2>4. ASSUME NEW i \in 1 .. n PROVE upTo(i - 1) \in Seq(AnAlert)
      <3>1. 1 \in Int /\ i - 1 \in Int /\ \A k \in 1 .. i - 1 : q[k] \in AnAlert
        BY <1>1
      <3> QED BY <3>1, SubSeqProperties
    <2> QED BY <2>1, <2>2, <2>3, <2>4
  <1> HIDE DEF upTo
  <1> DEFINE Ok(i) == /\ Steady(after[i]) /\ after[i].phase \in {win[w].phase, "none"}
                      /\ Calm(Upcoming(after[i])) = Calm(Upcoming(win[w])) \o Calm(upTo(i))
             T == {i \in 0 .. n : Ok(i)}
  <1>4. Upcoming(win[w]) \in Seq(AnAlert) /\ Calm(Upcoming(win[w])) \in Seq(AnAlert)
    BY LineFacts, CalmOfBoth DEF Steady
  <1>5. 0 \in T
    <2>1. Calm(<<>>) = <<>>
      <3>1. <<>> \in Seq(AnAlert) /\ DOMAIN <<>> = {}
        OBVIOUS
      <3> QED BY <3>1, CalmOfNone
    <2>2. Calm(Upcoming(win[w])) \o Calm(upTo(0)) = Calm(Upcoming(win[w]))
      BY <1>3, <1>4, <2>1, ConcatEmptySeq
    <2> QED BY <1>1, <1>2, <2>2
  <1>6. ASSUME NEW i \in 1 .. n, i - 1 \in T PROVE i \in T
    <2> DEFINE v == after[i - 1]
    <2>1. Ok(i - 1) /\ i \in 0 .. n /\ q[i] \in AnAlert /\ after[i] = Take(v, q[i])
      BY <1>1, <1>2, <1>6
    <2>2. /\ Steady(after[i]) /\ after[i].phase \in {v.phase, "none"}
          /\ Calm(Upcoming(after[i])) = Calm(Upcoming(v)) \o Calm(<<q[i]>>)
      BY <2>1, TakeKeepsOrder
    <2>3. /\ upTo(i - 1) \in Seq(AnAlert) /\ <<q[i]>> \in Seq(AnAlert)
          /\ Calm(upTo(i - 1)) \in Seq(AnAlert) /\ Calm(<<q[i]>>) \in Seq(AnAlert)
      BY <1>3, <2>1, CalmOfOne, CalmOfBoth
    <2>4. Calm(upTo(i)) = Calm(upTo(i - 1)) \o Calm(<<q[i]>>)
      BY <1>3, <2>3, CalmOfBoth
    <2>5. (Calm(Upcoming(win[w])) \o Calm(upTo(i - 1))) \o Calm(<<q[i]>>)
            = Calm(Upcoming(win[w])) \o (Calm(upTo(i - 1)) \o Calm(<<q[i]>>))
      <3>1. /\ Calm(Upcoming(win[w])) \in Seq(AnAlert)
            /\ Calm(upTo(i - 1)) \in Seq(AnAlert) /\ Calm(<<q[i]>>) \in Seq(AnAlert)
        BY <1>4, <2>3
      <3> HIDE DEF q, n, Ok, T, v
      <3> QED BY SMTT(20), <3>1, AlertsAssociate
    <2> QED BY <2>1, <2>2, <2>4, <2>5
  <1>7. n \in T
    <2> HIDE DEF T
    <2>1. n \in Nat /\ n \in 0 .. n
      BY <1>1
    <2>2. \A i \in 1 .. n : i - 1 \in T => i \in T
      BY <1>6
    <2> HIDE DEF n
    <2> QED BY <1>5, <2>1, <2>2, InductionUpTo
  <1> QED BY <1>2, <1>3, <1>7

(* A window that shows no placeholder and needs none keeps its line. *)
LEMMA ShownKeepsOrder ==
  ASSUME NEW v, Steady(v), ~showAll, v.phase # "place"
  PROVE  Steady(Shown(v)) /\ Upcoming(Shown(v)) = Upcoming(v)
  <1>1. v \in AWindow /\ v.queue \in Seq(AnAlert) /\ v.active \in AnAlert \cup {Nothing}
    BY DEF AWindow, Steady
  <1>2. CASE v.active # Nothing \/ v.queue = <<>>
    BY <1>2 DEF Shown
  <1>3. CASE v.active = Nothing /\ v.queue # <<>>
    <2> DEFINE y == [queue |-> Tail(v.queue), active |-> Head(v.queue), phase |-> "fly"]
    <2>1. Shown(v) = y
      BY <1>3 DEF Shown
    <2>2. /\ Head(v.queue) \in AnAlert /\ Tail(v.queue) \in Seq(AnAlert)
          /\ v.queue = <<Head(v.queue)>> \o Tail(v.queue)
      <3>1. Head(v.queue) \in AnAlert /\ Tail(v.queue) \in Seq(AnAlert)
        BY <1>1, <1>3, HeadTailProperties
      <3>2. v.queue = <<Head(v.queue)>> \o Tail(v.queue)
        BY <1>1, <1>3, HeadTailAppend
      <3> QED BY <3>1, <3>2
    <2>3. Steady(y) /\ Upcoming(y) = v.queue
      BY <2>2, AlertsAssumption DEF AWindow, Phases, Upcoming, Playing, Steady
    <2>4. Upcoming(v) = v.queue
      BY <1>1, <1>3, ConcatEmptySeq DEF Upcoming, Playing
    <2> QED BY <2>1, <2>3, <2>4
  <1> QED BY <1>2, <1>3

LEMMA WindowKeepsOrder ==
  ASSUME AlertsInv, NEW w \in Windows, NEW aged, NEW idle, WindowTick(w, aged, idle),
         ~showAll, win[w].phase # "place"
  PROVE  Calm(SubSeq(hist', Len(hist) + 1, Len(hist'))) \o Calm(Upcoming(win'[w]))
           = Calm(Upcoming(win[w])) \o Calm(queue[Source(w)])
  <1> DEFINE v == Shown(Drained(w))
             u == IF aged THEN Advanced(v) ELSE v
             filed == SubSeq(hist', Len(hist) + 1, Len(hist'))
  <1>1. /\ win'[w] = u
        /\ hist' = IF aged /\ v.phase = "shrink" THEN Append(hist, v.active) ELSE hist
    BY DEF WindowTick, AlertsInv, TypeInv
  <1>2. /\ Steady(win[w]) /\ hist \in Seq(AnAlert) /\ queue[Source(w)] \in Seq(AnAlert)
    <2>1. Source(w) \in {"alert", "notice"}
      BY DEF Source
    <2> QED BY <2>1 DEF AlertsInv, TypeInv, Waiting, Proper, Steady
  <1>3. /\ Steady(Drained(w)) /\ Drained(w).phase # "place"
        /\ Calm(Upcoming(Drained(w))) = Calm(Upcoming(win[w])) \o Calm(queue[Source(w)])
    BY <1>2, DrainedKeepsOrder
  <1>4. /\ Steady(v)
        /\ Calm(Upcoming(v)) = Calm(Upcoming(win[w])) \o Calm(queue[Source(w)])
    BY <1>3, ShownKeepsOrder
  <1> HIDE DEF v
  <1>5. /\ v \in AWindow /\ v.queue \in Seq(AnAlert) /\ v.active \in AnAlert \cup {Nothing}
        /\ Upcoming(v) \in Seq(AnAlert) /\ Calm(Upcoming(v)) \in Seq(AnAlert)
    BY <1>4, LineFacts, CalmOfBoth DEF AWindow, Steady
  <1>6. CASE aged /\ v.phase = "shrink"
    <2>1. /\ Advanced(v) = [queue |-> v.queue, active |-> Nothing, phase |-> "none"]
          /\ hist' = Append(hist, v.active)
      BY <1>1, <1>5, <1>6 DEF Advanced, AWindow
    <2>2. Upcoming(u) = v.queue
      BY <1>5, <1>6, <2>1, ConcatEmptySeq DEF Upcoming, Playing
    <2>3. v.active \in AnAlert /\ Upcoming(v) = <<v.active>> \o v.queue
      BY <1>4, <1>5, <1>6 DEF Steady, Upcoming, Playing
    <2>4. filed = <<v.active>>
      BY <1>2, <2>1, <2>3, LastOne
    <2>5. Calm(Upcoming(v)) = Calm(<<v.active>>) \o Calm(v.queue)
      <3>1. <<v.active>> \in Seq(AnAlert)
        BY <2>3
      <3> QED BY <1>5, <2>3, <3>1, CalmOfBoth
    <2> QED BY <1>1, <1>4, <2>2, <2>4, <2>5
  <1>7. CASE ~(aged /\ v.phase = "shrink")
    <2>1. Upcoming(u) = Upcoming(v) /\ hist' = hist
      BY <1>1, <1>5, <1>7 DEF Advanced, Upcoming, Playing, AWindow
    <2>2. filed = <<>>
      BY <1>2, <2>1, SubSeqEmpty, LenProperties
    <2>3. Calm(<<>>) = <<>>
      <3>1. <<>> \in Seq(AnAlert) /\ DOMAIN <<>> = {}
        OBVIOUS
      <3> QED BY <3>1, CalmOfNone
    <2> QED BY <1>1, <1>4, <1>5, <2>1, <2>2, <2>3, ConcatEmptySeq
  <1> QED BY <1>6, <1>7

(* What is filed and what is left, put together, is what was lined up and
   what came in. *)
KeepsOrder(w) ==
  (win'[w] # win[w] /\ ~showAll /\ win[w].phase # "place") =>
    Calm(SubSeq(hist', Len(hist) + 1, Len(hist'))) \o Calm(Upcoming(win'[w]))
      = Calm(Upcoming(win[w])) \o Calm(queue[Source(w)])

LEMMA StepKeepsOrder ==
  ASSUME AlertsInv, [AlertsNext]_alertVars, NEW w \in Windows
  PROVE  KeepsOrder(w)
  <1>1. CASE UNCHANGED win
    BY <1>1 DEF KeepsOrder
  <1>2. ASSUME NEW x \in Windows, NEW aged, NEW idle, WindowTick(x, aged, idle)
        PROVE  KeepsOrder(w)
    <2>1. CASE x = w
      BY <1>2, <2>1, WindowKeepsOrder DEF KeepsOrder
    <2>2. CASE x # w
      <3>1. win'[w] = win[w]
        BY <1>2, <2>2 DEF WindowTick, AlertsInv, TypeInv
      <3> QED BY <3>1 DEF KeepsOrder
    <2> QED BY <2>1, <2>2
  <1>3. (\E x \in Windows, aged, idle \in BOOLEAN : WindowTick(x, aged, idle)) \/ UNCHANGED win
    BY DEF AlertsNext, alertVars, LogLine, TriggerTick, Reload, TestFire, SwitchStyle,
           ToggleShowAll, FallSilent
  <1> QED BY <1>1, <1>2, <1>3

(* Operational alerts reach a window's part of the history in the order they
   were queued, and none of them is dropped or doubled on the way, though
   emergencies push in front and ambient ones are given up (alert_engine.rs). *)
THEOREM OrderIsKept == AlertsSpec => OrderKept
  <1>1. AlertsInv /\ [AlertsNext]_alertVars =>
          [\A w \in Windows :
             LET line(v) == Calm((IF v.active = Nothing THEN <<>> ELSE <<v.active>>) \o v.queue)
                 left == Calm(SubSeq(hist', Len(hist) + 1, Len(hist')))
             IN (win'[w] # win[w] /\ ~showAll /\ win[w].phase # "place") =>
                  left \o line(win'[w]) = line(win[w]) \o Calm(queue[Source(w)])]_alertVars
    BY StepKeepsOrder DEF KeepsOrder, Upcoming, Playing
  <1> QED BY <1>1, AlertsInvHolds, PTL DEF AlertsSpec, OrderKept

-----------------------------------------------------------------------------
(* What is aimed at a mob *)

(* Mobs are told apart by their ids, all of them drawn by now. *)
MobsAreTold ==
  /\ pulled \in Nat /\ IsSequence(mobs)
  /\ \A k \in DOMAIN mobs : "id" \in DOMAIN mobs[k] /\ mobs[k].id \in 1 .. pulled
  /\ \A j, k \in DOMAIN mobs : mobs[j].id = mobs[k].id => j = k

Aimed(x) ==
  /\ {"mob", "aim"} \subseteq DOMAIN x /\ x.aim \in 0 .. pulled
  /\ (\E k \in DOMAIN mobs : mobs[k].id = x.aim) => x.mob \in DOMAIN mobs /\ mobs[x.mob].id = x.aim

EncInv ==
  /\ MobsAreTold
  /\ IsSequence(casts) /\ \A c \in Range(casts) : Aimed(c)
  /\ IsSequence(dots) /\ \A d \in Range(dots) : Aimed(d)

LEMMA EncInitInv == EncInit => EncInv
  <1> SUFFICES ASSUME EncInit PROVE EncInv
    OBVIOUS
  <1>1. IsSequence(<<>>) /\ Range(<<>>) = {}
    BY DEF IsSequence, Range
  <1> QED BY <1>1 DEF EncInit, EncInv, MobsAreTold

(* The same mobs, whatever befell them. *)
SameMobs(ms) ==
  /\ IsSequence(ms) /\ DOMAIN ms = DOMAIN mobs
  /\ \A k \in DOMAIN mobs : "id" \in DOMAIN ms[k] /\ ms[k].id = mobs[k].id

LEMMA TouchedIsSame ==
  ASSUME NEW ms, SameMobs(ms), NEW k, NEW m,
         k \in DOMAIN mobs => "id" \in DOMAIN m /\ m.id = mobs[k].id
  PROVE  SameMobs([ms EXCEPT ![k] = m])
  <1> DEFINE new == [ms EXCEPT ![k] = m]
  <1>1. Len(ms) \in Nat /\ DOMAIN ms = 1 .. Len(ms)
    BY SequenceIs DEF SameMobs
  <1>2. new = [j \in DOMAIN ms |-> IF j = k THEN m ELSE ms[j]]
    OBVIOUS
  <1> HIDE DEF new
  <1>3. DOMAIN new = 1 .. Len(ms) /\ new = [j \in 1 .. Len(ms) |-> new[j]]
    BY <1>1, <1>2
  <1>4. IsSequence(new)
    BY <1>1, <1>3, ListIsSequence
  <1>5. DOMAIN ms = DOMAIN mobs /\ \A j \in DOMAIN mobs : "id" \in DOMAIN ms[j] /\ ms[j].id = mobs[j].id
    BY DEF SameMobs
  <1>6. DOMAIN new = DOMAIN mobs /\ \A j \in DOMAIN mobs : "id" \in DOMAIN new[j] /\ new[j].id = mobs[j].id
    BY <1>1, <1>2, <1>5
  <1>7. SameMobs(new)
    BY <1>4, <1>6 DEF SameMobs
  <1> QED BY <1>7 DEF new

LEMMA EncKeeps ==
  ASSUME EncInv, SameMobs(mobs'), pulled' = pulled,
         IsSequence(casts'), \A c \in Range(casts') : Aimed(c),
         IsSequence(dots'), \A d \in Range(dots') : Aimed(d)
  PROVE  EncInv'
  <1>1. \A k \in DOMAIN mobs' : mobs'[k].id = mobs[k].id /\ k \in DOMAIN mobs
    BY DEF SameMobs
  <1>2. MobsAreTold'
    BY <1>1 DEF EncInv, MobsAreTold, SameMobs
  <1>3. ASSUME NEW x, Aimed(x) PROVE Aimed(x)'
    BY <1>1, <1>3 DEF Aimed, SameMobs
  <1> QED BY <1>2, <1>3 DEF EncInv

LEMMA SameIsSame ==
  ASSUME EncInv
  PROVE  SameMobs(mobs)
  BY DEF EncInv, MobsAreTold, SameMobs

-----------------------------------------------------------------------------
(* A pull: new mobs, with ids of their own. *)
LEMMA PullStep ==
  ASSUME EncInv, Pull
  PROVE  EncInv'
  <1>1. PICK n \in 1 .. MaxPull : \E hp \in [1 .. n -> MobHp], add \in [1 .. n -> Players] :
          /\ mobs' = mobs \o [k \in 1 .. n |->
               SpawnMob(pulled + k, hp[k], IF mobs = <<>> /\ k = 1 THEN TankIdx ELSE add[k])]
          /\ pulled' = pulled + n
    BY DEF Pull
  <1>2. PICK hp, add :
          mobs' = mobs \o [k \in 1 .. n |->
            SpawnMob(pulled + k, hp[k], IF mobs = <<>> /\ k = 1 THEN TankIdx ELSE add[k])]
    BY <1>1
  <1> DEFINE new == [k \in 1 .. n |->
            SpawnMob(pulled + k, hp[k], IF mobs = <<>> /\ k = 1 THEN TankIdx ELSE add[k])]
  <1>3. n \in Nat /\ pulled \in Nat /\ pulled' = pulled + n /\ UNCHANGED <<casts, dots>>
    <2>1. MaxPull \in Nat
      BY EncConst
    <2>2. n \in Nat
      BY <2>1
    <2>3. UNCHANGED <<casts, dots>>
      BY DEF Pull
    <2>4. pulled \in Nat
      BY DEF EncInv, MobsAreTold
    <2> QED BY <1>1, <2>2, <2>3, <2>4
  <1>4. /\ DOMAIN new = 1 .. n /\ new = [k \in 1 .. n |-> new[k]]
        /\ \A k \in 1 .. n : "id" \in DOMAIN new[k] /\ new[k].id = pulled + k
    BY DEF SpawnMob
  <1> HIDE DEF new
  <1>5. IsSequence(new) /\ Len(new) = n
    BY <1>3, <1>4, ListIsSequence
  <1> DEFINE l == Len(mobs)
  <1>6. /\ IsSequence(mobs') /\ Len(mobs') = l + n /\ l \in Nat /\ DOMAIN mobs = 1 .. l
        /\ \A i \in 1 .. l + n : mobs'[i] = IF i <= l THEN mobs[i] ELSE new[i - l]
        /\ DOMAIN mobs' = 1 .. l + n
    <2>1. IsSequence(mobs)
      BY DEF EncInv, MobsAreTold
    <2>2. l \in Nat /\ DOMAIN mobs = 1 .. l
      BY <2>1, SequenceIs
    <2>3. /\ IsSequence(mobs \o new) /\ Len(mobs \o new) = l + n
          /\ \A i \in 1 .. l + n : (mobs \o new)[i] = IF i <= l THEN mobs[i] ELSE new[i - l]
      BY <2>1, <1>5, ConcatIs
    <2>4. mobs' = mobs \o new
      BY <1>2 DEF new
    <2>5. DOMAIN mobs' = 1 .. l + n
      BY <2>3, <2>4, SequenceIs
    <2> QED BY <2>2, <2>3, <2>4, <2>5
  <1> HIDE DEF l
  <1>7. \A i \in 1 .. l + n : (i <= l /\ i \in 1 .. l) \/ (~(i <= l) /\ i - l \in 1 .. n)
    BY <1>3, <1>6
  <1>8. \A i \in 1 .. l : i <= l /\ i \in 1 .. l + n
    BY <1>3, <1>6
  <1>9. \A i \in DOMAIN mobs' :
          \/ i \in DOMAIN mobs /\ mobs'[i] = mobs[i]
          \/ /\ ~(i <= l) /\ i - l \in 1 .. n /\ "id" \in DOMAIN mobs'[i]
             /\ mobs'[i].id = pulled + (i - l)
    BY <1>4, <1>6, <1>7
  <1>10. \A i \in DOMAIN mobs : i \in DOMAIN mobs' /\ mobs'[i] = mobs[i]
    BY <1>6, <1>8
  <1>11. \A k \in DOMAIN mobs :
           /\ "id" \in DOMAIN mobs[k] /\ mobs[k].id \in 1 .. pulled /\ mobs[k].id \in 1 .. pulled'
    BY <1>3 DEF EncInv, MobsAreTold
  <1>12. \A i \in 1 .. n : pulled + i \in 1 .. pulled' /\ ~(pulled + i <= pulled)
    BY <1>3
  <1>13. \A i \in DOMAIN mobs' : "id" \in DOMAIN mobs'[i] /\ mobs'[i].id \in 1 .. pulled'
    BY <1>9, <1>11, <1>12
  <1>14. ASSUME NEW i \in DOMAIN mobs', NEW j \in DOMAIN mobs', mobs'[i].id = mobs'[j].id
         PROVE  i = j
    <2>1. \A k \in 1 .. pulled : k <= pulled
      OBVIOUS
    <2>2. CASE i \in DOMAIN mobs /\ mobs'[i] = mobs[i] /\ j \in DOMAIN mobs /\ mobs'[j] = mobs[j]
      BY <1>14, <2>2 DEF EncInv, MobsAreTold
    <2>3. CASE /\ i - l \in 1 .. n /\ mobs'[i].id = pulled + (i - l)
               /\ j - l \in 1 .. n /\ mobs'[j].id = pulled + (j - l)
      <3>1. i \in Int /\ j \in Int
        BY <1>6
      <3>2. pulled + (i - l) = pulled + (j - l)
        BY <1>14, <2>3
      <3> QED BY <3>1, <3>2, <1>3, <1>6
    <2>4. CASE /\ i \in DOMAIN mobs /\ mobs'[i] = mobs[i]
               /\ j - l \in 1 .. n /\ mobs'[j].id = pulled + (j - l)
      BY <1>11, <1>12, <1>14, <2>1, <2>4
    <2>5. CASE /\ j \in DOMAIN mobs /\ mobs'[j] = mobs[j]
               /\ i - l \in 1 .. n /\ mobs'[i].id = pulled + (i - l)
      BY <1>11, <1>12, <1>14, <2>1, <2>5
    <2> QED BY <1>9, <2>2, <2>3, <2>4, <2>5
  <1>15. ASSUME NEW x, Aimed(x) PROVE Aimed(x)'
    <2>1. x.aim \in 0 .. pulled /\ x.aim \in 0 .. pulled' /\ x.aim <= pulled
      BY <1>3, <1>15 DEF Aimed
    <2>2. \A k \in DOMAIN mobs' : mobs'[k].id = x.aim => k \in DOMAIN mobs /\ mobs[k].id = x.aim
      BY <1>9, <1>12, <2>1
    <2> QED BY <1>10, <1>15, <2>1, <2>2 DEF Aimed
  <1>16. MobsAreTold'
    BY <1>3, <1>6, <1>13, <1>14 DEF MobsAreTold
  <1>17. IsSequence(casts') /\ IsSequence(dots')
    BY <1>3 DEF EncInv
  <1>18. \A c \in Range(casts') : Aimed(c)'
    BY <1>3, <1>15 DEF EncInv
  <1>19. \A d \in Range(dots') : Aimed(d)'
    BY <1>3, <1>15 DEF EncInv
  <1> QED BY <1>16, <1>17, <1>18, <1>19 DEF EncInv

-----------------------------------------------------------------------------
(* What a player casts is aimed at a mob in the list, or at none. *)

Pointed(c) == (c.mob = 0 /\ c.aim = 0) \/ (c.mob \in DOMAIN mobs /\ c.aim = mobs[c.mob].id)
AllPointed(choice) == \A c \in choice : Pointed(c)

LEMMA FirstIsThere ==
  ASSUME NEW S \in SUBSET Nat, S # {}
  PROVE  FirstOf(S) \in S
  BY LeastExists DEF FirstOf

LEMMA FirstChoicePoints ==
  ASSUME NEW branches, DOMAIN branches \in SUBSET Nat,
         \A n \in DOMAIN branches : AllPointed(branches[n])
  PROVE  AllPointed(FirstChoice(branches))
  <1> DEFINE offered == {n \in DOMAIN branches : branches[n] # {}}
  <1>1. FirstChoice(branches) = IF offered = {} THEN {} ELSE branches[FirstOf(offered)]
    BY DEF FirstChoice
  <1>2. offered # {} => FirstOf(offered) \in offered
    BY FirstIsThere
  <1> QED BY <1>1, <1>2 DEF AllPointed

LEMMA HealPoints ==
  ASSUME NEW i
  PROVE  AllPointed(HealLowest(i))
  BY DEF AllPointed, Pointed, HealLowest

LEMMA MobPoints ==
  ASSUME NEW i, NEW kinds, NEW k \in DOMAIN mobs
  PROVE  AllPointed(AtMob(i, kinds, k))
  BY DEF AllPointed, Pointed, AtMob

LEMMA AliveAreThere ==
  ASSUME EncInv, Alive # {}
  PROVE  /\ TargetIdx \in DOMAIN mobs
         /\ Extra # 0 => Extra \in DOMAIN mobs
  <1>1. DOMAIN mobs \in SUBSET Nat
    BY SequenceIs DEF EncInv, MobsAreTold
  <1>2. TargetIdx \in Alive
    BY <1>1, FirstIsThere DEF TargetIdx, Alive
  <1> DEFINE unmezzed == {k \in Alive \ {TargetIdx} : ~mobs[k].mezzed}
  <1>3. unmezzed \in SUBSET Nat /\ unmezzed \in SUBSET DOMAIN mobs
    BY <1>1 DEF Alive
  <1>4. Extra = IF unmezzed = {} THEN 0 ELSE FirstOf(unmezzed)
    BY DEF Extra
  <1> HIDE DEF unmezzed
  <1>5. unmezzed # {} => FirstOf(unmezzed) \in unmezzed
    BY <1>3, FirstIsThere
  <1> QED BY <1>2, <1>3, <1>4, <1>5 DEF Alive

LEMMA ChoicePoints ==
  ASSUME EncInv, Alive # {}, NEW i
  PROVE  AllPointed(Choice(i))
  <1>1. /\ TargetIdx \in DOMAIN mobs
        /\ Extra # 0 => Extra \in DOMAIN mobs
    BY AliveAreThere
  <1>2. \A kinds : AllPointed(AtTarget(i, kinds))
    BY <1>1, MobPoints DEF AtTarget
  <1>3. AllPointed(HealLowest(i)) /\ AllPointed({})
    BY HealPoints DEF AllPointed
  <1>4. \A cond, choice : AllPointed(choice) => AllPointed(OnlyIf(cond, choice))
    BY DEF OnlyIf, AllPointed
  <1>5. ASSUME NEW a, NEW b, AllPointed(a), AllPointed(b)
        PROVE  AllPointed(FirstChoice(<<a, b>>))
    <2> DEFINE t == <<a, b>>
    <2>1. DOMAIN t \in SUBSET Nat /\ \A n \in DOMAIN t : AllPointed(t[n])
      BY <1>5
    <2> HIDE DEF t
    <2>2. AllPointed(FirstChoice(t))
      BY <2>1, FirstChoicePoints
    <2> QED BY <2>2 DEF t
  <1>6. ASSUME NEW a, NEW b, NEW c, AllPointed(a), AllPointed(b), AllPointed(c)
        PROVE  AllPointed(FirstChoice(<<a, b, c>>))
    <2> DEFINE t == <<a, b, c>>
    <2>1. DOMAIN t \in SUBSET Nat /\ \A n \in DOMAIN t : AllPointed(t[n])
      BY <1>6
    <2> HIDE DEF t
    <2>2. AllPointed(FirstChoice(t))
      BY <2>1, FirstChoicePoints
    <2> QED BY <2>2 DEF t
  <1>7. ASSUME NEW a, NEW b, NEW c, NEW d,
               AllPointed(a), AllPointed(b), AllPointed(c), AllPointed(d)
        PROVE  AllPointed(FirstChoice(<<a, b, c, d>>))
    <2> DEFINE t == <<a, b, c, d>>
    <2>1. DOMAIN t \in SUBSET Nat /\ \A n \in DOMAIN t : AllPointed(t[n])
      BY <1>7
    <2> HIDE DEF t
    <2>2. AllPointed(FirstChoice(t))
      BY <2>1, FirstChoicePoints
    <2> QED BY <2>2 DEF t
  <1>8. AllPointed(Cleric(i))
    BY <1>2, <1>3, <1>4 DEF Cleric
  <1>9. AllPointed(Druid(i))
    BY <1>2, <1>3, <1>4, <1>6 DEF Druid
  <1>10. AllPointed(Shaman(i))
    BY <1>2, <1>3, <1>4, <1>7 DEF Shaman
  <1>11. AllPointed(Enchanter(i))
    <2>1. AllPointed(IF Extra = 0 THEN {} ELSE AtMob(i, <<"Mez">>, Extra))
      BY <1>1, <1>3, MobPoints
    <2> QED BY <1>2, <1>4, <1>7, <2>1 DEF Enchanter
  <1>12. AllPointed(Nuker(i))
    BY <1>2 DEF Nuker
  <1>13. AllPointed(Necromancer(i))
    BY <1>2, <1>4, <1>6 DEF Necromancer
  <1>14. AllPointed(Shadowknight(i))
    BY <1>2, <1>4, <1>6 DEF Shadowknight
  <1>15. AllPointed(Ranger(i))
    BY <1>2, <1>4, <1>5 DEF Ranger
  <1>16. AllPointed(Paladin(i))
    BY <1>2, <1>3, <1>4, <1>6 DEF Paladin
  <1>17. AllPointed(Bard(i))
    <2>1. \A kind, pause : AllPointed(Song(i, kind, pause))
      BY <1>1 DEF Song, AllPointed, Pointed, Target
    <2> QED BY <1>4, <1>5, <2>1 DEF Bard
  <1>18. AllPointed(WithMana(i))
    BY <1>3, <1>9, <1>10, <1>11, <1>12, <1>13, <1>14, <1>15, <1>16 DEF WithMana
  <1> QED BY <1>3, <1>8, <1>17, <1>18 DEF Choice

(* Casting is aimed, and blows leave the list as it is. *)
LEMMA PlayerStep ==
  ASSUME EncInv, PlayerActs
  PROVE  EncInv'
  <1>1. UNCHANGED <<dots, pulled>>
    BY DEF PlayerActs
  <1>2. /\ IsSequence(casts) /\ \A c \in Range(casts) : Aimed(c)
        /\ IsSequence(dots) /\ \A d \in Range(dots) : Aimed(d)
        /\ \A k \in DOMAIN mobs : "id" \in DOMAIN mobs[k] /\ mobs[k].id \in 1 .. pulled
        /\ pulled \in Nat
    BY DEF EncInv, MobsAreTold
  <1>3. CASE UNCHANGED <<players, mobs, casts>>
    BY <1>1, <1>2, <1>3, SameIsSame, EncKeeps
  <1>4. ASSUME CanAct(who), NEW c \in Chosen(who), Begin(who, c) PROVE EncInv'
    <2>1. Pointed(c)
      <3>1. c \in Choice(who) /\ Alive # {}
        BY <1>4 DEF Chosen, CanAct
      <3> QED BY <3>1, ChoicePoints DEF AllPointed
    <2> DEFINE x == [caster |-> who, spell |-> c.spell, due |-> sec + c.spell.secs,
                     mob |-> c.mob, player |-> c.player, aim |-> c.aim]
    <2>2. casts' = Append(casts, x) /\ UNCHANGED mobs
      BY <1>4 DEF Begin
    <2>3. {"mob", "aim"} \subseteq DOMAIN x /\ x.mob = c.mob /\ x.aim = c.aim
      OBVIOUS
    <2> HIDE DEF x
    <2>4. \A n \in 1 .. pulled : n \in 0 .. pulled /\ n # 0
      OBVIOUS
    <2>5. Aimed(x)
      <3>1. CASE c.mob = 0 /\ c.aim = 0
        <4>1. 0 \in 0 .. pulled
          BY <1>2
        <4> QED BY <1>2, <2>3, <2>4, <3>1, <4>1 DEF Aimed
      <3>2. CASE c.mob \in DOMAIN mobs /\ c.aim = mobs[c.mob].id
        BY <1>2, <2>3, <2>4, <3>2 DEF Aimed
      <3> QED BY <2>1, <3>1, <3>2 DEF Pointed
    <2>6. IsSequence(casts') /\ \A d \in Range(casts') : Aimed(d)
      BY <1>2, <2>2, <2>5, AppendIs
    <2> QED BY <1>1, <1>2, <2>2, <2>6, SameIsSame, EncKeeps
  <1>5. CASE CanAct(who) /\ Melee(who)
    <2>1. SameMobs(mobs') /\ UNCHANGED casts
      <3>1. CASE UNCHANGED <<mobs, casts>>
        BY <3>1, SameIsSame
      <3>2. ASSUME NEW dmg, UNCHANGED casts,
                   mobs' = [mobs EXCEPT ![TargetIdx] = [@ EXCEPT !.hp = @ - dmg, !.mezzed = @ /\ dmg = 0]]
            PROVE  SameMobs(mobs') /\ UNCHANGED casts
        <4> DEFINE m == mobs'[TargetIdx]
        <4>1. mobs' = [mobs EXCEPT ![TargetIdx] = m]
          BY <3>2
        <4>2. TargetIdx \in DOMAIN mobs => "id" \in DOMAIN m /\ m.id = mobs[TargetIdx].id
          BY <1>2, <3>2
        <4> HIDE DEF m
        <4>3. SameMobs(mobs')
          BY <4>1, <4>2, SameIsSame, TouchedIsSame
        <4> QED BY <3>2, <4>3
      <3> QED BY <1>5, <3>1, <3>2 DEF Melee
    <2> QED BY <1>1, <1>2, <2>1, EncKeeps
  <1> QED BY <1>3, <1>4, <1>5 DEF PlayerActs

-----------------------------------------------------------------------------
(* What lands, and ticks *)

LEMMA MobActsStep ==
  ASSUME EncInv, MobActs
  PROVE  EncInv'
  <1>1. UNCHANGED <<casts, dots, pulled>>
    BY DEF MobActs
  <1>2. CASE UNCHANGED mobs
    BY <1>1, <1>2, SameIsSame, EncKeeps DEF EncInv
  <1>3. CASE mobs' = [mobs EXCEPT ![who].next = sec + 2]
    <2> DEFINE m == mobs'[who]
    <2>1. mobs' = [mobs EXCEPT ![who] = m]
      BY <1>3
    <2>2. who \in DOMAIN mobs => "id" \in DOMAIN m /\ m.id = mobs[who].id
      BY <1>3 DEF EncInv, MobsAreTold
    <2> HIDE DEF m
    <2>3. SameMobs(mobs')
      BY <2>1, <2>2, SameIsSame, TouchedIsSame
    <2> QED BY <1>1, <2>3, EncKeeps DEF EncInv
  <1> QED BY <1>2, <1>3 DEF MobActs

LEMMA CastStep ==
  ASSUME EncInv, CastLands
  PROVE  EncInv'
  <1> DEFINE last == CHOOSE k \in Due : \A j \in Due : j <= k
             c == casts[last]
  <1>1. /\ IsSequence(casts) /\ \A d \in Range(casts) : Aimed(d)
        /\ IsSequence(dots) /\ \A d \in Range(dots) : Aimed(d)
        /\ \A k \in DOMAIN mobs : /\ "id" \in DOMAIN mobs[k] /\ mobs[k].id \in 1 .. pulled
                                  /\ mobs[k].id \in 0 .. pulled
        /\ pulled \in Nat
    BY DEF EncInv, MobsAreTold
  <1>2. last \in DOMAIN casts
    <2>1. Len(casts) \in Nat /\ DOMAIN casts = 1 .. Len(casts)
      BY <1>1, SequenceIs
    <2>2. Due \in SUBSET Nat /\ Due # {} /\ \A x \in Due : x <= Len(casts)
      BY <2>1 DEF Due, CastLands
    <2>3. \E k \in Due : \A j \in Due : j <= k
      BY <2>1, <2>2, GreatestExists
    <2> QED BY <2>3 DEF Due
  <1>3. /\ casts' = RemoveAt(casts, last) /\ UNCHANGED pulled
        /\ \/ LandHeal(c) \/ LandNothing(c) \/ LandNuke(c) \/ LandDot(c) \/ LandSlow(c)
           \/ LandSnare(c) \/ LandMez(c) \/ LandLifetap(c)
    BY DEF CastLands
  <1> HIDE DEF last
  <1>4. IsSequence(casts') /\ \A d \in Range(casts') : Aimed(d)
    BY <1>1, <1>2, <1>3, RemoveIs
  <1> HIDE DEF c
  <1>5. ASSUME NEW m, m = mobs'[c.mob], mobs' = [mobs EXCEPT ![c.mob] = m],
               c.mob \in DOMAIN mobs => "id" \in DOMAIN m /\ m.id = mobs[c.mob].id,
               UNCHANGED dots
        PROVE  EncInv'
    <2>1. SameMobs(mobs')
      BY <1>5, SameIsSame, TouchedIsSame
    <2> QED BY <1>1, <1>3, <1>4, <1>5, <2>1, EncKeeps
  <1>6. CASE UNCHANGED <<mobs, dots>>
    BY <1>1, <1>3, <1>4, <1>6, SameIsSame, EncKeeps
  <1>7. CASE mobs' = Struck(c.mob, c.spell.val) /\ UNCHANGED dots
    <2>1. mobs' = [mobs EXCEPT ![c.mob] = mobs'[c.mob]]
      BY <1>7 DEF Struck
    <2>2. c.mob \in DOMAIN mobs => "id" \in DOMAIN mobs'[c.mob] /\ mobs'[c.mob].id = mobs[c.mob].id
      BY <1>1, <1>7 DEF Struck
    <2> QED BY <1>5, <1>7, <2>1, <2>2
  <1>8. CASE /\ UNCHANGED dots
             /\ \/ mobs' = [mobs EXCEPT ![c.mob].slowed = TRUE]
                \/ mobs' = [mobs EXCEPT ![c.mob].snared = TRUE]
                \/ mobs' = [mobs EXCEPT ![c.mob].mezzed = TRUE]
    <2>1. mobs' = [mobs EXCEPT ![c.mob] = mobs'[c.mob]]
      BY <1>8
    <2>2. c.mob \in DOMAIN mobs => "id" \in DOMAIN mobs'[c.mob] /\ mobs'[c.mob].id = mobs[c.mob].id
      BY <1>1, <1>8
    <2> QED BY <1>5, <1>8, <2>1, <2>2
  <1>9. CASE LandDot(c)
    <2>1. UNCHANGED mobs /\ c.mob \in DOMAIN mobs
      BY <1>9 DEF LandDot, Standing
    <2>2. IsSequence(dots') /\ \A d \in Range(dots') : Aimed(d)
      <3>1. CASE UNCHANGED dots
        BY <1>1, <3>1
      <3> DEFINE d == [caster |-> c.caster, mob |-> c.mob, aim |-> mobs[c.mob].id,
                       val |-> c.spell.val, left |-> c.spell.ticks,
                       next |-> sec + c.spell.every, every |-> c.spell.every]
      <3>2. CASE dots' = Append(dots, d)
        <4>1. {"mob", "aim"} \subseteq DOMAIN d /\ d.mob = c.mob /\ d.aim = mobs[c.mob].id
          OBVIOUS
        <4> HIDE DEF d
        <4>2. Aimed(d)
          BY <1>1, <2>1, <4>1 DEF Aimed
        <4> QED BY <1>1, <3>2, <4>2, AppendIs
      <3> QED BY <1>9, <3>1, <3>2 DEF LandDot
    <2> QED BY <1>3, <1>4, <2>1, <2>2, SameIsSame, EncKeeps
  <1> QED BY <1>3, <1>6, <1>7, <1>8, <1>9
          DEF LandHeal, LandNothing, LandNuke, LandSlow, LandSnare, LandMez, LandLifetap

(* What ticks have made of mobs and DoTs so far. *)
TicksAimed(seq) ==
  /\ DOMAIN seq = {"players", "mobs", "dots"}
  /\ SameMobs(seq.mobs)
  /\ IsSequence(seq.dots) /\ \A d \in Range(seq.dots) : Aimed(d)

LEMMA TickDotAims ==
  ASSUME EncInv, NEW seq, TicksAimed(seq), NEW d, Aimed(d)
  PROVE  TicksAimed(TickDot(seq, d))
  <1> DEFINE ends == [seq EXCEPT !.players[d.caster].dotsActive = AtLeast0(@ - 1)]
             hit == [seq EXCEPT !.mobs[d.mob].hp = @ - d.val, !.mobs[d.mob].mezzed = FALSE]
             left == AtLeast0(d.left - 1)
             again == [d EXCEPT !.left = left, !.next = sec + MostOf(d.every, DotSecs)]
             goes == d.mob \in DOMAIN seq.mobs /\ seq.mobs[d.mob].hp > 0
  <1>1. TickDot(seq, d) = IF d.next > sec THEN [seq EXCEPT !.dots = Append(seq.dots, d)]
                        ELSE IF ~goes THEN ends
                        ELSE IF left = 0 THEN [ends EXCEPT !.mobs = hit.mobs]
                        ELSE [hit EXCEPT !.dots = Append(hit.dots, again)]
    BY DEF TickDot
  <1>2. /\ DOMAIN seq = {"players", "mobs", "dots"} /\ SameMobs(seq.mobs)
        /\ IsSequence(seq.dots) /\ \A x \in Range(seq.dots) : Aimed(x)
    BY DEF TicksAimed
  <1>3. DOMAIN ends = DOMAIN seq /\ ends.mobs = seq.mobs /\ ends.dots = seq.dots
    BY <1>2
  <1>4. {"mob", "aim"} \subseteq DOMAIN again /\ again.mob = d.mob /\ again.aim = d.aim
    BY DEF Aimed
  <1>5. Aimed(again)
    <2> HIDE DEF again
    <2> QED BY <1>4 DEF Aimed
  <1>6. DOMAIN hit = DOMAIN seq /\ hit.dots = seq.dots /\ SameMobs(hit.mobs)
    <2>1. DOMAIN hit = DOMAIN seq /\ hit.dots = seq.dots
      BY <1>2
    <2> DEFINE one == [seq.mobs EXCEPT ![d.mob].hp = seq.mobs[d.mob].hp - d.val]
               m == [one[d.mob] EXCEPT !.mezzed = FALSE]
    <2>2. hit.mobs = [one EXCEPT ![d.mob] = m]
      BY <1>2
    <2>3. SameMobs(one)
      <3> DEFINE x == [seq.mobs[d.mob] EXCEPT !.hp = seq.mobs[d.mob].hp - d.val]
      <3>1. one = [seq.mobs EXCEPT ![d.mob] = x]
        OBVIOUS
      <3>2. d.mob \in DOMAIN mobs => "id" \in DOMAIN x /\ x.id = mobs[d.mob].id
        BY <1>2 DEF SameMobs
      <3> HIDE DEF x, one
      <3> QED BY <1>2, <3>1, <3>2, TouchedIsSame
    <2> HIDE DEF one
    <2>4. d.mob \in DOMAIN mobs => "id" \in DOMAIN m /\ m.id = mobs[d.mob].id
      BY <2>3 DEF SameMobs
    <2> HIDE DEF m
    <2>5. SameMobs([one EXCEPT ![d.mob] = m])
      BY <2>3, <2>4, TouchedIsSame
    <2> QED BY <2>1, <2>2, <2>5
  <1> HIDE DEF ends, hit, again
  <1>7. ASSUME NEW r, NEW x, Aimed(x), DOMAIN r = DOMAIN seq, SameMobs(r.mobs), r.dots = seq.dots
        PROVE  TicksAimed([r EXCEPT !.dots = Append(r.dots, x)])
    <2> DEFINE y == [r EXCEPT !.dots = Append(r.dots, x)]
    <2>1. DOMAIN y = DOMAIN seq /\ y.mobs = r.mobs /\ y.dots = Append(seq.dots, x)
      BY <1>2, <1>7
    <2> HIDE DEF y
    <2>2. IsSequence(y.dots) /\ \A z \in Range(y.dots) : Aimed(z)
      BY <1>2, <1>7, <2>1, AppendIs
    <2>3. TicksAimed(y)
      BY <1>2, <1>7, <2>1, <2>2 DEF TicksAimed
    <2> QED BY <2>3 DEF y
  <1>8. TicksAimed([seq EXCEPT !.dots = Append(seq.dots, d)])
    BY <1>2, <1>7
  <1>9. TicksAimed(ends)
    BY <1>2, <1>3 DEF TicksAimed
  <1>10. TicksAimed([ends EXCEPT !.mobs = hit.mobs])
    BY <1>2, <1>3, <1>6 DEF TicksAimed
  <1>11. TicksAimed([hit EXCEPT !.dots = Append(hit.dots, again)])
    BY <1>2, <1>5, <1>6, <1>7
  <1> QED BY <1>1, <1>8, <1>9, <1>10, <1>11

LEMMA TickedAims ==
  ASSUME EncInv
  PROVE  TicksAimed(Ticked)
  <1> DEFINE n == Len(dots)
             none == [players |-> players, mobs |-> mobs, dots |-> <<>>]
             Steps(g, m) == g = [i \in 0 .. m |-> IF i = 0 THEN none ELSE TickDot(g[i - 1], dots[i])]
             after == CHOOSE g : Steps(g, n)
  <1>1. n \in Nat /\ DOMAIN dots = 1 .. n /\ \A i \in 1 .. n : Aimed(dots[i])
    BY SequenceIs DEF EncInv
  <1>2. Ticked = after[n]
    BY DEF Ticked
  <1>3. TicksAimed(none)
    <2>1. IsSequence(<<>>) /\ Range(<<>>) = {}
      BY DEF IsSequence, Range
    <2> QED BY <2>1, SameIsSame DEF TicksAimed
  <1> HIDE DEF none
  <1>4. Steps(after, n)
    <2> DEFINE T == {m \in 0 .. n : \E g : Steps(g, m)}
    <2>1. 0 \in T
      <3>1. Steps([i \in 0 .. 0 |-> none], 0)
        OBVIOUS
      <3>2. 0 \in 0 .. n
        BY <1>1
      <3> HIDE DEF Steps
      <3> QED BY <3>1, <3>2
    <2>2. ASSUME NEW m \in 1 .. n, m - 1 \in T PROVE m \in T
      <3>1. PICK g : Steps(g, m - 1)
        BY <2>2
      <3> DEFINE h == [i \in 0 .. m |-> IF i = m THEN TickDot(g[m - 1], dots[m]) ELSE g[i]]
      <3>2. \A i \in 0 .. m - 1 : g[i] = IF i = 0 THEN none ELSE TickDot(g[i - 1], dots[i])
        BY <3>1
      <3>3. ASSUME NEW i \in 0 .. m
            PROVE  h[i] = IF i = 0 THEN none ELSE TickDot(h[i - 1], dots[i])
        <4>1. CASE i = m
          <5>1. i # 0 /\ i - 1 \in 0 .. m /\ i - 1 # m
            BY <4>1, <1>1
          <5> QED BY <4>1, <5>1
        <4>2. CASE i # m
          <5>1. i \in 0 .. m - 1 /\ (i # 0 => i - 1 \in 0 .. m /\ i - 1 # m)
            BY <4>2, <1>1
          <5> QED BY <4>2, <5>1, <3>2
        <4> QED BY <4>1, <4>2
      <3>4. Steps(h, m)
        BY <3>3
      <3>5. m \in 0 .. n
        BY <1>1
      <3> QED BY <3>4, <3>5
    <2>3. n \in T
      <3>1. n \in Nat /\ n \in 0 .. n /\ \A m \in 1 .. n : m - 1 \in T => m \in T
        BY <1>1, <2>2
      <3> HIDE DEF T, n
      <3> QED BY <2>1, <3>1, InductionUpTo
    <2> QED BY <2>3
  <1> HIDE DEF after
  <1>5. /\ after[0] = none
        /\ \A i \in 1 .. n : after[i] = TickDot(after[i - 1], dots[i])
    <2>1. \A i \in 0 .. n : after[i] = IF i = 0 THEN none ELSE TickDot(after[i - 1], dots[i])
      BY <1>4
    <2>2. 0 \in 0 .. n /\ \A i \in 1 .. n : i \in 0 .. n /\ i # 0
      BY <1>1
    <2> HIDE DEF n
    <2> QED BY <2>1, <2>2
  <1> DEFINE T == {i \in 0 .. n : TicksAimed(after[i])}
  <1>6. 0 \in T
    BY <1>1, <1>3, <1>5
  <1>7. ASSUME NEW i \in 1 .. n, i - 1 \in T PROVE i \in T
    BY <1>1, <1>5, <1>7, TickDotAims
  <1>8. n \in T
    <2>1. n \in Nat /\ n \in 0 .. n /\ \A i \in 1 .. n : i - 1 \in T => i \in T
      BY <1>1, <1>7
    <2> HIDE DEF T, n
    <2> QED BY <1>6, <2>1, InductionUpTo
  <1> QED BY <1>2, <1>8

LEMMA DotTicksStep ==
  ASSUME EncInv, DotTicks
  PROVE  EncInv'
  <1>1. mobs' = Ticked.mobs /\ dots' = Ticked.dots /\ UNCHANGED <<casts, pulled>>
    BY DEF DotTicks
  <1>2. TicksAimed(Ticked)
    BY TickedAims
  <1>3. IsSequence(casts) /\ \A c \in Range(casts) : Aimed(c)
    BY DEF EncInv
  <1> QED BY <1>1, <1>2, <1>3, EncKeeps DEF TicksAimed

-----------------------------------------------------------------------------
(* Deaths: what outlives its mob's list is shifted to where the mob went. *)

LEMMA ShiftIsRank ==
  ASSUME EncInv, NEW k \in DOMAIN mobs \ Killed
  PROVE  Shift(k) = Rank(DOMAIN mobs \ Killed, k) + 1
  <1> DEFINE S == DOMAIN mobs \ Killed
             A == {j \in S : j < k}
             B == {j \in Killed : j < k}
  <1>1. Len(mobs) \in Nat /\ DOMAIN mobs = 1 .. Len(mobs) /\ k \in 1 .. Len(mobs)
    BY SequenceIs DEF EncInv, MobsAreTold
  <1>2. Killed \subseteq DOMAIN mobs
    BY DEF Killed
  <1>3. A \cup B = 1 .. k - 1 /\ A \cap B = {}
    <2>1. \A j \in 1 .. Len(mobs) : j < k <=> j \in 1 .. k - 1
      BY <1>1
    <2>2. \A j \in 1 .. k - 1 : j \in 1 .. Len(mobs)
      BY <1>1
    <2> QED BY <1>1, <1>2, <2>1, <2>2
  <1>4. IsFiniteSet(1 .. k - 1) /\ Cardinality(1 .. k - 1) = k - 1
    <2>1. k - 1 \in Int /\ (1 > k - 1 => 0 = k - 1) /\ (~(1 > k - 1) => (k - 1) - 1 + 1 = k - 1)
      BY <1>1
    <2>2. /\ IsFiniteSet(1 .. k - 1)
          /\ Cardinality(1 .. k - 1) = IF 1 > k - 1 THEN 0 ELSE (k - 1) - 1 + 1
      BY <2>1, FS_Interval
    <2> QED BY <2>1, <2>2
  <1> HIDE DEF A, B
  <1>5. IsFiniteSet(A) /\ IsFiniteSet(B)
    BY <1>3, <1>4, FS_Subset
  <1>6. Cardinality(A) \in Nat /\ Cardinality(B) \in Nat
    BY <1>5, FS_CardinalityType
  <1>7. Cardinality(A \cup B) = Cardinality(A) + Cardinality(B) - Cardinality(A \cap B)
    BY <1>5, FS_Union
  <1>8. Cardinality(A \cap B) = 0 /\ Cardinality(A \cup B) = k - 1
    BY <1>3, <1>4, FS_EmptySet
  <1>9. k - 1 = Cardinality(A) + Cardinality(B)
    BY <1>6, <1>7, <1>8
  <1>10. Shift(k) = k - Cardinality(B) /\ Rank(S, k) = Cardinality(A)
    BY DEF Shift, Rank, A, B
  <1> QED BY <1>1, <1>6, <1>9, <1>10

LEMMA DeathsStep ==
  ASSUME EncInv, Deaths
  PROVE  EncInv'
  <1> DEFINE S == DOMAIN mobs \ Killed
             stay == Part(dots, {i \in DOMAIN dots : dots[i].mob \notin Killed})
  <1>1. /\ mobs' = Part(mobs, S) /\ UNCHANGED pulled
        /\ dots' = [k \in DOMAIN stay |-> [stay[k] EXCEPT !.mob = Shift(stay[k].mob)]]
        /\ casts' = [k \in DOMAIN casts |-> [casts[k] EXCEPT !.mob = Shift(casts[k].mob)]]
    BY DEF Deaths, DotsLeft
  <1>2. /\ IsSequence(mobs) /\ pulled \in Nat
        /\ \A k \in DOMAIN mobs : "id" \in DOMAIN mobs[k] /\ mobs[k].id \in 1 .. pulled
        /\ \A j, k \in DOMAIN mobs : mobs[j].id = mobs[k].id => j = k
        /\ IsSequence(casts) /\ \A c \in Range(casts) : Aimed(c)
        /\ IsSequence(dots) /\ \A d \in Range(dots) : Aimed(d)
    BY DEF EncInv, MobsAreTold
  <1>3. /\ IsSequence(mobs')
        /\ \A k \in DOMAIN mobs' : \E i \in S : Rank(S, i) = k - 1 /\ mobs'[k] = mobs[i]
        /\ \A i \in S : Rank(S, i) + 1 \in DOMAIN mobs' /\ mobs'[Rank(S, i) + 1] = mobs[i]
    <2>1. S \in SUBSET DOMAIN mobs
      OBVIOUS
    <2> HIDE DEF S
    <2> QED BY <1>1, <1>2, <2>1, PartIs
  <1>4. \A i \in S : i \in DOMAIN mobs /\ Shift(i) \in DOMAIN mobs' /\ mobs'[Shift(i)] = mobs[i]
    BY <1>3, ShiftIsRank
  <1>5. \A k \in DOMAIN mobs' : k \in Nat
    BY <1>3, SequenceIs
  <1>6. \A k \in DOMAIN mobs' : \E i \in S : Shift(i) = k /\ mobs'[k] = mobs[i]
    <2> SUFFICES ASSUME NEW k \in DOMAIN mobs' PROVE \E i \in S : Shift(i) = k /\ mobs'[k] = mobs[i]
      OBVIOUS
    <2>1. PICK i \in S : Rank(S, i) = k - 1 /\ mobs'[k] = mobs[i]
      BY <1>3
    <2>2. Shift(i) = Rank(S, i) + 1
      BY ShiftIsRank
    <2>3. Shift(i) = k
      BY <1>5, <2>1, <2>2
    <2> QED BY <2>1, <2>3
  <1> HIDE DEF S
  <1>7. MobsAreTold'
    <2>1. \A k \in DOMAIN mobs' : "id" \in DOMAIN mobs'[k] /\ mobs'[k].id \in 1 .. pulled
      BY <1>2, <1>4, <1>6
    <2>2. \A j, k \in DOMAIN mobs' : mobs'[j].id = mobs'[k].id => j = k
      BY <1>2, <1>4, <1>6
    <2> QED BY <1>1, <1>2, <1>3, <2>1, <2>2 DEF MobsAreTold
  <1>8. ASSUME NEW x, Aimed(x), NEW y, y = [x EXCEPT !.mob = Shift(x.mob)]
        PROVE  Aimed(y)'
    <2>1. {"mob", "aim"} \subseteq DOMAIN x /\ x.aim \in 0 .. pulled
      BY <1>8 DEF Aimed
    <2>2. {"mob", "aim"} \subseteq DOMAIN y /\ y.aim = x.aim /\ y.mob = Shift(x.mob)
      BY <1>8, <2>1
    <2>3. ASSUME NEW k \in DOMAIN mobs', mobs'[k].id = x.aim
          PROVE  y.mob \in DOMAIN mobs' /\ mobs'[y.mob].id = x.aim
      <3>1. PICK i \in S : mobs'[k] = mobs[i]
        BY <1>6
      <3>2. x.mob \in DOMAIN mobs /\ mobs[x.mob].id = x.aim /\ i \in DOMAIN mobs /\ mobs[i].id = x.aim
        BY <1>4, <1>8, <2>3, <3>1 DEF Aimed
      <3>3. x.mob = i
        BY <1>2, <3>2
      <3> QED BY <1>4, <2>2, <3>2, <3>3
    <2>4. y.aim \in 0 .. pulled'
      BY <1>1, <2>1, <2>2
    <2> QED BY <2>2, <2>3, <2>4 DEF Aimed
  <1>9. IsSequence(casts') /\ \A c \in Range(casts') : Aimed(c)'
    <2>1. /\ Len(casts) \in Nat /\ DOMAIN casts = 1 .. Len(casts)
          /\ \A k \in DOMAIN casts : Aimed(casts[k])
      BY <1>2, SequenceIs
    <2>2. DOMAIN casts' = 1 .. Len(casts) /\ casts' = [k \in 1 .. Len(casts) |-> casts'[k]]
      BY <1>1, <2>1
    <2>3. IsSequence(casts')
      BY <2>1, <2>2, ListIsSequence
    <2>4. ASSUME NEW c \in Range(casts') PROVE Aimed(c)'
      <3>1. PICK k \in DOMAIN casts' : casts'[k] = c
        BY <2>3, SequenceIs
      <3>2. c = [casts[k] EXCEPT !.mob = Shift(casts[k].mob)] /\ Aimed(casts[k])
        BY <1>1, <2>1, <2>2, <3>1
      <3> QED BY <1>8, <3>2
    <2> QED BY <2>3, <2>4
  <1>10. IsSequence(dots') /\ \A d \in Range(dots') : Aimed(d)'
    <2> DEFINE D == {i \in DOMAIN dots : dots[i].mob \notin Killed}
    <2>1. D \in SUBSET DOMAIN dots
      OBVIOUS
    <2>2. /\ IsSequence(stay) /\ \A k \in DOMAIN stay : \E i \in D : stay[k] = dots[i]
      <3>1. stay = Part(dots, D)
        OBVIOUS
      <3> HIDE DEF D, stay
      <3>2. IsSequence(Part(dots, D)) /\ \A k \in DOMAIN Part(dots, D) : \E i \in D : Part(dots, D)[k] = dots[i]
        BY <1>2, <2>1, PartIs
      <3> QED BY <3>1, <3>2
    <2>3. \A i \in DOMAIN dots : Aimed(dots[i])
      BY <1>2, SequenceIs
    <2>4. \A k \in DOMAIN stay : Aimed(stay[k])
      BY <2>1, <2>2, <2>3
    <2> HIDE DEF stay
    <2>5. Len(stay) \in Nat /\ DOMAIN stay = 1 .. Len(stay)
      BY <2>2, SequenceIs
    <2>6. DOMAIN dots' = 1 .. Len(stay) /\ dots' = [k \in 1 .. Len(stay) |-> dots'[k]]
      BY <1>1, <2>5
    <2>7. IsSequence(dots')
      BY <2>5, <2>6, ListIsSequence
    <2>8. ASSUME NEW d \in Range(dots') PROVE Aimed(d)'
      <3>1. PICK k \in DOMAIN dots' : dots'[k] = d
        BY <2>7, SequenceIs
      <3>2. d = [stay[k] EXCEPT !.mob = Shift(stay[k].mob)] /\ Aimed(stay[k])
        BY <1>1, <2>4, <2>5, <2>6, <3>1
      <3> QED BY <1>8, <3>2
    <2> QED BY <2>7, <2>8
  <1> QED BY <1>7, <1>9, <1>10 DEF EncInv

LEMMA EncStep == EncInv /\ [EncNext]_encVars => EncInv'
  <1> SUFFICES ASSUME EncInv, [EncNext]_encVars PROVE EncInv'
    OBVIOUS
  <1>1. CASE Pull
    BY <1>1, PullStep
  <1>2. CASE MobActs
    BY <1>2, MobActsStep
  <1>3. CASE PlayerActs
    BY <1>3, PlayerStep
  <1>4. CASE CastLands
    BY <1>4, CastStep
  <1>5. CASE DotTicks
    BY <1>5, DotTicksStep
  <1>6. CASE Deaths
    BY <1>6, DeathsStep
  <1>7. CASE \/ Second \/ EncounterEnds \/ ManaCalls \/ PlayersDone \/ HotTicks \/ NoDeaths
             \/ Break \/ MoveOn \/ UNCHANGED encVars
    <2>1. UNCHANGED <<mobs, casts, dots, pulled>>
      BY <1>7 DEF Second, EncounterEnds, ManaCalls, PlayersDone, HotTicks, NoDeaths, Break, MoveOn,
                  encVars
    <2>2. IsSequence(casts) /\ IsSequence(dots)
      BY DEF EncInv
    <2> QED BY <2>1, <2>2, SameIsSame, EncKeeps DEF EncInv
  <1> QED BY <1>1, <1>2, <1>3, <1>4, <1>5, <1>6, <1>7 DEF EncNext

(* Casts in flight and damage over time keep pointing at the mob they were
   meant for while the list of mobs shrinks under them, for any group, any
   pulls, blows and deaths (main.rs:3079-3094). *)
THEOREM AimIsKept == EncSpec => []AimHolds
  <1>1. EncInv => AimHolds
    BY DEF EncInv, AimHolds, Aimed
  <1> QED BY EncInitInv, EncStep, <1>1, PTL DEF EncSpec
=============================================================================
