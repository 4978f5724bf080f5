---------------------------- MODULE OrderLemmas ----------------------------
(***************************************************************************)
(* Facts that several proofs need: least, greatest and n-th members of a   *)
(* set of natural numbers, division by a positive number, and sequences    *)
(* and what is left of them when members are taken out.                    *)
(***************************************************************************)
EXTENDS Integers, FiniteSets, Sequences, Functions, SequenceParts,
        FiniteSetTheorems, SequenceTheorems, WellFoundedInduction, TLAPS

(* Least and greatest members: the induction of these proofs. *)
LEMMA LeastExists ==
  ASSUME NEW T \in SUBSET Nat, T # {}
  PROVE  \E x \in T : \A y \in T : x <= y
<1> DEFINE R == {p \in Nat \X Nat : p[1] < p[2]}
<1>1. IsWellFoundedOn(R, Nat)
  BY NatLessThanWellFounded DEF OpToRel
<1>2. \A x, y \in Nat : x < y => <<x, y>> \in R
  OBVIOUS
<1> HIDE DEF R
<1>3. PICK x \in T : \A y \in T : ~(<<y, x>> \in R)
  BY <1>1, WFMin
<1>4. ASSUME NEW y \in T PROVE x <= y
  <2>1. x \in Nat /\ y \in Nat /\ ~ y < x
    BY <1>2, <1>3
  <2> QED
    BY <2>1
<1> QED
  BY <1>4

LEMMA GreatestExists ==
  ASSUME NEW T \in SUBSET Nat, T # {}, NEW n \in Nat, \A x \in T : x <= n
  PROVE  \E x \in T : \A y \in T : y <= x
<1> DEFINE D == {m \in Nat : n - m \in T}
<1>1. ASSUME NEW x \in T PROVE x \in Nat /\ n - x \in D
  <2>1. x \in Nat /\ x <= n
    OBVIOUS
  <2>2. n - x \in Nat /\ n - (n - x) = x
    BY <2>1
  <2> QED
    BY <2>1, <2>2
<1>2. PICK d \in D : \A e \in D : d <= e
  BY <1>1, LeastExists
<1>3. ASSUME NEW y \in T PROVE y <= n - d
  <2>1. y \in Nat /\ d \in Nat /\ d <= n - y
    BY <1>1, <1>2
  <2> QED
    BY <2>1
<1> QED
  BY <1>2, <1>3

(* How many members lie below x. *)
Rank(S, x) == Cardinality({y \in S : y < x})

LEMMA RankGrows ==
  ASSUME NEW S \in SUBSET Nat, IsFiniteSet(S), NEW x \in S, NEW z \in S
  PROVE  /\ Rank(S, x) \in Nat /\ Rank(S, x) < Cardinality(S)
         /\ x < z => Rank(S, x) < Rank(S, z)
<1> DEFINE A == {y \in S : y < x}
           B == {y \in S : y < z}
<1>1. x \in Nat /\ z \in Nat
  OBVIOUS
<1>2. x \notin A /\ A \cup {x} \subseteq S /\ A \subseteq S /\ B \subseteq S
  BY <1>1
<1>3. x < z => A \cup {x} \subseteq B
  <2> SUFFICES ASSUME x < z, NEW y \in S, y < x PROVE y < z
    OBVIOUS
  <2> QED
    BY <1>1
<1> HIDE DEF A, B
<1>4. /\ IsFiniteSet(A) /\ IsFiniteSet(B)
      /\ Cardinality(A) \in Nat /\ Cardinality(B) \in Nat /\ Cardinality(S) \in Nat
  BY <1>2, FS_Subset, FS_CardinalityType
<1>5. Cardinality(A \cup {x}) = Cardinality(A) + 1
  BY <1>2, <1>4, FS_AddElement
<1>6. /\ Cardinality(A \cup {x}) <= Cardinality(S)
      /\ x < z => Cardinality(A \cup {x}) <= Cardinality(B)
  BY <1>2, <1>3, <1>4, FS_Subset
<1>7. /\ Cardinality(A) < Cardinality(S)
      /\ x < z => Cardinality(A) < Cardinality(B)
  BY <1>4, <1>5, <1>6
<1> QED
  BY <1>4, <1>7 DEF Rank, A, B

(* A finite set of naturals has a member of each rank up to its size, and
   only one. *)
LEMMA NthExists ==
  ASSUME NEW S \in SUBSET Nat, IsFiniteSet(S), NEW k \in 1..Cardinality(S)
  PROVE  \E x \in S : Rank(S, x) = k - 1
<1> DEFINE Below(x) == {y \in S : y < x}
           T == {n \in 1..Cardinality(S) : \A x \in S : Cardinality(Below(x)) # n - 1}
<1>1. Cardinality(S) \in Nat /\ S \subseteq Nat
  BY FS_CardinalityType
<1>2. SUFFICES ASSUME k \in T PROVE FALSE
  BY DEF Rank
<1>3. PICK n \in T : \A m \in T : n <= m
  <2>1. T \in SUBSET Nat
    BY <1>1
  <2> QED
    BY <1>2, <2>1, LeastExists
<1>4. /\ n \in Nat /\ 1 <= n /\ n <= Cardinality(S)
      /\ \A x \in S : Cardinality(Below(x)) # n - 1
  BY <1>1, <1>3
<1>5. CASE n = 1
  <2>1. S # {}
    BY <1>1, <1>4, FS_EmptySet
  <2>2. PICK z \in S : \A y \in S : z <= y
    BY <2>1, LeastExists
  <2>3. \A y \in S : ~ y < z
    BY <1>1, <2>2
  <2>4. Below(z) = {}
    BY <2>3
  <2>5. Cardinality(Below(z)) = n - 1
    BY <1>5, <2>4, FS_EmptySet
  <2> QED
    BY <1>4, <2>5
<1>6. CASE n # 1
  <2>1. n - 1 \in 1..Cardinality(S) /\ n - 1 \in Nat /\ n - 1 < n
    BY <1>1, <1>4, <1>6
  <2>2. n - 1 \notin T
    BY <1>3, <1>4, <2>1
  <2>3. PICK x \in S : Cardinality(Below(x)) = n - 1 - 1
    BY <2>1, <2>2
  <2> DEFINE low == Below(x) \cup {x}
  <2>4. IsFiniteSet(Below(x)) /\ x \notin Below(x) /\ low \subseteq S
    BY <1>1, FS_Subset
  <2>5. Cardinality(low) = n - 1
    <3>1. Cardinality(low) = Cardinality(Below(x)) + 1
      BY <2>4, FS_AddElement
    <3> QED
      BY <1>4, <2>3, <3>1
  <2>6. S \ low # {}
    <3>1. S \ low = {} => low = S
      BY <2>4
    <3> QED
      BY <1>1, <1>4, <2>5, <3>1
  <2>7. PICK z \in S \ low : \A y \in S \ low : z <= y
    BY <2>6, LeastExists
  <2>8. ASSUME NEW y \in S PROVE y < z <=> y \in low
    <3>1. x \in Nat /\ y \in Nat /\ z \in Nat
      BY <1>1, <2>7
    <3>2. z \in S /\ ~ z < x /\ z # x
      BY <2>7
    <3>3. y \in low <=> y < x \/ y = x
      OBVIOUS
    <3>4. y \notin low => z <= y
      BY <2>7
    <3> HIDE DEF low
    <3> QED
      BY <3>1, <3>2, <3>3, <3>4
  <2>9. Below(z) = low
    BY <2>4, <2>8
  <2> QED
    BY <1>4, <2>5, <2>7, <2>9
<1> QED
  BY <1>5, <1>6

LEMMA RankIsUnique ==
  ASSUME NEW S \in SUBSET Nat, IsFiniteSet(S), NEW x \in S, NEW z \in S
  PROVE  /\ Rank(S, x) = Rank(S, z) => x = z
         /\ Rank(S, x) < Rank(S, z) => x < z
<1>1. x < z \/ x = z \/ z < x
  OBVIOUS
<1>2. /\ Rank(S, x) \in Nat /\ Rank(S, z) \in Nat
      /\ x < z => Rank(S, x) < Rank(S, z)
      /\ z < x => Rank(S, z) < Rank(S, x)
  BY RankGrows
<1> QED
  BY <1>1, <1>2

LEMMA DivMonotone ==
  ASSUME NEW m \in Nat, NEW n \in Nat, NEW d \in Nat \ {0}, m <= n
  PROVE  m \div d <= n \div d
OBVIOUS

(* Induction up to a bound, over the set where a fact holds. *)
LEMMA InductionUpTo ==
  ASSUME NEW n \in Nat, NEW T, 0 \in T, \A i \in 1 .. n : i - 1 \in T => i \in T
  PROVE  \A i \in 0 .. n : i \in T
<1> DEFINE D == {i \in 0 .. n : i \notin T}
<1>1. SUFFICES ASSUME D # {} PROVE FALSE
  OBVIOUS
<1>2. D \in SUBSET Nat
  OBVIOUS
<1>3. PICK i \in D : \A j \in D : i <= j
  BY <1>1, <1>2, LeastExists
<1>4. i \in 1 .. n /\ i - 1 \in 0 .. n /\ ~ i <= i - 1
  BY <1>3
<1> QED
  BY <1>3, <1>4

-----------------------------------------------------------------------------
(* Sequences, and parts of them *)

IsSequence(seq) == seq \in Seq(Range(seq))

LEMMA ListIsSequence ==
  ASSUME NEW n \in Nat, NEW f, DOMAIN f = 1 .. n, f = [k \in 1 .. n |-> f[k]]
  PROVE  IsSequence(f) /\ Len(f) = n
  <1>1. f \in [1 .. n -> Range(f)]
    BY DEF Range
  <1>2. f \in Seq(Range(f))
    BY <1>1, IsASeq
  <1> QED BY <1>2, LenProperties DEF IsSequence

LEMMA SequenceIs ==
  ASSUME NEW seq, IsSequence(seq)
  PROVE  /\ Len(seq) \in Nat /\ DOMAIN seq = 1 .. Len(seq) /\ seq = [k \in 1 .. Len(seq) |-> seq[k]]
         /\ \A x \in Range(seq) : \E k \in DOMAIN seq : seq[k] = x
         /\ \A k \in DOMAIN seq : seq[k] \in Range(seq)
  <1>1. seq \in Seq(Range(seq))
    BY DEF IsSequence
  <1>2. Len(seq) \in Nat /\ seq \in [1 .. Len(seq) -> Range(seq)]
    BY <1>1, LenProperties
  <1> QED BY <1>2 DEF Range

LEMMA ConcatIs ==
  ASSUME NEW seq, IsSequence(seq), NEW t, IsSequence(t)
  PROVE  /\ IsSequence(seq \o t) /\ Len(seq \o t) = Len(seq) + Len(t)
         /\ \A i \in 1 .. Len(seq) + Len(t) :
              (seq \o t)[i] = IF i <= Len(seq) THEN seq[i] ELSE t[i - Len(seq)]
         /\ Range(seq \o t) = Range(seq) \cup Range(t)
  <1> DEFINE R == Range(seq) \cup Range(t)
             u == seq \o t
  <1>1. seq \in [1 .. Len(seq) -> R] /\ Len(seq) \in Nat /\ t \in [1 .. Len(t) -> R] /\ Len(t) \in Nat
    BY SequenceIs
  <1>2. seq \in Seq(R) /\ t \in Seq(R)
    BY <1>1, IsASeq
  <1> HIDE DEF R
  <1>3. /\ u \in Seq(R) /\ Len(u) = Len(seq) + Len(t)
        /\ \A i \in 1 .. Len(seq) + Len(t) : u[i] = IF i <= Len(seq) THEN seq[i] ELSE t[i - Len(seq)]
    BY <1>2, ConcatProperties
  <1>4. DOMAIN u = 1 .. Len(seq) + Len(t) /\ DOMAIN seq = 1 .. Len(seq) /\ DOMAIN t = 1 .. Len(t)
    BY <1>1, <1>2, <1>3, LenProperties
  <1>5. \A i \in DOMAIN u : \/ i \in DOMAIN seq /\ u[i] = seq[i]
                            \/ i - Len(seq) \in DOMAIN t /\ u[i] = t[i - Len(seq)]
    BY <1>1, <1>3, <1>4
  <1>6. \A i \in DOMAIN seq : i \in DOMAIN u /\ u[i] = seq[i]
    BY <1>1, <1>3, <1>4
  <1>7. \A i \in DOMAIN t : i + Len(seq) \in DOMAIN u /\ u[i + Len(seq)] = t[i]
    BY <1>1, <1>3, <1>4
  <1>8. u = [i \in 1 .. Len(seq) + Len(t) |-> u[i]]
    BY <1>3, <1>4, LenProperties
  <1> HIDE DEF u
  <1>9. Range(u) = Range(seq) \cup Range(t)
    BY <1>5, <1>6, <1>7 DEF Range
  <1>10. IsSequence(u)
    BY <1>1, <1>4, <1>8, ListIsSequence
  <1> QED BY <1>3, <1>9, <1>10 DEF u

LEMMA AppendIs ==
  ASSUME NEW seq, IsSequence(seq), NEW x
  PROVE  IsSequence(Append(seq, x)) /\ Range(Append(seq, x)) = Range(seq) \cup {x}
  <1> DEFINE R == Range(seq) \cup {x}
             u == Append(seq, x)
  <1>1. seq \in [1 .. Len(seq) -> R] /\ Len(seq) \in Nat
    BY SequenceIs
  <1>2. seq \in Seq(R) /\ x \in R
    BY <1>1, IsASeq
  <1> HIDE DEF R
  <1>3. /\ u \in Seq(R) /\ Len(u) = Len(seq) + 1
        /\ \A i \in 1 .. Len(seq) : u[i] = seq[i]
        /\ u[Len(seq) + 1] = x
    BY <1>2, AppendProperties
  <1>4. DOMAIN u = 1 .. Len(seq) + 1 /\ DOMAIN seq = 1 .. Len(seq)
    BY <1>1, <1>2, <1>3, LenProperties
  <1>5. u = [i \in 1 .. Len(seq) + 1 |-> u[i]]
    BY <1>3, <1>4, LenProperties
  <1>6. \A i \in DOMAIN u : (i \in DOMAIN seq /\ u[i] = seq[i]) \/ u[i] = x
    BY <1>1, <1>3, <1>4
  <1>7. \A i \in DOMAIN seq : i \in DOMAIN u /\ u[i] = seq[i]
    BY <1>1, <1>3, <1>4
  <1>8. Len(seq) + 1 \in DOMAIN u /\ u[Len(seq) + 1] = x
    BY <1>1, <1>3, <1>4
  <1>9. IsSequence(u)
    <2> HIDE DEF u
    <2>1. Len(seq) + 1 \in Nat
      BY <1>1
    <2> QED BY <2>1, <1>4, <1>5, ListIsSequence
  <1> HIDE DEF u
  <1>10. Range(u) = Range(seq) \cup {x}
    BY <1>6, <1>7, <1>8 DEF Range
  <1> QED BY <1>9, <1>10 DEF u

(* A part of a sequence holds what was at its positions, each once. *)
LEMMA PartIs ==
  ASSUME NEW seq, IsSequence(seq), NEW S \in SUBSET DOMAIN seq
  PROVE  /\ IsSequence(Part(seq, S)) /\ DOMAIN Part(seq, S) = 1 .. Cardinality(S)
         /\ \A k \in DOMAIN Part(seq, S) :
              \E i \in S : Rank(S, i) = k - 1 /\ Part(seq, S)[k] = seq[i]
         /\ \A i \in S : /\ Rank(S, i) \in Nat /\ Rank(S, i) + 1 \in DOMAIN Part(seq, S)
                         /\ Part(seq, S)[Rank(S, i) + 1] = seq[i]
  <1> DEFINE size == Cardinality(S)
             at(k) == CHOOSE i \in S : Rank(S, i) = k - 1
             p == Part(seq, S)
  <1>1. S \in SUBSET Nat /\ IsFiniteSet(S) /\ size \in Nat
    <2>1. DOMAIN seq = 1 .. Len(seq) /\ Len(seq) \in Nat
      BY SequenceIs
    <2>2. IsFiniteSet(1 .. Len(seq))
      BY <2>1, FS_Interval
    <2> QED BY <2>1, <2>2, FS_Subset, FS_CardinalityType
  <1>2. \A k \in 1 .. size : at(k) \in S /\ Rank(S, at(k)) = k - 1
    BY <1>1, NthExists
  <1>3. p = [k \in 1 .. size |-> seq[at(k)]]
    BY DEF Part, Rank
  <1> HIDE DEF at, size
  <1>4. IsSequence(p) /\ DOMAIN p = 1 .. size
    <2>1. DOMAIN p = 1 .. size /\ p = [k \in 1 .. size |-> p[k]]
      BY <1>3
    <2> HIDE DEF p
    <2> QED BY <1>1, <2>1, ListIsSequence
  <1>5. ASSUME NEW k \in DOMAIN p PROVE \E i \in S : Rank(S, i) = k - 1 /\ p[k] = seq[i]
    <2>1. k \in 1 .. size /\ p[k] = seq[at(k)]
      BY <1>3, <1>4
    <2> QED BY <2>1, <1>2
  <1>6. ASSUME NEW i \in S
        PROVE  Rank(S, i) \in Nat /\ Rank(S, i) + 1 \in DOMAIN p /\ p[Rank(S, i) + 1] = seq[i]
    <2>1. Rank(S, i) \in Nat /\ Rank(S, i) < size
      BY <1>1, RankGrows DEF size
    <2>2. Rank(S, i) + 1 \in 1 .. size /\ (Rank(S, i) + 1) - 1 = Rank(S, i)
      BY <2>1, <1>1
    <2>3. at(Rank(S, i) + 1) \in S /\ Rank(S, at(Rank(S, i) + 1)) = Rank(S, i)
      BY <2>2, <1>2
    <2>4. at(Rank(S, i) + 1) = i
      BY <2>3, <1>1, RankIsUnique
    <2> QED BY <1>3, <1>4, <2>1, <2>2, <2>4
  <1> HIDE DEF p
  <1> QED BY <1>4, <1>5, <1>6 DEF p, size
=============================================================================
