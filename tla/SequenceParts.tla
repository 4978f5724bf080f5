---------------------------- MODULE SequenceParts ----------------------------
(* Sequences of which some members are taken out. *)
EXTENDS Naturals, FiniteSets, Sequences

(* The members of s at some of its positions, in order. *)
Part(s, positions) ==
  [k \in 1..Cardinality(positions) |->
     s[CHOOSE i \in positions : Cardinality({j \in positions : j < i}) = k - 1]]

(* The first of some positions. *)
FirstOf(positions) == CHOOSE k \in positions : \A j \in positions : k <= j
=============================================================================
