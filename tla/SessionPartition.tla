-------------------------- MODULE SessionPartition --------------------------
(***************************************************************************)
(* What the sessions of a stream promise: the stored batches are divided   *)
(* into runs of play, and the division of what is already stored is        *)
(* history.  A new batch continues the newest run or begins one; deleting  *)
(* batches leaves the rest divided as it was; the only other changes are   *)
(* wholesale, forgetting the division and dividing undivided history anew. *)
(***************************************************************************)
EXTENDS Integers, FiniteSets

VARIABLE part   \* stored batch -> the batches of its run, itself included

Stored == DOMAIN part
Undivided == \A i \in Stored : part[i] = Stored

Init == part = <<>>

(* Runs are disjoint and without holes. *)
IsDivision(p) ==
  \A i, j \in DOMAIN p :
    /\ i \in p[i]
    /\ p[i] \subseteq DOMAIN p
    /\ j \in p[i] => p[i] = p[j]
    /\ j \in p[i] => \A k \in DOMAIN p : i < k /\ k < j => k \in p[i]

Store ==
  \E id \in DOMAIN part' \ Stored :
    /\ \A i \in Stored : i < id
    /\ DOMAIN part' = Stored \cup {id}
    /\ \/ /\ part'[id] = {id}
          /\ \A i \in Stored : part'[i] = part[i]
       \/ \E last \in Stored :
            /\ \A i \in Stored : i <= last
            /\ \A i \in DOMAIN part' :
                 part'[i] = IF i = id \/ i \in part[last]
                            THEN part[last] \cup {id} ELSE part[i]

Drop ==
  /\ DOMAIN part' \subseteq Stored
  /\ \A i \in DOMAIN part' : part'[i] = part[i] \cap DOMAIN part'

Forget ==
  /\ DOMAIN part' = Stored
  /\ \A i \in Stored : part'[i] = Stored

Divide ==
  /\ Undivided
  /\ DOMAIN part' = Stored
  /\ IsDivision(part')

Next == Store \/ Drop \/ Forget \/ Divide

Spec == Init /\ [][Next]_part
=============================================================================
