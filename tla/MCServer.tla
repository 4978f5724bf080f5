------------------------------ MODULE MCServer ------------------------------
(* The parts of froklog-server around its streams.  They share no state, so
   each is explored while the others stand still. *)
EXTENDS Registry, RateLimiter, Curation, TLC

VARIABLE part

vars == <<part, regVars, limVars, curVars>>

Init ==
  /\ part \in {"registry", "limiter", "curation"}
  /\ RegInit /\ LimInit /\ CurInit
  /\ part # "curation" => holds = [p \in Pages |-> "nothing"]

Next ==
  /\ UNCHANGED part
  /\ \/ part = "registry" /\ RegNext /\ UNCHANGED <<limVars, curVars>>
     \/ part = "limiter" /\ LimNext /\ UNCHANGED <<regVars, curVars>>
     \/ part = "curation" /\ CurNext /\ UNCHANGED <<regVars, limVars>>

Spec == Init /\ [][Next]_vars

Sym == Permutations(Streams) \cup Permutations(Tasks)
=============================================================================
