----------------------------- MODULE MCSettings -----------------------------
(* What the user sets up and sees: overlays being dragged and resized, the
   tabs of the Settings window, the meter.  They share no state, so each is
   explored while the others stand still. *)
EXTENDS Drag, Desk, Editor, Groups, Sounds, Meter, TLC

VARIABLE part

vars == <<part, dragVars, deskVars, edVars, grpVars, sndVars, metVars>>

mcGroups == <<"A", "D", "E">>
mcVars == <<"u", "v">>
mcBroken == {[groups |-> NoValues, active |-> "A"],
             [groups |-> "A" :> ("u" :> 1), active |-> "A"]}

Init ==
  /\ part \in {"drag", "desk", "editor", "groups", "sounds", "meter"}
  /\ DragInit /\ DeskInit /\ EdInit /\ GrpInit /\ SndInit /\ MetInit
  /\ part # "drag" => frozen
  /\ part # "groups" => ref.groups["D"] = NoValues /\ ref.active = "D"

Next ==
  /\ UNCHANGED part
  /\ \/ /\ part = "drag" /\ DragNext
        /\ UNCHANGED <<deskVars, edVars, grpVars, sndVars, metVars>>
     \/ /\ part = "desk" /\ DeskNext
        /\ UNCHANGED <<dragVars, edVars, grpVars, sndVars, metVars>>
     \/ /\ part = "editor" /\ EdNext
        /\ UNCHANGED <<dragVars, deskVars, grpVars, sndVars, metVars>>
     \/ /\ part = "groups" /\ GrpNext
        /\ UNCHANGED <<dragVars, deskVars, edVars, sndVars, metVars>>
     \/ /\ part = "sounds" /\ SndNext
        /\ UNCHANGED <<dragVars, deskVars, edVars, grpVars, metVars>>
     \/ /\ part = "meter" /\ MetNext
        /\ UNCHANGED <<dragVars, deskVars, edVars, grpVars, sndVars>>

Spec == Init /\ [][Next]_vars
=============================================================================
