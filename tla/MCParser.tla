------------------------------ MODULE MCParser ------------------------------
(* What is read out of a log and what is invented into one: scenes for
   modules Combat and Trace, each a handful of kinds of lines, module Marks,
   and groups for module Encounter.  The three parts share no state: each is
   explored while the others stand still. *)
EXTENDS Trace, Marks, Encounter, TLC

VARIABLE part

vars == <<part, traceVars, marksVars, encVars>>

Init ==
  /\ part \in {"combat", "marks", "fights"}
  /\ TraceInit /\ MarksInit /\ EncInit
  /\ part # "combat" => scene = "pull"
  /\ part # "fights" => players[1].class = "Druid"

Next ==
  /\ UNCHANGED part
  /\ \/ part = "combat" /\ TraceNext /\ UNCHANGED <<marksVars, encVars>>
     \/ part = "marks" /\ MarksNext /\ UNCHANGED <<traceVars, encVars>>
     \/ part = "fights" /\ EncNext /\ UNCHANGED <<traceVars, marksVars>>

Spec == Init /\ [][Next]_vars

me == "me"
ally == "ally"
pet == "pet"
warder == "warder"
orc == "orc"
gnoll == "gnoll"
Orc == "Orc"
corpse == "corpse"

mcNames == {me, ally, pet, warder, orc, Orc, gnoll, corpse}
mcSpaced == {warder, orc, Orc, corpse}
mcUpper == Orc :> orc
mcWarders == warder :> me
mcGenerated == {pet}
mcCorpses == {corpse}

L(op, src, tgt) == [op |-> op, src |-> src, tgt |-> tgt, sp |-> "spell"]
C(src, sp) == [op |-> "cast", src |-> src, tgt |-> src, sp |-> sp]

mcScript ==
  [pull |-> {L("slashes", me, orc), L("hits", Orc, me), L("park", orc, orc),
             L("slay", me, orc), L("miss", Orc, ally)},
   mend |-> {L("dot", ally, orc), L("heal", ally, me), L("heal", orc, orc),
             L("wake", Orc, Orc), L("absorb", orc, me), L("resist", me, orc)},
   loot |-> {L("spell", me, orc), L("slay", ally, Orc), L("loot", me, orc),
             L("money", me, me), L("thorns", me, corpse), L("extra", ally, gnoll),
             L("spell", gnoll, ally)},
   spells |-> {C(ally, "spell"), C(orc, "spell"), L("bare", me, orc),
               L("possessive", ally, orc), L("burn", orc, me), L("taken", ally, orc)},
   pets |-> {C(me, "burnout"), C(me, "summoning"), L("slashes", pet, orc),
             L("berserk", pet, pet), L("miss", pet, orc), L("riposte", warder, orc)},
   reset |-> {L("slashes", ally, orc), L("hits", pet, orc), C(me, "summoning"),
              L("shield", orc, ally), L("who", ally, ally), L("riposte", warder, orc)}]

mcJumps ==
  [pull |-> {0, 15}, mend |-> {14}, loot |-> {121}, spells |-> {1},
   pets |-> {11}, reset |-> {1}]

\* A player's class, mana and spells; every spell does or heals 1, and ticks twice.
Knows(class, mana, book) ==
  [class |-> class, mana |-> mana,
   book |-> {[kind |-> b[1], cost |-> 1, secs |-> b[2], val |-> 1, ticks |-> 2, every |-> 1] : b \in book}]

mcParties == {
  <<Knows("Druid", 2, {<<"HoT", 1>>, <<"Snare", 0>>, <<"Dot", 1>>}), Knows("Wizard", 2, {<<"Nuke", 1>>})>>,
  <<Knows("Cleric", 2, {<<"DirectHeal", 1>>, <<"Nuke", 1>>}),
    Knows("Necromancer", 2, {<<"Dot", 1>>, <<"Lifetap", 1>>})>>,
  <<Knows("Shaman", 2, {<<"Slow", 0>>, <<"Dot", 0>>, <<"PromisedHeal", 0>>}), Knows("Shadowknight", 1, {<<"Dot", 1>>})>>,
  <<Knows("Ranger", 2, {<<"Root", 0>>, <<"Dot", 1>>}), Knows("Warrior", 0, {})>>,
  <<Knows("Enchanter", 2, {<<"Debuff", 0>>, <<"Mez", 1>>}), Knows("Bard", 0, {<<"Slow", 0>>, <<"Nuke", 1>>})>>,
  <<Knows("Paladin", 2, {<<"Debuff", 0>>, <<"Nuke", 1>>}), Knows("Magician", 1, {<<"Nuke", 1>>})>> }
=============================================================================
