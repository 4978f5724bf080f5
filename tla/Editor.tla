------------------------------- MODULE Editor -------------------------------
(***************************************************************************)
(* The trigger editor of the Settings window (settings_window.rs): the     *)
(* list of triggers, the drawer whose panels edit one trigger and one of   *)
(* its conditions or actions on top of that, and the two places every      *)
(* change must reach, triggers.toml and the running trigger engine.        *)
(* Panels remember what they edit by its index.                            *)
(*                                                                         *)
(* Simplifications:                                                        *)
(* - A trigger is an id and its two lists; name, switch and logic are its  *)
(*   head.  What a condition or action says is a small value.              *)
(* - The widgets of a panel hold what was loaded into them until OK.       *)
(***************************************************************************)
EXTENDS Integers, Sequences, SequencesExt

CONSTANTS
  Kinds,        \* the lists of a trigger: "cond" and "act", edited alike
  MaxTriggers, MaxItems,  \* bounds on the lists
  MaxDone,      \* bound on changes made to the list of triggers
  None

Says == {1, 2}
Heads == {1, 2}

VARIABLES
  isOpen,       \* Settings is open
  triggers,     \* trigger_cfg: [id, head, lists]
  toml,         \* triggers.toml
  engine,       \* what the trigger engine runs; None before it exists
  panels,       \* the PanelFrame stack
  selected,       \* selected_trigger_index, from 1, 0 for none
  picked,       \* the selected index in each list of the trigger panel
  done

edVars == <<isOpen, triggers, toml, engine, panels, selected, picked, done>>

New == [id |-> 0, head |-> 1, lists |-> [k \in Kinds |-> <<>>]]

EdInit ==
  /\ isOpen = FALSE /\ panels = <<>> /\ selected = 0
  /\ picked = [k \in Kinds |-> 0] /\ done = 0
  /\ toml = <<[New EXCEPT !.id = 1], [New EXCEPT !.id = 2, !.lists = [k \in Kinds |-> <<1>>]]>>
  /\ triggers = <<>> /\ engine = None

(* open_settings: a new window over a fresh TriggerConfig::load. *)
OpenEditor ==
  /\ ~isOpen /\ isOpen' = TRUE
  /\ triggers' = toml /\ panels' = <<>> /\ selected' = 0
  /\ picked' = [k \in Kinds |-> 0]
  /\ UNCHANGED <<toml, engine, done>>

(* The drawer's open panels go with the window. *)
CloseEditor ==
  /\ isOpen /\ isOpen' = FALSE
  /\ triggers' = <<>> /\ panels' = <<>> /\ selected' = 0
  /\ picked' = [k \in Kinds |-> 0]
  /\ UNCHANGED <<toml, engine, done>>

(* An engine starts with what the file says. *)
EngineStarts ==
  /\ engine # toml /\ engine' = toml
  /\ UNCHANGED <<isOpen, triggers, toml, panels, selected, picked, done>>

PersistFileOnly(t) ==
  /\ triggers' = t /\ toml' = t
  /\ UNCHANGED engine

(* persist_and_reload_triggers *)
Persist(t) ==
  /\ triggers' = t /\ toml' = t
  /\ engine' = IF engine = None THEN None ELSE t

Change == done < MaxDone /\ done' = done + 1

(* The drawer's backdrop swallows every click on the tab beneath it. *)
AtListAlways == isOpen
AtList == isOpen /\ panels = <<>>

Swapped(s, i, j) == [s EXCEPT ![i] = s[j], ![j] = s[i]]

ChooseTrigger(i) ==
  /\ AtList /\ i \in 1..Len(triggers) /\ i # selected
  /\ selected' = i
  /\ UNCHANGED <<isOpen, triggers, toml, engine, panels, picked, done>>

PushTriggerPanel(i, t) ==
  /\ panels' = Append(panels, [kind |-> "trigger", index |-> i, was |-> t.id,
                               lists |-> t.lists])
  /\ picked' = [k \in Kinds |-> 0]

AddTrigger ==
  /\ AtList /\ Len(triggers) < MaxTriggers
  /\ PushTriggerPanel(0, New)
  /\ UNCHANGED <<isOpen, triggers, toml, engine, selected, done>>

EditTrigger ==
  /\ AtList /\ selected > 0
  /\ PushTriggerPanel(selected, triggers[selected])
  /\ UNCHANGED <<isOpen, triggers, toml, engine, selected, done>>

FreshId == CHOOSE n \in 1..(MaxTriggers + 1) : \A i \in DOMAIN triggers : triggers[i].id # n

(* The copy is saved below the original and its panel opened at once. *)
CloneTrigger ==
  /\ Change /\ AtList /\ selected > 0 /\ Len(triggers) < MaxTriggers
  /\ LET copy == [triggers[selected] EXCEPT !.id = FreshId]
     IN /\ Persist(InsertAt(triggers, selected + 1, copy))
        /\ PushTriggerPanel(selected + 1, copy)
  /\ selected' = selected + 1
  /\ UNCHANGED isOpen

DeleteTrigger ==
  /\ Change /\ AtList /\ selected \in 1..Len(triggers)
  /\ Persist(RemoveAt(triggers, selected))
  /\ selected' = 0
  /\ UNCHANGED <<isOpen, panels, picked>>

MoveTriggerUp ==
  /\ Change /\ AtList /\ selected > 1
  /\ Persist(Swapped(triggers, selected, selected - 1))
  /\ selected' = selected - 1
  /\ UNCHANGED <<isOpen, panels, picked>>

MoveTriggerDown ==
  /\ Change /\ AtList /\ selected > 0 /\ selected < Len(triggers)
  /\ Persist(Swapped(triggers, selected, selected + 1))
  /\ selected' = selected + 1
  /\ UNCHANGED <<isOpen, panels, picked>>

ToggleTrigger ==
  /\ Change /\ AtList /\ selected > 0
  /\ Persist([triggers EXCEPT ![selected].head = 3 - @])
  /\ UNCHANGED <<isOpen, panels, selected, picked>>

-----------------------------------------------------------------------------
(* The panel on top. *)
Top == panels[Len(panels)]
OnTop(kind) == panels # <<>> /\ Top.kind = kind
WithTop(p) == [panels EXCEPT ![Len(panels)] = p]
Below == SubSeq(panels, 1, Len(panels) - 1)

InPanels == UNCHANGED <<isOpen, triggers, toml, engine, selected, done>>

PickItem(k, i) ==
  /\ OnTop("trigger") /\ i \in 1..Len(Top.lists[k]) /\ i # picked[k]
  /\ picked' = [picked EXCEPT ![k] = i]
  /\ InPanels /\ UNCHANGED panels

(* push_condition_panel, push_action_panel: the panel shares the list of the
   trigger panel below it. *)
PushItemPanel(k, i, v) ==
  panels' = Append(panels, [kind |-> "item", list |-> k, index |-> i, was |-> v])

AddItem(k) ==
  /\ OnTop("trigger") /\ Len(Top.lists[k]) < MaxItems
  /\ PushItemPanel(k, 0, 0)
  /\ InPanels /\ UNCHANGED picked

EditItem(k) ==
  /\ OnTop("trigger") /\ picked[k] > 0
  /\ PushItemPanel(k, picked[k], IF picked[k] <= Len(Top.lists[k]) THEN Top.lists[k][picked[k]] ELSE 0)
  /\ InPanels /\ UNCHANGED picked

DeleteItem(k) ==
  /\ OnTop("trigger") /\ picked[k] \in 1..Len(Top.lists[k])
  /\ panels' = WithTop([Top EXCEPT !.lists[k] = RemoveAt(Top.lists[k], picked[k])])
  /\ picked' = [picked EXCEPT ![k] = 0]
  /\ InPanels

(* The swap indexes the list with no check of its length. *)
MoveItemUp(k) ==
  /\ OnTop("trigger") /\ picked[k] > 1 /\ picked[k] <= Len(Top.lists[k])
  /\ panels' = WithTop([Top EXCEPT !.lists[k] = Swapped(Top.lists[k], picked[k], picked[k] - 1)])
  /\ picked' = [picked EXCEPT ![k] = @ - 1]
  /\ InPanels

MoveItemDown(k) ==
  /\ OnTop("trigger") /\ picked[k] > 0 /\ picked[k] < Len(Top.lists[k])
  /\ panels' = WithTop([Top EXCEPT !.lists[k] = Swapped(Top.lists[k], picked[k], picked[k] + 1)])
  /\ picked' = [picked EXCEPT ![k] = @ + 1]
  /\ InPanels

Put(s, i, v) == IF i \in 1..Len(s) THEN [s EXCEPT ![i] = v] ELSE Append(s, v)

(* condition_panel_ok, action_panel_ok *)
ItemOk(v) ==
  /\ OnTop("item")
  /\ LET k == Top.list
         below == Below[Len(Below)]
     IN panels' = [Below EXCEPT ![Len(Below)] = [below EXCEPT !.lists[k] = Put(below.lists[k], Top.index, v)]]
  /\ InPanels /\ UNCHANGED picked

TriggerOk(h) ==
  /\ Change /\ OnTop("trigger")
  /\ Persist(Put(triggers, Top.index,
        [id |-> IF Top.index = 0 THEN FreshId ELSE Top.was, head |-> h,
         lists |-> Top.lists]))
  /\ panels' = Below
  /\ UNCHANGED <<isOpen, selected, picked>>

(* A click on a crumb drops what is deeper; Back drops the top; Close all. *)
JumpToPanel(i) ==
  /\ i \in 1..(Len(panels) - 1)
  /\ panels' = SubSeq(panels, 1, i)
  /\ InPanels /\ UNCHANGED picked

PopPanel ==
  /\ panels # <<>> /\ panels' = Below
  /\ InPanels /\ UNCHANGED picked

CloseAll ==
  /\ panels # <<>> /\ panels' = <<>>
  /\ InPanels /\ UNCHANGED picked

EdNext ==
  \/ OpenEditor \/ CloseEditor \/ EngineStarts
  \/ \E i \in 1..MaxTriggers : ChooseTrigger(i)
  \/ AddTrigger \/ EditTrigger \/ CloneTrigger \/ DeleteTrigger
  \/ MoveTriggerUp \/ MoveTriggerDown \/ ToggleTrigger
  \/ \E k \in Kinds : \/ \E i \in 1..MaxItems : PickItem(k, i)
                      \/ AddItem(k) \/ EditItem(k) \/ DeleteItem(k)
                      \/ MoveItemUp(k) \/ MoveItemDown(k)
  \/ \E v \in Says : ItemOk(v)
  \/ \E h \in Heads : TriggerOk(h)
  \/ JumpToPanel(1) \/ PopPanel \/ CloseAll

EdSpec == EdInit /\ [][EdNext]_edVars

-----------------------------------------------------------------------------
(* What the list shows is what is on disk, and what runs, whichever of the
   dozen handlers changed it; a panel that is cancelled has changed nothing
   (settings_window.rs:694-700). *)
ShownIsLive == isOpen => triggers = toml /\ engine \in {None, toml}

(* A panel will put its result where it was opened: the indexes on the stack
   still mean the trigger and the item they meant then
   (settings_window.rs:1680-1685). *)
PanelsStayAimed ==
  /\ \A p \in 1..Len(panels) :
       panels[p].kind = "trigger" /\ panels[p].index > 0 =>
         /\ panels[p].index <= Len(triggers)
         /\ triggers[panels[p].index].id = panels[p].was
  /\ OnTop("item") => /\ Len(panels) > 1 /\ Below[Len(Below)].kind = "trigger"
                      /\ Top.index > 0 => Below[Len(Below)].lists[Top.list][Top.index] = Top.was
=============================================================================
