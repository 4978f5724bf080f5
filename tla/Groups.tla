------------------------------- MODULE Groups -------------------------------
(***************************************************************************)
(* Reference variables: groups of named values that triggers read by name, *)
(* one group being the active one (triggers.rs), and the Variables tab of  *)
(* the Settings window that edits them (settings_window.rs).  The tab      *)
(* works on its own copy; saving writes triggers.toml and reloads the      *)
(* engine, which takes the values of the group that is active then.        *)
(*                                                                         *)
(* Simplifications:                                                        *)
(* - A group maps names to small values; the order of names is that of     *)
(*   GroupNames and VarNames.                                              *)
(* - The user keeps to rows and groups the tab shows.                      *)
(***************************************************************************)
EXTENDS Naturals, Sequences, FiniteSets, SequencesExt, Functions

CONSTANTS
  GroupNames,   \* sequence of all names of groups, in alphabetical order
  VarNames,     \* sequence of all names of variables, likewise
  Default,      \* DEFAULT_REFERENCE_GROUP
  Broken,       \* configurations a file edited by hand may hold
  MaxEdits,     \* bound on changes
  MaxPending    \* bound on blank rows

VARIABLES
  ref,          \* the tab's copy: [groups, active]
  refFile,      \* triggers.toml
  refLive,      \* what the engine last loaded
  rows,         \* the rows the tab shows: [group, count] and blanks
  edits

grpVars == <<ref, refFile, refLive, rows, edits>>

Vals == {1, 2}
Names == ToSet(GroupNames)
Vars == ToSet(VarNames)
NoValues == [v \in {} |-> 1]

ASSUME GroupsAssumption == GroupNames \in Seq(Names)

(* ensure_default_reference_group *)
Ensured(c) ==
  LET g == IF Default \in DOMAIN c.groups THEN c.groups
           ELSE [n \in DOMAIN c.groups \cup {Default} |->
                   IF n = Default THEN NoValues ELSE c.groups[n]]
  IN [groups |-> g, active |-> IF c.active \in DOMAIN g THEN c.active ELSE Default]

Rows(c, blanks) == [group |-> c.active, shown |-> DOMAIN c.groups[c.active], blanks |-> blanks]

(* Starting, with Settings open: load() repairs the file, and the engine and
   the tab take it. *)
GrpInit ==
  /\ \E c \in Broken : ref = Ensured(c)
  /\ refFile = ref /\ refLive = ref
  /\ rows = Rows(ref, 0) /\ edits = 0

Edit == edits < MaxEdits /\ edits' = edits + 1

(* persist_and_reload_triggers *)
PersistGroups(c) == refFile' = c /\ refLive' = c

(* refresh_variables_tab: blank rows are abandoned. *)
Shown(c) == ref' = Ensured(c) /\ rows' = Rows(Ensured(c), 0)

Switched(c, g) == [c EXCEPT !.active = g]

(* The drop-down: nothing is saved. *)
GroupChanged(g) ==
  /\ g \in DOMAIN ref.groups
  /\ Shown(Switched(ref, g))
  /\ UNCHANGED <<refFile, refLive, edits>>

WithGroup(c, g, vals) ==
  [c EXCEPT !.groups = [n \in DOMAIN c.groups \cup {g} |-> IF n = g THEN vals ELSE c.groups[n]]]

(* New and Clone, under a name that is free: saved first, with the old group still active, and then
   switched to. *)
NewGroup(g) ==
  /\ Edit /\ g \notin DOMAIN ref.groups
  /\ LET c == WithGroup(ref, g, NoValues)
     IN PersistGroups(c) /\ Shown(Switched(c, g))

CloneGroup(g) ==
  /\ Edit /\ g \notin DOMAIN ref.groups
  /\ LET c == WithGroup(ref, g, ref.groups[ref.active])
     IN PersistGroups(c) /\ Shown(Switched(c, g))

Without(c, g) == [c EXCEPT !.groups = Restrict(c.groups, DOMAIN c.groups \ {g})]

RenamedDangling(old, new) ==
  WithGroup(Without(ref, old), new, ref.groups[old])

Renamed(old, new) ==
  [WithGroup(Without(ref, old), new, ref.groups[old]) EXCEPT !.active = new]

(* A name that is taken changes nothing, but what is shown is saved. *)
RenameGroup(new) ==
  /\ Edit /\ ref.active # Default
  /\ LET c == IF new \in DOMAIN ref.groups THEN ref ELSE Renamed(ref.active, new)
     IN PersistGroups(c) /\ Shown(c)

(* The group above, else the one below. *)
Fallback(g) ==
  LET at == CHOOSE i \in DOMAIN GroupNames : GroupNames[i] = g
      others == {i \in DOMAIN GroupNames : GroupNames[i] \in DOMAIN ref.groups \ {g}}
      above == {i \in others : i < at}
  IN IF above # {} THEN GroupNames[Max(above)]
     ELSE IF others # {} THEN GroupNames[Min(others)] ELSE Default

DeleteGroup ==
  /\ Edit /\ ref.active # Default
  /\ LET c == Switched(Without(ref, ref.active), Fallback(ref.active))
     IN PersistGroups(c) /\ Shown(c)

RowsOnly(c, blanks) == ref' = c /\ rows' = Rows(c, blanks)

AddBlank ==
  /\ rows.blanks < MaxPending
  /\ RowsOnly(ref, rows.blanks + 1)
  /\ UNCHANGED <<refFile, refLive, edits>>

(* A row past the confirmed ones is a blank. *)
DeleteBlank ==
  /\ rows.blanks > 0
  /\ RowsOnly(ref, rows.blanks - 1)
  /\ UNCHANGED <<refFile, refLive, edits>>

WithValues(vals) == [ref EXCEPT !.groups[ref.active] = vals]

DeleteVariable(v) ==
  /\ Edit /\ v \in rows.shown
  /\ LET vals == ref.groups[ref.active]
         c == WithValues(Restrict(vals, DOMAIN vals \ {v}))
     IN PersistGroups(c) /\ RowsOnly(c, rows.blanks)

(* A row is confirmed: under a new name the old one goes, and a variable
   that has the new name already is overwritten. *)
Confirmed(old, new, x) ==
  LET vals == ref.groups[ref.active]
      keep == Restrict(vals, DOMAIN vals \ (old \ {new}))
  IN [v \in DOMAIN keep \cup {new} |-> IF v = new THEN x ELSE keep[v]]

ConfirmVariable(old, new, x) ==
  /\ Edit /\ old \in rows.shown
  /\ LET c == WithValues(Confirmed({old}, new, x))
     IN PersistGroups(c) /\ RowsOnly(c, rows.blanks)

ConfirmBlank(new, x) ==
  /\ Edit /\ rows.blanks > 0
  /\ LET c == WithValues(Confirmed({}, new, x))
     IN PersistGroups(c) /\ RowsOnly(c, rows.blanks - 1)

(* Settings is closed and opened, or the program restarted: the tab reads
   the file; the engine does on a restart. *)
Reopen ==
  /\ ref # refFile
  /\ Shown(refFile)
  /\ UNCHANGED <<refFile, refLive, edits>>

GrpNext ==
  \/ \E g \in Names : GroupChanged(g) \/ NewGroup(g) \/ CloneGroup(g) \/ RenameGroup(g)
  \/ DeleteGroup \/ AddBlank \/ DeleteBlank \/ Reopen
  \/ \E v \in Vars : DeleteVariable(v)
  \/ \E u, v \in Vars, x \in Vals : ConfirmVariable(u, v, x)
  \/ \E v \in Vars, x \in Vals : ConfirmBlank(v, x)

GrpSpec == GrpInit /\ [][GrpNext]_grpVars
-----------------------------------------------------------------------------
(* What triggers read is a group that exists, and the engine and the file
   hold every value the tab holds, whichever handler came last.  Only which
   group is active may differ, until the next change is saved
   (triggers.rs:358-377, settings_window.rs:697-717). *)
ValuesAreLive ==
  /\ refLive = refFile /\ refLive.groups = ref.groups
  /\ refLive.active \in DOMAIN refLive.groups /\ Default \in DOMAIN refLive.groups
=============================================================================
