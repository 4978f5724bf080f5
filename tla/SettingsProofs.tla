--------------------------- MODULE SettingsProofs ---------------------------
(***************************************************************************)
(* Proofs about what the user sets up: that a dragged overlay follows the  *)
(* pointer (Drag), that no stale box undoes a setting (Desk), that the     *)
(* trigger editor shows what runs and edits what it was opened on          *)
(* (Editor), that triggers read a group of variables that exists (Groups), *)
(* that a label plays the sound it was given (Sounds), and that the meter  *)
(* shows one fight (Meter).                                                *)
(***************************************************************************)
EXTENDS Drag, Desk, Editor, Groups, Sounds, Meter, OrderLemmas, SequenceTheorems, TLAPS

(* Dragging an overlay. *)

Steps == {"probe", "sense", "absolute", "incremental"}

DragTypes ==
  /\ frozen \in BOOLEAN /\ pointer \in Int /\ window \in Int /\ read \in Int
  /\ drag \in [mode : Steps \cup {"none", "settle", "done"}, probe : Int, at : Int]
  /\ saved \in [at : Int, is : BOOLEAN]
  /\ steady \in BOOLEAN

(* Until its first move the window is where it was; the reading a probe was
   made at is its length; and the way of following is the one this server
   needs, unless the pointer went too far while it was being told. *)
ModeFits ==
  /\ drag.mode \in {"none", "probe"} => window = 0
  /\ drag.mode = "none" => pointer = 0 /\ read = 0
  /\ drag.mode = "sense" =>
       window = read /\ drag.probe = read /\ drag.at = read
  /\ steady =>
       /\ drag.mode = "absolute" => frozen /\ window = read
       /\ drag.mode = "incremental" => ~frozen /\ window = read
       /\ window # 0 => window = read
  /\ saved.is => saved.at = window /\ drag.mode = "done"

DragInv == DragTypes /\ ModeFits

LEMMA HalfFacts ==
  ASSUME NEW n \in Int
  PROVE  /\ Magnitude(n) \in Nat /\ Half(n) \in Int
         /\ n >= 0 => Magnitude(n) = n /\ Half(n) = n \div 2
         /\ n < 0 => Magnitude(n) = -n /\ Half(n) = -((-n) \div 2)
BY DEF Magnitude, Half

(* The first move's reading tells the two kinds of server apart. *)
LEMMA SenseIsRight ==
  ASSUME DragInv, drag.mode = "sense", Steady
  PROVE  IF frozen THEN Sensed = "absolute" ELSE Sensed = "incremental"
<1> DEFINE r == read
           d == pointer - read
           m == Magnitude(r)
<1>1. /\ r \in Int /\ window = r /\ drag.probe = r /\ drag.at = r /\ pointer \in Int
      /\ d \in Int
  BY DEF DragInv, DragTypes, ModeFits
<1>2. Sensed = IF Rebased THEN "incremental" ELSE "absolute"
  BY DEF Sensed
<1>3. Local - drag.at = IF frozen THEN d ELSE d - r
  BY <1>1 DEF Local
<1>4. Rebased <=> IF r >= 0 THEN Local - drag.at <= -Half(r) ELSE Local - drag.at >= -Half(r)
  BY <1>1 DEF Rebased
<1>5. Magnitude(d) < m \div 2
  BY <1>1 DEF Steady
<1> HIDE DEF r, d, m
<1>6. /\ r >= 0 => m = r /\ Half(r) = r \div 2
      /\ r < 0 => m = -r /\ Half(r) = -((-r) \div 2)
      /\ d >= 0 => Magnitude(d) = d
      /\ d < 0 => Magnitude(d) = -d
  BY <1>1, HalfFacts DEF m
<1>7. m \in Nat
  BY <1>1, <1>6
<1>8. d < m \div 2 /\ -(m \div 2) < d
  BY <1>1, <1>5, <1>6, <1>7
<1>9. CASE frozen
  <2>1. ~Rebased
    BY <1>1, <1>3, <1>4, <1>6, <1>7, <1>8, <1>9
  <2> QED
    BY <1>2, <1>9, <2>1
<1>10. CASE ~frozen
  <2>1. Rebased
    BY <1>1, <1>3, <1>4, <1>6, <1>7, <1>8, <1>10
  <2> QED
    BY <1>2, <1>10, <2>1
<1> QED
  BY <1>9, <1>10

LEMMA DragInitInv ==
  DragInit => DragInv
<1> SUFFICES ASSUME DragInit PROVE DragInv
  OBVIOUS
<1>1. /\ drag = [mode |-> "none", probe |-> 0, at |-> 0] /\ saved = [at |-> 0, is |-> FALSE]
      /\ frozen \in BOOLEAN /\ pointer = 0 /\ window = 0 /\ read = 0 /\ steady = TRUE
  BY DEF DragInit, Unsaved
<1>2. DragTypes
  BY <1>1 DEF DragTypes, Steps
<1>3. drag.mode = "none" /\ ~saved.is
  BY <1>1
<1> QED
  BY <1>1, <1>2, <1>3 DEF DragInv, ModeFits

(* A tick either goes on in its mode or ends the drag. *)
LEMMA TickShape ==
  ASSUME DragInv, NEW m \in Steps, NEW p \in Int, Again(m, p), window' \in Int
  PROVE  \/ /\ drag' = [mode |-> m, probe |-> p, at |-> Local] /\ saved' = saved
            /\ drag' \in [mode : Steps \cup {"none", "settle", "done"}, probe : Int, at : Int]
            /\ drag'.mode = m /\ drag'.probe = p /\ drag'.at = Local
         \/ /\ drag'.mode = "done" /\ saved'.is /\ saved'.at = window'
            /\ drag' \in [mode : Steps \cup {"none", "settle", "done"}, probe : Int, at : Int]
            /\ saved' \in [at : Int, is : BOOLEAN]
<1>1. Local \in Int
  BY DEF DragInv, DragTypes, Local
<1>2. CASE down /\ ticks < MaxTicks
  BY <1>1, <1>2 DEF Again
<1>3. CASE ~(down /\ ticks < MaxTicks)
  <2>1. drag' = [drag EXCEPT !.mode = "done"] /\ saved' = [at |-> window', is |-> TRUE]
    BY <1>3 DEF Again, Finish
  <2>2. /\ drag' \in [mode : Steps \cup {"none", "settle", "done"}, probe : Int, at : Int]
        /\ drag'.mode = "done"
    BY <2>1 DEF DragInv, DragTypes
  <2>3. saved' \in [at : Int, is : BOOLEAN] /\ saved'.at = window' /\ saved'.is
    BY <2>1
  <2> QED
    BY <2>2, <2>3
<1> QED
  BY <1>2, <1>3

LEMMA TickKeeps ==
  ASSUME DragInv, Tick
  PROVE  DragInv'
<1>1. /\ UNCHANGED <<frozen, pointer>> /\ read' = pointer /\ steady' = (steady /\ Steady)
      /\ frozen \in BOOLEAN /\ pointer \in Int /\ window \in Int /\ steady' \in BOOLEAN
  BY DEF Tick, DragInv, DragTypes
<1>2. Local \in Int
  BY <1>1 DEF Local
<1>3. drag.mode \in Steps /\ ~saved.is /\ saved \in [at : Int, is : BOOLEAN]
  <2>1. drag.mode \in Steps
    BY DEF Tick, Probe, Absolute, Incremental, Sensed, Steps
  <2> QED
    BY <2>1 DEF Steps, DragInv, DragTypes, ModeFits
<1>4. CASE Probe
  <2>1. drag.mode = "probe" /\ window = 0 /\ Local = pointer
    BY <1>1, <1>4 DEF Probe, Sensed, Local, DragInv, ModeFits
  <2>2. CASE Magnitude(pointer) >= ProbeMin
    <3>1. window' = pointer /\ Again("sense", pointer)
      BY <1>4, <2>1, <2>2 DEF Probe
    <3>2. "sense" \in Steps
      BY DEF Steps
    <3> QED
      BY <1>1, <1>3, <2>1, <3>1, <3>2, TickShape DEF DragInv, DragTypes, ModeFits
  <2>3. CASE ~(Magnitude(pointer) >= ProbeMin)
    <3>1. window' = window /\ Again("probe", 0)
      BY <1>4, <2>1, <2>3 DEF Probe
    <3>2. "probe" \in Steps
      BY DEF Steps
    <3> QED
      BY <1>1, <1>3, <2>1, <3>1, <3>2, TickShape DEF DragInv, DragTypes, ModeFits
  <2> QED
    BY <2>2, <2>3
<1>5. CASE Absolute
  <2>1. window' = Local /\ Again("absolute", 0) /\ Sensed = "absolute"
    BY <1>5 DEF Absolute
  <2>2. steady' => frozen
    <3>1. CASE drag.mode = "sense"
      BY <1>1, <2>1, <3>1, SenseIsRight
    <3>2. CASE drag.mode # "sense"
      BY <1>1, <2>1, <3>2 DEF Sensed, DragInv, ModeFits
    <3> QED
      BY <3>1, <3>2
  <2>3. steady' => window' = pointer
    BY <2>1, <2>2 DEF Local
  <2>4. "absolute" \in Steps
    BY DEF Steps
  <2> QED
    BY <1>1, <1>2, <1>3, <2>1, <2>2, <2>3, <2>4, TickShape DEF DragInv, DragTypes, ModeFits
<1>6. CASE Incremental
  <2>1. window' = window + Local /\ Again("incremental", 0) /\ Sensed = "incremental"
    BY <1>6 DEF Incremental
  <2>2. steady' => ~frozen
    <3>1. CASE drag.mode = "sense"
      BY <1>1, <2>1, <3>1, SenseIsRight
    <3>2. CASE drag.mode # "sense"
      BY <1>1, <2>1, <3>2 DEF Sensed, DragInv, ModeFits
    <3> QED
      BY <3>1, <3>2
  <2>3. (steady' => window' = pointer) /\ window' \in Int
    BY <1>1, <1>2, <2>1, <2>2 DEF Local
  <2>4. "incremental" \in Steps
    BY DEF Steps
  <2> QED
    BY <1>1, <1>3, <2>1, <2>2, <2>3, <2>4, TickShape DEF DragInv, DragTypes, ModeFits
<1> QED
  BY <1>4, <1>5, <1>6 DEF Tick

LEMMA PositionLostKeeps ==
  ASSUME DragInv, PositionLost
  PROVE  DragInv'
<1>1. /\ UNCHANGED <<frozen, pointer, window, read>> /\ Again("incremental", 0)
      /\ Sensed = "incremental" /\ steady' = (steady /\ Steady)
  BY DEF PositionLost, IncrementalBlind
<1>2. drag.mode \in {"sense", "incremental"}
  BY <1>1 DEF Sensed
<1>3. (steady' => ~frozen /\ window = read) /\ window \in Int /\ steady' \in BOOLEAN
  <2>1. CASE drag.mode = "sense"
    BY <1>1, <2>1, SenseIsRight DEF DragInv, DragTypes, ModeFits
  <2>2. CASE drag.mode = "incremental"
    BY <1>1, <2>2 DEF DragInv, DragTypes, ModeFits
  <2> QED
    BY <1>2, <2>1, <2>2
<1>4. "incremental" \in Steps
  BY DEF Steps
<1>5. ~saved.is /\ saved \in [at : Int, is : BOOLEAN]
  BY <1>2 DEF DragInv, DragTypes, ModeFits
<1> QED
  BY <1>1, <1>3, <1>4, <1>5, TickShape DEF DragInv, DragTypes, ModeFits

LEMMA DragSteps ==
  DragInv /\ [DragNext]_dragVars => DragInv'
<1> SUFFICES ASSUME DragInv, [DragNext]_dragVars PROVE DragInv'
  OBVIOUS
<1>1. drag \in [mode : Steps \cup {"none", "settle", "done"}, probe : Int, at : Int]
  BY DEF DragInv, DragTypes
<1>2. CASE UNCHANGED dragVars
  BY <1>2 DEF dragVars, DragInv, DragTypes, ModeFits
<1>3. CASE BeginDrag
  <2>1. /\ UNCHANGED <<frozen, pointer, window, read, steady, saved>>
        /\ drag.mode = "none"
        /\ drag' = [drag EXCEPT !.mode = "probe"] \/ drag' = [drag EXCEPT !.mode = "settle"]
    BY <1>3 DEF BeginDrag
  <2>2. /\ drag' \in [mode : Steps \cup {"none", "settle", "done"}, probe : Int, at : Int]
        /\ drag'.mode \in {"probe", "settle"}
    BY <1>1, <2>1 DEF Steps
  <2> QED
    BY <1>1, <2>1, <2>2 DEF DragInv, DragTypes, ModeFits
<1>4. CASE Move
  <2>1. /\ drag.mode # "none" /\ UNCHANGED <<frozen, window, drag, read, steady, saved>>
        /\ pointer' \in Int
    BY <1>4, DragAssumption DEF Move, Dragging
  <2> QED
    BY <2>1 DEF DragInv, DragTypes, ModeFits
<1>5. CASE Release
  BY <1>5 DEF Release, DragInv, DragTypes, ModeFits
<1>6. CASE PointerLost \/ Settle
  <2>1. /\ UNCHANGED <<frozen, pointer, window, read, steady>>
        /\ drag.mode \notin {"none", "done"}
        /\ drag' = [drag EXCEPT !.mode = "done"] /\ saved' = [at |-> window', is |-> TRUE]
    BY <1>6 DEF PointerLost, Settle, Finish, Dragging
  <2>2. /\ drag' \in [mode : Steps \cup {"none", "settle", "done"}, probe : Int, at : Int]
        /\ drag'.mode = "done" /\ saved'.is /\ saved'.at = window
    BY <1>1, <2>1
  <2>3. saved' \in [at : Int, is : BOOLEAN]
    BY <2>1 DEF DragInv, DragTypes
  <2> QED
    BY <2>1, <2>2, <2>3 DEF DragInv, DragTypes, ModeFits
<1> QED
  BY <1>2, <1>3, <1>4, <1>5, <1>6, TickKeeps, PositionLostKeeps DEF DragNext

(* A dragged overlay is where the pointer has carried it, on either kind of
   server and however fast, and that is what is saved; but for a drag whose
   pointer went on by half its first move before the tick that tells the two
   kinds apart (overlay_shell.rs:168-200 and 230-262). *)
THEOREM DragsFollow ==
  DragSpec => []FollowsPointer
<1>1. DragInv => FollowsPointer
  BY DEF DragInv, ModeFits, FollowsPointer
<1> QED
  BY <1>1, DragInitInv, DragSteps, PTL DEF DragSpec
-----------------------------------------------------------------------------
(* Settings and the boxes that write them back. *)

DeskTypes ==
  /\ config = [f \in Fields |-> config[f]]
  /\ wish = [f \in Fields |-> wish[f]]
  /\ disk = [f \in Fields |-> disk[f]]
  /\ box = [f \in Widgets |-> box[f]]
  /\ typed \subseteq TextFields

(* While Settings is open, a box nobody is typing in says what Config says or
   does not parse, unless its field was set beside Settings. *)
BoxesAreFresh ==
  /\ open => \A f \in Widgets \ (typed \cup behind) :
                box[f] = config[f] \/ (f \in TextFields /\ box[f] = Bad)
  /\ behind \subseteq {"width", "enabled"}

(* The file lags behind Config only in a width being dragged. *)
FileIsCurrent ==
  \A f \in Fields : f # "width" \/ ~(resizing \/ lost) => disk[f] = config[f]

DeskInv ==
  /\ DeskTypes /\ BoxesAreFresh /\ FileIsCurrent
  /\ \A f \in Fields \ undone : config[f] = wish[f]
  /\ undone \subseteq {"width", "enabled"}
  /\ audio = config["volume"]

LEMMA FieldFacts ==
  /\ TextFields = {"pos", "width"} /\ Switches = {"enabled", "locked"}
  /\ Widgets = {"pos", "width", "enabled", "locked"}
  /\ Fields = {"pos", "width", "enabled", "locked", "volume"}
BY DEF TextFields, Switches, Widgets, Fields

LEMMA DeskInitInv ==
  DeskInit => DeskInv
BY FieldFacts DEF DeskInit, DeskInv, DeskTypes, BoxesAreFresh, FileIsCurrent

(* A new Config that is saved, with boxes that agree with it. *)
LEMMA SavingKeeps ==
  ASSUME DeskInv, NEW c, Save(c), c = [f \in Fields |-> c[f]],
         wish' = [f \in Fields |-> wish'[f]],
         \A f \in Fields \ undone' : wish'[f] = c[f],
         box' = [f \in Widgets |-> box'[f]], typed' \subseteq TextFields,
         open' => \A f \in Widgets \ (typed' \cup behind') :
                    box'[f] = c[f] \/ (f \in TextFields /\ box'[f] = Bad),
         behind' \subseteq {"width", "enabled"}, undone' \subseteq {"width", "enabled"},
         audio' = c["volume"]
  PROVE  DeskInv'
<1>1. config' = c /\ disk' = c
  BY DEF Save
<1> QED
  BY <1>1 DEF DeskInv, DeskTypes, BoxesAreFresh, FileIsCurrent

(* Writing all boxes back changes only what was typed or is behind. *)
LEMMA WritingBackKeeps ==
  ASSUME DeskInv, open, UNCHANGED <<open, audio>>, NEW b, NEW said,
         said \subseteq TextFields, SaveAppearance(b, said),
         b = [f \in Widgets |-> b[f]],
         \A f \in Widgets \ said : b[f] = box[f],
         typed \subseteq said
  PROVE  DeskInv'
<1> DEFINE c == [f \in Fields |-> Parsed(b, f)]
<1>1. /\ Save(c) /\ box' = b /\ typed' = {}
      /\ wish' = [f \in Fields |-> IF f \in said THEN Parsed(b, f) ELSE wish[f]]
      /\ BoxesSaved(TextFields, said)
  BY DEF SaveAppearance
<1>2. \A f \in Fields : c[f] = Parsed(b, f)
  OBVIOUS
<1>3. c = [f \in Fields |-> c[f]]
  OBVIOUS
<1> HIDE DEF c
<1>4. /\ undone' = (undone \ said) \cup
                    {f \in (TextFields \cap behind) \ said : c[f] # config[f]}
      /\ behind' = behind \ TextFields
  BY <1>1 DEF BoxesSaved, Save
<1>5. ASSUME NEW f \in Fields \ undone' PROVE wish'[f] = c[f]
  <2>1. CASE f \in said
    BY <1>1, <1>2, <2>1
  <2>2. CASE f \notin said
    <3>1. f \notin undone /\ wish[f] = config[f] /\ wish'[f] = wish[f]
      BY <1>1, <1>4, <2>2 DEF DeskInv
    <3>2. CASE f \in TextFields /\ f \in behind
      BY <1>4, <1>5, <2>2, <3>1, <3>2
    <3>3. CASE f \in TextFields /\ f \notin behind
      <4>1. f \in Widgets \ (typed \cup behind) /\ b[f] = box[f]
        BY <2>2, <3>3, FieldFacts
      <4>2. Parsed(b, f) = config[f]
        BY <3>3, <4>1 DEF Parsed, DeskInv, BoxesAreFresh
      <4> QED
        BY <1>2, <3>1, <4>2
    <3>4. CASE f \notin TextFields
      BY <1>2, <3>1, <3>4 DEF Parsed
    <3> QED
      BY <3>2, <3>3, <3>4
  <2> QED
    BY <2>1, <2>2
<1>6. ASSUME NEW f \in Widgets \ (typed' \cup behind')
      PROVE  b[f] = c[f] \/ (f \in TextFields /\ b[f] = Bad)
  <2>1. f \in Fields
    BY FieldFacts
  <2>2. CASE f \in TextFields
    BY <1>2, <2>1, <2>2 DEF Parsed
  <2>3. CASE f \notin TextFields
    <3>1. f \notin said /\ f \notin typed /\ f \notin behind
      BY <1>4, <1>6, <2>3
    <3>2. b[f] = config[f]
      BY <2>3, <3>1 DEF DeskInv, BoxesAreFresh
    <3> QED
      BY <1>2, <2>1, <2>3, <3>2 DEF Parsed
  <2> QED
    BY <2>2, <2>3
<1>7. c["volume"] = config["volume"] /\ audio' = config["volume"]
  BY <1>2, FieldFacts DEF Parsed, DeskInv
<1>8. behind' \subseteq {"width", "enabled"} /\ undone' \subseteq {"width", "enabled"}
  BY <1>4 DEF DeskInv, BoxesAreFresh
<1>9. wish' = [f \in Fields |-> wish'[f]] /\ typed' \subseteq TextFields
  BY <1>1
<1> QED
  BY <1>1, <1>3, <1>5, <1>6, <1>7, <1>8, <1>9, SavingKeeps

(* What is not about a setting keeps what is. *)
LEMMA LookingKeeps ==
  ASSUME DeskInv, UNCHANGED <<config, disk, box, typed, open, resizing, lost, wish, audio,
                              behind, undone>>
  PROVE  DeskInv'
BY DEF DeskInv, DeskTypes, BoxesAreFresh, FileIsCurrent

(* The volume, the tray or a drag: one field changes, and its box with it or it
   is behind. *)
LEMMA SettingKeeps ==
  ASSUME DeskInv, NEW f \in Fields, NEW v,
         Save([config EXCEPT ![f] = v]), wish' = [wish EXCEPT ![f] = v],
         UNCHANGED open,
         audio' = IF f = "volume" THEN v ELSE audio,
         typed' = typed \/ typed' = typed \ {f},
         box' = box \/ (f \in Widgets /\ box' = [box EXCEPT ![f] = v]),
         open /\ f \in Widgets => box' = [box EXCEPT ![f] = v] \/ f \in behind',
         behind \subseteq behind', behind' \subseteq {"width", "enabled"},
         undone' = undone \/ undone' = undone \ {f}
  PROVE  DeskInv'
<1> DEFINE c == [config EXCEPT ![f] = v]
<1>1. c = [g \in Fields |-> IF g = f THEN v ELSE config[g]]
  BY DEF DeskInv, DeskTypes
<1>2. wish' = [g \in Fields |-> IF g = f THEN v ELSE wish[g]]
  BY DEF DeskInv, DeskTypes
<1>3. /\ box' = [g \in Widgets |-> box'[g]]
      /\ \A g \in Widgets \ {f} : box'[g] = box[g]
      /\ open /\ f \in Widgets => box'[f] = v \/ f \in behind'
  BY DEF DeskInv, DeskTypes
<1>4. typed' \subseteq TextFields /\ typed \subseteq typed' \cup {f}
  BY DEF DeskInv, DeskTypes
<1>5. audio' = c["volume"]
  BY <1>1, FieldFacts DEF DeskInv
<1>6. Save(c)
  OBVIOUS
<1> HIDE DEF c
<1>7. ASSUME open', NEW g \in Widgets \ (typed' \cup behind')
      PROVE  box'[g] = c[g] \/ (g \in TextFields /\ box'[g] = Bad)
  <2>1. g \in Fields
    BY FieldFacts
  <2>2. CASE g = f
    BY <1>1, <1>3, <1>7, <2>1, <2>2
  <2>3. CASE g # f
    <3>1. open /\ g \in Widgets \ (typed \cup behind)
      BY <1>4, <1>7, <2>3
    <3> QED
      BY <1>1, <1>3, <2>1, <2>3, <3>1 DEF DeskInv, BoxesAreFresh
  <2> QED
    BY <2>2, <2>3
<1>8. /\ c = [g \in Fields |-> c[g]] /\ wish' = [g \in Fields |-> wish'[g]]
      /\ \A g \in Fields \ undone' : wish'[g] = c[g]
  <2>1. ASSUME NEW g \in Fields \ undone' PROVE wish'[g] = c[g]
    <3>1. CASE g = f
      BY <1>1, <1>2, <3>1
    <3>2. CASE g # f
      BY <1>1, <1>2, <2>1, <3>2 DEF DeskInv
    <3> QED
      BY <3>1, <3>2
  <2> QED
    BY <1>1, <1>2, <2>1
<1>9. undone' \subseteq {"width", "enabled"}
  BY DEF DeskInv
<1> QED
  BY <1>3, <1>4, <1>5, <1>6, <1>7, <1>8, <1>9, SavingKeeps

LEMMA FlipKeeps ==
  ASSUME DeskInv, NEW f \in Switches, FlipSwitch(f)
  PROVE  DeskInv'
<1> DEFINE c == [g \in Fields |-> IF g \in Switches THEN box'[g] ELSE config[g]]
<1>1. /\ open /\ box' = [box EXCEPT ![f] = 3 - @] /\ Save(c)
      /\ wish' = [wish EXCEPT ![f] = box'[f]] /\ UNCHANGED <<open, typed, audio>>
      /\ BoxesSaved(Switches, {f})
  BY DEF FlipSwitch
<1>2. /\ box' = [g \in Widgets |-> box'[g]]
      /\ \A g \in Widgets \ {f} : box'[g] = box[g]
  BY <1>1 DEF DeskInv, DeskTypes
<1>3. /\ \A g \in Fields : c[g] = IF g \in Switches THEN box'[g] ELSE config[g]
      /\ c = [g \in Fields |-> c[g]]
  OBVIOUS
<1>4. /\ wish' = [g \in Fields |-> wish'[g]]
      /\ \A g \in Fields : wish'[g] = IF g = f THEN box'[f] ELSE wish[g]
  BY <1>1 DEF DeskInv, DeskTypes
<1>5. \A g \in Switches : g \in Widgets \ typed /\ g \notin TextFields
  BY FieldFacts DEF DeskInv, DeskTypes
<1> HIDE DEF c
<1>6. /\ undone' = (undone \ {f}) \cup
                    {g \in (Switches \cap behind) \ {f} : c[g] # config[g]}
      /\ behind' = behind \ Switches
  BY <1>1 DEF BoxesSaved, Save
<1>7. ASSUME NEW g \in Fields \ undone' PROVE wish'[g] = c[g]
  <2>1. CASE g = f
    BY <1>3, <1>4, <2>1
  <2>2. CASE g # f
    <3>1. wish'[g] = config[g]
      BY <1>4, <1>6, <1>7, <2>2 DEF DeskInv
    <3>2. CASE g \in Switches /\ g \in behind
      BY <1>6, <1>7, <2>2, <3>1, <3>2
    <3>3. CASE g \in Switches /\ g \notin behind
      <4>1. box[g] = config[g]
        BY <1>1, <1>5, <3>3 DEF DeskInv, BoxesAreFresh
      <4> QED
        BY <1>2, <1>3, <1>5, <2>2, <3>1, <3>3, <4>1
    <3>4. CASE g \notin Switches
      BY <1>3, <3>1, <3>4
    <3> QED
      BY <3>2, <3>3, <3>4
  <2> QED
    BY <2>1, <2>2
<1>8. ASSUME NEW g \in Widgets \ (typed' \cup behind')
      PROVE  box'[g] = c[g] \/ (g \in TextFields /\ box'[g] = Bad)
  <2>1. g \in Fields
    BY FieldFacts
  <2>2. CASE g \in Switches
    BY <1>3, <2>1, <2>2
  <2>3. CASE g \notin Switches
    <3>1. g \in Widgets \ (typed \cup behind) /\ g # f
      BY <1>1, <1>6, <1>8, <2>3
    <3> QED
      BY <1>1, <1>2, <1>3, <2>1, <2>3, <3>1 DEF DeskInv, BoxesAreFresh
  <2> QED
    BY <2>2, <2>3
<1>9. audio' = c["volume"] /\ typed' \subseteq TextFields
  BY <1>1, <1>3, FieldFacts DEF DeskInv, DeskTypes
<1>10. behind' \subseteq {"width", "enabled"} /\ undone' \subseteq {"width", "enabled"}
  BY <1>6 DEF DeskInv, BoxesAreFresh
<1> QED
  BY <1>1, <1>2, <1>3, <1>4, <1>7, <1>8, <1>9, <1>10, SavingKeeps

LEMMA ResizeKeeps ==
  ASSUME DeskInv, NEW v, WidthResizeStep(v)
  PROVE  DeskInv'
<1>1. /\ resizing /\ config' = [config EXCEPT !["width"] = v]
      /\ wish' = [wish EXCEPT !["width"] = v]
      /\ behind' = IF open THEN behind \cup {"width"} ELSE behind
      /\ undone' = undone \ {"width"}
      /\ UNCHANGED <<disk, open, box, typed, resizing, lost, audio>>
  BY DEF WidthResizeStep, SetBeside
<1>2. /\ config' = [g \in Fields |-> IF g = "width" THEN v ELSE config[g]]
      /\ wish' = [g \in Fields |-> IF g = "width" THEN v ELSE wish[g]]
  BY <1>1, FieldFacts DEF DeskInv, DeskTypes
<1>3. BoxesAreFresh'
  <2>1. ASSUME open, NEW f \in Widgets \ (typed \cup behind'), f # "width"
        PROVE  config'[f] = config[f] /\ f \in Widgets \ (typed \cup behind)
    BY <1>1, <1>2, <2>1, FieldFacts
  <2>2. open => "width" \in behind'
    BY <1>1
  <2> QED
    BY <1>1, <2>1, <2>2 DEF DeskInv, BoxesAreFresh
<1>4. FileIsCurrent'
  BY <1>1, <1>2 DEF DeskInv, FileIsCurrent
<1>5. audio' = config'["volume"]
  BY <1>1, <1>2, FieldFacts DEF DeskInv
<1>6. ASSUME NEW f \in Fields \ undone' PROVE config'[f] = wish'[f]
  <2>1. CASE f = "width"
    BY <1>2, <2>1
  <2>2. CASE f # "width"
    BY <1>1, <1>2, <1>6, <2>2 DEF DeskInv
  <2> QED
    BY <2>1, <2>2
<1>7. undone' \subseteq {"width", "enabled"}
  BY <1>1 DEF DeskInv
<1> QED
  BY <1>1, <1>2, <1>3, <1>4, <1>5, <1>6, <1>7 DEF DeskInv, DeskTypes

LEMMA RestartKeeps ==
  ASSUME DeskInv, Restart
  PROVE  DeskInv'
<1>1. /\ config' = disk /\ disk' = disk /\ ~open' /\ typed' = {} /\ box' = box
      /\ ~resizing' /\ ~lost' /\ audio' = disk["volume"]
      /\ wish' = IF resizing \/ lost THEN [wish EXCEPT !["width"] = disk["width"]] ELSE wish
      /\ behind' = {} /\ undone' = undone
  BY DEF Restart
<1>2. \A f \in Fields \ undone : wish'[f] = disk[f]
  <2>1. CASE resizing \/ lost
    BY <1>1, <2>1 DEF DeskInv, DeskTypes, FileIsCurrent
  <2>2. CASE ~(resizing \/ lost)
    BY <1>1, <2>2 DEF DeskInv, DeskTypes, FileIsCurrent
  <2> QED
    BY <2>1, <2>2
<1>3. wish' = [f \in Fields |-> wish'[f]]
  BY <1>1 DEF DeskInv, DeskTypes
<1> QED
  BY <1>1, <1>2, <1>3 DEF DeskInv, DeskTypes, BoxesAreFresh, FileIsCurrent

LEMMA DeskSteps ==
  DeskInv /\ [DeskNext]_deskVars => DeskInv'
<1> SUFFICES ASSUME DeskInv, [DeskNext]_deskVars PROVE DeskInv'
  OBVIOUS
<1>1. CASE UNCHANGED deskVars
  BY <1>1, LookingKeeps DEF deskVars
<1>2. CASE OpenSettings
  <2>1. /\ box' = [f \in Widgets |-> config[f]] /\ typed' = {}
        /\ UNCHANGED <<config, disk, resizing, lost, wish, audio, behind, undone>>
    BY <1>2 DEF OpenSettings, boxGhosts
  <2> QED
    BY <2>1, FieldFacts DEF DeskInv, DeskTypes, BoxesAreFresh, FileIsCurrent
<1>3. ASSUME NEW f \in TextFields, NEW v, Type(f, v) PROVE DeskInv'
  <2>1. /\ open /\ box' = [box EXCEPT ![f] = v] /\ typed' = typed \cup {f}
        /\ UNCHANGED <<config, disk, open, resizing, lost, wish, audio, behind, undone>>
    BY <1>3 DEF Type, boxGhosts
  <2>2. f \in Widgets
    BY FieldFacts
  <2>3. /\ box' = [g \in Widgets |-> box'[g]]
        /\ \A g \in Widgets \ (typed' \cup behind) : box'[g] = box[g] /\ g \notin typed
    BY <2>1, <2>2 DEF DeskInv, DeskTypes
  <2> QED
    BY <2>1, <2>3 DEF DeskInv, DeskTypes, BoxesAreFresh, FileIsCurrent
<1>4. CASE CommitAppearance
  <2>1. /\ open /\ SaveAppearance(box, typed) /\ UNCHANGED <<open, audio>>
        /\ typed \subseteq TextFields /\ box = [f \in Widgets |-> box[f]]
    BY <1>4 DEF CommitAppearance, DeskInv, DeskTypes
  <2> QED
    BY <2>1, WritingBackKeeps
<1>5. CASE ResetPosition
  <2> DEFINE b == [box EXCEPT !["pos"] = Unset]
             said == typed \cup {"pos"}
  <2>1. open /\ SaveAppearance(b, said) /\ UNCHANGED <<open, audio>>
    BY <1>5 DEF ResetPosition
  <2>2. /\ said \subseteq TextFields /\ b = [f \in Widgets |-> b[f]]
        /\ \A f \in Widgets \ said : b[f] = box[f]
    BY FieldFacts DEF DeskInv, DeskTypes
  <2>3. typed \subseteq said
    OBVIOUS
  <2> HIDE DEF b, said
  <2> QED
    BY <2>1, <2>2, <2>3, WritingBackKeeps
<1>6. ASSUME NEW v, SetVolume(v) PROVE DeskInv'
  <2>1. /\ Save([config EXCEPT !["volume"] = v]) /\ wish' = [wish EXCEPT !["volume"] = v]
        /\ audio' = v /\ UNCHANGED <<open, box, typed, behind, undone>>
    BY <1>6 DEF SetVolume, boxGhosts
  <2>2. "volume" \in Fields /\ "volume" \notin Widgets
    BY FieldFacts
  <2>3. behind \subseteq {"width", "enabled"}
    BY DEF DeskInv, BoxesAreFresh
  <2> QED
    BY <2>1, <2>2, <2>3, SettingKeeps
<1>7. CASE ToggleFromTray
  <2>1. /\ Save([config EXCEPT !["enabled"] = 3 - config["enabled"]])
        /\ wish' = [wish EXCEPT !["enabled"] = 3 - config["enabled"]]
        /\ UNCHANGED <<open, box, typed, audio>>
        /\ behind' = IF open THEN behind \cup {"enabled"} ELSE behind
        /\ undone' = undone \ {"enabled"}
    BY <1>7 DEF ToggleFromTray, SetBeside
  <2>2. "enabled" \in Fields /\ "enabled" # "volume"
    BY FieldFacts
  <2>3. behind' \subseteq {"width", "enabled"} /\ behind \subseteq behind'
    BY <2>1 DEF DeskInv, BoxesAreFresh
  <2>4. open => "enabled" \in behind'
    BY <2>1
  <2> QED
    BY <2>1, <2>2, <2>3, <2>4, SettingKeeps
<1>8. ASSUME NEW v, DragTo(v) PROVE DeskInv'
  <2>1. /\ Save([config EXCEPT !["pos"] = v]) /\ wish' = [wish EXCEPT !["pos"] = v]
        /\ box' = IF open THEN [box EXCEPT !["pos"] = v] ELSE box
        /\ typed' = typed \ {"pos"} /\ UNCHANGED <<open, audio, behind, undone>>
    BY <1>8 DEF DragTo, Followed, boxGhosts
  <2>2. "pos" \in Fields /\ "pos" \in Widgets /\ "pos" # "volume"
    BY FieldFacts
  <2>3. behind \subseteq {"width", "enabled"}
    BY DEF DeskInv, BoxesAreFresh
  <2> QED
    BY <2>1, <2>2, <2>3, SettingKeeps
<1>9. CASE ShowAll \/ Shows \/ Hide \/ BeginWidthResize
  <2>1. /\ UNCHANGED <<config, disk, box, typed, open, lost, wish, audio, behind, undone>>
        /\ resizing' = resizing \/ resizing'
    BY <1>9 DEF ShowAll, Shows, Hide, BeginWidthResize, boxGhosts
  <2> QED
    BY <2>1 DEF DeskInv, DeskTypes, BoxesAreFresh, FileIsCurrent
<1>10. CASE CloseSettings
  <2>1. /\ ~open' /\ typed' = {} /\ behind' = {}
        /\ UNCHANGED <<config, disk, box, resizing, lost, wish, audio, undone>>
    BY <1>10 DEF CloseSettings
  <2> QED
    BY <2>1 DEF DeskInv, DeskTypes, BoxesAreFresh, FileIsCurrent
<1>11. CASE WidthResizeEnd
  <2>1. /\ resizing /\ ~resizing' /\ Save(config)
        /\ UNCHANGED <<open, box, typed, wish, audio, behind, undone>>
    BY <1>11 DEF WidthResizeEnd, boxGhosts
  <2> QED
    BY <2>1 DEF Save, DeskInv, DeskTypes, BoxesAreFresh, FileIsCurrent
<1>12. CASE WidthResizeLost
  <2>1. /\ resizing /\ ~resizing' /\ lost'
        /\ UNCHANGED <<config, disk, open, box, typed, wish, audio, behind, undone>>
    BY <1>12 DEF WidthResizeLost, boxGhosts
  <2> QED
    BY <2>1 DEF DeskInv, DeskTypes, BoxesAreFresh, FileIsCurrent
<1> QED
  BY <1>1, <1>2, <1>3, <1>4, <1>5, <1>6, <1>7, <1>8, <1>9, <1>10, <1>11, <1>12,
     FlipKeeps, ResizeKeeps, RestartKeeps DEF DeskNext

(* What the user last said about a setting is in effect, whatever was saved in
   between, over restarts and beside an open Settings window too, but for a
   width or a tray switch set while its boxes were open and then saved over
   (settings_window.rs:1068-1079 and 2078-2132, overlay_shell.rs:435-457). *)
THEOREM LastWordsWin ==
  DeskSpec => []LastWordWins
<1>1. DeskInv => LastWordWins
  BY DEF DeskInv, LastWordWins
<1> QED
  BY <1>1, DeskInitInv, DeskSteps, PTL DEF DeskSpec
-----------------------------------------------------------------------------
(* The trigger editor.  First, what its list operators do. *)

LEMMA InsertFacts ==
  ASSUME NEW S, NEW s \in Seq(S), NEW e \in S, NEW i \in 1..(Len(s) + 1)
  PROVE  /\ InsertAt(s, i, e) \in Seq(S) /\ Len(InsertAt(s, i, e)) = Len(s) + 1
         /\ InsertAt(s, i, e)[i] = e
<1> DEFINE a == SubSeq(s, 1, i - 1)
           b == SubSeq(s, i, Len(s))
           n == Len(s)
<1>1. n \in Nat /\ i \in Nat /\ 1 <= i /\ i <= n + 1 /\ \A k \in 1..n : s[k] \in S
  BY ElementOfSeq
<1>2. a \in Seq(S) /\ Len(a) = i - 1
  <2>1. \A k \in 1..(i - 1) : s[k] \in S
    BY <1>1
  <2>2. a \in Seq(S) /\ Len(a) = IF 1 <= i - 1 THEN i - 1 - 1 + 1 ELSE 0
    BY <1>1, <2>1, SubSeqProperties
  <2> HIDE DEF a
  <2> QED
    BY <1>1, <2>2
<1>3. b \in Seq(S) /\ Len(b) = n - i + 1
  <2>1. \A k \in i..n : s[k] \in S
    BY <1>1
  <2>2. b \in Seq(S) /\ Len(b) = IF i <= n THEN n - i + 1 ELSE 0
    BY <1>1, <2>1, SubSeqProperties
  <2> HIDE DEF b
  <2> QED
    BY <1>1, <2>2
<1> HIDE DEF a, b
<1>4. /\ a \o <<e>> \in Seq(S) /\ Len(a \o <<e>>) = i /\ (a \o <<e>>)[i] = e
  <2>1. <<e>> \in Seq(S) /\ Len(<<e>>) = 1 /\ <<e>>[1] = e
    OBVIOUS
  <2>2. /\ a \o <<e>> \in Seq(S) /\ Len(a \o <<e>>) = i - 1 + 1
        /\ \A k \in 1..(i - 1 + 1) :
             (a \o <<e>>)[k] = IF k <= i - 1 THEN a[k] ELSE <<e>>[k - (i - 1)]
    BY <1>2, <2>1, ConcatProperties
  <2>3. i - 1 + 1 = i /\ i \in 1..i /\ ~ (i <= i - 1) /\ i - (i - 1) = 1
    BY <1>1
  <2> QED
    BY <2>1, <2>2, <2>3
<1> DEFINE c == a \o <<e>>
<1> HIDE DEF c
<1>5. /\ c \o b \in Seq(S) /\ Len(c \o b) = i + (n - i + 1)
      /\ \A k \in 1..(i + (n - i + 1)) : (c \o b)[k] = IF k <= i THEN c[k] ELSE b[k - i]
  <2>1. c \in Seq(S) /\ Len(c) = i
    BY <1>4 DEF c
  <2>2. c \o b \in Seq(S)
    BY <1>3, <2>1, ConcatProperties
  <2>3. Len(c \o b) = Len(c) + Len(b)
    BY <1>3, <2>1, ConcatProperties
  <2>4. \A k \in 1..(Len(c) + Len(b)) :
          (c \o b)[k] = IF k <= Len(c) THEN c[k] ELSE b[k - Len(c)]
    BY <1>3, <2>1, ConcatProperties
  <2> HIDE DEF n
  <2> QED
    BY <1>3, <2>1, <2>2, <2>3, <2>4
<1>6. i + (n - i + 1) = n + 1 /\ i \in 1..(n + 1) /\ i <= i
  BY <1>1
<1>7. InsertAt(s, i, e) = c \o b
  BY DEF InsertAt, a, b, c
<1> HIDE DEF n
<1>8. c[i] = e
  BY <1>4 DEF c
<1> QED
  BY <1>5, <1>6, <1>7, <1>8 DEF n

LEMMA RemoveFacts ==
  ASSUME NEW S, NEW s \in Seq(S), NEW i \in 1..Len(s)
  PROVE  RemoveAt(s, i) \in Seq(S) /\ Len(RemoveAt(s, i)) = Len(s) - 1
<1> DEFINE a == SubSeq(s, 1, i - 1)
           b == SubSeq(s, i + 1, Len(s))
           n == Len(s)
<1>1. n \in Nat /\ i \in Nat /\ 1 <= i /\ i <= n /\ \A k \in 1..n : s[k] \in S
  BY ElementOfSeq
<1>2. a \in Seq(S) /\ Len(a) = i - 1
  <2>1. \A k \in 1..(i - 1) : s[k] \in S
    BY <1>1
  <2>2. a \in Seq(S) /\ Len(a) = IF 1 <= i - 1 THEN i - 1 - 1 + 1 ELSE 0
    BY <1>1, <2>1, SubSeqProperties
  <2> HIDE DEF a
  <2> QED
    BY <1>1, <2>2
<1>3. b \in Seq(S) /\ Len(b) = n - i
  <2>1. \A k \in (i + 1)..n : s[k] \in S
    BY <1>1
  <2>2. b \in Seq(S) /\ Len(b) = IF i + 1 <= n THEN n - (i + 1) + 1 ELSE 0
    BY <1>1, <2>1, SubSeqProperties
  <2> HIDE DEF b
  <2> QED
    BY <1>1, <2>2
<1> HIDE DEF a, b
<1>4. a \o b \in Seq(S) /\ Len(a \o b) = i - 1 + (n - i)
  <2>1. a \o b \in Seq(S)
    BY <1>2, <1>3, ConcatProperties
  <2>2. Len(a \o b) = Len(a) + Len(b)
    BY <1>2, <1>3, ConcatProperties
  <2> HIDE DEF n
  <2> QED
    BY <1>2, <1>3, <2>1, <2>2
<1>5. RemoveAt(s, i) = a \o b
  BY DEF RemoveAt, a, b
<1> QED
  BY <1>1, <1>4, <1>5

LEMMA SwapFacts ==
  ASSUME NEW S, NEW s \in Seq(S), NEW i \in 1..Len(s), NEW j \in 1..Len(s)
  PROVE  Swapped(s, i, j) \in Seq(S) /\ Len(Swapped(s, i, j)) = Len(s)
BY DEF Swapped

LEMMA PutFacts ==
  ASSUME NEW S, NEW s \in Seq(S), NEW v \in S, NEW i \in Nat
  PROVE  Put(s, i, v) \in Seq(S) /\ Len(Put(s, i, v)) \in {Len(s), Len(s) + 1}
<1>1. CASE i \in 1..Len(s)
  BY <1>1 DEF Put
<1>2. CASE i \notin 1..Len(s)
  BY <1>2, AppendProperties DEF Put
<1> QED
  BY <1>1, <1>2

(* A trigger and a list of them.  What an id is does not matter here, so the
   lists are not sequences over a set known in advance. *)
IsTrigger(t) ==
  /\ t = [id |-> t.id, head |-> t.head, lists |-> t.lists]
  /\ t.lists \in [Kinds -> Seq(Nat)]

IsList(s) ==
  /\ Len(s) \in Nat /\ s = [i \in 1..Len(s) |-> s[i]]
  /\ \A i \in 1..Len(s) : IsTrigger(s[i])

LEMMA ListOver ==
  ASSUME NEW s, IsList(s), NEW e, IsTrigger(e)
  PROVE  \E S : s \in Seq(S) /\ e \in S /\ \A x \in S : IsTrigger(x)
<1> DEFINE S == {s[i] : i \in 1..Len(s)} \cup {e}
<1>1. s \in [1..Len(s) -> S] /\ Len(s) \in Nat
  <2>1. s = [i \in 1..Len(s) |-> s[i]] /\ \A i \in 1..Len(s) : s[i] \in S
    BY DEF IsList
  <2> QED
    BY <2>1 DEF IsList
<1>2. s \in Seq(S)
  BY <1>1, IsASeq
<1>3. e \in S /\ \A x \in S : IsTrigger(x)
  BY DEF IsList
<1> QED
  BY <1>2, <1>3

LEMMA OverList ==
  ASSUME NEW S, NEW s \in Seq(S), \A x \in S : IsTrigger(x)
  PROVE  IsList(s)
<1>1. Len(s) \in Nat /\ s \in [1..Len(s) -> S]
  BY LenProperties
<1> QED
  BY <1>1 DEF IsList

(* What a list of triggers is after each change the editor makes to it. *)
LEMMA ListOps ==
  ASSUME NEW s, IsList(s), NEW e, IsTrigger(e)
  PROVE  /\ \A i \in 1..(Len(s) + 1) : /\ IsList(InsertAt(s, i, e))
                                       /\ Len(InsertAt(s, i, e)) = Len(s) + 1
                                       /\ InsertAt(s, i, e)[i] = e
         /\ \A i \in 1..Len(s) : IsList(RemoveAt(s, i))
         /\ \A i \in 1..Len(s), j \in 1..Len(s) :
              IsList(Swapped(s, i, j)) /\ Len(Swapped(s, i, j)) = Len(s)
         /\ \A i \in Nat : IsList(Put(s, i, e)) /\ Len(Put(s, i, e)) \in {Len(s), Len(s) + 1}
<1>1. PICK S : s \in Seq(S) /\ e \in S /\ \A x \in S : IsTrigger(x)
  BY ListOver
<1>2. \A i \in 1..(Len(s) + 1) : /\ IsList(InsertAt(s, i, e))
                                 /\ Len(InsertAt(s, i, e)) = Len(s) + 1
                                 /\ InsertAt(s, i, e)[i] = e
  <2> TAKE i \in 1..(Len(s) + 1)
  <2>1. /\ InsertAt(s, i, e) \in Seq(S) /\ Len(InsertAt(s, i, e)) = Len(s) + 1
        /\ InsertAt(s, i, e)[i] = e
    BY <1>1, InsertFacts
  <2> QED
    BY <1>1, <2>1, OverList
<1>3. \A i \in 1..Len(s) : IsList(RemoveAt(s, i))
  <2> TAKE i \in 1..Len(s)
  <2>1. RemoveAt(s, i) \in Seq(S)
    BY <1>1, RemoveFacts
  <2> QED
    BY <1>1, <2>1, OverList
<1>4. \A i \in 1..Len(s), j \in 1..Len(s) :
        IsList(Swapped(s, i, j)) /\ Len(Swapped(s, i, j)) = Len(s)
  <2> TAKE i \in 1..Len(s), j \in 1..Len(s)
  <2>1. Swapped(s, i, j) \in Seq(S) /\ Len(Swapped(s, i, j)) = Len(s)
    BY <1>1, SwapFacts
  <2> QED
    BY <1>1, <2>1, OverList
<1>5. \A i \in Nat : IsList(Put(s, i, e)) /\ Len(Put(s, i, e)) \in {Len(s), Len(s) + 1}
  <2> TAKE i \in Nat
  <2>1. Put(s, i, e) \in Seq(S) /\ Len(Put(s, i, e)) \in {Len(s), Len(s) + 1}
    BY <1>1, PutFacts
  <2> QED
    BY <1>1, <2>1, OverList
<1> QED
  BY <1>2, <1>3, <1>4, <1>5

(* The panels that may be open: none, one on a trigger, or one on an item of
   the trigger panel below it.  The indexes they remember are in range and still
   name what they named; so is what is picked in the trigger panel's lists. *)
TriggerPanel(t) ==
  /\ t = [kind |-> "trigger", index |-> t.index, was |-> t.was, lists |-> t.lists]
  /\ t.lists \in [Kinds -> Seq(Nat)]
  /\ t.index \in 0..Len(triggers)
  /\ t.index > 0 => triggers[t.index].id = t.was
  /\ \A k \in Kinds : picked[k] \in 0..Len(t.lists[k])

ItemPanel(it, t) ==
  /\ it = [kind |-> "item", list |-> it.list, index |-> it.index, was |-> it.was]
  /\ it.list \in Kinds
  /\ it.index \in 0..Len(t.lists[it.list])
  /\ it.index > 0 => t.lists[it.list][it.index] = it.was

OneOpen == \E t : TriggerPanel(t) /\ panels = <<t>>
TwoOpen == \E t, it : TriggerPanel(t) /\ ItemPanel(it, t) /\ panels = <<t, it>>
Stack == panels = <<>> \/ OneOpen \/ TwoOpen

Lists ==
  /\ IsList(toml) /\ IsList(triggers)
  /\ isOpen => triggers = toml
  /\ selected \in 0..Len(triggers)
  /\ picked = [k \in Kinds |-> picked[k]] /\ \A k \in Kinds : picked[k] \in Nat

EdInv ==
  /\ Lists /\ engine \in {None, toml}
  /\ panels # <<>> => isOpen
  /\ Stack

LEMMA NewIsTrigger == IsTrigger(New)
BY DEF IsTrigger, New

LEMMA NoneIsList == IsList(<<>>)
BY DEF IsList

LEMMA EdInitInv == EdInit => EdInv
<1> SUFFICES ASSUME EdInit PROVE EdInv
  OBVIOUS
<1> DEFINE a == [New EXCEPT !.id = 1]
           b == [New EXCEPT !.id = 2, !.lists = [k \in Kinds |-> <<1>>]]
<1>1. IsTrigger(a)
  BY DEF New, IsTrigger
<1>2. IsTrigger(b)
  <2>1. b = [id |-> 2, head |-> 1, lists |-> [k \in Kinds |-> <<1>>]]
    <3>1. New.id = 0 /\ New.head = 1 /\ DOMAIN New = {"id", "head", "lists"}
      BY DEF New
    <3>2. b.lists = [k \in Kinds |-> <<1>>] /\ b.id = 2 /\ b.head = 1
      BY <3>1
    <3>3. b = [f \in {"id", "head", "lists"} |-> b[f]]
      BY <3>1
    <3> HIDE DEF b
    <3> QED
      BY <3>2, <3>3
  <2>2. <<1>> \in Seq(Nat)
    OBVIOUS
  <2> HIDE DEF b
  <2>3. b.lists \in [Kinds -> Seq(Nat)]
    BY <2>1, <2>2
  <2> QED
    BY <2>1, <2>3 DEF IsTrigger
<1>3. toml = <<a, b>>
  BY DEF EdInit
<1> HIDE DEF a, b
<1>4. IsList(toml)
  <2>1. toml \in Seq({a, b}) /\ \A x \in {a, b} : IsTrigger(x)
    BY <1>1, <1>2, <1>3
  <2> QED
    BY <2>1, OverList
<1> QED
  BY <1>4, NoneIsList DEF EdInit, EdInv, Lists, Stack

(* Reading a stack of one panel, or of two. *)
LEMMA OneFacts ==
  ASSUME NEW t, panels = <<t>>
  PROVE  /\ Len(panels) = 1 /\ Top = t /\ Below = <<>> /\ panels # <<>>
         /\ \A x : Append(panels, x) = <<t, x>> /\ WithTop(x) = <<x>>
<1>1. Len(panels) = 1 /\ Top = t /\ panels # <<>>
  BY DEF Top
<1>2. Below = <<>>
  BY <1>1 DEF Below
<1>3. \A x : Append(panels, x) = <<t, x>>
  <2> TAKE x
  <2>1. panels \in Seq({t, x}) /\ x \in {t, x}
    OBVIOUS
  <2> DEFINE p == Append(panels, x)
  <2>2. p \in Seq({t, x}) /\ Len(p) = 2 /\ p[1] = t /\ p[2] = x
    BY <1>1, <2>1, AppendProperties
  <2> HIDE DEF p
  <2>3. p = <<t, x>>
    BY <2>2
  <2> QED
    BY <2>3 DEF p
<1>4. \A x : WithTop(x) = <<x>>
  BY <1>1 DEF WithTop
<1> QED
  BY <1>1, <1>2, <1>3, <1>4

LEMMA TwoFacts ==
  ASSUME NEW t, NEW it, panels = <<t, it>>
  PROVE  /\ Len(panels) = 2 /\ Top = it /\ Below = <<t>> /\ panels # <<>>
         /\ Len(Below) = 1 /\ Below[1] = t /\ SubSeq(panels, 1, 1) = <<t>>
         /\ \A x : [Below EXCEPT ![Len(Below)] = x] = <<x>>
<1>1. Len(panels) = 2 /\ Top = it /\ panels # <<>>
  BY DEF Top
<1>2. SubSeq(panels, 1, 1) = <<t>>
  <2>1. panels \in Seq({t, it}) /\ \A j \in 1..1 : panels[j] \in {t, it}
    OBVIOUS
  <2> DEFINE p == SubSeq(panels, 1, 1)
  <2>2. p \in Seq({t, it}) /\ Len(p) = 1 /\ p[1] = t
    BY <1>1, <2>1, SubSeqProperties
  <2> HIDE DEF p
  <2>3. p = <<t>>
    BY <2>2
  <2> QED
    BY <2>3 DEF p
<1>3. Below = <<t>>
  BY <1>1, <1>2 DEF Below
<1> QED
  BY <1>1, <1>2, <1>3

(* Copies of a trigger that keep its shape. *)
LEMMA CopyIsTrigger ==
  ASSUME NEW t, IsTrigger(t), NEW v
  PROVE  /\ IsTrigger([t EXCEPT !.id = v]) /\ [t EXCEPT !.id = v].id = v
         /\ [t EXCEPT !.id = v].lists = t.lists
         /\ IsTrigger([t EXCEPT !.head = v])
<1> DEFINE a == [t EXCEPT !.id = v]
           b == [t EXCEPT !.head = v]
<1>1. DOMAIN t = {"id", "head", "lists"} /\ t.lists \in [Kinds -> Seq(Nat)]
  BY DEF IsTrigger
<1>2. a.id = v /\ a.lists = t.lists /\ a = [f \in {"id", "head", "lists"} |-> a[f]]
  BY <1>1
<1>3. b.id = t.id /\ b.lists = t.lists /\ b = [f \in {"id", "head", "lists"} |-> b[f]]
  BY <1>1
<1> HIDE DEF a, b
<1>4. IsTrigger(a) /\ IsTrigger(b)
  BY <1>1, <1>2, <1>3 DEF IsTrigger
<1> QED
  BY <1>2, <1>4 DEF a, b

LEMMA PersistFacts ==
  ASSUME NEW s, IsList(s), Persist(s), EdInv
  PROVE  IsList(toml') /\ IsList(triggers') /\ triggers' = toml' /\ engine' \in {None, toml'}
BY DEF Persist, EdInv

LEMMA WindowKeeps ==
  ASSUME EdInv, OpenEditor \/ CloseEditor \/ EngineStarts \/ UNCHANGED edVars
  PROVE  EdInv'
<1>1. CASE OpenEditor
  <2>1. Lists'
    BY <1>1 DEF OpenEditor, EdInv, Lists, IsList
  <2>2. panels' = <<>> /\ toml' = toml /\ engine' = engine
    BY <1>1 DEF OpenEditor
  <2> QED
    BY <2>1, <2>2 DEF EdInv, Stack
<1>2. CASE CloseEditor
  <2>1. triggers' = <<>> /\ isOpen' = FALSE /\ panels' = <<>> /\ selected' = 0
        /\ picked' = [k \in Kinds |-> 0] /\ toml' = toml /\ engine' = engine
    BY <1>2 DEF CloseEditor
  <2>2. Lists'
    BY <2>1, NoneIsList DEF EdInv, Lists
  <2> QED
    BY <2>1, <2>2 DEF EdInv, Stack
<1>3. CASE EngineStarts
  BY <1>3 DEF EngineStarts, EdInv, Lists, Stack, OneOpen, TwoOpen, TriggerPanel, ItemPanel
<1>4. CASE UNCHANGED edVars
  BY <1>4 DEF edVars, EdInv, Lists, Stack, OneOpen, TwoOpen, TriggerPanel, ItemPanel
<1> QED
  BY <1>1, <1>2, <1>3, <1>4

(* The list's own handlers: they run with no panel open. *)
LEMMA ListKeeps ==
  ASSUME EdInv, \/ \E i \in 1..MaxTriggers : ChooseTrigger(i)
                \/ DeleteTrigger \/ MoveTriggerUp \/ MoveTriggerDown \/ ToggleTrigger
  PROVE  EdInv'
<1>1. /\ IsList(triggers) /\ Len(triggers) \in Nat /\ selected \in 0..Len(triggers)
      /\ IsTrigger(New)
  BY NewIsTrigger DEF EdInv, Lists, IsList
<1>2. CASE \E i \in 1..MaxTriggers : ChooseTrigger(i)
  <2>1. /\ selected' \in 1..Len(triggers) /\ panels' = panels /\ panels = <<>>
        /\ UNCHANGED <<isOpen, triggers, toml, engine, picked>>
    BY <1>2 DEF ChooseTrigger, AtList
  <2> QED
    BY <1>1, <2>1 DEF EdInv, Lists, Stack
<1>3. ASSUME NEW s, IsList(s), Persist(s), selected' \in 0..Len(s), AtList,
             UNCHANGED <<isOpen, panels, picked>>
      PROVE  EdInv'
  <2>1. triggers' = s /\ panels' = <<>>
    BY <1>3 DEF Persist, AtList
  <2>2. IsList(toml') /\ IsList(triggers') /\ triggers' = toml' /\ engine' \in {None, toml'}
    BY <1>3, PersistFacts
  <2> QED
    BY <1>3, <2>1, <2>2 DEF EdInv, Lists, Stack
<1>4. CASE DeleteTrigger
  <2>1. IsList(RemoveAt(triggers, selected))
    BY <1>1, <1>4, ListOps DEF DeleteTrigger
  <2>2. Len(RemoveAt(triggers, selected)) \in Nat
    BY <2>1 DEF IsList
  <2> QED
    BY <1>3, <1>4, <2>1, <2>2 DEF DeleteTrigger
<1>5. CASE MoveTriggerUp
  <2>1. selected \in 1..Len(triggers) /\ selected - 1 \in 1..Len(triggers)
    BY <1>1, <1>5 DEF MoveTriggerUp
  <2>2. /\ IsList(Swapped(triggers, selected, selected - 1))
        /\ Len(Swapped(triggers, selected, selected - 1)) = Len(triggers)
    BY <1>1, <2>1, ListOps
  <2> QED
    BY <1>3, <1>5, <2>1, <2>2 DEF MoveTriggerUp
<1>6. CASE MoveTriggerDown
  <2>1. selected \in 1..Len(triggers) /\ selected + 1 \in 1..Len(triggers)
    BY <1>1, <1>6 DEF MoveTriggerDown
  <2>2. /\ IsList(Swapped(triggers, selected, selected + 1))
        /\ Len(Swapped(triggers, selected, selected + 1)) = Len(triggers)
    BY <1>1, <2>1, ListOps
  <2> QED
    BY <1>3, <1>6, <2>1, <2>2 DEF MoveTriggerDown
<1>7. CASE ToggleTrigger
  <2> DEFINE e == [triggers[selected] EXCEPT !.head = 3 - triggers[selected].head]
             s == [triggers EXCEPT ![selected].head = 3 - @]
  <2>1. selected \in 1..Len(triggers)
    BY <1>1, <1>7 DEF ToggleTrigger
  <2>2. IsTrigger(e)
    BY <1>1, <2>1, CopyIsTrigger DEF IsList
  <2>3. s = Put(triggers, selected, e)
    BY <2>1 DEF Put
  <2>4. Persist(s) /\ AtList /\ UNCHANGED <<isOpen, panels, selected, picked>>
    BY <1>7 DEF ToggleTrigger
  <2> HIDE DEF e, s
  <2>5. IsList(s) /\ Len(s) \in {Len(triggers), Len(triggers) + 1}
    BY <1>1, <2>1, <2>2, <2>3, ListOps
  <2> QED
    BY <1>1, <1>3, <2>4, <2>5
<1> QED
  BY <1>2, <1>4, <1>5, <1>6, <1>7

(* Opening a trigger's panel: the stack becomes that one panel. *)
LEMMA PushKeeps ==
  ASSUME EdInv, AddTrigger \/ EditTrigger \/ CloneTrigger
  PROVE  EdInv'
<1>1. /\ IsList(triggers) /\ Len(triggers) \in Nat /\ selected \in 0..Len(triggers)
      /\ isOpen /\ panels = <<>>
  BY DEF EdInv, Lists, IsList, AddTrigger, EditTrigger, CloneTrigger, AtList
<1>2. ASSUME NEW i \in Nat, NEW t, IsTrigger(t), PushTriggerPanel(i, t),
             i <= Len(triggers'), i > 0 => triggers'[i].id = t.id, Len(triggers') \in Nat
      PROVE  OneOpen' /\ \A k \in Kinds : picked'[k] = 0
  <2> DEFINE p == [kind |-> "trigger", index |-> i, was |-> t.id, lists |-> t.lists]
  <2>1. panels' = <<p>> /\ picked' = [k \in Kinds |-> 0]
    BY <1>1, <1>2 DEF PushTriggerPanel
  <2>2. p.lists \in [Kinds -> Seq(Nat)] /\ p.index = i /\ p.was = t.id
        /\ p = [kind |-> "trigger", index |-> p.index, was |-> p.was, lists |-> p.lists]
    BY <1>2 DEF IsTrigger
  <2> HIDE DEF p
  <2>3. \A k \in Kinds : picked'[k] = 0 /\ Len(p.lists[k]) \in Nat
    BY <2>1, <2>2
  <2>4. TriggerPanel(p)'
    BY <1>2, <2>2, <2>3 DEF TriggerPanel
  <2> QED
    BY <2>1, <2>3, <2>4 DEF OneOpen
<1>3. CASE AddTrigger
  <2>1. OneOpen' /\ picked' = [k \in Kinds |-> 0]
    <3>1. PushTriggerPanel(0, New) /\ triggers' = triggers
      BY <1>3 DEF AddTrigger
    <3> QED
      BY <1>1, <1>2, <3>1, NewIsTrigger DEF PushTriggerPanel
  <2>2. UNCHANGED <<isOpen, triggers, toml, engine, selected>>
    BY <1>3 DEF AddTrigger
  <2> QED
    BY <1>1, <2>1, <2>2 DEF EdInv, Lists, Stack
<1>4. CASE EditTrigger
  <2>1. OneOpen' /\ picked' = [k \in Kinds |-> 0]
    <3>1. PushTriggerPanel(selected, triggers[selected]) /\ triggers' = triggers
          /\ selected \in 1..Len(triggers)
      BY <1>1, <1>4 DEF EditTrigger
    <3>2. IsTrigger(triggers[selected])
      BY <1>1, <3>1 DEF IsList
    <3> QED
      BY <1>1, <1>2, <3>1, <3>2 DEF PushTriggerPanel
  <2>2. UNCHANGED <<isOpen, triggers, toml, engine, selected>>
    BY <1>4 DEF EditTrigger
  <2> QED
    BY <1>1, <2>1, <2>2 DEF EdInv, Lists, Stack
<1>5. CASE CloneTrigger
  <2> DEFINE copy == [triggers[selected] EXCEPT !.id = FreshId]
             s == InsertAt(triggers, selected + 1, copy)
  <2>1. /\ Persist(s) /\ PushTriggerPanel(selected + 1, copy) /\ selected \in 1..Len(triggers)
        /\ selected' = selected + 1 /\ isOpen' = isOpen
    BY <1>1, <1>5 DEF CloneTrigger
  <2>2. IsTrigger(copy)
    BY <1>1, <2>1, CopyIsTrigger DEF IsList
  <2> HIDE DEF copy
  <2>3. IsList(s) /\ Len(s) = Len(triggers) + 1 /\ s[selected + 1] = copy
    BY <1>1, <2>1, <2>2, ListOps
  <2> HIDE DEF s
  <2>4. /\ IsList(toml') /\ IsList(triggers') /\ triggers' = toml' /\ triggers' = s
        /\ engine' \in {None, toml'}
    BY <2>1, <2>3, PersistFacts DEF Persist
  <2>5. OneOpen' /\ picked' = [k \in Kinds |-> 0]
    BY <1>1, <1>2, <2>1, <2>2, <2>3, <2>4 DEF PushTriggerPanel
  <2> QED
    BY <1>1, <2>1, <2>3, <2>4, <2>5 DEF EdInv, Lists, Stack
<1> QED
  BY <1>3, <1>4, <1>5

LEMMA TriggerOnTop ==
  ASSUME EdInv, OnTop("trigger")
  PROVE  \E t : TriggerPanel(t) /\ panels = <<t>>
<1>1. panels # <<>> /\ Top.kind = "trigger"
  BY DEF OnTop
<1>2. CASE OneOpen
  BY <1>2 DEF OneOpen
<1>3. CASE TwoOpen
  <2>1. PICK t, it : ItemPanel(it, t) /\ panels = <<t, it>>
    BY <1>3 DEF TwoOpen
  <2>2. it.kind = "item" /\ Top = it
    BY <2>1, TwoFacts DEF ItemPanel
  <2> QED
    BY <1>1, <2>2
<1> QED
  BY <1>1, <1>2, <1>3 DEF EdInv, Stack

LEMMA ItemOnTop ==
  ASSUME EdInv, OnTop("item")
  PROVE  \E t, it : TriggerPanel(t) /\ ItemPanel(it, t) /\ panels = <<t, it>>
<1>1. panels # <<>> /\ Top.kind = "item"
  BY DEF OnTop
<1>2. CASE OneOpen
  <2>1. PICK t : TriggerPanel(t) /\ panels = <<t>>
    BY <1>2 DEF OneOpen
  <2>2. t.kind = "trigger" /\ Top = t
    BY <2>1, OneFacts DEF TriggerPanel
  <2> QED
    BY <1>1, <2>2
<1>3. CASE TwoOpen
  BY <1>3 DEF TwoOpen
<1> QED
  BY <1>1, <1>2, <1>3 DEF EdInv, Stack

(* A handler of the panels leaves the rest of the editor alone. *)
LEMMA InPanelsFacts ==
  ASSUME EdInv, InPanels, panels' # <<>> => panels # <<>>, Stack',
         picked' = [k \in Kinds |-> picked'[k]], \A k \in Kinds : picked'[k] \in Nat
  PROVE  EdInv'
BY DEF InPanels, EdInv, Lists

(* A panel's trigger with one of its lists changed. *)
LEMMA WithList ==
  ASSUME EdInv, NEW t, TriggerPanel(t), NEW k \in Kinds, NEW s \in Seq(Nat),
         NEW p, p = [t EXCEPT !.lists[k] = s]
  PROVE  /\ p = [kind |-> "trigger", index |-> p.index, was |-> p.was, lists |-> p.lists]
         /\ p.index = t.index /\ p.was = t.was
         /\ p.lists = [t.lists EXCEPT ![k] = s] /\ p.lists \in [Kinds -> Seq(Nat)]
<1>1. /\ DOMAIN t = {"kind", "index", "was", "lists"} /\ t.kind = "trigger"
      /\ t.lists \in [Kinds -> Seq(Nat)]
  BY DEF TriggerPanel
<1>2. /\ p.lists = [t.lists EXCEPT ![k] = s] /\ p.kind = "trigger" /\ p.index = t.index
      /\ p.was = t.was /\ DOMAIN p = {"kind", "index", "was", "lists"}
      /\ p = [f \in {"kind", "index", "was", "lists"} |-> p[f]]
  BY <1>1
<1>3. p.lists \in [Kinds -> Seq(Nat)]
  BY <1>1, <1>2
<1>4. p = [kind |-> "trigger", index |-> p.index, was |-> p.was, lists |-> p.lists]
  BY <1>2
<1> QED
  BY <1>2, <1>3, <1>4

LEMMA PickKeeps ==
  ASSUME EdInv, NEW k \in Kinds,
         (\E i \in 1..MaxItems : PickItem(k, i)) \/ AddItem(k) \/ EditItem(k)
  PROVE  EdInv'
<1>1. InPanels /\ OnTop("trigger")
  BY DEF PickItem, AddItem, EditItem
<1>2. PICK t : TriggerPanel(t) /\ panels = <<t>>
  BY <1>1, TriggerOnTop
<1>3. /\ Top = t /\ panels # <<>> /\ \A x : Append(panels, x) = <<t, x>>
  BY <1>2, OneFacts
<1>4. /\ picked = [j \in Kinds |-> picked[j]] /\ t.lists \in [Kinds -> Seq(Nat)]
      /\ \A j \in Kinds : picked[j] \in Nat /\ picked[j] \in 0..Len(t.lists[j])
  BY <1>2 DEF EdInv, Lists, TriggerPanel
<1>5. ASSUME picked' = picked, NEW i \in 0..Len(t.lists[k]), NEW v,
             i > 0 => t.lists[k][i] = v, PushItemPanel(k, i, v)
      PROVE  EdInv'
  <2> DEFINE it == [kind |-> "item", list |-> k, index |-> i, was |-> v]
  <2>1. panels' = <<t, it>>
    BY <1>3, <1>5 DEF PushItemPanel
  <2>2. it.list = k /\ it.index = i /\ it.was = v
        /\ it = [kind |-> "item", list |-> it.list, index |-> it.index, was |-> it.was]
    OBVIOUS
  <2> HIDE DEF it
  <2>3. ItemPanel(it, t)'
    BY <1>5, <2>2 DEF ItemPanel
  <2>4. TriggerPanel(t)'
    BY <1>1, <1>2, <1>5 DEF TriggerPanel, InPanels
  <2>5. Stack'
    BY <2>1, <2>3, <2>4 DEF Stack, TwoOpen
  <2> QED
    BY <1>1, <1>3, <1>4, <1>5, <2>5, InPanelsFacts
<1>6. CASE \E i \in 1..MaxItems : PickItem(k, i)
  <2>1. PICK i \in 1..Len(t.lists[k]) : picked' = [picked EXCEPT ![k] = i] /\ panels' = panels
    BY <1>3, <1>6 DEF PickItem
  <2>2. /\ picked' = [j \in Kinds |-> picked'[j]]
        /\ \A j \in Kinds : picked'[j] \in Nat /\ picked'[j] \in 0..Len(t.lists[j])
    BY <1>4, <2>1
  <2>3. TriggerPanel(t)'
    BY <1>1, <1>2, <2>2 DEF TriggerPanel, InPanels
  <2>4. Stack'
    BY <1>2, <2>1, <2>3 DEF Stack, OneOpen
  <2> QED
    BY <1>1, <1>3, <2>2, <2>4, InPanelsFacts
<1>7. CASE AddItem(k)
  <2>1. 0 \in 0..Len(t.lists[k])
    BY <1>4
  <2> QED
    BY <1>5, <1>7, <2>1 DEF AddItem
<1>8. CASE EditItem(k)
  <2>1. PushItemPanel(k, picked[k], t.lists[k][picked[k]]) /\ picked' = picked
    BY <1>3, <1>4, <1>8 DEF EditItem
  <2> QED
    BY <1>4, <1>5, <2>1
<1> QED
  BY <1>6, <1>7, <1>8

LEMMA ItemsKeep ==
  ASSUME EdInv, NEW k \in Kinds, DeleteItem(k) \/ MoveItemUp(k) \/ MoveItemDown(k)
  PROVE  EdInv'
<1>1. InPanels /\ OnTop("trigger")
  BY DEF DeleteItem, MoveItemUp, MoveItemDown
<1>2. PICK t : TriggerPanel(t) /\ panels = <<t>>
  BY <1>1, TriggerOnTop
<1>3. Top = t /\ panels # <<>> /\ \A x : WithTop(x) = <<x>>
  BY <1>2, OneFacts
<1>4. /\ picked = [j \in Kinds |-> picked[j]] /\ t.lists \in [Kinds -> Seq(Nat)]
      /\ \A j \in Kinds : picked[j] \in Nat /\ picked[j] \in 0..Len(t.lists[j])
      /\ t.lists[k] \in Seq(Nat) /\ Len(t.lists[k]) \in Nat
  BY <1>2 DEF EdInv, Lists, TriggerPanel
<1>5. ASSUME NEW s \in Seq(Nat), NEW i \in 0..Len(s), picked' = [picked EXCEPT ![k] = i],
             panels' = <<[t EXCEPT !.lists[k] = s]>>
      PROVE  EdInv'
  <2> DEFINE p == [t EXCEPT !.lists[k] = s]
  <2>1. panels' = <<p>>
    BY <1>5
  <2>2. /\ p = [kind |-> "trigger", index |-> p.index, was |-> p.was, lists |-> p.lists]
        /\ p.index = t.index /\ p.was = t.was
        /\ p.lists = [t.lists EXCEPT ![k] = s] /\ p.lists \in [Kinds -> Seq(Nat)]
    BY <1>2, <1>5, WithList
  <2> HIDE DEF p
  <2>3. Len(s) \in Nat /\ i \in Nat
    BY <1>5
  <2>4. /\ picked' = [j \in Kinds |-> picked'[j]]
        /\ \A j \in Kinds : picked'[j] \in Nat /\ picked'[j] \in 0..Len(p.lists[j])
    BY <1>4, <1>5, <2>2, <2>3
  <2>5. TriggerPanel(p)'
    BY <1>1, <1>2, <2>2, <2>4 DEF TriggerPanel, InPanels
  <2>6. Stack'
    BY <2>1, <2>5 DEF Stack, OneOpen
  <2> QED
    BY <1>1, <1>3, <2>4, <2>6, InPanelsFacts
<1>6. CASE DeleteItem(k)
  <2> DEFINE s == RemoveAt(t.lists[k], picked[k])
  <2>1. /\ picked[k] \in 1..Len(t.lists[k]) /\ picked' = [picked EXCEPT ![k] = 0]
        /\ panels' = <<[t EXCEPT !.lists[k] = s]>>
    BY <1>3, <1>6 DEF DeleteItem
  <2>2. s \in Seq(Nat)
    BY <1>4, <2>1, RemoveFacts
  <2> HIDE DEF s
  <2>3. 0 \in 0..Len(s)
    BY <2>2
  <2> QED
    BY <1>5, <2>1, <2>2, <2>3
<1>7. CASE MoveItemUp(k)
  <2> DEFINE s == Swapped(t.lists[k], picked[k], picked[k] - 1)
  <2>1. /\ picked[k] \in 1..Len(t.lists[k]) /\ picked[k] - 1 \in 1..Len(t.lists[k])
        /\ picked' = [picked EXCEPT ![k] = picked[k] - 1]
        /\ panels' = <<[t EXCEPT !.lists[k] = s]>>
    BY <1>3, <1>4, <1>7 DEF MoveItemUp
  <2>2. s \in Seq(Nat) /\ Len(s) = Len(t.lists[k])
    BY <1>4, <2>1, SwapFacts
  <2> HIDE DEF s
  <2>3. picked[k] - 1 \in 0..Len(s)
    BY <1>4, <2>1, <2>2
  <2> QED
    BY <1>5, <2>1, <2>2, <2>3
<1>8. CASE MoveItemDown(k)
  <2> DEFINE s == Swapped(t.lists[k], picked[k], picked[k] + 1)
  <2>1. /\ picked[k] \in 1..Len(t.lists[k]) /\ picked[k] + 1 \in 1..Len(t.lists[k])
        /\ picked' = [picked EXCEPT ![k] = picked[k] + 1]
        /\ panels' = <<[t EXCEPT !.lists[k] = s]>>
    BY <1>3, <1>4, <1>8 DEF MoveItemDown
  <2>2. s \in Seq(Nat) /\ Len(s) = Len(t.lists[k])
    BY <1>4, <2>1, SwapFacts
  <2> HIDE DEF s
  <2>3. picked[k] + 1 \in 0..Len(s)
    BY <1>4, <2>1, <2>2
  <2> QED
    BY <1>5, <2>1, <2>2, <2>3
<1> QED
  BY <1>6, <1>7, <1>8

LEMMA ItemOkKeeps ==
  ASSUME EdInv, NEW v \in Says, ItemOk(v)
  PROVE  EdInv'
<1>1. InPanels /\ OnTop("item") /\ picked' = picked
  BY DEF ItemOk
<1>2. PICK t, it : TriggerPanel(t) /\ ItemPanel(it, t) /\ panels = <<t, it>>
  BY <1>1, ItemOnTop
<1>3. /\ Top = it /\ panels # <<>> /\ Below[Len(Below)] = t
      /\ \A x : [Below EXCEPT ![Len(Below)] = x] = <<x>>
  BY <1>2, TwoFacts
<1> DEFINE k == it.list
           s == Put(t.lists[k], it.index, v)
           p == [t EXCEPT !.lists[k] = s]
<1>4. panels' = <<p>>
  BY <1>3 DEF ItemOk
<1>5. /\ k \in Kinds /\ it.index \in Nat /\ t.lists \in [Kinds -> Seq(Nat)]
      /\ t.lists[k] \in Seq(Nat) /\ v \in Nat /\ Len(t.lists[k]) \in Nat
  BY <1>2 DEF ItemPanel, TriggerPanel, Says
<1> HIDE DEF k
<1>6. s \in Seq(Nat) /\ Len(s) \in {Len(t.lists[k]), Len(t.lists[k]) + 1}
  BY <1>5, PutFacts
<1> HIDE DEF s
<1>7. /\ p = [kind |-> "trigger", index |-> p.index, was |-> p.was, lists |-> p.lists]
      /\ p.index = t.index /\ p.was = t.was
      /\ p.lists = [t.lists EXCEPT ![k] = s] /\ p.lists \in [Kinds -> Seq(Nat)]
  BY <1>2, <1>5, <1>6, WithList
<1> HIDE DEF p
<1>8. \A j \in Kinds : picked'[j] \in Nat /\ picked'[j] \in 0..Len(p.lists[j])
  <2> SUFFICES ASSUME NEW j \in Kinds
               PROVE  picked'[j] \in Nat /\ picked'[j] \in 0..Len(p.lists[j])
    OBVIOUS
  <2>1. picked[j] \in 0..Len(t.lists[j]) /\ Len(t.lists[j]) \in Nat
    BY <1>2, <1>5 DEF TriggerPanel
  <2>2. Len(p.lists[j]) \in {Len(t.lists[j]), Len(t.lists[j]) + 1}
    BY <1>5, <1>6, <1>7
  <2> QED
    BY <1>1, <2>1, <2>2
<1>9. TriggerPanel(p)'
  BY <1>1, <1>2, <1>7, <1>8 DEF TriggerPanel, InPanels
<1>10. Stack'
  BY <1>4, <1>9 DEF Stack, OneOpen
<1>11. picked' = [j \in Kinds |-> picked'[j]]
  BY <1>1 DEF EdInv, Lists
<1> QED
  BY <1>1, <1>3, <1>8, <1>10, <1>11, InPanelsFacts

LEMMA TriggerOkKeeps ==
  ASSUME EdInv, NEW h \in Heads, TriggerOk(h)
  PROVE  EdInv'
<1>1. PICK t : TriggerPanel(t) /\ panels = <<t>>
  BY TriggerOnTop DEF TriggerOk
<1>2. Top = t /\ Below = <<>> /\ panels # <<>>
  BY <1>1, OneFacts
<1> DEFINE e == [id |-> IF t.index = 0 THEN FreshId ELSE t.was, head |-> h, lists |-> t.lists]
           s == Put(triggers, t.index, e)
<1>3. Persist(s) /\ panels' = <<>> /\ UNCHANGED <<isOpen, selected, picked>>
  BY <1>2 DEF TriggerOk
<1>4. /\ IsList(triggers) /\ Len(triggers) \in Nat /\ selected \in 0..Len(triggers)
      /\ t.index \in Nat /\ t.lists \in [Kinds -> Seq(Nat)]
  BY <1>1 DEF EdInv, Lists, IsList, TriggerPanel
<1>5. IsTrigger(e)
  BY <1>4 DEF IsTrigger
<1> HIDE DEF e
<1>6. IsList(s) /\ Len(s) \in {Len(triggers), Len(triggers) + 1}
  BY <1>4, <1>5, ListOps
<1> HIDE DEF s
<1>7. /\ IsList(toml') /\ IsList(triggers') /\ triggers' = toml' /\ triggers' = s
      /\ engine' \in {None, toml'}
  BY <1>3, <1>6, PersistFacts DEF Persist
<1>8. selected' \in 0..Len(triggers')
  BY <1>3, <1>4, <1>6, <1>7
<1> QED
  BY <1>3, <1>7, <1>8 DEF EdInv, Lists, Stack

LEMMA DropKeeps ==
  ASSUME EdInv, JumpToPanel(1) \/ PopPanel \/ CloseAll
  PROVE  EdInv'
<1>1. InPanels /\ picked' = picked /\ panels # <<>>
  BY DEF JumpToPanel, PopPanel, CloseAll
<1>2. picked' = [k \in Kinds |-> picked'[k]] /\ \A k \in Kinds : picked'[k] \in Nat
  BY <1>1 DEF EdInv, Lists
<1>3. ASSUME NEW t, TriggerPanel(t)
      PROVE  TriggerPanel(t)'
  BY <1>1, <1>3 DEF TriggerPanel, InPanels
<1>4. Stack'
  <2>1. CASE panels' = <<>>
    BY <2>1 DEF Stack
  <2>2. CASE OneOpen
    <3>1. PICK t : panels = <<t>>
      BY <2>2 DEF OneOpen
    <3>2. Len(panels) = 1 /\ Below = <<>>
      BY <3>1, OneFacts
    <3>3. panels' = <<>>
      BY <3>2 DEF JumpToPanel, PopPanel, CloseAll
    <3> QED
      BY <2>1, <3>3
  <2>3. CASE TwoOpen /\ panels' # <<>>
    <3>1. PICK t, it : TriggerPanel(t) /\ panels = <<t, it>>
      BY <2>3 DEF TwoOpen
    <3>2. Below = <<t>> /\ SubSeq(panels, 1, 1) = <<t>>
      BY <3>1, TwoFacts
    <3>3. panels' = <<t>>
      BY <2>3, <3>2 DEF JumpToPanel, PopPanel, CloseAll
    <3> QED
      BY <1>3, <3>1, <3>3 DEF Stack, OneOpen
  <2> QED
    BY <1>1, <2>1, <2>2, <2>3 DEF EdInv, Stack
<1> QED
  BY <1>1, <1>2, <1>4, InPanelsFacts

LEMMA EditorSteps == EdInv /\ [EdNext]_edVars => EdInv'
<1> SUFFICES ASSUME EdInv, [EdNext]_edVars PROVE EdInv'
  OBVIOUS
<1>1. CASE OpenEditor \/ CloseEditor \/ EngineStarts \/ UNCHANGED edVars
  BY <1>1, WindowKeeps
<1>2. CASE \/ \E i \in 1..MaxTriggers : ChooseTrigger(i)
           \/ DeleteTrigger \/ MoveTriggerUp \/ MoveTriggerDown \/ ToggleTrigger
  BY <1>2, ListKeeps
<1>3. CASE AddTrigger \/ EditTrigger \/ CloneTrigger
  BY <1>3, PushKeeps
<1>4. CASE \E k \in Kinds : \/ \E i \in 1..MaxItems : PickItem(k, i)
                            \/ AddItem(k) \/ EditItem(k) \/ DeleteItem(k)
                            \/ MoveItemUp(k) \/ MoveItemDown(k)
  BY <1>4, PickKeeps, ItemsKeep
<1>5. CASE \E v \in Says : ItemOk(v)
  BY <1>5, ItemOkKeeps
<1>6. CASE \E h \in Heads : TriggerOk(h)
  BY <1>6, TriggerOkKeeps
<1>7. CASE JumpToPanel(1) \/ PopPanel \/ CloseAll
  BY <1>7, DropKeeps
<1> QED
  BY <1>1, <1>2, <1>3, <1>4, <1>5, <1>6, <1>7 DEF EdNext

(* Whichever handler changed the list of triggers, what an open Settings window
   shows of it is what triggers.toml holds, and a running engine runs that
   (settings_window.rs:698-717). *)
THEOREM EditorShowsWhatRuns == EdSpec => []ShownIsLive
<1>1. EdInv => ShownIsLive
  BY DEF EdInv, Lists, ShownIsLive
<1> QED
  BY <1>1, EdInitInv, EditorSteps, PTL DEF EdSpec

(* The indexes an open panel remembers still name the trigger and the item it
   was opened on, through every move, deletion and OK on the panels above and
   below it (settings_window.rs:1680-1685). *)
THEOREM PanelsAimTrue == EdSpec => []PanelsStayAimed
<1>1. ASSUME EdInv PROVE PanelsStayAimed
  <2>1. CASE panels = <<>>
    BY <2>1 DEF PanelsStayAimed, OnTop
  <2>2. CASE OneOpen
    <3>1. PICK t : TriggerPanel(t) /\ panels = <<t>>
      BY <2>2 DEF OneOpen
    <3>2. Len(panels) = 1 /\ Top = t /\ panels[1] = t /\ t.kind = "trigger"
      BY <3>1, OneFacts DEF TriggerPanel
    <3>3. t.index > 0 => t.index <= Len(triggers) /\ triggers[t.index].id = t.was
      BY <1>1, <3>1 DEF TriggerPanel, EdInv, Lists, IsList
    <3> QED
      BY <3>2, <3>3 DEF PanelsStayAimed, OnTop
  <2>3. CASE TwoOpen
    <3>1. PICK t, it : TriggerPanel(t) /\ ItemPanel(it, t) /\ panels = <<t, it>>
      BY <2>3 DEF TwoOpen
    <3>2. /\ Len(panels) = 2 /\ Top = it /\ Len(Below) = 1 /\ Below[1] = t
          /\ panels[1] = t /\ panels[2] = it /\ t.kind = "trigger" /\ it.kind = "item"
      BY <3>1, TwoFacts DEF TriggerPanel, ItemPanel
    <3>3. t.index > 0 => t.index <= Len(triggers) /\ triggers[t.index].id = t.was
      BY <1>1, <3>1 DEF TriggerPanel, EdInv, Lists, IsList
    <3>4. it.index > 0 => t.lists[it.list][it.index] = it.was
      BY <3>1 DEF ItemPanel
    <3> QED
      BY <3>2, <3>3, <3>4 DEF PanelsStayAimed
  <2> QED
    BY <1>1, <2>1, <2>2, <2>3 DEF EdInv, Stack
<1> QED
  BY <1>1, EdInitInv, EditorSteps, PTL DEF EdSpec
-----------------------------------------------------------------------------
(* The reference variables. *)

(* A configuration the engine can read: the default group is there, and so is
   the active one. *)
Readable(c) ==
  /\ c = [groups |-> c.groups, active |-> c.active]
  /\ Default \in DOMAIN c.groups /\ c.active \in DOMAIN c.groups

GrpInv ==
  /\ Readable(ref) /\ Readable(refLive)
  /\ refLive = refFile /\ refLive.groups = ref.groups

LEMMA EnsuredIsReadable ==
  ASSUME NEW c
  PROVE  /\ Readable(Ensured(c))
         /\ Default \in DOMAIN c.groups => Ensured(c).groups = c.groups
<1> DEFINE g == IF Default \in DOMAIN c.groups THEN c.groups
                ELSE [n \in DOMAIN c.groups \cup {Default} |->
                        IF n = Default THEN NoValues ELSE c.groups[n]]
           e == [groups |-> g, active |-> IF c.active \in DOMAIN g THEN c.active ELSE Default]
<1>1. Default \in DOMAIN g
  OBVIOUS
<1>2. Default \in DOMAIN c.groups => g = c.groups
  OBVIOUS
<1> HIDE DEF g
<1>3. /\ e.groups = g /\ e.active = IF c.active \in DOMAIN g THEN c.active ELSE Default
      /\ e = [groups |-> e.groups, active |-> e.active]
  OBVIOUS
<1>4. Ensured(c) = e
  BY DEF Ensured, g
<1> HIDE DEF e
<1>5. Readable(e)
  BY <1>1, <1>3 DEF Readable
<1> QED
  BY <1>2, <1>3, <1>4, <1>5

(* What the handlers make of a configuration. *)
LEMMA SwitchedFacts ==
  ASSUME NEW c, Readable(c), NEW g
  PROVE  /\ Switched(c, g).groups = c.groups /\ Switched(c, g).active = g
         /\ g \in DOMAIN c.groups => Readable(Switched(c, g))
<1> DEFINE s == Switched(c, g)
<1>1. DOMAIN c = {"groups", "active"}
  BY DEF Readable
<1>2. s.groups = c.groups /\ s.active = g /\ s = [f \in {"groups", "active"} |-> s[f]]
  BY <1>1 DEF Switched
<1> HIDE DEF s
<1>3. g \in DOMAIN c.groups => Readable(s)
  BY <1>2 DEF Readable
<1> QED
  BY <1>2, <1>3 DEF s

(* Replacing the groups by others that hold the default and the active one. *)
LEMMA RegroupedFacts ==
  ASSUME NEW c, DOMAIN c = {"groups", "active"}, NEW gs, NEW s, s = [c EXCEPT !.groups = gs],
         Default \in DOMAIN gs
  PROVE  /\ DOMAIN s = {"groups", "active"} /\ s.groups = gs /\ s.active = c.active
         /\ c.active \in DOMAIN gs => Readable(s)
<1>1. /\ DOMAIN s = {"groups", "active"} /\ s.groups = gs /\ s.active = c.active
      /\ s = [f \in {"groups", "active"} |-> s[f]]
  OBVIOUS
<1>2. c.active \in DOMAIN gs => Readable(s)
  BY <1>1 DEF Readable
<1> QED
  BY <1>1, <1>2

(* The group an edit falls back to when the active one is deleted exists. *)
LEMMA FallbackExists ==
  ASSUME Readable(ref), NEW g, g # Default
  PROVE  Fallback(g) \in DOMAIN ref.groups \ {g}
<1> DEFINE at == CHOOSE i \in DOMAIN GroupNames : GroupNames[i] = g
           others == {i \in DOMAIN GroupNames : GroupNames[i] \in DOMAIN ref.groups \ {g}}
           above == {i \in others : i < at}
<1>1. others \in SUBSET Nat /\ \A i \in others : i <= Len(GroupNames)
  BY GroupsAssumption
<1>2. Len(GroupNames) \in Nat /\ Default \in DOMAIN ref.groups \ {g}
  BY GroupsAssumption DEF Readable
<1>3. \A i \in others : GroupNames[i] \in DOMAIN ref.groups \ {g}
  OBVIOUS
<1>4. Fallback(g) = IF above # {} THEN GroupNames[Max(above)]
                    ELSE IF others # {} THEN GroupNames[Min(others)] ELSE Default
  BY DEF Fallback
<1> HIDE DEF others, at
<1>5. CASE above # {}
  <2>1. above \in SUBSET Nat /\ \A i \in above : i <= Len(GroupNames)
    BY <1>1
  <2>2. \E x \in above : \A y \in above : y <= x
    BY <1>2, <1>5, <2>1, GreatestExists
  <2>3. \E x \in above : \A y \in above : x >= y
    <3>1. PICK x \in above : \A y \in above : y <= x
      BY <2>2
    <3>2. \A y \in above : x >= y
      BY <2>1, <3>1
    <3> QED
      BY <3>2
  <2>4. Max(above) \in above
    BY <2>3 DEF Max
  <2>5. Max(above) \in others
    BY <2>4
  <2> QED
    BY <1>3, <1>4, <1>5, <2>5
<1>6. CASE above = {} /\ others # {}
  <2>1. \E x \in others : \A y \in others : x <= y
    BY <1>1, <1>6, LeastExists
  <2>2. Min(others) \in others
    BY <2>1 DEF Min
  <2> QED
    BY <1>3, <1>4, <1>6, <2>2
<1>7. CASE above = {} /\ others = {}
  BY <1>2, <1>4, <1>7
<1> QED
  BY <1>5, <1>6, <1>7

(* Saving a configuration that is then shown, or only its rows. *)
LEMMA SavedAndShown ==
  ASSUME NEW c, NEW d, Readable(c), d.groups = c.groups, PersistGroups(c),
         Shown(d) \/ (d = c /\ \E n : RowsOnly(d, n))
  PROVE  GrpInv'
<1>1. refLive' = c /\ refFile' = c
  BY DEF PersistGroups
<1>2. ref' = Ensured(d) \/ ref' = c
  BY DEF Shown, RowsOnly
<1>3. Readable(ref') /\ ref'.groups = c.groups
  BY <1>2, EnsuredIsReadable DEF Readable
<1> QED
  BY <1>1, <1>3 DEF GrpInv, Readable

LEMMA GrpSteps == GrpInv /\ [GrpNext]_grpVars => GrpInv'
<1> SUFFICES ASSUME GrpInv, [GrpNext]_grpVars PROVE GrpInv'
  OBVIOUS
<1>1. /\ Readable(ref) /\ refLive = refFile /\ Readable(refFile)
      /\ DOMAIN ref = {"groups", "active"}
      /\ Default \in DOMAIN ref.groups /\ ref.active \in DOMAIN ref.groups
  BY DEF GrpInv, Readable
<1>2. CASE UNCHANGED grpVars
  BY <1>2 DEF grpVars, GrpInv, Readable
<1>3. ASSUME NEW g, GroupChanged(g) PROVE GrpInv'
  <2>1. /\ UNCHANGED <<refFile, refLive>> /\ ref' = Ensured(Switched(ref, g))
    BY <1>3 DEF GroupChanged, Shown
  <2>2. Readable(ref') /\ ref'.groups = ref.groups
    BY <1>1, <2>1, SwitchedFacts, EnsuredIsReadable
  <2> QED
    BY <2>1, <2>2 DEF GrpInv, Readable
<1>4. ASSUME NEW g, NewGroup(g) \/ CloneGroup(g) PROVE GrpInv'
  <2>1. PICK vals : /\ PersistGroups(WithGroup(ref, g, vals))
                    /\ Shown(Switched(WithGroup(ref, g, vals), g))
    BY <1>4 DEF NewGroup, CloneGroup
  <2> DEFINE gs == [n \in DOMAIN ref.groups \cup {g} |-> IF n = g THEN vals ELSE ref.groups[n]]
             c == WithGroup(ref, g, vals)
  <2>2. c = [ref EXCEPT !.groups = gs] /\ Default \in DOMAIN gs /\ ref.active \in DOMAIN gs
    BY <1>1 DEF WithGroup
  <2> HIDE DEF gs, c
  <2>3. Readable(c)
    BY <1>1, <2>2, RegroupedFacts
  <2>4. Switched(c, g).groups = c.groups
    BY <2>3, SwitchedFacts
  <2> QED
    BY <2>1, <2>3, <2>4, SavedAndShown DEF c
<1>5. ASSUME NEW new, RenameGroup(new) PROVE GrpInv'
  <2>1. CASE new \in DOMAIN ref.groups
    BY <1>1, <1>5, <2>1, SavedAndShown DEF RenameGroup
  <2>2. CASE new \notin DOMAIN ref.groups
    <3> DEFINE old == ref.active
               gs == [x \in DOMAIN ref.groups \ {old} |-> ref.groups[x]]
               w == Without(ref, old)
               hs == [n \in DOMAIN gs \cup {new} |-> IF n = new THEN ref.groups[old] ELSE gs[n]]
               r == WithGroup(w, new, ref.groups[old])
               c == Renamed(old, new)
    <3>1. old # Default
      BY <1>5 DEF RenameGroup
    <3>2. w = [ref EXCEPT !.groups = gs] /\ Default \in DOMAIN gs
      BY <1>1, <3>1 DEF Without, Restrict
    <3>3. r = [w EXCEPT !.groups = [n \in DOMAIN w.groups \cup {new} |->
                                      IF n = new THEN ref.groups[old] ELSE w.groups[n]]]
      BY DEF WithGroup
    <3>4. c = [r EXCEPT !.active = new]
      BY DEF Renamed
    <3>5. Default \in DOMAIN hs /\ new \in DOMAIN hs
      BY <3>2
    <3>6. PersistGroups(c) /\ Shown(c)
      BY <1>5, <2>2 DEF RenameGroup
    <3> HIDE DEF w, r, c, gs
    <3>7. DOMAIN w = {"groups", "active"} /\ w.groups = gs
      BY <1>1, <3>2, RegroupedFacts
    <3>8. r = [w EXCEPT !.groups = hs]
      BY <3>3, <3>7
    <3> HIDE DEF hs
    <3>9. DOMAIN r = {"groups", "active"} /\ r.groups = hs
      BY <3>5, <3>7, <3>8, RegroupedFacts
    <3>10. /\ c.groups = hs /\ c.active = new /\ DOMAIN c = {"groups", "active"}
           /\ c = [f \in {"groups", "active"} |-> c[f]]
      BY <3>4, <3>9
    <3>11. Readable(c)
      BY <3>5, <3>10 DEF Readable
    <3> QED
      BY <3>6, <3>11, SavedAndShown
  <2> QED
    BY <2>1, <2>2
<1>6. CASE DeleteGroup
  <2> DEFINE old == ref.active
             gs == [x \in DOMAIN ref.groups \ {old} |-> ref.groups[x]]
             w == Without(ref, old)
             c == Switched(w, Fallback(old))
  <2>1. old # Default /\ PersistGroups(c) /\ Shown(c)
    BY <1>6 DEF DeleteGroup
  <2>2. w = [ref EXCEPT !.groups = gs] /\ Default \in DOMAIN gs
    BY <1>1, <2>1 DEF Without, Restrict
  <2>3. Fallback(old) \in DOMAIN gs
    BY <1>1, <2>1, FallbackExists
  <2>4. c = [w EXCEPT !.active = Fallback(old)]
    BY DEF Switched
  <2> HIDE DEF w, c, gs
  <2>5. DOMAIN w = {"groups", "active"} /\ w.groups = gs
    BY <1>1, <2>2, RegroupedFacts
  <2>6. /\ c.groups = gs /\ c.active = Fallback(old)
        /\ c = [f \in {"groups", "active"} |-> c[f]]
    BY <2>4, <2>5
  <2>7. Readable(c)
    BY <2>2, <2>3, <2>6 DEF Readable
  <2> QED
    BY <2>1, <2>7, SavedAndShown
<1>7. CASE AddBlank \/ DeleteBlank
  <2>1. UNCHANGED <<ref, refFile, refLive>>
    BY <1>7 DEF AddBlank, DeleteBlank, RowsOnly
  <2> QED
    BY <2>1 DEF GrpInv, Readable
<1>8. CASE \/ \E v \in Vars : DeleteVariable(v)
           \/ \E u, v \in Vars, x \in Vals : ConfirmVariable(u, v, x)
           \/ \E v \in Vars, x \in Vals : ConfirmBlank(v, x)
  <2>1. PICK vals, n : PersistGroups(WithValues(vals)) /\ RowsOnly(WithValues(vals), n)
    BY <1>8 DEF DeleteVariable, ConfirmVariable, ConfirmBlank
  <2> DEFINE gs == [ref.groups EXCEPT ![ref.active] = vals]
             c == WithValues(vals)
  <2>2. c = [ref EXCEPT !.groups = gs] /\ DOMAIN gs = DOMAIN ref.groups
    BY DEF WithValues
  <2> HIDE DEF gs, c
  <2>3. Readable(c)
    BY <1>1, <2>2, RegroupedFacts
  <2> QED
    BY <2>1, <2>3, SavedAndShown DEF c
<1>9. CASE Reopen
  <2>1. UNCHANGED <<refFile, refLive>> /\ ref' = Ensured(refFile)
    BY <1>9 DEF Reopen, Shown
  <2>2. Readable(ref') /\ ref'.groups = refFile.groups
    BY <1>1, <2>1, EnsuredIsReadable DEF Readable
  <2> QED
    BY <1>1, <2>1, <2>2 DEF GrpInv
<1> QED
  BY <1>2, <1>3, <1>4, <1>5, <1>6, <1>7, <1>8, <1>9 DEF GrpNext

(* What triggers read is a group that exists, and file and engine hold every
   value the Variables tab does, over renaming, deleting and adding groups and
   variables in any order (settings_window.rs:697-717, 890-952). *)
THEOREM TriggersReadWhatIsSet == GrpSpec => []ValuesAreLive
<1>1. GrpInit => GrpInv
  BY EnsuredIsReadable DEF GrpInit, GrpInv
<1>2. GrpInv => ValuesAreLive
  BY DEF GrpInv, Readable, ValuesAreLive
<1> QED
  BY <1>1, <1>2, GrpSteps, PTL DEF GrpSpec
-----------------------------------------------------------------------------
(* The sound packages. *)

(* A package's files f, manifest m and what its labels were meant to play, t:
   each label has a file of its own name that holds what was meant. *)
Sound(f, m, t) ==
  /\ DOMAIN t = DOMAIN m /\ DOMAIN m \in SUBSET Nat /\ IsFiniteSet(DOMAIN m)
  /\ \A n \in DOMAIN m : m[n] \in DOMAIN f /\ f[m[n]] = t[n] /\ m[n][1] = n

SndInv ==
  /\ DOMAIN manifest = DOMAIN files /\ DOMAIN meant = DOMAIN files
  /\ "default" \in DOMAIN files /\ package \in DOMAIN files
  /\ \A p \in DOMAIN files : Sound(files[p], manifest[p], meant[p])
  /\ listed = Listed(manifest[package])
  /\ zip.made => Sound(zip.files, zip.manifest, zip.meant)

(* Every row of the tab names a label of the manifest. *)
LEMMA RowNamesLabel ==
  ASSUME NEW m, DOMAIN m \in SUBSET Nat, IsFiniteSet(DOMAIN m),
         NEW row \in 1..Cardinality(DOMAIN m)
  PROVE  Listed(m)[row] \in DOMAIN m
<1>1. PICK x \in DOMAIN m : Rank(DOMAIN m, x) = row - 1
  BY NthExists
<1>2. Cardinality({y \in DOMAIN m : y < x}) = row - 1
  BY <1>1 DEF Rank
<1>3. Listed(m)[row] = CHOOSE n \in DOMAIN m : Cardinality({y \in DOMAIN m : y < n}) = row - 1
  BY DEF Listed
<1> QED
  BY <1>2, <1>3

(* But for a label, a manifest is a part of an older one; and what its labels
   and that one are meant to play is as before, that one's being given. *)
Beside(n, content, m0, t0, m, t) ==
  /\ DOMAIN m \in SUBSET Nat /\ IsFiniteSet(DOMAIN m)
  /\ \A k \in DOMAIN m \ {n} : k \in DOMAIN m0 /\ m[k] = m0[k]
  /\ DOMAIN t = DOMAIN m \cup {n} /\ t[n] = content
  /\ \A k \in DOMAIN t \ {n} : t[k] = t0[k]

(* A label is given a file of its name, in a manifest whose other labels are as
   they were: whatever stale file goes, no other label loses its own. *)
LEMMA PlacedIsSound ==
  ASSUME NEW f, NEW m0, NEW t0, Sound(f, m0, t0),
         NEW n \in Nat, NEW content, NEW ext, NEW stale,
         NEW m, NEW t, Beside(n, content, m0, t0, m, t),
         NEW m2, m2 = With(m, n, <<n, ext>>),
         NEW gone, gone = (stale \ {<<n, ext>>}) \ Range(m2)
  PROVE  Sound(But(With(f, <<n, ext>>, content), gone), m2, t)
<1> DEFINE file == <<n, ext>>
           g == With(f, file, content)
           h == But(g, gone)
<1>1. file[1] = n
  OBVIOUS
<1> HIDE DEF file
<1>2. /\ DOMAIN m2 = DOMAIN m \cup {n} /\ m2[n] = file
      /\ \A k \in DOMAIN m \ {n} : m2[k] = m0[k]
  BY DEF file, With, Beside
<1>3. /\ DOMAIN g = DOMAIN f \cup {file} /\ g[file] = content
      /\ \A y \in DOMAIN f \ {file} : g[y] = f[y]
  BY DEF With
<1>4. /\ DOMAIN h = DOMAIN g \ gone
      /\ \A y \in DOMAIN g \ gone : h[y] = g[y]
  BY DEF But, Restrict
<1>5. \A k \in DOMAIN m2 : m2[k] \notin gone
  BY DEF Range
<1> HIDE DEF g, h
<1>6. DOMAIN m2 \in SUBSET Nat /\ IsFiniteSet(DOMAIN m2) /\ DOMAIN t = DOMAIN m2
  BY <1>2, FS_AddElement DEF Beside
<1>7. ASSUME NEW k \in DOMAIN m2
      PROVE  m2[k] \in DOMAIN h /\ h[m2[k]] = t[k] /\ m2[k][1] = k
  <2>1. CASE k = n
    BY <1>1, <1>2, <1>3, <1>4, <1>5, <2>1 DEF Beside
  <2>2. CASE k # n
    <3>1. /\ k \in DOMAIN m0 /\ m2[k] = m0[k] /\ t[k] = t0[k]
          /\ m0[k] \in DOMAIN f /\ f[m0[k]] = t0[k] /\ m0[k][1] = k
      BY <1>2, <2>2 DEF Sound, Beside
    <3>2. m0[k] # file
      BY <1>1, <2>2, <3>1
    <3> QED
      BY <1>3, <1>4, <1>5, <3>1, <3>2
  <2> QED
    BY <2>1, <2>2
<1>8. Sound(h, m2, t)
  BY <1>6, <1>7 DEF Sound
<1> QED
  BY <1>8 DEF h, g, file

(* Nothing, or one label less, is still sound. *)
LEMMA DroppedIsSound ==
  ASSUME NEW f, NEW m, NEW t, Sound(f, m, t), NEW x
  PROVE  Sound(f, But(m, {x}), But(t, {x}))
<1>1. /\ DOMAIN But(m, {x}) = DOMAIN m \ {x} /\ DOMAIN But(t, {x}) = DOMAIN t \ {x}
      /\ \A y \in DOMAIN m \ {x} : But(m, {x})[y] = m[y]
      /\ \A y \in DOMAIN t \ {x} : But(t, {x})[y] = t[y]
  BY DEF But, Restrict
<1>2. DOMAIN m = DOMAIN t /\ IsFiniteSet(DOMAIN m \ {x}) /\ DOMAIN m \in SUBSET Nat
  BY FS_RemoveElement DEF Sound
<1> QED
  BY <1>1, <1>2 DEF Sound

(* The package shown is changed, or another one comes and is shown. *)
LEMMA ChangedKeeps ==
  ASSUME SndInv, NEW f, NEW m, NEW t, Sound(f, m, t),
         files' = [files EXCEPT ![package] = f],
         manifest' = [manifest EXCEPT ![package] = m],
         meant' = [meant EXCEPT ![package] = t],
         ShowPackage(package, m), UNCHANGED zip
  PROVE  SndInv'
<1>1. /\ DOMAIN files' = DOMAIN files /\ DOMAIN manifest' = DOMAIN files
      /\ DOMAIN meant' = DOMAIN files /\ package \in DOMAIN files
      /\ package' = package /\ listed' = Listed(m)
  BY DEF SndInv, ShowPackage
<1>2. manifest'[package] = m
  BY DEF SndInv
<1>3. ASSUME NEW p \in DOMAIN files PROVE Sound(files'[p], manifest'[p], meant'[p])
  BY DEF SndInv
<1> QED
  BY <1>1, <1>2, <1>3 DEF SndInv, Sound

LEMMA AddedKeeps ==
  ASSUME SndInv, NEW p, NEW f, NEW m, NEW t, Sound(f, m, t),
         files' = With(files, p, f), manifest' = With(manifest, p, m),
         meant' = With(meant, p, t), ShowPackage(p, m), UNCHANGED zip
  PROVE  SndInv'
<1>1. /\ DOMAIN files' = DOMAIN files \cup {p} /\ DOMAIN manifest' = DOMAIN manifest \cup {p}
      /\ DOMAIN meant' = DOMAIN meant \cup {p}
      /\ files'[p] = f /\ manifest'[p] = m /\ meant'[p] = t
      /\ \A q \in DOMAIN files \ {p} : files'[q] = files[q]
      /\ \A q \in DOMAIN manifest \ {p} : manifest'[q] = manifest[q]
      /\ \A q \in DOMAIN meant \ {p} : meant'[q] = meant[q]
      /\ package' = p /\ listed' = Listed(m)
  BY DEF With, ShowPackage
<1>2. ASSUME NEW q \in DOMAIN files' PROVE Sound(files'[q], manifest'[q], meant'[q])
  BY <1>1 DEF SndInv
<1> QED
  BY <1>1, <1>2 DEF SndInv, Sound

LEMMA SndInitInv == SndInit => SndInv
<1> SUFFICES ASSUME SndInit PROVE SndInv
  OBVIOUS
<1> DEFINE f == [x \in {<<1, "wav">>} |-> 1]
           m == [n \in {1} |-> <<1, "wav">>]
           t == [n \in {1} |-> 1]
<1>1. Sound(f, m, t)
  <2>1. IsFiniteSet({1})
    BY FS_Singleton
  <2> QED
    BY <2>1 DEF Sound
<1>2. /\ files = [p \in {"default"} |-> f] /\ manifest = [p \in {"default"} |-> m]
      /\ meant = [p \in {"default"} |-> t]
  BY DEF SndInit
<1>3. listed = Listed(m)
  <2>1. DOMAIN m = {1} /\ Cardinality({1}) = 1
    BY FS_Singleton
  <2>2. {x \in {1} : x < 1} = {} /\ Cardinality({}) = 0
    BY FS_EmptySet
  <2>3. \A k \in 1..1 :
          (CHOOSE n \in DOMAIN m : Cardinality({x \in DOMAIN m : x < n}) = k - 1) = 1
    BY <2>1, <2>2
  <2> HIDE DEF m
  <2>4. Listed(m) = [k \in 1..1 |-> 1]
    BY <2>1, <2>3 DEF Listed
  <2>5. listed = [k \in 1..1 |-> 1]
    BY DEF SndInit
  <2> QED
    BY <2>4, <2>5
<1> HIDE DEF f, m, t
<1>4. package = "default" /\ ~zip.made
  BY DEF SndInit, NoZip
<1> QED
  BY <1>1, <1>2, <1>3, <1>4 DEF SndInv

LEMMA AddLabelKeeps ==
  ASSUME SndInv, NEW n \in Labels, NEW c, NEW e, AddLabel(n, c, e)
  PROVE  SndInv'
<1> DEFINE f0 == files[package]
           m0 == manifest[package]
           t0 == meant[package]
           m2 == With(m0, n, <<n, e>>)
           gone == (Had(m0, n) \ {<<n, e>>}) \ Range(m2)
           f2 == But(With(f0, <<n, e>>, c), gone)
           t2 == With(t0, n, c)
<1>1. n \in Nat /\ package \in DOMAIN files /\ Sound(f0, m0, t0)
  BY SoundsAssumption DEF SndInv
<1>2. /\ DOMAIN m0 \in SUBSET Nat /\ IsFiniteSet(DOMAIN m0) /\ DOMAIN t0 = DOMAIN m0
      /\ \A k \in DOMAIN m0 \ {n} : k \in DOMAIN m0 /\ m0[k] = m0[k]
  BY <1>1 DEF Sound
<1>3. /\ files' = [files EXCEPT ![package] = f2]
      /\ manifest' = [manifest EXCEPT ![package] = m2]
      /\ meant' = [meant EXCEPT ![package] = t2]
      /\ ShowPackage(package, m2) /\ zip' = zip
  BY DEF AddLabel, AddOrReplace
<1> HIDE DEF f0, m0, t0
<1>4. /\ DOMAIN t2 = DOMAIN m0 \cup {n} /\ t2[n] = c
      /\ \A k \in DOMAIN t2 \ {n} : t2[k] = t0[k]
  BY <1>2 DEF With
<1> HIDE DEF t2, m2, gone
<1>5. Beside(n, c, m0, t0, m0, t2)
  BY <1>2, <1>4 DEF Beside
<1>6. Sound(f2, m2, t2)
  BY <1>1, <1>5, PlacedIsSound DEF m2, gone
<1> QED
  BY <1>3, <1>6, ChangedKeeps

LEMMA EditLabelKeeps ==
  ASSUME SndInv, NEW row, NEW n \in Labels, NEW source, EditLabel(row, n, source)
  PROVE  SndInv'
<1> DEFINE f0 == files[package]
           m0 == manifest[package]
           t0 == meant[package]
           old == Listed(m0)[row]
           new == IF source = <<>> THEN <<f0[m0[old]], m0[old][2]>> ELSE source
           m == Relabel(m0, old, n)
           m2 == With(m, n, <<n, new[2]>>)
           t2 == With(But(t0, {old}), n, new[1])
<1>1. n \in Nat /\ package \in DOMAIN files /\ Sound(f0, m0, t0) /\ listed = Listed(m0)
  BY SoundsAssumption DEF SndInv
<1>2. row \in 1..Cardinality(DOMAIN m0)
  BY DEF EditLabel
<1>3. old \in DOMAIN m0 /\ DOMAIN m0 \in SUBSET Nat /\ IsFiniteSet(DOMAIN m0)
      /\ DOMAIN t0 = DOMAIN m0
  BY <1>1, <1>2, RowNamesLabel DEF Sound
<1>4. f0[m0[old]] = t0[old]
  BY <1>1, <1>3 DEF Sound
<1>5. Selected(row) = old
  BY DEF Selected
<1>6. meant' = [meant EXCEPT ![package] = t2]
  <2>1. meant' = [meant EXCEPT ![package] =
                    With(But(@, {listed[row]}), n,
                         IF source = <<>> THEN meant[package][listed[row]] ELSE source[1])]
    BY DEF EditLabel
  <2>2. new[1] = IF source = <<>> THEN t0[old] ELSE source[1]
    BY <1>4
  <2> QED
    BY <1>1, <2>1, <2>2
<1>7. PICK stale : AddOrReplace(m, n, new[1], new[2], stale)
  BY <1>5 DEF EditLabel
<1> DEFINE gone == (stale \ {<<n, new[2]>>}) \ Range(m2)
           f2 == But(With(f0, <<n, new[2]>>, new[1]), gone)
<1>8. /\ files' = [files EXCEPT ![package] = f2]
      /\ manifest' = [manifest EXCEPT ![package] = m2]
      /\ ShowPackage(package, m2) /\ zip' = zip
  BY <1>7 DEF EditLabel, AddOrReplace
<1> HIDE DEF f0, m0, t0, old, new
<1>9. /\ DOMAIN m \cup {n} = (DOMAIN m0 \ {old}) \cup {n}
      /\ DOMAIN m \subseteq DOMAIN m0 \cup {n}
      /\ \A k \in DOMAIN m \ {n} : k \in DOMAIN m0 /\ m[k] = m0[k]
  BY <1>3 DEF Relabel, With, But, Restrict
<1>10. DOMAIN m \in SUBSET Nat /\ IsFiniteSet(DOMAIN m)
  <2>1. IsFiniteSet(DOMAIN m0 \cup {n})
    BY <1>3, FS_AddElement
  <2> QED
    BY <1>1, <1>3, <1>9, <2>1, FS_Subset
<1> HIDE DEF m
<1>11. /\ DOMAIN t2 = DOMAIN m \cup {n} /\ t2[n] = new[1]
       /\ \A k \in DOMAIN t2 \ {n} : t2[k] = t0[k]
  BY <1>3, <1>9 DEF With, But, Restrict
<1> HIDE DEF t2, m2, gone
<1>12. Beside(n, new[1], m0, t0, m, t2)
  BY <1>9, <1>10, <1>11 DEF Beside
<1>13. Sound(f2, m2, t2)
  BY <1>1, <1>12, PlacedIsSound DEF m2, gone
<1> QED
  BY <1>6, <1>8, <1>13, ChangedKeeps

LEMMA DeleteLabelKeeps ==
  ASSUME SndInv, NEW row, DeleteLabel(row)
  PROVE  SndInv'
<1> DEFINE f0 == files[package]
           m0 == manifest[package]
           t0 == meant[package]
           old == Listed(m0)[row]
<1>1. package \in DOMAIN files /\ Sound(f0, m0, t0) /\ listed = Listed(m0)
  BY DEF SndInv
<1>2. /\ files' = files /\ manifest' = [manifest EXCEPT ![package] = But(m0, {old})]
      /\ meant' = [meant EXCEPT ![package] = But(t0, {old})]
      /\ ShowPackage(package, But(m0, {old})) /\ zip' = zip
  BY <1>1 DEF DeleteLabel, Selected
<1> HIDE DEF m0, t0, old
<1>3. Sound(f0, But(m0, {old}), But(t0, {old}))
  BY <1>1, DroppedIsSound
<1>4. ASSUME NEW p \in DOMAIN files PROVE Sound(files'[p], manifest'[p], meant'[p])
  BY <1>2, <1>3 DEF SndInv
<1>5. /\ DOMAIN manifest' = DOMAIN files /\ DOMAIN meant' = DOMAIN files
      /\ manifest'[package] = But(m0, {old})
  BY <1>2 DEF SndInv
<1> QED
  BY <1>2, <1>4, <1>5 DEF SndInv, ShowPackage, Sound

LEMMA SndSteps == SndInv /\ [SndNext]_sndVars => SndInv'
<1> SUFFICES ASSUME SndInv, [SndNext]_sndVars PROVE SndInv'
  OBVIOUS
<1>1. CASE UNCHANGED sndVars
  BY <1>1 DEF sndVars, SndInv, Sound
<1>2. ASSUME NEW p, SelectPackage(p) PROVE SndInv'
  <2>1. /\ p \in DOMAIN files /\ package' = p /\ listed' = Listed(manifest[p])
        /\ UNCHANGED <<files, manifest, zip, meant>>
    BY <1>2 DEF SelectPackage, ShowPackage, Manifest, SndInv
  <2> QED
    BY <2>1 DEF SndInv, Sound
<1>3. ASSUME NEW p, NewPackage(p) PROVE SndInv'
  <2>1. Sound(files["default"], manifest["default"], meant["default"])
    BY DEF SndInv
  <2> QED
    BY <1>3, <2>1, AddedKeeps DEF NewPackage
<1>4. ASSUME NEW p, ImportPackage(p) PROVE SndInv'
  <2>1. Sound(zip.files, zip.manifest, zip.meant)
    BY <1>4 DEF SndInv, ImportPackage
  <2> QED
    BY <1>4, <2>1, AddedKeeps DEF ImportPackage
<1>5. CASE DeletePackage
  <2>1. /\ DOMAIN files' = DOMAIN files \ {package} /\ DOMAIN manifest' = DOMAIN files'
        /\ DOMAIN meant' = DOMAIN files'
        /\ \A p \in DOMAIN files' : /\ files'[p] = files[p] /\ manifest'[p] = manifest[p]
                                    /\ meant'[p] = meant[p]
        /\ package # "default" /\ package' = "default" /\ listed' = Listed(manifest["default"])
        /\ zip' = zip
    BY <1>5 DEF DeletePackage, ShowPackage, But, Restrict, SndInv
  <2>2. "default" \in DOMAIN files'
    BY <2>1 DEF SndInv
  <2> QED
    BY <2>1, <2>2 DEF SndInv, Sound
<1>6. CASE ExportPackage
  <2>1. /\ zip'.files = files[package] /\ zip'.manifest = manifest[package]
        /\ zip'.meant = meant[package]
        /\ UNCHANGED <<files, manifest, package, listed, meant>>
    BY <1>6 DEF ExportPackage
  <2>2. Sound(files[package], manifest[package], meant[package])
    BY DEF SndInv
  <2> QED
    BY <2>1, <2>2 DEF SndInv, Sound
<1> QED
  BY <1>1, <1>2, <1>3, <1>4, <1>5, <1>6, AddLabelKeeps, EditLabelKeeps, DeleteLabelKeeps
     DEF SndNext

(* Whatever is renamed, replaced, deleted, copied, exported or imported, a label
   plays what the user last gave it in that package, or else in the default one
   (sound_packages.rs:104-127 and 158-213). *)
THEOREM LabelsKeepTheirSounds == SndSpec => []LabelsPlayTheirs
<1>1. ASSUME SndInv, NEW p, NEW n PROVE Resolve(p, n) = Intended(p, n)
  <2>1. /\ DOMAIN manifest = DOMAIN files /\ DOMAIN meant = DOMAIN files
        /\ "default" \in DOMAIN files
        /\ \A q \in DOMAIN files : /\ DOMAIN meant[q] = DOMAIN manifest[q]
                                   /\ \A k \in DOMAIN manifest[q] :
                                        /\ manifest[q][k] \in DOMAIN files[q]
                                        /\ files[q][manifest[q][k]] = meant[q][k]
    BY <1>1 DEF SndInv, Sound
  <2>2. Manifest("default") = manifest["default"] /\ \A k : k \notin DOMAIN Empty
    BY <2>1 DEF Manifest, Empty
  <2>3. CASE p \in DOMAIN files /\ n \in DOMAIN meant[p]
    <3>1. Manifest(p) = manifest[p] /\ n \in DOMAIN manifest[p]
      BY <2>1, <2>3 DEF Manifest
    <3>2. Resolve(p, n) = meant[p][n]
      BY <2>1, <2>3, <3>1 DEF Resolve
    <3>3. Intended(p, n) = meant[p][n]
      BY <2>1, <2>3 DEF Intended
    <3> QED
      BY <3>2, <3>3
  <2>4. CASE ~ (p \in DOMAIN files /\ n \in DOMAIN meant[p]) /\ n \in DOMAIN meant["default"]
    <3>1. n \notin DOMAIN Manifest(p) /\ n \in DOMAIN manifest["default"]
      BY <2>1, <2>2, <2>4 DEF Manifest
    <3>2. Resolve(p, n) = meant["default"][n]
      BY <2>1, <2>2, <3>1 DEF Resolve
    <3>3. Intended(p, n) = meant["default"][n]
      BY <2>1, <2>4 DEF Intended
    <3> QED
      BY <3>2, <3>3
  <2>5. CASE ~ (p \in DOMAIN files /\ n \in DOMAIN meant[p]) /\ n \notin DOMAIN meant["default"]
    <3>1. n \notin DOMAIN Manifest(p) /\ n \notin DOMAIN Manifest("default")
      BY <2>1, <2>2, <2>5 DEF Manifest
    <3>2. Resolve(p, n) = 0
      BY <3>1 DEF Resolve
    <3>3. Intended(p, n) = 0
      BY <2>1, <2>5 DEF Intended
    <3> QED
      BY <3>2, <3>3
  <2> QED
    BY <2>3, <2>4, <2>5
<1>2. SndInv => LabelsPlayTheirs
  BY <1>1 DEF LabelsPlayTheirs
<1> QED
  BY <1>2, SndInitInv, SndSteps, PTL DEF SndSpec

-----------------------------------------------------------------------------
(* Adding up at most two amounts. *)

Total(s, a, x, y) == (IF x \in s THEN a[x] ELSE 0) + (IF y \in s /\ y # x THEN a[y] ELSE 0)

Some(s) == CHOOSE z \in s : TRUE

Adds(g, S, a) == g = [s \in SUBSET S |-> IF s = {} THEN 0 ELSE a[Some(s)] + g[s \ {Some(s)}]]

LEMMA SumOfTwo ==
  ASSUME NEW x, NEW y, NEW S \in SUBSET {x, y}, NEW a, \A z \in S : a[z] \in Nat
  PROVE  /\ \E g : Adds(g, S, a)
         /\ \A g : Adds(g, S, a) => g[S] = Total(S, a, x, y)
  <1> DEFINE h == [s \in SUBSET S |-> Total(s, a, x, y)]
  <1>0. \A s \in SUBSET S : s # {} =>
           /\ Some(s) \in s
           /\ s \ {Some(s)} \in SUBSET S
           /\ Total(s, a, x, y) = a[Some(s)] + Total(s \ {Some(s)}, a, x, y)
    <2> SUFFICES ASSUME NEW s \in SUBSET S, s # {}
                 PROVE  /\ Some(s) \in s
                        /\ Total(s, a, x, y) = a[Some(s)] + Total(s \ {Some(s)}, a, x, y)
      OBVIOUS
    <2> HIDE DEF h
    <2>1. Some(s) \in s
      BY DEF Some
    <2>2. CASE Some(s) = x
      <3>1. x \notin s \ {Some(s)} /\ (y \in s \ {Some(s)} <=> y \in s /\ y # x)
        BY <2>2
      <3> QED BY <2>1, <2>2, <3>1 DEF Total
    <2>3. CASE Some(s) = y /\ y # x
      <3>1. y \notin s \ {Some(s)} /\ (x \in s \ {Some(s)} <=> x \in s)
        BY <2>3
      <3> QED BY <2>1, <2>3, <3>1 DEF Total
    <2> QED BY <2>1, <2>2, <2>3
  <1>1. Total({}, a, x, y) = 0
    BY DEF Total
  <1>2. Adds(h, S, a)
    <2>1. \A s \in SUBSET S : h[s] = IF s = {} THEN 0 ELSE a[Some(s)] + h[s \ {Some(s)}]
      <3> SUFFICES ASSUME NEW s \in SUBSET S
                   PROVE  h[s] = IF s = {} THEN 0 ELSE a[Some(s)] + h[s \ {Some(s)}]
        OBVIOUS
      <3>1. CASE s = {}
        BY <3>1, <1>1
      <3>2. CASE s # {}
        BY <3>2, <1>0
      <3> QED BY <3>1, <3>2
    <2> QED BY <2>1 DEF Adds
  <1>3. ASSUME NEW g, Adds(g, S, a) PROVE g[S] = Total(S, a, x, y)
    <2>1. \A s \in SUBSET S : g[s] = IF s = {} THEN 0 ELSE a[Some(s)] + g[s \ {Some(s)}]
      BY <1>3 DEF Adds
    <2>2. g[{}] = 0
      BY <2>1
    <2>3. ASSUME NEW z \in S PROVE g[{z}] = Total({z}, a, x, y)
      <3>1. {z} \in SUBSET S /\ {z} # {} /\ Some({z}) = z /\ {z} \ {Some({z})} = {}
        BY DEF Some
      <3>2. g[{z}] = a[z] + 0
        BY <2>1, <2>2, <3>1
      <3>3. Total({z}, a, x, y) = a[z] + 0
        BY <1>0, <1>1, <3>1
      <3> QED BY <3>2, <3>3
    <2>4. CASE S = {}
      BY <2>2, <2>4, <1>1
    <2>5. CASE \E z \in S : S = {z}
      BY <2>3, <2>5
    <2>6. CASE S = {x, y} /\ x # y
      <3>1. S \ {Some(S)} \in {{x}, {y}} /\ S \ {Some(S)} \in SUBSET S
        BY <2>6, <1>0
      <3>2. g[S \ {Some(S)}] = Total(S \ {Some(S)}, a, x, y)
        BY <3>1, <2>3, <2>6
      <3>3. S # {} /\ S \in SUBSET S
        BY <2>6
      <3>4. g[S] = a[Some(S)] + g[S \ {Some(S)}]
        BY <2>1, <3>3
      <3> QED BY <3>2, <3>4, <1>0, <3>3
    <2>7. S = {} \/ (\E z \in S : S = {z}) \/ (S = {x, y} /\ x # y)
      OBVIOUS
    <2> QED BY <2>4, <2>5, <2>6, <2>7
  <1> QED BY <1>2, <1>3

LEMMA SumFunctionIs ==
  ASSUME NEW x, NEW y, NEW f, DOMAIN f \in SUBSET {x, y}, \A z \in DOMAIN f : f[z] \in Nat
  PROVE  SumFunction(f) = Total(DOMAIN f, f, x, y)
  <1> DEFINE sum == CHOOSE g : Adds(g, DOMAIN f, f)
  <1>1. SumFunction(f) = sum[DOMAIN f]
    BY DEF SumFunction, SumFunctionOnSet, FoldFunctionOnSet, MapThenFoldSet, Adds, Some
  <1>2. Adds(sum, DOMAIN f, f)
    BY SumOfTwo
  <1> HIDE DEF sum
  <1> QED BY <1>1, <1>2, SumOfTwo

(* The amounts of some rows, added up. *)
RowSum(drew) == FoldSeq(LAMBDA r, n : r.amount + n, 0, drew)

LEMMA RowSumIs ==
  ASSUME NEW drew, NEW m \in 0 .. 2, DOMAIN drew = 1 .. m, \A k \in 1 .. m : drew[k].amount \in Nat
  PROVE  RowSum(drew) = (IF m > 0 THEN drew[1].amount ELSE 0) + (IF m > 1 THEN drew[2].amount ELSE 0)
  <1> DEFINE a == [k \in DOMAIN drew |-> drew[k].amount]
             Adding(g) == g = [s \in SUBSET DOMAIN drew |->
                                 IF s = {} THEN 0 ELSE drew[Some(s)].amount + g[s \ {Some(s)}]]
             sum == CHOOSE g : Adding(g)
  <1>1. RowSum(drew) = sum[DOMAIN drew]
    BY DEF RowSum, FoldSeq, FoldFunction, FoldFunctionOnSet, MapThenFoldSet, Some
  <1>2. \A s \in SUBSET DOMAIN drew : s # {} => Some(s) \in DOMAIN drew /\ drew[Some(s)].amount = a[Some(s)]
    BY DEF Some
  <1>3. ASSUME NEW g PROVE Adding(g) <=> Adds(g, DOMAIN drew, a)
    <2>1. [s \in SUBSET DOMAIN drew |->
             IF s = {} THEN 0 ELSE drew[Some(s)].amount + g[s \ {Some(s)}]]
          = [s \in SUBSET DOMAIN drew |->
               IF s = {} THEN 0 ELSE a[Some(s)] + g[s \ {Some(s)}]]
      <3> HIDE DEF a
      <3> QED BY <1>2
    <2> QED BY <2>1 DEF Adds
  <1>4. DOMAIN drew \in SUBSET {1, 2} /\ \A z \in DOMAIN drew : a[z] \in Nat
    OBVIOUS
  <1>5. Adds(sum, DOMAIN drew, a)
    <2>1. \E g : Adding(g)
      <3> HIDE DEF Adding, a
      <3> QED BY <1>3, <1>4, SumOfTwo
    <2>2. Adding(sum)
      <3> HIDE DEF Adding
      <3> QED BY <2>1
    <2> HIDE DEF sum, Adding, a
    <2> QED BY <2>2, <1>3
  <1>6. sum[DOMAIN drew] = Total(DOMAIN drew, a, 1, 2)
    <2> HIDE DEF sum, a
    <2> QED BY <1>4, <1>5, SumOfTwo
  <1> HIDE DEF sum
  <1>7. (1 \in DOMAIN drew <=> m > 0) /\ (2 \in DOMAIN drew <=> m > 1)
    OBVIOUS
  <1> QED BY <1>1, <1>6, <1>7 DEF Total

-----------------------------------------------------------------------------
(* What a snapshot says. *)

AFight(drew, total) ==
  /\ \A j, k \in DOMAIN drew :
       j < k => drew[j].name # drew[k].name /\ drew[j].amount >= drew[k].amount
  /\ RowSum(drew) <= total
  /\ Len(drew) < MaxRows => RowSum(drew) = total

AmountTypes == amounts \in [Tabs -> [Ids -> [People -> Nat]]] /\ tab \in Tabs

LEMMA SnapshotTells ==
  ASSUME AmountTypes, NEW i \in Ids, NEW ranking \in Ranked(i), NEW pinned
  PROVE  LET snap == Snapshot(i, ranking, pinned)
         IN AFight(Synced(drawn.rows, snap.rows), snap.total)
  <1> DEFINE t == amounts[tab][i]
             who == {p \in People : t[p] > 0}
             n == Cardinality(who)
             m == IF n < MaxRows THEN n ELSE MaxRows
             drew == [k \in 1 .. m |-> Row(i, ranking[k])]
             total == SumFunction(t)
  <1>1. t \in [People -> Nat]
    BY DEF AmountTypes
  <1>2. IsFiniteSet(who) /\ n \in 0 .. 2
    <2>1. who \subseteq {Me, Ally}
      BY DEF People
    <2>2. IsFiniteSet({Me, Ally}) /\ Cardinality({Me, Ally}) <= 2
      <3>1. IsFiniteSet({Me}) /\ Cardinality({Me}) = 1
        BY FS_Singleton
      <3>2. /\ IsFiniteSet({Me} \cup {Ally})
            /\ Cardinality({Me} \cup {Ally}) = IF Ally \in {Me} THEN 1 ELSE 2
        BY <3>1, FS_AddElement
      <3>3. {Me} \cup {Ally} = {Me, Ally}
        OBVIOUS
      <3> QED BY <3>2, <3>3
    <2>3. IsFiniteSet(who) /\ Cardinality(who) <= Cardinality({Me, Ally})
      BY <2>1, <2>2, FS_Subset
    <2>4. n \in Nat /\ Cardinality({Me, Ally}) \in Nat
      BY <2>2, <2>3, FS_CardinalityType
    <2> HIDE DEF n
    <2> QED BY <2>2, <2>3, <2>4 DEF n
  <1>3. /\ ranking \in [1 .. n -> who] /\ DOMAIN ranking = 1 .. n /\ Len(ranking) = n
        /\ \A j, k \in 1 .. n : ranking[j] = ranking[k] => j = k
        /\ \A j, k \in 1 .. n : j < k => t[ranking[j]] >= t[ranking[k]]
    <2>1. ranking \in [1 .. n -> who] /\ IsInjective(ranking)
          /\ \A j, k \in DOMAIN ranking : j < k => t[ranking[j]] >= t[ranking[k]]
      BY DEF Ranked
    <2>2. n \in Nat /\ DOMAIN ranking = 1 .. n
      BY <1>2, <2>1
    <2> HIDE DEF n
    <2>3. ranking \in Seq(who)
      BY <2>1, <2>2, IsASeq
    <2>4. Len(ranking) = n
      BY <2>2, <2>3, LenProperties
    <2> QED BY <2>1, <2>2, <2>4 DEF IsInjective
  <1>4. m \in 0 .. 2 /\ m <= n /\ DOMAIN drew = 1 .. m /\ (m < MaxRows => m = n)
    BY <1>2, RowsAssumption
  <1>5. \A k \in 1 .. m : /\ drew[k].name = ranking[k]
                          /\ drew[k].amount = t[ranking[k]]
                          /\ ranking[k] \in who /\ t[ranking[k]] \in Nat /\ k \in 1 .. n
    <2> SUFFICES ASSUME NEW k \in 1 .. m
                 PROVE  /\ drew[k].name = ranking[k]
                        /\ drew[k].amount = t[ranking[k]]
                        /\ ranking[k] \in who /\ t[ranking[k]] \in Nat /\ k \in 1 .. n
      OBVIOUS
    <2>1. drew[k] = Row(i, ranking[k])
      OBVIOUS
    <2> HIDE DEF n, m, drew
    <2>2. k \in 1 .. n
      BY <1>2, <1>4
    <2>3. ranking[k] \in who /\ ranking[k] \in People
      BY <1>3, <2>2
    <2> QED BY <1>1, <2>1, <2>2, <2>3 DEF Row
  <1>6. Len(drew) = m
    BY <1>4
  <1> HIDE DEF n, m, drew
  <1>7. RowSum(drew) = (IF m > 0 THEN t[ranking[1]] ELSE 0) + (IF m > 1 THEN t[ranking[2]] ELSE 0)
    <2>1. /\ \A k \in 1 .. m : drew[k].amount \in Nat
          /\ m > 0 => drew[1].amount = t[ranking[1]]
          /\ m > 1 => drew[2].amount = t[ranking[2]]
      BY <1>4, <1>5
    <2> QED BY <1>4, <2>1, RowSumIs
  <1>8. total = t[Me] + (IF Ally # Me THEN t[Ally] ELSE 0)
    <2>1. DOMAIN t = {Me, Ally} /\ \A z \in DOMAIN t : t[z] \in Nat
      BY <1>1 DEF People
    <2>2. total = Total(DOMAIN t, t, Me, Ally)
      BY <2>1, SumFunctionIs
    <2> QED BY <2>1, <2>2 DEF Total
  <1> HIDE DEF total
  <1>9. t[Me] \in Nat /\ t[Ally] \in Nat
    BY <1>1 DEF People
  <1>10. RowSum(drew) <= total /\ (m = n => RowSum(drew) = total)
    <2>1. CASE n = 0
      <3>1. who = {}
        BY <1>2, <2>1, FS_EmptySet DEF n
      <3>2. t[Me] = 0 /\ t[Ally] = 0
        BY <3>1, <1>9 DEF People
      <3> QED BY <2>1, <3>2, <1>4, <1>7, <1>8
    <2>2. CASE n = 1
      <3>1. PICK p : who = {p}
        BY <1>2, <2>2, FS_Singleton DEF n
      <3>2. p \in {Me, Ally} /\ ranking[1] = p /\ \A q \in {Me, Ally} : q # p => t[q] = 0
        <4>1. \A q \in {Me, Ally} : q \notin who => ~(t[q] > 0)
          BY DEF People
        <4>2. p \in {Me, Ally}
          BY <3>1 DEF People
        <4>3. ranking[1] \in who
          BY <1>3, <2>2
        <4> HIDE DEF who
        <4> QED BY <3>1, <4>1, <4>2, <4>3, <1>9
      <3>3. total = t[p]
        BY <3>2, <1>8, <1>9
      <3>4. t[p] \in Nat
        BY <3>2, <1>9
      <3> HIDE DEF t
      <3> QED BY <2>2, <3>2, <3>3, <3>4, <1>4, <1>7
    <2>3. CASE n = 2
      <3>1. /\ ranking[1] \in {Me, Ally} /\ ranking[2] \in {Me, Ally}
            /\ ranking[1] # ranking[2]
        BY <1>3, <2>3 DEF People
      <3>2. t[ranking[1]] + t[ranking[2]] = total
        BY <3>1, <1>8, <1>9
      <3>3. t[ranking[1]] \in Nat /\ t[ranking[2]] \in Nat
        BY <3>1, <1>9
      <3> HIDE DEF t
      <3> QED BY <2>3, <3>2, <3>3, <1>4, <1>7
    <2> QED BY <1>2, <2>1, <2>2, <2>3
  <1>11. \A j, k \in 1 .. m :
           j < k => drew[j].name # drew[k].name /\ drew[j].amount >= drew[k].amount
    BY <1>3, <1>5
  <1>12. AFight(drew, total)
    BY <1>4, <1>6, <1>10, <1>11 DEF AFight
  <1>13. Snapshot(i, ranking, pinned).rows = drew /\ Snapshot(i, ranking, pinned).total = total
    BY <1>3 DEF Snapshot, Sum, drew, total, m
  <1>14. Synced(drawn.rows, drew) = drew
    BY <1>4 DEF Synced, drew
  <1> QED BY <1>12, <1>13, <1>14

-----------------------------------------------------------------------------
(* The meter *)

MetTypes ==
  /\ AmountTypes
  /\ MobList \subseteq Ids /\ (\A i \in MobList : lastSeen[i] \in 0 .. hits)
  /\ hits \in Nat /\ nextId \in Nat
  /\ lastActive \in Ids \cup {NoMob}

(* What the window was last drawn with is one fight, hidden or not. *)
MetInv == MetTypes /\ AFight(drawn.rows, drawn.total)

LEMMA ViewIsListed ==
  ASSUME MetTypes, NEW pinned
  PROVE  ViewMob(pinned) \in Ids \cup {NoMob}
  <1> DEFINE mine == {i \in MobList : PlayerEngaged(i)}
             latest == CHOOSE i \in mine : \A j \in mine : lastSeen[j] <= lastSeen[i]
  <1>1. ASSUME mine # {} PROVE latest \in Ids
    <2> DEFINE T == {lastSeen[i] : i \in mine}
    <2>1. T \in SUBSET Nat /\ T # {} /\ hits \in Nat /\ \A x \in T : x <= hits
      BY <1>1 DEF MetTypes
    <2>2. PICK x \in T : \A y \in T : y <= x
      <3> HIDE DEF T
      <3> QED BY <2>1, GreatestExists
    <2>3. PICK i \in mine : lastSeen[i] = x
      BY <2>2
    <2>4. \A j \in mine : lastSeen[j] <= lastSeen[i]
      BY <2>2, <2>3
    <2>5. latest \in mine
      <3> HIDE DEF mine
      <3> QED BY <2>3, <2>4
    <2> QED BY <2>5 DEF MetTypes
  <1> HIDE DEF latest
  <1> QED BY <1>1 DEF ViewMob, MetTypes, latest

LEMMA MetStarts == MetInit => MetInv
  <1> SUFFICES ASSUME MetInit PROVE MetInv
    OBVIOUS
  <1>1. AmountTypes
    BY DEF MetInit, NoAmounts, AmountTypes, Tabs
  <1>2. MetTypes
    <2>1. MobList = {}
      BY DEF MetInit, MobList
    <2> QED BY <1>1, <2>1 DEF MetInit, MetTypes
  <1>3. AFight(<<>>, 0)
    <2>1. DOMAIN <<>> = 1 .. 0 /\ 0 \in 0 .. 2
      OBVIOUS
    <2>2. RowSum(<<>>) = 0
      BY <2>1, RowSumIs
    <2> QED BY <2>1, <2>2 DEF AFight
  <1> QED BY <1>2, <1>3 DEF MetInv, MetInit, Placeholder

(* A published hit keeps the types. *)
LEMMA PublishKeeps ==
  ASSUME MetTypes, NEW i \in Ids, NEW p \in People, NEW t \in Tabs, Publish(i, p, t),
         UNCHANGED <<tab, lastActive>>, nextId' \in Nat
  PROVE  MetTypes'
  <1>1. amounts' \in [Tabs -> [Ids -> [People -> Nat]]]
    <2>1. amounts[t][i][p] \in Nat
      BY DEF MetTypes, AmountTypes
    <2>2. [amounts[t][i] EXCEPT ![p] = amounts[t][i][p] + 1] \in [People -> Nat]
      BY <2>1 DEF MetTypes, AmountTypes
    <2>3. [amounts[t] EXCEPT ![i] = [amounts[t][i] EXCEPT ![p] = amounts[t][i][p] + 1]]
            \in [Ids -> [People -> Nat]]
      BY <2>2 DEF MetTypes, AmountTypes
    <2> QED BY <2>3 DEF MetTypes, AmountTypes, Publish
  <1>2. /\ MobList' = MobList \cup {i} /\ hits' = hits + 1 /\ hits \in Nat
        /\ \A j \in MobList' : lastSeen'[j] = IF j = i THEN hits' ELSE lastSeen[j]
    BY DEF Publish, MobList, MetTypes
  <1>3. \A j \in MobList' : lastSeen'[j] \in 0 .. hits'
    BY <1>2 DEF MetTypes
  <1> QED BY <1>1, <1>2, <1>3 DEF MetTypes, AmountTypes

LEMMA TickFightKeeps ==
  ASSUME MetInv, NEW view \in Ids, TickFight(view), UNCHANGED <<published, choices>>
  PROVE  /\ lastActive' \in Ids \cup {NoMob}
         /\ AFight(drawn'.rows, drawn'.total)
  <1>1. PICK ranking \in Ranked(view) :
          LET snap == Snapshot(view, ranking, pin' # NoMob)
          IN /\ lastActive' = view \/ lastActive' = lastActive
             /\ \/ drawn' = drawn
                \/ drawn' = [snap EXCEPT !.rows = Synced(drawn.rows, snap.rows)]
    BY DEF TickFight
  <1> DEFINE snap == Snapshot(view, ranking, pin' # NoMob)
             new == [snap EXCEPT !.rows = Synced(drawn.rows, snap.rows)]
  <1>2. new.rows = Synced(drawn.rows, snap.rows) /\ new.total = snap.total
    BY DEF Snapshot
  <1>3. AFight(new.rows, new.total)
    <2>1. AFight(Synced(drawn.rows, snap.rows), snap.total)
      BY SnapshotTells DEF MetInv, MetTypes
    <2> HIDE DEF snap, new
    <2> QED BY <1>2, <2>1
  <1> QED BY <1>1, <1>3 DEF MetInv, MetTypes

LEMMA MetKeeps == MetInv /\ [MetNext]_metVars => MetInv'
  <1> SUFFICES ASSUME MetInv, [MetNext]_metVars PROVE MetInv'
    OBVIOUS
  <1> USE DEF MetInv
  <1>1. ASSUME UNCHANGED <<published, lastActive, tab, drawn>> PROVE MetInv'
    BY <1>1 DEF published, MetTypes, AmountTypes, MobList
  <1>2. ASSUME NEW i \in Ids, NEW p \in People, NEW t \in Tabs, HitAgain(i, p, t)
        PROVE  MetInv'
    BY <1>2, PublishKeeps DEF HitAgain, ticking, choices, MetTypes
  <1>3. ASSUME NEW p \in People, NEW t \in Tabs, HitNew(p, t) PROVE MetInv'
    <2>1. nextId \in Ids /\ nextId' \in Nat
      BY <1>3, MobsAssumption DEF HitNew, Ids, MetTypes
    <2> QED BY <1>3, <2>1, PublishKeeps DEF HitNew, ticking, choices
  <1>4. ASSUME NEW i \in Ids, Unlist(i) PROVE MetInv'
    <2>1. MobList' = MobList \ {i} /\ \A j \in MobList' : lastSeen'[j] = lastSeen[j]
      BY <1>4 DEF Unlist, MobList
    <2> QED BY <1>4, <2>1 DEF Unlist, MetTypes, AmountTypes, ticking, choices
  <1>5. ASSUME Reset PROVE MetInv'
    <2>1. MobList' = {}
      BY <1>5 DEF Reset, MobList
    <2>2. NoAmounts \in [Tabs -> [Ids -> [People -> Nat]]]
      BY DEF NoAmounts
    <2> QED BY <1>5, <2>1, <2>2 DEF Reset, MetTypes, AmountTypes, ticking, choices
  <1>6. ASSUME MeterTick PROVE MetInv'
    <2> DEFINE found == ViewMob(pin')
               view == IF found # NoMob THEN found ELSE lastActive
    <2>1. view \in Ids \cup {NoMob}
      BY ViewIsListed DEF MetTypes
    <2>2. UNCHANGED <<published, choices>>
      BY <1>6 DEF MeterTick
    <2>3. ASSUME UNCHANGED lastActive, drawn' = drawn \/ drawn' = Placeholder PROVE MetInv'
      <3>1. AFight(Placeholder.rows, Placeholder.total)
        <4>1. DOMAIN <<>> = 1 .. 0 /\ 0 \in 0 .. 2
          OBVIOUS
        <4>2. RowSum(<<>>) = 0
          BY <4>1, RowSumIs
        <4> QED BY <4>1, <4>2 DEF AFight, Placeholder
      <3> QED BY <2>2, <2>3, <3>1 DEF published, choices, MetTypes, AmountTypes, MobList
    <2>4. ASSUME TickFight(view) PROVE MetInv'
      <3>1. view \in Ids
        BY <2>1, <2>4 DEF TickFight
      <3>2. /\ lastActive' \in Ids \cup {NoMob}
            /\ AFight(drawn'.rows, drawn'.total)
        <4> HIDE DEF view
        <4> QED BY <2>2, <2>4, <3>1, TickFightKeeps
      <3> QED BY <2>2, <3>2 DEF published, choices, MetTypes, AmountTypes, MobList
    <2>5. TickHidden(view) \/ TickPlaceholder(view) \/ TickFight(view)
      BY <1>6 DEF MeterTick
    <2> QED BY <2>3, <2>4, <2>5 DEF TickHidden, TickPlaceholder
  <1>7. ASSUME PickerClicked \/ \E i \in Ids \cup {NoMob} : PickMob(i) PROVE MetInv'
    BY <1>1, <1>7 DEF PickerClicked, PickMob, ticking, choices
  <1>8. ASSUME NEW t \in Tabs, TabClicked(t) PROVE MetInv'
    BY <1>8 DEF TabClicked, published, ticking, MetTypes, AmountTypes, MobList
  <1>9. ASSUME NEW p \in People, RowClicked(p) PROVE MetInv'
    BY <1>1, <1>9 DEF RowClicked, ticking
  <1>10. ASSUME NEW f \in DOMAIN wanted, NEW b \in BOOLEAN, Want(f, b) PROVE MetInv'
    BY <1>1, <1>10 DEF Want, ticking
  <1>11. ASSUME UNCHANGED metVars PROVE MetInv'
    BY <1>1, <1>11 DEF metVars, ticking, choices
  <1> QED BY <1>2, <1>3, <1>4, <1>5, <1>6, <1>7, <1>8, <1>9, <1>10, <1>11 DEF MetNext

(* The DPS meter, whatever was published, clicked, pinned or reset between two
   of its redraws, and for any numbers of mobs, hits and rows: what it shows is
   one fight, ranked, and adds up (overlay_dps.rs:665-690). *)
THEOREM MeterShowsOneFight == MetSpec => []MeterTellsOneFight
  <1>1. MetInv => MeterTellsOneFight
    BY DEF MetInv, AFight, RowSum, MeterTellsOneFight
  <1> QED BY <1>1, MetStarts, MetKeeps, PTL DEF MetSpec
=============================================================================
