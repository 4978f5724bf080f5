-------------------------------- MODULE Drag --------------------------------
(***************************************************************************)
(* Moving an overlay with the mouse on Linux (overlay_shell.rs): the press *)
(* anchors pointer and window, then a 16 ms timer moves the window after   *)
(* the pointer until the button is released, and the position is saved.    *)
(* The pointer is read in window coordinates.  A plain X server rebases    *)
(* them after every move of the window, a compositor that froze them at    *)
(* the press does not, and the code finds out by its first move (the       *)
(* probe) and the reading of the tick after it.                            *)
(*                                                                         *)
(* Simplifications:                                                        *)
(* - One axis; the code compares the axis along which the probe is longer. *)
(* - A move of the window has taken effect by the next tick.  The pointer   *)
(*   may be anywhere at every tick: nothing in the code bounds its speed.  *)
(***************************************************************************)
EXTENDS Integers

CONSTANTS
  ProbeMin,     \* PROBE_MIN_PX: travel before the first move
  Reach,        \* bound on the pointer's distance from the press
  MaxTicks      \* DRAG_MAX_MS in ticks

ASSUME DragAssumption == ProbeMin \in Nat

VARIABLES
  frozen,       \* TRUE: local coordinates stay in the frame of the press
  pointer,      \* where the pointer is on the screen; pressed at 0
  window,       \* where the window is; at 0 when pressed
  down,         \* button 1 is held
  drag,         \* [mode, probe, at]: DragMode, its move and the reading then
  ticks,
  read,         \* ghost: where the last tick that read the pointer saw it
  steady,       \* ghost: it did not go far while the server was being told
  saved         \* the position saved, once the drag has ended

dragVars == <<frozen, pointer, window, down, drag, ticks, read, steady, saved>>

Unsaved == [at |-> 0, is |-> FALSE]

DragInit ==
  /\ frozen \in BOOLEAN
  /\ pointer = 0 /\ window = 0 /\ down = FALSE
  /\ drag = [mode |-> "none", probe |-> 0, at |-> 0]
  /\ ticks = 0 /\ read = 0 /\ steady = TRUE /\ saved = Unsaved

(* begin_drag.  If the pointer cannot be read, or the button is already up,
   poll_until_stable saves the position the window rests at. *)
BeginDrag ==
  /\ drag.mode = "none"
  /\ \/ /\ down' = TRUE
        /\ drag' = [drag EXCEPT !.mode = "probe"]
     \/ /\ down' = FALSE
        /\ drag' = [drag EXCEPT !.mode = "settle"]
  /\ UNCHANGED <<frozen, pointer, window, ticks, read, steady, saved>>

Dragging == drag.mode \in {"probe", "sense", "absolute", "incremental"}

Move ==
  /\ Dragging
  /\ pointer' \in -Reach..Reach
  /\ UNCHANGED <<frozen, window, down, drag, ticks, read, steady, saved>>

Release ==
  /\ Dragging /\ down
  /\ down' = FALSE
  /\ UNCHANGED <<frozen, pointer, window, drag, ticks, read, steady, saved>>

(* pointer_local less its reading at the press. *)
Local == IF frozen THEN pointer ELSE pointer - window

Magnitude(n) == IF n < 0 THEN -n ELSE n

(* Half a move, rounded towards zero as Rust divides. *)
Half(n) == IF n < 0 THEN -(Magnitude(n) \div 2) ELSE n \div 2

RebasedNever == FALSE

(* The reading dropped by about the probe. *)
Rebased ==
  LET shift == Local - drag.at
  IN IF drag.probe >= 0 THEN shift <= -Half(drag.probe) ELSE shift >= -Half(drag.probe)

(* The mode this tick works in. *)
Sensed ==
  IF drag.mode # "sense" THEN drag.mode
  ELSE IF Rebased THEN "incremental" ELSE "absolute"

Finish ==
  /\ drag' = [drag EXCEPT !.mode = "done"]
  /\ saved' = [at |-> window', is |-> TRUE]

(* Until the button is up or the ceiling is reached. *)
Again(mode, probe) ==
  IF down /\ ticks < MaxTicks
  THEN /\ drag' = [mode |-> mode, probe |-> probe, at |-> Local]
       /\ ticks' = ticks + 1 /\ UNCHANGED saved
  ELSE Finish /\ UNCHANGED ticks

Probe ==
  /\ Sensed = "probe"
  /\ IF Magnitude(Local) >= ProbeMin
     THEN window' = Local /\ Again("sense", Local)
     ELSE UNCHANGED window /\ Again("probe", 0)

Absolute ==
  /\ Sensed = "absolute"
  /\ window' = Local
  /\ Again("absolute", 0)

Incremental ==
  /\ Sensed = "incremental"
  /\ window' = window + Local
  /\ Again("incremental", 0)

(* The window's own position cannot be read: this tick does not move it. *)
IncrementalBlind ==
  /\ Sensed = "incremental"
  /\ UNCHANGED window
  /\ Again("incremental", 0)

(* Between the first move and the tick that tells the servers apart the
   pointer went less than half as far as that move. *)
Steady ==
  drag.mode = "sense" => Magnitude(pointer - read) < Magnitude(drag.probe) \div 2

Tick ==
  /\ \/ Probe \/ Absolute \/ Incremental
  /\ read' = pointer /\ steady' = (steady /\ Steady)
  /\ UNCHANGED <<frozen, pointer, down>>

(* The pointer cannot be read any more: save what there is. *)
PointerLost ==
  /\ Dragging
  /\ UNCHANGED <<frozen, pointer, window, down, ticks, read, steady>>
  /\ Finish

PositionLost ==
  /\ IncrementalBlind
  /\ steady' = (steady /\ Steady)
  /\ UNCHANGED <<frozen, pointer, down, read>>

(* poll_until_stable has read the same position for STABLE_HOLD_MS. *)
Settle ==
  /\ drag.mode = "settle"
  /\ UNCHANGED <<frozen, pointer, window, down, ticks, read, steady>>
  /\ Finish

DragNext == BeginDrag \/ Move \/ Release \/ Tick \/ PointerLost \/ PositionLost \/ Settle

DragSpec == DragInit /\ [][DragNext]_dragVars

-----------------------------------------------------------------------------
(* Once a drag has moved the window, the window is where the pointer has
   carried it, on either kind of server and at any speed, and that is what is
   saved: neither a feedback of the window's own moves nor a second application
   of the same travel (overlay_shell.rs:114-122, 168-200).  The one exception is
   a pointer that goes on by half the first move or more before the next tick, as
   when it moves fast all along: the reading it leaves is the other server's,
   which the drag then takes this one for until its end. *)
FollowsPointer ==
  steady =>
    /\ drag.mode \in {"sense", "absolute", "incremental"} => window = read
    /\ saved.is => saved.at = window /\ (window # 0 => window = read)
=============================================================================
