-------------------------------- MODULE Desk --------------------------------
(***************************************************************************)
(* An overlay window and the settings about it: Config in memory and on    *)
(* disk, the text boxes and switches of the Settings window                *)
(* (settings_window.rs), dragging and resizing (overlay_shell.rs), and     *)
(* where the window manager puts the window.  Settings copies Config when  *)
(* it opens and writes all its boxes back whenever one of them is left, so *)
(* a box that lags behind Config undoes what was set elsewhere.  A drag    *)
(* brings its boxes along; a resize and the tray menu do not.              *)
(*                                                                         *)
(* Simplifications:                                                        *)
(* - One overlay; a position, a width, its two switches (enabled, locked)  *)
(*   and the sound volume stand for the fields of their kinds.             *)
(* - A drag is one step (module Drag), and its end is never at (-1, -1),   *)
(*   which the code takes for "never positioned".                          *)
(* - Saving succeeds; a resize whose pointer cannot be read any more is    *)
(*   abandoned.                                                            *)
(***************************************************************************)
EXTENDS Naturals

CONSTANTS
  Unset,        \* the position (-1, -1)
  Bad,          \* text that does not parse
  MaxActs       \* bound on what the user does

Values == {1, 2}
TextFields == {"pos", "width"}
Switches == {"enabled", "locked"}
Widgets == TextFields \cup Switches
Fields == Widgets \cup {"volume"}

VARIABLES
  config,       \* handle.config
  disk,         \* config.toml
  open,         \* Settings is open
  box,          \* what its text boxes and switches say
  typed,        \* ghost: boxes edited and not yet left
  shown,        \* the overlay is visible
  forced,       \* force_show_windows
  place,        \* where the window is; Unset: where the window manager put it
  audio,        \* the volume the player uses
  resizing,     \* a width resize is going on
  lost,         \* ghost: one was abandoned and nothing saved since
  wish,         \* ghost: what the user last set, field by field
  behind,       \* ghost: fields resized or switched from the tray, not in Settings,
                \* since it was opened or last saved their boxes
  undone,       \* ghost: fields whose boxes were saved while behind
  acts

deskVars == <<config, disk, open, box, typed, shown, forced, place, audio,
              resizing, lost, wish, behind, undone, acts>>
boxGhosts == <<behind, undone>>

DeskInit ==
  /\ config = [f \in Fields |-> IF f = "pos" THEN Unset ELSE 1]
  /\ disk = config /\ wish = config
  /\ open = FALSE /\ box = [f \in Widgets |-> config[f]] /\ typed = {}
  /\ shown = FALSE /\ forced = FALSE /\ place = Unset /\ audio = config["volume"]
  /\ resizing = FALSE /\ lost = FALSE
  /\ behind = {} /\ undone = {} /\ acts = 0

Act == acts < MaxActs /\ acts' = acts + 1

Save(c) == config' = c /\ disk' = c /\ lost' = FALSE

(* open_settings and load_config. *)
OpenSettings ==
  /\ Act /\ ~open
  /\ open' = TRUE
  /\ box' = [f \in Widgets |-> config[f]]
  /\ typed' = {}
  /\ UNCHANGED <<config, disk, shown, forced, place, audio, resizing, lost, wish, boxGhosts>>

(* The user types in a box. *)
Type(f, v) ==
  /\ Act /\ open
  /\ box' = [box EXCEPT ![f] = v] /\ typed' = typed \cup {f}
  /\ UNCHANGED <<config, disk, open, shown, forced, place, audio, resizing, lost,
                 wish, boxGhosts>>

(* parse_or: text that does not parse leaves the field alone. *)
Parsed(b, f) == IF f \in TextFields /\ b[f] # Bad THEN b[f] ELSE config[f]

(* Boxes are saved, for the sake of those meant: the others undo what was set
   elsewhere if they are behind. *)
BoxesSaved(boxes, meant) ==
  /\ undone' = (undone \ meant) \cup
                 {f \in (boxes \cap behind) \ meant : config'[f] # config[f]}
  /\ behind' = behind \ boxes

(* save_appearance: every box at once.  What the user meant is what was
   typed; the other boxes are only along. *)
SaveAppearance(b, meant) ==
  /\ Save([f \in Fields |-> Parsed(b, f)])
  /\ box' = b /\ typed' = {}
  /\ wish' = [f \in Fields |-> IF f \in meant THEN Parsed(b, f) ELSE wish[f]]
  /\ BoxesSaved(TextFields, meant)

(* A text box loses focus. *)
CommitAppearance ==
  /\ open /\ typed # {}
  /\ SaveAppearance(box, typed)
  /\ UNCHANGED <<open, shown, forced, place, audio, resizing, acts>>

(* A Reset Position button; the window itself stays where it is. *)
ResetPosition ==
  /\ Act /\ open
  /\ SaveAppearance([box EXCEPT !["pos"] = Unset], typed \cup {"pos"})
  /\ UNCHANGED <<open, shown, forced, place, audio, resizing>>

(* One of the overlay's two switches; both are saved as the window has them. *)
FlipSwitch(f) ==
  /\ Act /\ open
  /\ box' = [box EXCEPT ![f] = 3 - @]
  /\ Save([g \in Fields |-> IF g \in Switches THEN box'[g] ELSE config[g]])
  /\ wish' = [wish EXCEPT ![f] = box'[f]]
  /\ BoxesSaved(Switches, {f})
  /\ UNCHANGED <<open, typed, shown, forced, place, audio, resizing>>

(* The volume is saved, and told to the player. *)
SetVolume(v) ==
  /\ Act /\ open
  /\ Save([config EXCEPT !["volume"] = v])
  /\ wish' = [wish EXCEPT !["volume"] = v]
  /\ audio' = v
  /\ UNCHANGED <<open, box, typed, shown, forced, place, resizing, boxGhosts>>

(* Set beside Settings: its box, if it is open, is behind from now on. *)
SetBeside(f) ==
  /\ behind' = IF open THEN behind \cup {f} ELSE behind
  /\ undone' = undone \ {f}

(* The tray menu flips the overlay's first switch. *)
ToggleFromTray ==
  /\ Act
  /\ Save([config EXCEPT !["enabled"] = 3 - @])
  /\ wish' = [wish EXCEPT !["enabled"] = 3 - config["enabled"]]
  /\ SetBeside("enabled")
  /\ UNCHANGED <<open, box, typed, shown, forced, place, audio, resizing>>

(* Show All Windows. *)
ShowAll ==
  /\ Act /\ open
  /\ forced' = ~forced
  /\ UNCHANGED <<config, disk, open, box, typed, shown, place, audio, resizing,
                 lost, wish, boxGhosts>>

(* finish_close_bookkeeping; a box still being edited is dropped. *)
CloseSettings ==
  /\ open
  /\ open' = FALSE /\ forced' = FALSE /\ typed' = {} /\ behind' = {}
  /\ UNCHANGED <<config, disk, box, shown, place, audio, resizing, lost, wish, undone, acts>>

FollowedNever(v) == box

(* sync_window_position: the boxes follow a drag. *)
Followed(v) == IF open THEN [box EXCEPT !["pos"] = v] ELSE box

(* begin_drag to save_position; a position still being typed gives way. *)
DragTo(v) ==
  /\ Act /\ shown /\ ~resizing
  /\ place' = v
  /\ Save([config EXCEPT !["pos"] = v])
  /\ box' = Followed(v) /\ typed' = typed \ {"pos"}
  /\ wish' = [wish EXCEPT !["pos"] = v]
  /\ UNCHANGED <<open, shown, forced, audio, resizing, boxGhosts>>

(* begin_width_resize, and each step of it: only Config in memory changes. *)
BeginWidthResize ==
  /\ Act /\ shown /\ ~resizing
  /\ resizing' = TRUE
  /\ UNCHANGED <<config, disk, open, box, typed, shown, forced, place, audio,
                 lost, wish, boxGhosts>>

WidthResizeStep(v) ==
  /\ resizing
  /\ config' = [config EXCEPT !["width"] = v]
  /\ wish' = [wish EXCEPT !["width"] = v]
  /\ SetBeside("width")
  /\ UNCHANGED <<disk, open, box, typed, shown, forced, place, audio, resizing,
                 lost, acts>>

(* The button is up: save_width. *)
WidthResizeEnd ==
  /\ resizing
  /\ resizing' = FALSE
  /\ Save(config)
  /\ UNCHANGED <<open, box, typed, shown, forced, place, audio, wish,
                 boxGhosts, acts>>

(* The pointer cannot be read: the loop ends without saving. *)
WidthResizeLost ==
  /\ resizing
  /\ resizing' = FALSE /\ lost' = TRUE
  /\ UNCHANGED <<config, disk, open, box, typed, shown, forced, place, audio,
                 wish, boxGhosts, acts>>

(* Mapping a window lets the window manager place it; apply_saved_position
   then puts it where Config says, if it says anything. *)
Applied == config["pos"]

Shows ==
  /\ ~shown /\ (config["enabled"] = 1 \/ forced)
  /\ shown' = TRUE
  /\ place' = Applied
  /\ UNCHANGED <<config, disk, open, box, typed, forced, audio, resizing, lost,
                 wish, boxGhosts, acts>>

(* Disabled, or nothing to show. *)
Hide ==
  /\ shown /\ ~resizing
  /\ shown' = FALSE
  /\ UNCHANGED <<config, disk, open, box, typed, forced, place, audio, resizing,
                 lost, wish, boxGhosts, acts>>

(* The program is quit and started: everything comes from the file. *)
Restart ==
  /\ Act
  /\ config' = disk
  /\ open' = FALSE /\ forced' = FALSE /\ typed' = {} /\ shown' = FALSE
  /\ resizing' = FALSE /\ lost' = FALSE /\ behind' = {}
  /\ audio' = disk["volume"] /\ place' = disk["pos"]
  /\ wish' = IF resizing \/ lost THEN [wish EXCEPT !["width"] = disk["width"]] ELSE wish
  /\ UNCHANGED <<disk, box, undone>>

DeskNext ==
  \/ OpenSettings \/ ToggleFromTray \/ CommitAppearance \/ ResetPosition \/ ShowAll \/ CloseSettings
  \/ \E f \in TextFields, v \in Values \cup {Bad} : Type(f, v)
  \/ \E f \in Switches : FlipSwitch(f)
  \/ \E v \in Values : SetVolume(v)
  \/ \E v \in Values : DragTo(v) \/ WidthResizeStep(v)
  \/ BeginWidthResize \/ WidthResizeEnd \/ WidthResizeLost
  \/ Shows \/ Hide \/ Restart

DeskSpec == DeskInit /\ [][DeskNext]_deskVars

-----------------------------------------------------------------------------
(* What the user last said about a setting is what is in effect, whatever was
   saved in between and after a restart (settings_window.rs:1068-1079, 241-269).
   So a box of Settings that lags behind never writes an old value back, but in
   two cases, where nothing brings the box along: a width resized, or a switch
   flipped from the tray, while Settings is open is undone by the next box or
   paired switch that is saved. *)
LastWordWins ==
  /\ \A f \in Fields \ undone : config[f] = wish[f]
  /\ undone \subseteq {"width", "enabled"}
  /\ audio = config["volume"]
=============================================================================
