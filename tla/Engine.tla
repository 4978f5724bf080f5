------------------------------- MODULE Engine -------------------------------
(***************************************************************************)
(* The froklog client's engine and its threads (main.rs): a monitor that   *)
(* starts one engine after another, the tailer, parser and pusher threads  *)
(* of each, the watcher that follows the game from log to log, and the     *)
(* tray and Settings actions that change the configuration.  They talk     *)
(* through three shared flags (restart, quit, connected) polled at         *)
(* different rates, so a thread of an old engine may outlive its engine.   *)
(*                                                                         *)
(* Simplifications:                                                        *)
(* - The splitter, parser, trigger and sink threads end with the tailer.    *)
(* - What a pusher does between its start and its end is Delivery's; here   *)
(*   it sets and clears connected as it likes.                              *)
(* - The server URL is fixed; testing a new one acts like SetRemote.       *)
(* - Profiles are told apart by their log; no two have the same.           *)
(* - Only the pause between two engines is timed, in ticks of 100 ms: the  *)
(*   monitor sleeps 500 ms whatever the threads do, and a tailer polls the *)
(*   flags every 200 ms unless it is blocked handing a line to a full      *)
(*   channel.  Nothing is assumed about the pusher, which may be asleep    *)
(*   for 5 s, or about how long a blocked tailer stays blocked.            *)
(* - late and overlooked are history variables: no action reads them.      *)
(***************************************************************************)
EXTENDS Naturals, Sequences

CONSTANTS
  Logs,         \* log files the game may write
  MaxEngines,   \* bound on engines started
  MaxActs,      \* bound on what the user and the game do, and on tailers that
                \* block or die
  MonitorPause, \* the monitor's sleep between engines, in ticks (500 ms)
  TailerPoll,   \* the tailer's longest time between polls, in ticks (200 ms)
  None

ASSUME TimingAssumption ==
  MonitorPause \in Nat /\ TailerPoll \in Nat /\ TailerPoll < MonitorPause

VARIABLES
  cfg,          \* handle.config: [profiles, mode, stream, remote]
  written,      \* logs in the order of their last write, oldest first
  logging,      \* logging_enabled
  restart, quit, connected,
  mon,          \* the monitor: [pc, cfg, left]: its clone, its pause's ticks
  eng,          \* engines started: [tailer, pusher]
  target,       \* what the last one was started on: [log, remote]
  seen,         \* the watcher's last_resolved
  register,     \* a registration thread is waiting for the server
  acts,
  late,         \* engines whose tailer was blocked when the last pause ran out
  overlooked    \* a change of log or stream the running engine will not hear of

engVars == <<cfg, written, logging, restart, quit, connected, mon, eng, target,
             seen, register, acts, late, overlooked>>
conf == <<cfg, written, logging, seen, register, acts>>
ghosts == <<late, overlooked>>

Elements(s) == {s[i] : i \in 1..Len(s)}

(* resolve_active_profile: the pinned profile, else the one written last,
   else the first. *)
Active(c) ==
  IF c.profiles = <<>> THEN None
  ELSE IF c.mode \in Elements(c.profiles) THEN c.mode
  ELSE LET recent == {i \in 1..Len(written) : written[i] \in Elements(c.profiles)}
       IN IF c.mode = "auto" /\ recent # {}
          THEN written[CHOOSE i \in recent : \A j \in recent : j <= i]
          ELSE c.profiles[1]

(* remote_ready; the stream stands for its id and token. *)
RemoteReady(c) == IF c.remote /\ c.profiles # <<>> THEN c.stream ELSE 0

(* The engine that runs does not read log, and nothing asks it to end. *)
Astray(log) ==
  mon.pc = "run" /\ ~restart /\ target.log # log

EngInit ==
  /\ \E l \in Logs, r \in BOOLEAN : \E m \in {"auto", l} :
       cfg = [profiles |-> <<l>>, mode |-> m, stream |-> 1, remote |-> r]
  /\ written = <<>>
  /\ logging = TRUE
  /\ restart = FALSE /\ quit = FALSE /\ connected = FALSE
  /\ mon = [pc |-> "top", cfg |-> None, left |-> 0]
  /\ eng = <<>> /\ target = [log |-> None, remote |-> 0]
  /\ seen = None
  /\ register = FALSE
  /\ acts = 0
  /\ late = {} /\ overlooked = FALSE
-----------------------------------------------------------------------------
(* spawn_engine: the monitor. *)

MonitorRead ==
  /\ mon.pc = "top" /\ ~quit /\ logging /\ cfg.profiles # <<>>
  /\ mon' = [pc |-> "read", cfg |-> cfg, left |-> 0]
  /\ overlooked' = FALSE
  /\ UNCHANGED <<conf, restart, quit, connected, eng, target, late>>

(* The flag is cleared, then run_engine_once resolves the log and starts the
   threads; without a remote target it clears connected itself. *)
MonitorStart ==
  /\ mon.pc = "read" /\ Len(eng) < MaxEngines
  /\ restart' = FALSE
  /\ LET remote == RemoteReady(mon.cfg)
     IN /\ target' = [log |-> Active(mon.cfg), remote |-> remote]
        /\ eng' = Append(eng, [tailer |-> "on",
                               pusher |-> IF remote = 0 THEN "none" ELSE "on"])
        /\ connected' = (connected /\ remote # 0)
  /\ mon' = [pc |-> "run", cfg |-> None, left |-> 0]
  /\ UNCHANGED <<conf, quit, ghosts>>

MonitorLeave ==
  /\ mon.pc = "run" /\ (restart \/ quit)
  /\ mon' = [mon EXCEPT !.pc = IF quit THEN "end" ELSE "pause",
                        !.left = IF quit THEN 0 ELSE MonitorPause]
  /\ UNCHANGED <<conf, restart, quit, connected, eng, target, ghosts>>

(* A tick of the pause.  A tailer that is not blocked polls in time: its tick
   waits for it, the monitor's sleep does not. *)
Elapse ==
  /\ mon.pc = "pause" /\ mon.left > 0
  /\ \A i \in 1..Len(eng) :
       eng[i].tailer = "on" => MonitorPause - mon.left < TailerPoll
  /\ mon' = [mon EXCEPT !.left = @ - 1]
  /\ late' = IF mon.left = 1 THEN {i \in 1..Len(eng) : eng[i].tailer = "blocked"}
             ELSE late
  /\ UNCHANGED <<conf, restart, quit, connected, eng, target, overlooked>>

(* Faulty variant: no pause between two engines. *)
PauseOverAtOnce == TRUE

PauseOver == mon.left = 0

MonitorResume ==
  /\ mon.pc = "pause" /\ PauseOver
  /\ mon' = [mon EXCEPT !.pc = IF quit THEN "end" ELSE "top"]
  /\ UNCHANGED <<conf, restart, quit, connected, eng, target, ghosts>>

MonitorQuit ==
  /\ mon.pc = "top" /\ quit
  /\ mon' = [mon EXCEPT !.pc = "end"]
  /\ UNCHANGED <<conf, restart, quit, connected, eng, target, ghosts>>
-----------------------------------------------------------------------------
(* The threads of engine i. *)

(* The tailer polls the flags and, unless the program quits, sets restart as
   it leaves, whatever made it leave. *)
TailerLeaves(i) ==
  /\ eng' = [eng EXCEPT ![i].tailer = "gone"]
  /\ restart' = (restart \/ ~quit)

TailerStops(i) ==
  /\ eng[i].tailer = "on" /\ (restart \/ quit)
  /\ TailerLeaves(i)
  /\ UNCHANGED <<conf, quit, connected, mon, target, ghosts>>

(* Its channel has closed because a thread behind it died. *)
TailerFails(i) ==
  /\ eng[i].tailer # "gone" /\ acts < MaxActs
  /\ acts' = acts + 1
  /\ TailerLeaves(i)
  /\ UNCHANGED <<cfg, written, logging, seen, register, quit, connected, mon,
                 target, ghosts>>

(* The channel is full: the send holds the whole thread, its poll included,
   until the parser has taken a line. *)
TailerBlocks(i) ==
  /\ eng[i].tailer = "on" /\ acts < MaxActs
  /\ acts' = acts + 1
  /\ eng' = [eng EXCEPT ![i].tailer = "blocked"]
  /\ UNCHANGED <<cfg, written, logging, seen, register, restart, quit,
                 connected, mon, target, ghosts>>

TailerUnblocks(i) ==
  /\ eng[i].tailer = "blocked"
  /\ eng' = [eng EXCEPT ![i].tailer = "on"]
  /\ UNCHANGED <<conf, restart, quit, connected, mon, target, ghosts>>

(* push_to_server, whether or not its engine is the running one. *)
PusherReports(i) ==
  /\ eng[i].pusher = "on"
  /\ connected' = ~connected
  /\ UNCHANGED <<conf, restart, quit, mon, eng, target, ghosts>>

(* Between connections it reads the flags; connected, it ends when the event
   channel is closed. *)
PusherEnds(i) ==
  /\ eng[i].pusher = "on" /\ (restart \/ quit \/ eng[i].tailer = "gone")
  /\ eng' = [eng EXCEPT ![i].pusher = "gone"]
  /\ connected' = FALSE
  /\ UNCHANGED <<conf, restart, quit, mon, target, ghosts>>

Thread(i) ==
  \/ TailerStops(i) \/ TailerUnblocks(i) \/ TailerFails(i) \/ TailerBlocks(i)
  \/ PusherReports(i) \/ PusherEnds(i)
-----------------------------------------------------------------------------
(* spawn_profile_watcher: only in Auto mode; its first look restarts nothing. *)

(* Faulty variant: remembers the log without asking for a restart. *)
WatcherLooksOnly ==
  /\ ~quit /\ cfg.mode = "auto" /\ Active(cfg) # seen
  /\ seen' = Active(cfg)
  /\ UNCHANGED <<cfg, written, logging, register, acts, restart, quit,
                 connected, mon, eng, target, ghosts>>

(* A first look after the game has changed logs changes nothing. *)
WatcherLooks ==
  /\ ~quit /\ cfg.mode = "auto" /\ Active(cfg) # seen
  /\ seen' = Active(cfg)
  /\ restart' = (restart \/ seen # None)
  /\ overlooked' = (overlooked \/ (seen = None /\ Astray(Active(cfg))))
  /\ UNCHANGED <<cfg, written, logging, register, acts, quit,
                 connected, mon, eng, target, late>>

(* The game writes to a log: it becomes the latest.  Back on the log the
   watcher saw last, it is not told from one that never changed, though the
   engine was meanwhile restarted, for another reason, on the other. *)
GameWrites(l) ==
  /\ acts < MaxActs
  /\ written' = Append(SelectSeq(written, LAMBDA x : x # l), l)
  /\ written' # written
  /\ acts' = acts + 1
  /\ UNCHANGED <<cfg, logging, seen, register, restart, quit, connected,
                 mon, eng, target, late>>
  /\ overlooked' = (overlooked \/ (/\ cfg.mode = "auto"
                                  /\ Active(cfg)' = seen /\ Astray(seen)))
-----------------------------------------------------------------------------
(* The tray and the Settings window, all on the event loop's thread. *)

(* Settings saves c; restart is asked for when wanted.  The request is wiped
   between the monitor's two reads (its clone is the old configuration); and
   no request is made when the game had already moved to the log that c pins,
   which the watcher will no longer look for. *)
Save(c, wanted) ==
  /\ acts < MaxActs /\ ~quit
  /\ c # cfg
  /\ cfg' = c
  /\ restart' = (restart \/ wanted)
  /\ overlooked' = (\/ overlooked
                    \/ mon.pc = "read"
                    \/ ~wanted /\ c.mode # "auto" /\ Astray(Active(c)))
  /\ acts' = acts + 1
  /\ UNCHANGED <<written, logging, seen, quit, connected, mon, eng, target, late>>

(* mutate_log_profiles: only a change of the active log restarts. *)
MutateProfiles(c) == Save(c, Active(c) # Active(cfg)) /\ UNCHANGED register

AddProfile(l) ==
  /\ l \notin Elements(cfg.profiles)
  /\ MutateProfiles([cfg EXCEPT !.profiles = Append(@, l)])

(* A pinned profile that is removed turns Auto on. *)
RemoveProfile(l) ==
  /\ l \in Elements(cfg.profiles)
  /\ MutateProfiles([cfg EXCEPT
       !.profiles = SelectSeq(@, LAMBDA x : x # l),
       !.mode = IF @ = l THEN "auto" ELSE @])

(* The edited profile keeps its place, and its pin. *)
EditProfile(l, k) ==
  /\ l \in Elements(cfg.profiles) /\ k \notin Elements(cfg.profiles)
  /\ MutateProfiles([cfg EXCEPT
       !.profiles = [i \in 1..Len(@) |-> IF @[i] = l THEN k ELSE @[i]],
       !.mode = IF @ = l THEN k ELSE @])

SetActive(l) ==
  /\ l \in Elements(cfg.profiles)
  /\ MutateProfiles([cfg EXCEPT !.mode = l])

SetAuto == MutateProfiles([cfg EXCEPT !.mode = "auto"])

SetRemote ==
  Save([cfg EXCEPT !.remote = ~@], TRUE) /\ UNCHANGED register

Unregister ==
  /\ cfg.stream # 0
  /\ Save([cfg EXCEPT !.stream = 0], TRUE) /\ UNCHANGED register

RegisterStart ==
  /\ cfg.stream = 0 /\ ~register /\ cfg.profiles # <<>> /\ ~quit
  /\ register' = TRUE
  /\ UNCHANGED <<cfg, written, logging, seen, acts, restart, quit,
                 connected, mon, eng, target, ghosts>>

(* The answer arrives later, on the event loop: a stream, or an error. *)
RegisterDone ==
  /\ register
  /\ register' = FALSE
  /\ \/ Save([cfg EXCEPT !.stream = 2], TRUE)
     \/ UNCHANGED <<cfg, written, logging, seen, acts, restart, quit,
                    connected, mon, eng, target, ghosts>>

(* toggle_logging: only enabling asks for a restart. *)
ToggleLogging ==
  /\ acts < MaxActs /\ ~quit
  /\ logging' = ~logging
  /\ restart' = (restart \/ ~logging)
  /\ acts' = acts + 1
  /\ UNCHANGED <<cfg, written, seen, register, quit, connected, mon, eng, target, ghosts>>

Quit ==
  /\ ~quit /\ acts < MaxActs
  /\ quit' = TRUE
  /\ acts' = acts + 1
  /\ UNCHANGED <<cfg, written, logging, seen, register, restart,
                 connected, mon, eng, target, ghosts>>

Monitor ==
  \/ MonitorRead \/ MonitorStart \/ MonitorLeave \/ Elapse \/ MonitorResume
  \/ MonitorQuit

User ==
  \/ \E l \in Logs : AddProfile(l) \/ RemoveProfile(l) \/ SetActive(l)
  \/ \E l, k \in Logs : EditProfile(l, k)
  \/ SetAuto \/ SetRemote \/ Unregister \/ RegisterStart \/ RegisterDone
  \/ ToggleLogging \/ Quit

EngNext ==
  \/ Monitor \/ WatcherLooks \/ User
  \/ \E l \in Logs : GameWrites(l)
  \/ \E i \in 1..Len(eng) : Thread(i)

EngSpec == EngInit /\ [][EngNext]_engVars
-----------------------------------------------------------------------------
Serving ==
  /\ mon.pc = "run" /\ eng[Len(eng)].tailer = "on"
  /\ target = [log |-> Active(cfg), remote |-> RemoteReady(cfg)]

(* Two tailers at once read the log twice over, into the same overlays and the
   same stream.  That takes an older tailer that was still blocked on its full
   channel when the monitor's pause ran out; every other one has stopped, though
   nobody waits for it, however restarts, toggles and dying threads follow one
   another. *)
OneTailer ==
  \A i, j \in 1..Len(eng) :
    i < j /\ eng[i].tailer # "gone" /\ eng[j].tailer # "gone" => i \in late

(* Once the user and the game pause, the engine that runs reads the active log
   and pushes to the configured stream, and a tailer that died is replaced,
   but for a change made in one of four ways: saved between the monitor's two
   reads, before the watcher's first look, undone before the watcher looked, or
   pinned after the game had made it and before the watcher looked. *)
EngineFollows ==
  []<>(Serving \/ overlooked \/ quit \/ ~logging \/ cfg.profiles = <<>>)
=============================================================================
