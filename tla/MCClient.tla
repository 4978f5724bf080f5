------------------------------ MODULE MCClient ------------------------------
(* The client's threads, seen twice: which engine runs and ends (Engine), and
   what becomes of the lines between the log and the server (Delivery).  The
   two share no state; each is explored while the other stands still. *)
EXTENDS Engine, Delivery

VARIABLE part

vars == <<part, engVars, delVars>>

Init ==
  /\ EngInit /\ DelInit
  /\ \/ /\ part = "engine" /\ mode = "live" /\ halves = 0
        /\ cfg.profiles[1] = (CHOOSE l \in Logs : TRUE)
     \/ part = "delivery" /\ Active(cfg) = (CHOOSE l \in Logs : TRUE) /\ cfg.remote /\ cfg.mode = "auto"

Next ==
  /\ UNCHANGED part
  /\ \/ part = "engine" /\ EngNext /\ UNCHANGED delVars
     \/ part = "delivery" /\ DelNext /\ UNCHANGED engVars

(* Threads are scheduled, the watcher's timer fires, and a full channel is read
   from in the end; each while its part is the one explored. *)
Tailers == \E i \in 1..Len(eng) : TailerStops(i) \/ TailerUnblocks(i)

Fairness ==
  /\ WF_engVars(part = "engine" /\ Monitor) /\ WF_engVars(part = "engine" /\ WatcherLooks)
  /\ WF_engVars(part = "engine" /\ Tailers)
  /\ WF_delVars(part = "delivery" /\ Tailer) /\ WF_delVars(part = "delivery" /\ Pusher)
  /\ WF_delVars(part = "delivery" /\ PushReceives) /\ WF_delVars(part = "delivery" /\ Process)

Spec == Init /\ [][Next]_vars /\ Fairness

(* Engine's EngineFollows, where the engine is what runs: once the user and
   the game pause, the engine serves the active log and the configured stream. *)
RunningEngineFollows == part = "engine" => EngineFollows
=============================================================================
