------------------------------- MODULE Alerts -------------------------------
(***************************************************************************)
(* Triggers and the windows that show what they fire (triggers.rs,         *)
(* alert_engine.rs, overlay.rs, overlay_merged.rs, overlay_notice.rs,      *)
(* overlay_history.rs).  The trigger engine matches each line against its  *)
(* triggers and fires alerts now or later into two queues; the windows     *)
(* drain them on their own timers, show one alert at a time and leave it   *)
(* in the history.  Settings reloads triggers, fires tests, switches       *)
(* between the two alert windows and shows all windows for placing them;   *)
(* windows sleep while the game writes nothing.                            *)
(*                                                                         *)
(* A line is the function from patterns it matches to what they capture,   *)
(* so regexes, globs and chat channels are all "match" conditions.         *)
(* Left out: speech, sounds, alerts without a text, animation, overlays     *)
(* switched off, and the trimming of the history.                          *)
(***************************************************************************)
EXTENDS Naturals, FiniteSets, Sequences, SequencesExt, SequenceParts

CONSTANTS
  Configs,     \* trigger files: sequences of [conds, logic, actions]
  LogLines,    \* the lines the game writes
  MaxFired,    \* bound on alerts fired
  MaxUser,     \* bound on what the user does in Settings
  IdleHides,   \* TRUE: history_idle_secs is set for the merged window
  Nothing

VARIABLES
  cfg,         \* triggers as loaded
  vars,        \* variables stored by actions: name -> value
  pending,     \* delayed alerts, in the order they were scheduled
  queue,       \* overlay_queue and notice_queue: "alert", "notice" -> alerts
  win,         \* window -> [queue, active, phase]
  hist,        \* overlay_history
  style,       \* alert_style: "alert" or "merged"
  awake,       \* the game has written lately (~log_inactive)
  showAll,     \* force_show_windows
  fired,       \* history: alerts fired so far
  forgotten,   \* history: alerts given up, by a reload or as ambient
  drawn,       \* history: alerts that were on screen
  user         \* what the user did

alertVars == <<cfg, vars, pending, queue, win, hist, style, awake, showAll,
               fired, forgotten, drawn, user>>

Windows == {"alert", "merged", "notice"}
Source(w) == IF w = "notice" THEN "notice" ELSE "alert"   \* trigger_queue
Idle == [queue |-> <<>>, active |-> Nothing, phase |-> "none"]

(* An alert: its number, urgency, target, and whether Test fired it. *)
Alert(n, a, test) == [n |-> n, urgency |-> a.urgency, target |-> a.target, test |-> test]

Urgencies == {"ambient", "operational", "emergency"}
AnAlert == [n : Nat, urgency : Urgencies, target : {"alert", "notice"}, test : BOOLEAN]

IsAction(a) ==
  \/ a.kind = "store"
  \/ a.urgency \in Urgencies /\ a.target \in {"alert", "notice"} /\ a.delayed \in BOOLEAN

ASSUME AlertsAssumption ==
  /\ Nothing \notin AnAlert
  /\ \A file \in Configs :
       /\ file \in Seq(ToSet(file))
       /\ \A t \in ToSet(file) : /\ t.actions \in Seq(ToSet(t.actions))
                                 /\ \A a \in ToSet(t.actions) : IsAction(a)

(* The alert a window shows for being placed. *)
Placeholder == [n |-> 0, urgency |-> "operational", target |-> "alert", test |-> FALSE]

AlertsInit ==
  /\ cfg \in Configs
  /\ vars = [v \in {} |-> Nothing] /\ pending = <<>>
  /\ queue = [t \in {"alert", "notice"} |-> <<>>]
  /\ win = [w \in Windows |-> Idle]
  /\ hist = <<>> /\ style = "alert" /\ awake = TRUE /\ showAll = FALSE
  /\ fired = 0 /\ forgotten = {} /\ drawn = {} /\ user = 0

-----------------------------------------------------------------------------
(* The trigger engine *)

Known(name, caps, stored) ==
  IF name \in DOMAIN caps THEN caps[name]
  ELSE IF name \in DOMAIN stored THEN stored[name] ELSE Nothing

(* eval_condition: a match adds its captures, a comparison sees those of the
   conditions before it, then the variables. *)
Passes(c, line, caps, stored) ==
  IF c.kind = "match" THEN c.pattern \in DOMAIN line
  ELSE Known(c.name, caps, stored) # Nothing /\ Known(c.name, caps, stored) = c.value

Captures(c, line, caps) ==
  IF c.kind # "match" \/ c.pattern \notin DOMAIN line THEN caps
  ELSE [v \in DOMAIN caps \cup {c.capture} |->
          IF v = c.capture THEN line[c.pattern] ELSE caps[v]]

(* The conditions of one trigger, in order: [caps, results]. *)
Evaluate(conds, line, stored) ==
  FoldLeft(LAMBDA acc, c : [caps |-> Captures(c, line, acc.caps),
                            passed |-> Append(acc.passed, Passes(c, line, acc.caps, stored))],
           [caps |-> [v \in {} |-> Nothing], passed |-> <<>>], conds)

Fires(t, line, stored) ==
  LET passed == ToSet(Evaluate(t.conds, line, stored).passed)
  IN IF t.logic = "all" THEN FALSE \notin passed ELSE passed = {} \/ TRUE \in passed

(* execute_actions, one action; e is [vars, now, later, fired]. *)
Executed(e, a, caps, test) ==
  IF a.kind = "store"
  THEN [e EXCEPT !.vars = [v \in DOMAIN @ \cup {a.name} |->
          IF v = a.name THEN Known(a.value, caps, @) ELSE @[v]]]
  ELSE LET alert == Alert(e.fired + 1, a, test)
       IN [e EXCEPT !.now = IF a.delayed THEN @ ELSE Append(@, alert),
                    !.later = IF a.delayed THEN Append(@, alert) ELSE @,
                    !.fired = @ + 1]

Execute(actions, caps, e, test) ==
  LET after[i \in 0..Len(actions)] ==
        IF i = 0 THEN e ELSE Executed(after[i - 1], actions[i], caps, test)
  IN after[Len(actions)]

NothingFired == [vars |-> vars, now |-> <<>>, later |-> <<>>, fired |-> fired]

Matched(e, t, line) ==
  IF Fires(t, line, e.vars)
  THEN Execute(t.actions, Evaluate(t.conds, line, e.vars).caps, e, FALSE) ELSE e

(* process_line: variables stored by one trigger are seen by the next. *)
Process(line) ==
  LET after[i \in 0..Len(cfg)] ==
        IF i = 0 THEN NothingFired ELSE Matched(after[i - 1], cfg[i], line)
  IN after[Len(cfg)]

(* dispatch_events: each to the queue of its target. *)
Dispatch(events) ==
  queue' = [t \in DOMAIN queue |->
              queue[t] \o Part(events, {i \in DOMAIN events : events[i].target = t})]

(* An alert scheduled leaves the engine's list when its time has come. *)
Apply(e) ==
  /\ e.fired <= MaxFired
  /\ vars' = e.vars /\ fired' = e.fired
  /\ pending' = pending \o e.later
  /\ Dispatch(e.now)

(* Writing keeps the windows awake. *)
LogLine ==
  /\ \E line \in LogLines : Apply(Process(line))
  /\ awake' = TRUE
  /\ UNCHANGED <<cfg, win, hist, style, showAll, forgotten, drawn, user>>

(* TriggerEngine::tick: what is due goes out in the order it was scheduled. *)
TriggerTick ==
  \E due \in SUBSET DOMAIN pending :
    /\ due # {}
    /\ pending' = Part(pending, DOMAIN pending \ due)
    /\ Dispatch(Part(pending, due))
    /\ UNCHANGED <<cfg, vars, win, hist, style, awake, showAll, fired, forgotten, drawn,
                   user>>

-----------------------------------------------------------------------------
(* A window's alert engine *)

AmbientDropLen == 2

(* Variant: the alert interrupted waits behind all others. *)
InterruptToBack(w, e) ==
  [w EXCEPT !.queue = <<e>> \o @ \o (IF w.active = Nothing THEN <<>> ELSE <<w.active>>),
            !.active = Nothing, !.phase = "none"]

(* Variant: the alert interrupted is forgotten. *)
InterruptForgets(w, e) ==
  [w EXCEPT !.queue = <<e>> \o @, !.active = Nothing, !.phase = "none"]

(* An emergency takes the place of what is shown, which comes next. *)
Interrupt(w, e) ==
  [w EXCEPT !.queue = <<e>> \o (IF w.active = Nothing THEN <<>> ELSE <<w.active>>) \o @,
            !.active = Nothing, !.phase = "none"]

TooLate(w, e) == e.urgency = "ambient" /\ Len(w.queue) >= AmbientDropLen

Take(w, e) ==
  IF e.urgency = "emergency" THEN Interrupt(w, e)
  ELSE IF TooLate(w, e) THEN w
  ELSE [w EXCEPT !.queue = Append(@, e)]

Drained(w) ==
  LET waits == queue[Source(w)]
      after[i \in 0..Len(waits)] ==
        IF i = 0 THEN win[w] ELSE Take(after[i - 1], waits[i])
  IN after[Len(waits)]

(* The first half of tick_state: something to show, unless nothing waits. *)
Shown(v) ==
  LET u == IF v.phase = "place" /\ ~showAll
           THEN [v EXCEPT !.active = Nothing, !.phase = "none"] ELSE v
  IN IF u.active # Nothing THEN u
     ELSE IF showAll THEN [u EXCEPT !.active = Placeholder, !.phase = "place"]
     ELSE IF u.queue # <<>>
     THEN [queue |-> Tail(u.queue), active |-> Head(u.queue), phase |-> "fly"]
     ELSE u

(* The second: when its phase has lasted long enough, the next one. *)
Advanced(v) ==
  CASE v.phase = "fly" -> [v EXCEPT !.phase = "hold"]
    [] v.phase = "hold" -> [v EXCEPT !.phase = "shrink"]
    [] v.phase = "shrink" -> [v EXCEPT !.active = Nothing, !.phase = "none"]
    [] OTHER -> v

(* Variant: looks only for what is still to be taken over. *)
HasTestQueued(w) == \E i \in DOMAIN queue[Source(w)] : queue[Source(w)][i].test

HasTest(w) ==
  \/ win[w].active # Nothing /\ win[w].active.test
  \/ \E i \in DOMAIN win[w].queue : win[w].queue[i].test
  \/ \E i \in DOMAIN queue[Source(w)] : queue[Source(w)][i].test

Asleep(w) == ~awake /\ ~HasTest(w)

Ticks(w) == w \in {style, "notice"} /\ ~Asleep(w)

(* The merged window hides when the history's last entry is old; that it is
   can only be when nothing was shown for a while. *)
MayBeIdle(w) ==
  /\ IdleHides /\ w = "merged" /\ hist # <<>>
  /\ win["notice"].active = Nothing
  /\ IF win[w].active = Nothing THEN win[w].queue = <<>> ELSE win[w].active.n \notin drawn

(* One tick of a window's timer; aged says whether the phase is over. *)
WindowTick(w, aged, idle) ==
  /\ Ticks(w) /\ (idle => MayBeIdle(w))
  /\ LET v == Shown(Drained(w))
         u == IF aged THEN Advanced(v) ELSE v
         late == {e \in ToSet(queue[Source(w)]) : e.urgency = "ambient"}
     IN /\ win' = [win EXCEPT ![w] = u]
        /\ hist' = IF aged /\ v.phase = "shrink" THEN Append(hist, v.active) ELSE hist
        /\ drawn' = IF u.active = Nothing \/ idle \/ Asleep(w) THEN drawn
                    ELSE drawn \cup {u.active.n}
        /\ forgotten' = forgotten \cup
             {e.n : e \in {x \in late : x \notin ToSet(v.queue) /\ x # v.active}}
  /\ queue' = [queue EXCEPT ![Source(w)] = <<>>]
  /\ UNCHANGED <<cfg, vars, pending, style, awake, showAll, fired, user>>

-----------------------------------------------------------------------------
(* Settings, and the game falling silent *)

Act == user < MaxUser /\ user' = user + 1

(* The triggers saved anew: a new engine on the same queues. *)
Reload ==
  /\ Act
  /\ cfg' \in Configs
  /\ vars' = [v \in {} |-> Nothing] /\ pending' = <<>>
  /\ forgotten' = forgotten \cup {e.n : e \in ToSet(pending)}
  /\ UNCHANGED <<queue, win, hist, style, awake, showAll, fired, drawn>>

(* The Test button fires a trigger's actions without its conditions. *)
TestFire ==
  /\ Act
  /\ \E i \in DOMAIN cfg :
       Apply(Execute(cfg[i].actions, [v \in {} |-> Nothing], NothingFired, TRUE))
  /\ UNCHANGED <<cfg, win, hist, style, awake, showAll, forgotten, drawn>>

SwitchStyle ==
  /\ Act
  /\ style' = IF style = "alert" THEN "merged" ELSE "alert"
  /\ UNCHANGED <<cfg, vars, pending, queue, win, hist, awake, showAll, fired, forgotten, drawn>>

(* Pressed while the windows are placed, and released. *)
ToggleShowAll ==
  /\ IF showAll THEN UNCHANGED user ELSE Act
  /\ showAll' = ~showAll
  /\ UNCHANGED <<cfg, vars, pending, queue, win, hist, style, awake, fired, forgotten, drawn>>

FallSilent ==
  /\ awake' = FALSE
  /\ UNCHANGED <<cfg, vars, pending, queue, win, hist, style, showAll, fired, forgotten,
                 drawn, user>>

AlertsNext ==
  \/ LogLine \/ TriggerTick
  \/ \E w \in Windows, aged, idle \in BOOLEAN : WindowTick(w, aged, idle)
  \/ Reload \/ TestFire \/ SwitchStyle \/ ToggleShowAll \/ FallSilent

(* Delays run out, and a window ticks thirty times a second, so every stay
   awake, which lasts hide_inactive_secs, is long enough for its ticks. *)
AlertsFairness ==
  /\ WF_alertVars(TriggerTick /\ pending' = <<>>)
  /\ \A w \in Windows : SF_alertVars(WindowTick(w, TRUE, FALSE))

AlertsSpec == AlertsInit /\ [][AlertsNext]_alertVars /\ AlertsFairness

-----------------------------------------------------------------------------
Held(w) ==
  LET here == win[w].queue \o IF win[w].active = Nothing THEN <<>> ELSE <<win[w].active>>
  IN {e.n : e \in ToSet(here)}

Everywhere ==
  <<{e.n : e \in ToSet(pending)}, {e.n : e \in ToSet(queue["alert"])},
    {e.n : e \in ToSet(queue["notice"])}, Held("alert"), Held("merged"),
    Held("notice"), {e.n : e \in ToSet(hist)}, forgotten>>

(* Every alert fired is in exactly one place, whatever interrupts it: on its
   way, in one window's hands, or once in the history.  Only a reload and
   the ambient rule give one up. *)
EveryAlertOnce ==
  /\ LET places == Everywhere
     IN \A n \in 1..fired : Cardinality({i \in DOMAIN places : n \in places[i]}) = 1
  /\ \A i, j \in DOMAIN hist : hist[i].n = hist[j].n => hist[i].n = 0 \/ i = j

(* Operational alerts reach a window's part of the history in the order
   they were queued, though emergencies push in front. *)
Calm(s) == Part(s, {i \in DOMAIN s : s[i].urgency = "operational"})

OrderKept ==
  [][\A w \in Windows :
       LET line(v) == Calm((IF v.active = Nothing THEN <<>> ELSE <<v.active>>) \o v.queue)
           left == Calm(SubSeq(hist', Len(hist) + 1, Len(hist')))
       IN (win'[w] # win[w] /\ ~showAll /\ win[w].phase # "place") =>
            left \o line(win'[w]) = line(win[w]) \o Calm(queue[Source(w)])]_alertVars

(* Once the user leaves it alone every alert ends in the history or is given
   up, unless its window is not the one in use, or sleeps.  What the Test
   button fired is shown even when windows sleep. *)
Tested ==
  {e.n : e \in {x \in ToSet(pending \o queue["alert"] \o queue["notice"])
                   \cup UNION {ToSet(win[w].queue) \cup {win[w].active} : w \in Windows} :
                x # Nothing /\ x.test}}

Settled(n) ==
  \/ n \in {e.n : e \in ToSet(hist)} \cup forgotten
  \/ showAll \/ (~awake /\ n \notin Tested)
  \/ \E w \in {"alert", "merged"} \ {style} : n \in Held(w)

AlertsSettle == <>[](\A n \in 1..fired : Settled(n))

(* No alert plays through and lands in the history without having been on
   screen (overlay.rs:336-345), when overlays are switched on. *)
DrawnBeforeKept == \A i \in DOMAIN hist : hist[i] = Placeholder \/ hist[i].n \in drawn
=============================================================================
