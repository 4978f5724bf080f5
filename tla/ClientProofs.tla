---------------------------- MODULE ClientProofs ----------------------------
(***************************************************************************)
(* Proofs about the client: that engines overlap only where a tailer was   *)
(* blocked through the monitor's whole pause, and that every change of log *)
(* or stream is heard but for four ways (Engine); that what the server     *)
(* stores comes once and in order, and is everything when an import's      *)
(* close was answered (Delivery).                                          *)
(***************************************************************************)
EXTENDS Engine, Delivery, OrderLemmas, SequenceTheorems

(* The engines started so far are a list of records. *)
EngineRecord(e) ==
  /\ e = [tailer |-> e.tailer, pusher |-> e.pusher]
  /\ e.tailer \in {"on", "blocked", "gone"}

EnginesAreListed ==
  /\ Len(eng) \in Nat
  /\ eng = [i \in 1..Len(eng) |-> eng[i]]
  /\ \A i \in 1..Len(eng) : EngineRecord(eng[i])

MonitorRecord ==
  /\ mon = [pc |-> mon.pc, cfg |-> mon.cfg, left |-> mon.left]
  /\ mon.left \in 0..MonitorPause

Stopped(i) == eng[i].tailer = "gone" \/ i \in late

(* The monitor has slept its pause out. *)
Paused == mon.pc \in {"top", "read"} \/ (mon.pc = "pause" /\ mon.left = 0)

(* But for the tailers that were blocked when a pause ran out, only the last
   engine's may be alive, and none once the monitor has slept. *)
OldTailersGone ==
  /\ \A i \in 1..Len(eng) : i # Len(eng) => Stopped(i)
  /\ Paused => \A i \in 1..Len(eng) : Stopped(i)

EngInv == EnginesAreListed /\ MonitorRecord /\ OldTailersGone

LEMMA EngInitInv ==
  EngInit => EngInv
<1> SUFFICES ASSUME EngInit PROVE EngInv
  OBVIOUS
<1>1. eng = <<>> /\ Len(eng) = 0 /\ mon = [pc |-> "top", cfg |-> None, left |-> 0]
  BY DEF EngInit
<1>2. MonitorPause \in Nat
  BY TimingAssumption
<1> QED
  BY <1>1, <1>2 DEF EngInv, EnginesAreListed, MonitorRecord, OldTailersGone

(* A started engine is the only one whose tailer runs. *)
LEMMA StartKeeps ==
  ASSUME EngInv, MonitorStart
  PROVE  EngInv'
<1> DEFINE n == Len(eng)
<1>1. PICK e : EngineRecord(e) /\ eng' = Append(eng, e)
  BY DEF MonitorStart, EngineRecord
<1>2. /\ mon' = [pc |-> "run", cfg |-> None, left |-> 0] /\ mon.pc = "read"
      /\ late' = late
  BY DEF MonitorStart, ghosts
<1>3. n \in Nat /\ \E S : eng \in Seq(S) /\ e \in S
  <2> DEFINE S == {eng[i] : i \in 1..n} \cup {e}
  <2>1. n \in Nat /\ eng \in Seq(S) /\ e \in S
    BY DEF EngInv, EnginesAreListed
  <2> QED
    BY <2>1
<1>4. /\ Len(eng') = n + 1 /\ eng' = [i \in 1..(n + 1) |-> eng'[i]]
      /\ \A i \in 1..n : eng'[i] = eng[i]
      /\ eng'[n + 1] = e
  <2>1. PICK S : eng \in Seq(S) /\ e \in S
    BY <1>3
  <2>2. /\ eng' \in Seq(S) /\ Len(eng') = n + 1
        /\ \A i \in 1..n : eng'[i] = eng[i]
        /\ eng'[n + 1] = e
    BY <1>1, <2>1, AppendProperties
  <2> QED
    BY <1>3, <2>2
<1>5. ASSUME NEW i \in 1..(n + 1) PROVE i = n + 1 \/ i \in 1..n
  BY <1>3
<1>6. MonitorRecord'
  BY <1>2, TimingAssumption DEF MonitorRecord
<1> HIDE DEF n
<1>7. EnginesAreListed'
  BY <1>1, <1>3, <1>4, <1>5 DEF EngInv, EnginesAreListed, n
<1>8. OldTailersGone'
  BY <1>2, <1>4, <1>5 DEF EngInv, OldTailersGone, Paused, Stopped, n
<1> QED
  BY <1>6, <1>7, <1>8 DEF EngInv

(* A tick that ends the pause finds no tailer on: each had TailerPoll ticks. *)
LEMMA ElapseKeeps ==
  ASSUME EngInv, Elapse
  PROVE  EngInv'
<1>1. UNCHANGED eng /\ mon.left \in 0..MonitorPause /\ mon.left > 0
  BY DEF Elapse, EngInv, MonitorRecord
<1>2. mon' = [pc |-> "pause", cfg |-> mon.cfg, left |-> mon.left - 1]
  BY DEF Elapse, EngInv, MonitorRecord
<1>3. EnginesAreListed' /\ MonitorRecord'
  BY <1>1, <1>2, TimingAssumption DEF EngInv, EnginesAreListed, MonitorRecord
<1>4. CASE mon.left = 1
  <2>1. ASSUME NEW i \in 1..Len(eng) PROVE eng[i].tailer # "on"
    BY <1>4, TimingAssumption DEF Elapse
  <2>2. ASSUME NEW i \in 1..Len(eng) PROVE Stopped(i)'
    BY <1>1, <1>4, <2>1 DEF Elapse, Stopped, EngInv, EnginesAreListed, EngineRecord
  <2> QED
    BY <1>1, <1>3, <2>2 DEF EngInv, OldTailersGone
<1>5. CASE mon.left # 1
  <2>1. late' = late /\ ~Paused'
    BY <1>1, <1>2, <1>5 DEF Elapse, Paused
  <2> QED
    BY <1>1, <1>3, <2>1 DEF EngInv, OldTailersGone, Stopped
<1> QED
  BY <1>4, <1>5

(* A thread moves on; no tailer that has gone comes back. *)
LEMMA ThreadKeeps ==
  ASSUME EngInv, NEW i \in 1..Len(eng), UNCHANGED <<mon, late>>, NEW e,
         EngineRecord(e), eng' = [eng EXCEPT ![i] = e],
         eng[i].tailer = "gone" => e.tailer = "gone"
  PROVE  EngInv'
<1>1. eng = [j \in 1..Len(eng) |-> eng[j]] /\ Len(eng) \in Nat
  BY DEF EngInv, EnginesAreListed
<1>2. eng' = [j \in 1..Len(eng) |-> IF j = i THEN e ELSE eng[j]]
  BY <1>1
<1>3. Len(eng') = Len(eng)
  BY <1>1, <1>2
<1>4. EnginesAreListed'
  BY <1>1, <1>2, <1>3 DEF EngInv, EnginesAreListed
<1>5. OldTailersGone'
  BY <1>2, <1>3 DEF EngInv, OldTailersGone, Stopped, Paused
<1> QED
  BY <1>4, <1>5 DEF EngInv, MonitorRecord

LEMMA EngSteps ==
  EngInv /\ [EngNext]_engVars => EngInv'
<1> SUFFICES ASSUME EngInv, [EngNext]_engVars PROVE EngInv'
  OBVIOUS
<1>1. ASSUME UNCHANGED <<eng, late>>, MonitorRecord', Paused' => Paused
      PROVE  EngInv'
  BY <1>1 DEF EngInv, EnginesAreListed, OldTailersGone, Stopped
<1>2. CASE UNCHANGED engVars
  BY <1>1, <1>2 DEF engVars, EngInv, MonitorRecord, Paused
<1>3. CASE MonitorRead \/ MonitorLeave \/ MonitorResume \/ MonitorQuit
  <2>1. UNCHANGED <<eng, late>> /\ MonitorRecord
    BY <1>3 DEF MonitorRead, MonitorLeave, MonitorResume, MonitorQuit, ghosts, EngInv
  <2>2. MonitorPause \in Nat \ {0}
    BY TimingAssumption
  <2>3. CASE MonitorRead
    <3>1. mon' = [pc |-> "read", cfg |-> cfg, left |-> 0] /\ Paused
      BY <2>3 DEF MonitorRead, Paused
    <3>2. MonitorRecord'
      BY <2>2, <3>1 DEF MonitorRecord
    <3> QED
      BY <1>1, <2>1, <3>1, <3>2
  <2>4. CASE MonitorLeave
    <3>1. CASE quit
      <4>1. mon' = [pc |-> "end", cfg |-> mon.cfg, left |-> 0]
        BY <2>1, <2>4, <3>1 DEF MonitorLeave, MonitorRecord
      <4> QED
        BY <1>1, <2>1, <2>2, <4>1 DEF MonitorRecord, Paused
    <3>2. CASE ~quit
      <4>1. mon' = [pc |-> "pause", cfg |-> mon.cfg, left |-> MonitorPause]
        BY <2>1, <2>4, <3>2 DEF MonitorLeave, MonitorRecord
      <4> QED
        BY <1>1, <2>1, <2>2, <4>1 DEF MonitorRecord, Paused
    <3> QED
      BY <3>1, <3>2
  <2>5. CASE MonitorResume \/ MonitorQuit
    <3>1. /\ mon' = [pc |-> mon'.pc, cfg |-> mon.cfg, left |-> mon.left] /\ Paused
      BY <2>1, <2>5 DEF MonitorResume, MonitorQuit, PauseOver, MonitorRecord, Paused
    <3>2. MonitorRecord'
      BY <2>1, <3>1 DEF MonitorRecord
    <3> QED
      BY <1>1, <2>1, <3>1, <3>2
  <2> QED
    BY <1>3, <2>3, <2>4, <2>5
<1>4. CASE WatcherLooks \/ User \/ \E l \in Logs : GameWrites(l)
  <2>1. UNCHANGED <<eng, mon, late>>
    BY <1>4 DEF WatcherLooks, User, GameWrites, AddProfile, RemoveProfile, EditProfile,
       SetActive, SetAuto, SetRemote, Unregister, RegisterStart, RegisterDone,
       ToggleLogging, Quit, MutateProfiles, Save, ghosts
  <2> QED
    BY <1>1, <2>1 DEF EngInv, MonitorRecord, Paused
<1>5. ASSUME NEW i \in 1..Len(eng), Thread(i)
      PROVE  EngInv'
  <2>1. EngineRecord(eng[i]) /\ UNCHANGED <<mon, late>>
    BY <1>5 DEF EngInv, EnginesAreListed, Thread, TailerStops, TailerUnblocks,
       TailerFails, TailerBlocks, PusherReports, PusherEnds, ghosts
  <2>2. CASE PusherReports(i)
    BY <1>1, <2>1, <2>2 DEF PusherReports, EngInv, MonitorRecord, Paused
  <2>3. ASSUME NEW t \in {"on", "blocked", "gone"}, eng[i].tailer = "gone" => t = "gone",
               eng' = [eng EXCEPT ![i].tailer = t]
        PROVE  EngInv'
    <3>1. eng' = [eng EXCEPT ![i] = [eng[i] EXCEPT !.tailer = t]]
      BY <2>3
    <3>2. /\ EngineRecord([eng[i] EXCEPT !.tailer = t])
          /\ [eng[i] EXCEPT !.tailer = t].tailer = t
      BY <2>1 DEF EngineRecord
    <3> QED
      BY <2>1, <2>3, <3>1, <3>2, ThreadKeeps
  <2>4. CASE PusherEnds(i)
    <3>1. eng' = [eng EXCEPT ![i] = [eng[i] EXCEPT !.pusher = "gone"]]
      BY <2>4 DEF PusherEnds
    <3>2. /\ EngineRecord([eng[i] EXCEPT !.pusher = "gone"])
          /\ [eng[i] EXCEPT !.pusher = "gone"].tailer = eng[i].tailer
      BY <2>1 DEF EngineRecord
    <3> QED
      BY <2>1, <3>1, <3>2, ThreadKeeps
  <2> QED
    BY <1>5, <2>2, <2>3, <2>4 DEF Thread, TailerStops, TailerUnblocks, TailerFails,
       TailerBlocks, TailerLeaves
<1> QED
  BY <1>2, <1>3, <1>4, <1>5, StartKeeps, ElapseKeeps DEF EngNext, Monitor

(* Of two tailers that are alive at once, the older one was blocked on its full
   channel when the monitor's pause ran out, whatever the user, the game and
   dying threads do: though the monitor only sleeps, and looks at no thread, its
   sleep outlasts the poll of every tailer that can poll (main.rs:178-189 and
   300-327). *)
THEOREM EnginesNeverOverlap ==
  EngSpec => []OneTailer
<1>1. EngInv => OneTailer
  BY DEF EngInv, EnginesAreListed, OldTailersGone, Stopped, OneTailer
<1> QED
  BY <1>1, EngInitInv, EngSteps, PTL DEF EngSpec

(* No change of the configuration or of the game's log passes an engine by: it
   reads the active log, or its end is asked for, or the watcher will see the
   change; and it pushes to the configured stream.  The exceptions are the four
   that overlooked records. *)
Heard ==
  mon.pc = "run" /\ ~restart /\ ~overlooked =>
    /\ target.log = Active(cfg) \/ (cfg.mode = "auto" /\ Active(cfg) # seen)
    /\ target.remote = IF cfg.remote THEN cfg.stream ELSE 0

CfgRecord ==
  cfg = [profiles |-> cfg.profiles, mode |-> cfg.mode, stream |-> cfg.stream,
         remote |-> cfg.remote]

(* What the monitor cloned is still the configuration. *)
CloneIsFresh ==
  mon.pc = "read" => /\ ~overlooked => mon.cfg = cfg
                     /\ mon.cfg.profiles # <<>>

HearInv == Heard /\ CfgRecord /\ CloneIsFresh

LEMMA SaveKeeps ==
  ASSUME HearInv, NEW c, NEW wanted, Save(c, wanted),
         c = [profiles |-> c.profiles, mode |-> c.mode, stream |-> c.stream,
              remote |-> c.remote],
         ~wanted => /\ wanted = (Active(c) # Active(cfg))
                    /\ c.stream = cfg.stream /\ c.remote = cfg.remote
  PROVE  HearInv'
<1>1. /\ cfg' = c /\ restart' = (restart \/ wanted)
      /\ UNCHANGED <<written, mon, target, seen>>
      /\ overlooked' = (\/ overlooked \/ mon.pc = "read"
                        \/ ~wanted /\ c.mode # "auto" /\ Astray(Active(c)))
  BY DEF Save
<1>2. Active(cfg)' = Active(c)
  BY <1>1 DEF Active
<1>3. CfgRecord' /\ CloneIsFresh'
  BY <1>1 DEF CfgRecord, CloneIsFresh, HearInv
<1>4. Heard'
  <2> SUFFICES ASSUME mon.pc = "run", ~restart, ~wanted, ~overlooked,
                      ~(c.mode # "auto" /\ target.log # Active(c))
               PROVE  /\ target.log = Active(c) \/ (c.mode = "auto" /\ Active(c) # seen)
                      /\ target.remote = IF c.remote THEN c.stream ELSE 0
    BY <1>1, <1>2 DEF Heard, Astray
  <2>1. Active(c) = Active(cfg) /\ c.stream = cfg.stream /\ c.remote = cfg.remote
    OBVIOUS
  <2> QED
    BY <2>1 DEF HearInv, Heard
<1> QED
  BY <1>3, <1>4 DEF HearInv

LEMMA ProfilesKeep ==
  ASSUME HearInv, NEW c, MutateProfiles(c), NEW ps, NEW md,
         c = [profiles |-> ps, mode |-> md, stream |-> cfg.stream, remote |-> cfg.remote]
  PROVE  HearInv'
<1> DEFINE w == Active(c) # Active(cfg)
<1>1. Save(c, w)
  BY DEF MutateProfiles
<1>2. c = [profiles |-> c.profiles, mode |-> c.mode, stream |-> c.stream,
           remote |-> c.remote] /\ c.stream = cfg.stream /\ c.remote = cfg.remote
  OBVIOUS
<1>3. w = (Active(c) # Active(cfg))
  OBVIOUS
<1> HIDE DEF w
<1> QED
  BY <1>1, <1>2, <1>3, SaveKeeps

LEMMA UserKeepsHeard ==
  ASSUME HearInv, User
  PROVE  HearInv'
<1>1. ASSUME NEW c, Save(c, TRUE),
             c = [profiles |-> c.profiles, mode |-> c.mode, stream |-> c.stream,
                  remote |-> c.remote]
      PROVE  HearInv'
  BY <1>1, SaveKeeps
<1>2. CfgRecord
  BY DEF HearInv
<1>9. ASSUME NEW ps, NEW md
      PROVE  [cfg EXCEPT !.profiles = ps, !.mode = md]
               = [profiles |-> ps, mode |-> md, stream |-> cfg.stream,
                  remote |-> cfg.remote]
  <2> DEFINE c1 == [cfg EXCEPT !.profiles = ps]
  <2>1. c1 = [profiles |-> ps, mode |-> cfg.mode, stream |-> cfg.stream,
              remote |-> cfg.remote]
    BY <1>2 DEF CfgRecord
  <2>2. [cfg EXCEPT !.profiles = ps, !.mode = md] = [c1 EXCEPT !.mode = md]
    OBVIOUS
  <2> HIDE DEF c1
  <2>3. [c1 EXCEPT !.mode = md]
          = [profiles |-> ps, mode |-> md, stream |-> cfg.stream, remote |-> cfg.remote]
    <3> DEFINE st == cfg.stream
               rm == cfg.remote
    <3>1. c1 = [profiles |-> ps, mode |-> cfg.mode, stream |-> st, remote |-> rm]
      BY <2>1
    <3> HIDE DEF st, rm
    <3>2. [c1 EXCEPT !.mode = md]
            = [profiles |-> ps, mode |-> md, stream |-> st, remote |-> rm]
      BY <3>1
    <3> QED
      BY <3>2 DEF st, rm
  <2> QED
    BY <2>2, <2>3
<1>3. ASSUME NEW l \in Logs, AddProfile(l) \/ RemoveProfile(l) \/ SetActive(l)
      PROVE  HearInv'
  <2>1. CASE AddProfile(l)
    <3> DEFINE c == [cfg EXCEPT !.profiles = Append(@, l)]
    <3>1. MutateProfiles(c)
      BY <2>1 DEF AddProfile
    <3>2. c = [profiles |-> Append(cfg.profiles, l), mode |-> cfg.mode,
               stream |-> cfg.stream, remote |-> cfg.remote]
      BY <1>2 DEF CfgRecord
    <3> HIDE DEF c
    <3> QED
      BY <3>1, <3>2, ProfilesKeep
  <2>2. CASE RemoveProfile(l)
    <3> DEFINE ps == SelectSeq(cfg.profiles, LAMBDA x : x # l)
               md == IF cfg.mode = l THEN "auto" ELSE cfg.mode
               c == [cfg EXCEPT !.profiles = ps, !.mode = md]
    <3>1. MutateProfiles(c)
      BY <2>2 DEF RemoveProfile
    <3> HIDE DEF ps, md
    <3>2. c = [profiles |-> ps, mode |-> md, stream |-> cfg.stream,
               remote |-> cfg.remote]
      BY <1>9
    <3> HIDE DEF c
    <3> QED
      BY <3>1, <3>2, ProfilesKeep
  <2>3. CASE SetActive(l)
    <3> DEFINE c == [cfg EXCEPT !.mode = l]
    <3>1. MutateProfiles(c)
      BY <2>3 DEF SetActive
    <3>2. c = [profiles |-> cfg.profiles, mode |-> l,
               stream |-> cfg.stream, remote |-> cfg.remote]
      BY <1>2 DEF CfgRecord
    <3> HIDE DEF c
    <3> QED
      BY <3>1, <3>2, ProfilesKeep
  <2> QED
    BY <1>3, <2>1, <2>2, <2>3
<1>4. ASSUME NEW l \in Logs, NEW k \in Logs, EditProfile(l, k)
      PROVE  HearInv'
  <2> DEFINE old == cfg.profiles
             ps == [i \in 1..Len(old) |-> IF old[i] = l THEN k ELSE old[i]]
             md == IF cfg.mode = l THEN k ELSE cfg.mode
             c == [cfg EXCEPT !.profiles = ps, !.mode = md]
  <2>1. MutateProfiles(c)
    BY <1>4 DEF EditProfile
  <2> HIDE DEF ps, md
  <2>2. c = [profiles |-> ps, mode |-> md, stream |-> cfg.stream,
             remote |-> cfg.remote]
    BY <1>9
  <2> HIDE DEF c
  <2> QED
    BY <2>1, <2>2, ProfilesKeep
<1>5. CASE SetAuto
  <2> DEFINE c == [cfg EXCEPT !.mode = "auto"]
  <2>1. MutateProfiles(c)
    BY <1>5 DEF SetAuto
  <2>2. c = [profiles |-> cfg.profiles, mode |-> "auto",
             stream |-> cfg.stream, remote |-> cfg.remote]
    BY <1>2 DEF CfgRecord
  <2> HIDE DEF c
  <2> QED
    BY <2>1, <2>2, ProfilesKeep
<1>6. CASE SetRemote
  <2> DEFINE r == ~cfg.remote
             c == [cfg EXCEPT !.remote = r]
  <2>1. Save(c, TRUE)
    BY <1>6 DEF SetRemote
  <2> HIDE DEF r
  <2>3. c = [profiles |-> c.profiles, mode |-> c.mode, stream |-> c.stream,
             remote |-> c.remote]
    BY <1>2 DEF CfgRecord
  <2> HIDE DEF c
  <2> QED
    BY <1>1, <2>1, <2>3
<1>7. ASSUME NEW n, Save([cfg EXCEPT !.stream = n], TRUE)
      PROVE  HearInv'
  <2> DEFINE c == [cfg EXCEPT !.stream = n]
  <2>1. c = [profiles |-> c.profiles, mode |-> c.mode, stream |-> c.stream,
             remote |-> c.remote]
    BY <1>2 DEF CfgRecord
  <2> HIDE DEF c
  <2> QED
    BY <1>1, <1>7, <2>1 DEF c
<1>8. ASSUME UNCHANGED <<cfg, written, seen, mon, target, ghosts>>, restart => restart'
      PROVE  HearInv'
  BY <1>8 DEF HearInv, Heard, Active, CfgRecord, CloneIsFresh, ghosts
<1>10. CASE Unregister
  BY <1>7, <1>10 DEF Unregister
<1>11. CASE RegisterDone
  <2>1. CASE Save([cfg EXCEPT !.stream = 2], TRUE)
    BY <1>7, <2>1
  <2>2. CASE UNCHANGED <<cfg, written, logging, seen, acts, restart, quit,
                         connected, mon, eng, target, ghosts>>
    BY <1>8, <2>2
  <2> QED
    BY <1>11, <2>1, <2>2 DEF RegisterDone
<1>12. CASE RegisterStart \/ ToggleLogging \/ Quit
  BY <1>8, <1>12 DEF RegisterStart, ToggleLogging, Quit
<1> QED
  BY <1>3, <1>4, <1>5, <1>6, <1>10, <1>11, <1>12 DEF User

LEMMA HearSteps ==
  HearInv /\ MonitorRecord /\ [EngNext]_engVars => HearInv'
<1> SUFFICES ASSUME HearInv, MonitorRecord, [EngNext]_engVars PROVE HearInv'
  OBVIOUS
<1>1. ASSUME UNCHANGED <<cfg, written, seen, target, ghosts>>, restart => restart',
             mon'.pc \in {"run", "read"} => UNCHANGED mon
      PROVE  HearInv'
  BY <1>1 DEF HearInv, Heard, Active, CfgRecord, CloneIsFresh, ghosts
<1>2. CASE UNCHANGED engVars
  BY <1>1, <1>2 DEF engVars, ghosts
<1>3. CASE MonitorRead
  BY <1>3 DEF MonitorRead, conf, HearInv, Heard, CfgRecord, CloneIsFresh
<1>4. CASE MonitorStart
  <2>1. /\ target'.log = Active(mon.cfg)
        /\ target'.remote = RemoteReady(mon.cfg)
        /\ mon'.pc = "run" /\ UNCHANGED <<cfg, written, seen, overlooked>>
    BY <1>4 DEF MonitorStart, conf, ghosts
  <2>2. ~overlooked => mon.cfg = cfg /\ cfg.profiles # <<>>
    BY <1>4 DEF MonitorStart, HearInv, CloneIsFresh
  <2>3. Active(cfg)' = Active(cfg)
    BY <2>1 DEF Active
  <2> QED
    BY <2>1, <2>2, <2>3 DEF HearInv, Heard, CfgRecord, CloneIsFresh, RemoteReady
<1>5. CASE MonitorLeave \/ Elapse \/ MonitorResume \/ MonitorQuit
  <2>1. UNCHANGED <<cfg, written, seen, target, restart, overlooked>>
    BY <1>5 DEF MonitorLeave, Elapse, MonitorResume, MonitorQuit, conf, ghosts
  <2>2. mon'.pc \notin {"run", "read"}
    BY <1>5 DEF MonitorLeave, Elapse, MonitorResume, MonitorQuit, MonitorRecord
  <2> QED
    BY <2>1, <2>2 DEF HearInv, Heard, CfgRecord, CloneIsFresh
<1>6. CASE WatcherLooks
  <2>1. /\ seen' = Active(cfg) /\ restart' = (restart \/ seen # None)
        /\ cfg.mode = "auto"
        /\ overlooked' = (overlooked \/ (seen = None /\ Astray(Active(cfg))))
        /\ UNCHANGED <<cfg, written, mon, target>>
    BY <1>6 DEF WatcherLooks
  <2>2. Active(cfg)' = Active(cfg)
    BY <2>1 DEF Active
  <2> QED
    BY <2>1, <2>2 DEF HearInv, Heard, Astray, CfgRecord, CloneIsFresh
<1>7. ASSUME NEW l \in Logs, GameWrites(l)
      PROVE  HearInv'
  <2>1. /\ UNCHANGED <<cfg, seen, restart, mon, target>>
        /\ overlooked' = (overlooked \/ (/\ cfg.mode = "auto"
                                        /\ Active(cfg)' = seen /\ Astray(seen)))
    BY <1>7 DEF GameWrites
  <2>2. cfg.mode # "auto" => Active(cfg)' = Active(cfg)
    BY <2>1 DEF Active
  <2> QED
    BY <2>1, <2>2 DEF HearInv, Heard, Astray, CfgRecord, CloneIsFresh
<1>8. ASSUME NEW i \in 1..Len(eng), Thread(i)
      PROVE  HearInv'
  BY <1>1, <1>8 DEF Thread, TailerStops, TailerUnblocks, TailerFails, TailerBlocks,
     TailerLeaves, PusherReports, PusherEnds, conf
<1> QED
  BY <1>2, <1>3, <1>4, <1>5, <1>6, <1>7, <1>8, UserKeepsHeard DEF EngNext, Monitor

(* For any number of restarts and changes: unless a change was made in one of
   the four ways EngineFollows names, an engine that runs on another log than
   the active one will end, its restart asked for or left for the watcher to
   ask for, and it pushes to the configured stream (main.rs:164-168 and
   210-230, settings_window.rs:637-652). *)
THEOREM ChangesAreHeard ==
  EngSpec => []Heard
<1>1. EngInit => HearInv
  BY DEF EngInit, HearInv, Heard, CfgRecord, CloneIsFresh
<1>2. EngInv => MonitorRecord
  BY DEF EngInv
<1>3. HearInv => Heard
  BY DEF HearInv
<1> QED
  BY <1>1, <1>2, <1>3, EngInitInv, EngSteps, HearSteps, PTL DEF EngSpec
-----------------------------------------------------------------------------
(* Delivery: lines and batches in the order of the log. *)

LineEvent == [line : Nat \ {0}, whole : BOOLEAN]

SetOf(s) == UNION {s[k] : k \in 1..Len(s)}

Before(A, B) == \A d \in A, e \in B : d.line < e.line

(* Each batch lies before the next. *)
Ordered(s) == \A j, k \in 1..Len(s) : j < k => Before(s[j], s[k])

LEMMA SetOfAppend ==
  ASSUME NEW S, NEW s \in Seq(SUBSET S), NEW b \in SUBSET S
  PROVE  /\ Append(s, b) \in Seq(SUBSET S)
         /\ SetOf(Append(s, b)) = SetOf(s) \cup b
         /\ Ordered(s) /\ Before(SetOf(s), b) => Ordered(Append(s, b))
<1> DEFINE n == Len(s)
           t == Append(s, b)
<1>1. /\ t \in Seq(SUBSET S) /\ n \in Nat /\ Len(t) = n + 1
      /\ \A i \in 1..n : t[i] = s[i]
      /\ t[n + 1] = b
  BY AppendProperties
<1> HIDE DEF t
<1>2. \A i \in 1..(n + 1) : i = n + 1 \/ i \in 1..n
  BY <1>1
<1>3. n + 1 \in 1..(n + 1) /\ \A i \in 1..n : i \in 1..(n + 1)
  BY <1>1
<1> HIDE DEF n
<1>4. SetOf(t) = SetOf(s) \cup b
  BY <1>1, <1>2, <1>3 DEF SetOf, n
<1>5. ASSUME Ordered(s), Before(SetOf(s), b) PROVE Ordered(t)
  <2> SUFFICES ASSUME NEW j \in 1..(n + 1), NEW k \in 1..(n + 1), j < k
               PROVE  Before(t[j], t[k])
    BY <1>1 DEF Ordered
  <2>1. j \in 1..n
    BY <1>1
  <2>2. CASE k = n + 1
    BY <1>1, <1>5, <2>1, <2>2 DEF SetOf, Before, n
  <2>3. CASE k \in 1..n
    BY <1>1, <1>5, <2>1, <2>3 DEF Ordered, n
  <2> QED
    BY <1>2, <2>2, <2>3
<1> QED
  BY <1>1, <1>4, <1>5 DEF t

LEMMA SetOfTail ==
  ASSUME NEW S, NEW s \in Seq(SUBSET S), s # <<>>
  PROVE  /\ Tail(s) \in Seq(SUBSET S) /\ Head(s) \in SUBSET S
         /\ SetOf(s) = Head(s) \cup SetOf(Tail(s))
         /\ Ordered(s) => Ordered(Tail(s)) /\ Before(Head(s), SetOf(Tail(s)))
<1> DEFINE n == Len(s)
           t == Tail(s)
<1>1. /\ t \in Seq(SUBSET S) /\ Head(s) \in SUBSET S /\ Head(s) = s[1]
      /\ n \in Nat /\ n >= 1 /\ Len(t) = n - 1
      /\ \A i \in 1..(n - 1) : t[i] = s[i + 1]
  BY HeadTailProperties, EmptySeq
<1> HIDE DEF t
<1>2. /\ \A i \in 1..(n - 1) : i + 1 \in 1..n
      /\ \A i \in 1..n : i = 1 \/ (i - 1 \in 1..(n - 1) /\ i = (i - 1) + 1)
      /\ 1 \in 1..n
  BY <1>1
<1>3. SetOf(s) = Head(s) \cup SetOf(t)
  <2>1. ASSUME NEW i \in 1..n PROVE s[i] \subseteq Head(s) \cup SetOf(t)
    <3>1. CASE i = 1
      BY <1>1, <3>1
    <3>2. CASE i - 1 \in 1..(n - 1) /\ i = (i - 1) + 1
      BY <1>1, <3>2 DEF SetOf
    <3> QED
      BY <1>2, <3>1, <3>2
  <2>2. ASSUME NEW i \in 1..(n - 1) PROVE t[i] \subseteq SetOf(s)
    <3>1. t[i] = s[i + 1] /\ i + 1 \in 1..n
      BY <1>1, <1>2
    <3> QED
      BY <3>1 DEF SetOf
  <2>3. Head(s) \subseteq SetOf(s)
    BY <1>1, <1>2 DEF SetOf
  <2> HIDE DEF n
  <2> QED
    BY <1>1, <2>1, <2>2, <2>3 DEF SetOf, n
<1>4. ASSUME Ordered(s) PROVE Ordered(t) /\ Before(Head(s), SetOf(t))
  <2>1. ASSUME NEW j \in 1..(n - 1), NEW k \in 1..(n - 1), j < k
        PROVE  Before(t[j], t[k])
    <3>1. j + 1 \in 1..n /\ k + 1 \in 1..n
      BY <1>2
    <3>2. j + 1 < k + 1
      BY <1>1, <2>1
    <3> QED
      BY <1>1, <1>4, <3>1, <3>2 DEF Ordered
  <2>2. ASSUME NEW k \in 1..(n - 1) PROVE Before(Head(s), t[k])
    <3>1. k + 1 \in 1..n /\ 1 \in 1..n /\ 1 < k + 1
      BY <1>1
    <3> QED
      BY <1>1, <1>4, <3>1 DEF Ordered
  <2> QED
    BY <1>1, <2>1, <2>2 DEF Ordered, Before, SetOf
<1> QED
  BY <1>1, <1>3, <1>4 DEF t

LEMMA SetOfConcat ==
  ASSUME NEW S, NEW s \in Seq(SUBSET S), NEW t \in Seq(SUBSET S)
  PROVE  /\ s \o t \in Seq(SUBSET S)
         /\ SetOf(s \o t) = SetOf(s) \cup SetOf(t)
         /\ Ordered(s) /\ Ordered(t) /\ Before(SetOf(s), SetOf(t)) => Ordered(s \o t)
<1> DEFINE n == Len(s)
           m == Len(t)
           u == s \o t
<1>1. /\ u \in Seq(SUBSET S) /\ n \in Nat /\ m \in Nat /\ Len(u) = n + m
      /\ \A i \in 1..(n + m) : u[i] = IF i <= n THEN s[i] ELSE t[i - n]
  BY ConcatProperties
<1> HIDE DEF u
<1>2. ASSUME NEW i \in 1..(n + m)
      PROVE  \/ i \in 1..n /\ u[i] = s[i]
             \/ i > n /\ i - n \in 1..m /\ u[i] = t[i - n]
  BY <1>1
<1>3. /\ \A i \in 1..n : i \in 1..(n + m) /\ u[i] = s[i]
      /\ \A i \in 1..m : n + i \in 1..(n + m) /\ u[n + i] = t[i]
  <2>1. ASSUME NEW i \in 1..m PROVE n + i \in 1..(n + m) /\ u[n + i] = t[i]
    <3>1. n + i \in 1..(n + m) /\ ~ (n + i <= n) /\ (n + i) - n = i
      BY <1>1
    <3> QED
      BY <1>1, <3>1
  <2> QED
    BY <1>1, <2>1
<1>4. SetOf(u) = SetOf(s) \cup SetOf(t)
  <2>1. \A i \in 1..(n + m) : u[i] \subseteq SetOf(s) \cup SetOf(t)
    BY <1>2 DEF SetOf
  <2>2. (\A i \in 1..n : s[i] \subseteq SetOf(u)) /\ (\A i \in 1..m : t[i] \subseteq SetOf(u))
    BY <1>1, <1>3 DEF SetOf
  <2>3. SetOf(u) = UNION {u[k] : k \in 1..(n + m)}
    BY <1>1 DEF SetOf
  <2> HIDE DEF n, m
  <2> QED
    BY SMTT(20), <2>1, <2>2, <2>3 DEF SetOf, n, m
<1>5. ASSUME Ordered(s), Ordered(t), Before(SetOf(s), SetOf(t)) PROVE Ordered(u)
  <2> SUFFICES ASSUME NEW j \in 1..(n + m), NEW k \in 1..(n + m), j < k
               PROVE  Before(u[j], u[k])
    BY <1>1 DEF Ordered
  <2>1. CASE j \in 1..n /\ k \in 1..n
    BY <1>1, <1>3, <1>5, <2>1 DEF Ordered
  <2>2. CASE j \in 1..n /\ k > n
    <3>1. k - n \in 1..m /\ u[k] = t[k - n] /\ u[j] = s[j]
      BY <1>1, <1>2, <1>3, <2>2
    <3> QED
      BY <1>5, <2>2, <3>1 DEF Before, SetOf
  <2>3. CASE j > n /\ k > n
    <3>1. /\ j - n \in 1..m /\ u[j] = t[j - n]
          /\ k - n \in 1..m /\ u[k] = t[k - n] /\ j - n < k - n
      BY <1>1, <1>2, <2>3
    <3> QED
      BY <1>5, <3>1 DEF Ordered
  <2> QED
    BY <1>1, <1>2, <2>1, <2>2, <2>3
<1> QED
  BY <1>1, <1>4, <1>5 DEF u

LEMMA SetOfEmpty ==
  SetOf(<<>>) = {} /\ Ordered(<<>>)
<1>1. 1..Len(<<>>) = {}
  OBVIOUS
<1> QED
  BY <1>1 DEF SetOf, Ordered

(* Later seconds hold later lines. *)
LEMMA SecondsFollowLines ==
  ASSUME NEW l \in Nat, NEW m \in Nat
  PROVE  /\ Second(l) \in Nat
         /\ l <= m => Second(l) <= Second(m)
         /\ Second(l) <= l
<1>1. PerSecond \in Nat \ {0} /\ l + PerSecond - 1 \in Nat /\ m + PerSecond - 1 \in Nat
  BY DeliveryAssumption
<1>2. Second(l) \in Nat
  BY <1>1 DEF Second
<1>3. l <= m => Second(l) <= Second(m)
  BY <1>1, DivMonotone DEF Second
<1>4. Second(l) <= l
  BY <1>1 DEF Second
<1> QED
  BY <1>2, <1>3, <1>4

(* Splitting loses and invents nothing, and orders the batches. *)
LEMMA SplitIsOrdered ==
  ASSUME NEW events \in SUBSET LineEvent, NEW bound \in Nat,
         \A e \in events : e.line <= bound
  PROVE  /\ SplitByGameSecond(events) \in Seq(SUBSET LineEvent)
         /\ SetOf(SplitByGameSecond(events)) = events
         /\ Ordered(SplitByGameSecond(events))
<1> DEFINE secs == {Second(e.line) : e \in events}
           n == Cardinality(secs)
           Nth(k) == CHOOSE x \in secs : Rank(secs, x) = k - 1
           s == SplitByGameSecond(events)
<1>1. \A e \in events : e.line \in Nat
  BY DEF LineEvent
<1>2. secs \subseteq 0..bound
  <2> SUFFICES ASSUME NEW e \in events PROVE Second(e.line) \in 0..bound
    OBVIOUS
  <2>1. /\ e.line \in Nat /\ e.line <= bound
        /\ Second(e.line) \in Nat /\ Second(e.line) <= e.line
    BY <1>1, SecondsFollowLines
  <2> QED
    BY <2>1
<1>3. s = [k \in 1..n |-> {e \in events : Second(e.line) = Nth(k)}]
  BY DEF SplitByGameSecond, Rank
<1>4. \A e \in events : Second(e.line) \in secs
  OBVIOUS
<1> HIDE DEF s, secs
<1>5. secs \in SUBSET Nat /\ IsFiniteSet(secs) /\ n \in Nat
  <2>1. IsFiniteSet(0..bound)
    BY FS_Interval
  <2>2. IsFiniteSet(secs)
    BY <1>2, <2>1, FS_Subset
  <2> QED
    BY <1>2, <2>2, FS_CardinalityType
<1>6. ASSUME NEW k \in 1..n PROVE Nth(k) \in secs /\ Rank(secs, Nth(k)) = k - 1
  BY <1>5, <1>6, NthExists
<1> HIDE DEF Nth, n
<1>7. ASSUME NEW j \in 1..n, NEW k \in 1..n, j < k PROVE Nth(j) < Nth(k)
  <2>1. Rank(secs, Nth(j)) < Rank(secs, Nth(k))
    BY <1>5, <1>6, <1>7
  <2> QED
    BY <1>5, <1>6, <2>1, RankIsUnique
<1>8. ASSUME NEW x \in secs PROVE \E k \in 1..n : Nth(k) = x
  <2>1. Rank(secs, x) \in Nat /\ Rank(secs, x) < n
    BY <1>5, RankGrows DEF n
  <2>2. Rank(secs, x) + 1 \in 1..n /\ (Rank(secs, x) + 1) - 1 = Rank(secs, x)
    BY <1>5, <2>1
  <2>3. Nth(Rank(secs, x) + 1) \in secs /\ Rank(secs, Nth(Rank(secs, x) + 1)) = Rank(secs, x)
    BY <1>6, <2>2
  <2> QED
    BY <1>5, <2>2, <2>3, RankIsUnique
<1>9. s \in Seq(SUBSET LineEvent) /\ Len(s) = n
  BY <1>3, <1>5
<1>10. SetOf(s) = events
  <2>1. SetOf(s) = UNION {s[k] : k \in 1..n}
    BY <1>9 DEF SetOf
  <2>2. \A k \in 1..n : s[k] = {e \in events : Second(e.line) = Nth(k)}
    BY <1>3
  <2>3. ASSUME NEW e \in events PROVE \E k \in 1..n : e \in s[k]
    BY <1>4, <1>8, <2>2
  <2> QED
    BY <2>1, <2>2, <2>3
<1>11. Ordered(s)
  <2> SUFFICES ASSUME NEW j \in 1..n, NEW k \in 1..n, j < k, NEW d \in s[j], NEW e \in s[k]
               PROVE  d.line < e.line
    BY <1>9 DEF Ordered, Before
  <2>1. d \in events /\ e \in events /\ Second(d.line) = Nth(j) /\ Second(e.line) = Nth(k)
    BY <1>3
  <2>2. d.line \in Nat /\ e.line \in Nat /\ Second(d.line) < Second(e.line)
    BY <1>1, <1>7, <2>1
  <2>3. ~ (e.line <= d.line)
    <3>1. Second(d.line) \in Nat /\ Second(e.line) \in Nat
      BY <2>2, SecondsFollowLines
    <3> QED
      BY <2>2, <3>1, SecondsFollowLines
  <2> QED
    BY <2>2, <2>3
<1> QED
  BY <1>9, <1>10, <1>11 DEF s
-----------------------------------------------------------------------------
(* What is on its way, from the tailer's channel to the server. *)

InChan == {chan[k] : k \in 1..Len(chan)}

Emitted == SetOf(stored) \cup SetOf(flight) \cup pending \cup InChan

QueueTypes ==
  /\ chan \in Seq(LineEvent)
  /\ pending \in SUBSET LineEvent
  /\ flight \in Seq(SUBSET LineEvent)
  /\ stored \in Seq(SUBSET LineEvent)

LinesInOrder ==
  /\ Ordered(stored)
  /\ Ordered(flight)
  /\ \A i, j \in 1..Len(chan) : i < j => chan[i].line < chan[j].line
  /\ Before(SetOf(stored), SetOf(flight))
  /\ Before(SetOf(stored) \cup SetOf(flight), pending)
  /\ Before(SetOf(stored) \cup SetOf(flight) \cup pending, InChan)

Queue == QueueTypes /\ LinesInOrder

(* A line later than all others is emitted. *)
LEMMA EmitExtends ==
  ASSUME Queue, NEW e \in LineEvent, \A d \in Emitted : d.line < e.line,
         chan' = Append(chan, e), UNCHANGED <<pending, flight, stored>>
  PROVE  Queue' /\ Emitted' = Emitted \cup {e}
<1> DEFINE n == Len(chan)
<1>1. chan \in Seq(LineEvent) /\ n \in Nat
  BY DEF Queue, QueueTypes
<1>2. /\ chan' \in Seq(LineEvent) /\ Len(chan') = n + 1
      /\ \A i \in 1..n : chan'[i] = chan[i]
      /\ chan'[n + 1] = e
  BY <1>1, AppendProperties
<1>3. /\ \A i \in 1..(n + 1) : i = n + 1 \/ i \in 1..n
      /\ \A i \in 1..n : i \in 1..(n + 1) /\ chan[i].line < e.line
      /\ n + 1 \in 1..(n + 1)
  BY <1>1 DEF Emitted, InChan
<1>4. InChan' = InChan \cup {e}
  <2>1. InChan' = {chan'[k] : k \in 1..(n + 1)}
    BY <1>2 DEF InChan
  <2>2. InChan = {chan[k] : k \in 1..n}
    BY DEF InChan
  <2> HIDE DEF n
  <2> QED
    BY <1>2, <1>3, <2>1, <2>2
<1>5. \A i, j \in 1..(n + 1) : i < j => chan'[i].line < chan'[j].line
  <2> SUFFICES ASSUME NEW i \in 1..(n + 1), NEW j \in 1..(n + 1), i < j
               PROVE  chan'[i].line < chan'[j].line
    OBVIOUS
  <2>1. i \in 1..n
    BY <1>1
  <2>2. CASE j = n + 1
    BY <1>2, <1>3, <2>1, <2>2
  <2>3. CASE j \in 1..n
    BY <1>2, <2>1, <2>3 DEF Queue, LinesInOrder
  <2> QED
    BY <1>3, <2>2, <2>3
<1>6. QueueTypes'
  BY <1>2 DEF Queue, QueueTypes
<1>7. Before(SetOf(stored) \cup SetOf(flight) \cup pending, InChan \cup {e})
  BY DEF Queue, LinesInOrder, Emitted, Before
<1> QED
  BY <1>2, <1>4, <1>5, <1>6, <1>7 DEF Queue, LinesInOrder, Emitted

(* The pusher takes the next line from the channel. *)
LEMMA ReceiveMoves ==
  ASSUME Queue, chan # <<>>, pending' = pending \cup {Head(chan)}, chan' = Tail(chan),
         UNCHANGED <<flight, stored>>
  PROVE  Queue' /\ Emitted' = Emitted
<1> DEFINE n == Len(chan)
           e == Head(chan)
<1>1. /\ chan' \in Seq(LineEvent) /\ e \in LineEvent /\ e = chan[1]
      /\ n \in Nat /\ n >= 1 /\ Len(chan') = n - 1
      /\ \A i \in 1..(n - 1) : chan'[i] = chan[i + 1]
  BY HeadTailProperties, EmptySeq DEF Queue, QueueTypes
<1>2. /\ \A i \in 1..(n - 1) : i + 1 \in 1..n
      /\ \A i \in 1..n : i = 1 \/ (i - 1 \in 1..(n - 1) /\ i = (i - 1) + 1)
      /\ 1 \in 1..n
  BY <1>1
<1>3. InChan = {e} \cup InChan'
  <2>1. InChan' = {chan'[k] : k \in 1..(n - 1)}
    BY <1>1 DEF InChan
  <2>2. InChan = {chan[k] : k \in 1..n}
    BY DEF InChan
  <2>3. ASSUME NEW i \in 1..n PROVE chan[i] \in {e} \cup InChan'
    <3>1. CASE i = 1
      BY <1>1, <3>1
    <3>2. CASE i - 1 \in 1..(n - 1) /\ i = (i - 1) + 1
      <4>1. chan'[i - 1] = chan[i]
        BY <1>1, <3>2
      <4> QED
        BY <2>1, <3>2, <4>1
    <3> QED
      BY <1>2, <3>1, <3>2
  <2>4. \A i \in 1..(n - 1) : chan'[i] \in InChan
    BY <1>1, <1>2, <2>2
  <2>5. e \in InChan
    BY <1>1, <1>2, <2>2
  <2> HIDE DEF n, e
  <2> QED
    BY <2>1, <2>2, <2>3, <2>4, <2>5
<1>4. ASSUME NEW i \in 1..(n - 1), NEW j \in 1..(n - 1), i < j
      PROVE  chan'[i].line < chan'[j].line
  <2>1. i + 1 \in 1..n /\ j + 1 \in 1..n
    BY <1>2
  <2>2. i + 1 < j + 1
    BY <1>1, <1>4
  <2> QED
    BY <1>1, <2>1, <2>2 DEF Queue, LinesInOrder
<1>5. ASSUME NEW i \in 1..(n - 1) PROVE e.line < chan'[i].line
  <2>1. i + 1 \in 1..n /\ 1 \in 1..n /\ 1 < i + 1
    BY <1>1, <1>2
  <2> QED
    BY <1>1, <2>1 DEF Queue, LinesInOrder
<1>6. Before({e}, InChan')
  BY <1>1, <1>5 DEF Before, InChan
<1> HIDE DEF e
<1>7. LinesInOrder'
  BY <1>1, <1>3, <1>4, <1>6 DEF Queue, LinesInOrder, Before
<1> QED
  BY <1>1, <1>3, <1>7 DEF Queue, QueueTypes, Emitted

(* The running tick is sent, one batch per second. *)
LEMMA TickMoves ==
  ASSUME Queue, NEW bound \in Nat, \A e \in Emitted : e.line <= bound,
         pending' = {}, flight' = flight \o SplitByGameSecond(pending),
         UNCHANGED <<chan, stored>>
  PROVE  Queue' /\ Emitted' = Emitted
<1> DEFINE s == SplitByGameSecond(pending)
<1>1. s \in Seq(SUBSET LineEvent) /\ SetOf(s) = pending /\ Ordered(s)
  BY SplitIsOrdered DEF Queue, QueueTypes, Emitted
<1> HIDE DEF s
<1>2. Ordered(flight) /\ Before(SetOf(flight), SetOf(s))
  BY <1>1 DEF Queue, LinesInOrder, Before
<1>3. /\ flight' \in Seq(SUBSET LineEvent) /\ Ordered(flight')
      /\ SetOf(flight') = SetOf(flight) \cup pending
  <2>1. flight \in Seq(SUBSET LineEvent) /\ flight' = flight \o s
    BY DEF Queue, QueueTypes, s
  <2>2. flight \o s \in Seq(SUBSET LineEvent)
    BY <1>1, <2>1, SetOfConcat
  <2>3. SetOf(flight \o s) = SetOf(flight) \cup SetOf(s)
    <3>1. \A a, b \in Seq(SUBSET LineEvent) : SetOf(a \o b) = SetOf(a) \cup SetOf(b)
      BY SetOfConcat
    <3> QED
      BY <1>1, <2>1, <3>1
  <2>4. Ordered(flight \o s)
    BY <1>1, <1>2, <2>1, SetOfConcat, Zenon
  <2> QED
    BY <1>1, <2>1, <2>2, <2>3, <2>4
<1>4. InChan' = InChan
  BY DEF InChan
<1>5. LinesInOrder'
  BY <1>3, <1>4 DEF Queue, LinesInOrder, Before
<1> QED
  BY <1>3, <1>4, <1>5 DEF Queue, QueueTypes, Emitted

(* The server stores the next batch. *)
LEMMA ProcessMoves ==
  ASSUME Queue, Process
  PROVE  Queue' /\ Emitted' = Emitted
<1>1. /\ stored' = Append(stored, Head(flight)) /\ flight' = Tail(flight)
      /\ flight # <<>> /\ UNCHANGED <<chan, pending>>
  BY DEF Process
<1>2. /\ flight' \in Seq(SUBSET LineEvent) /\ Head(flight) \in SUBSET LineEvent
      /\ SetOf(flight) = Head(flight) \cup SetOf(flight')
      /\ Ordered(flight') /\ Before(Head(flight), SetOf(flight'))
  BY <1>1, SetOfTail DEF Queue, QueueTypes, LinesInOrder
<1>3. Before(SetOf(stored), Head(flight))
  BY <1>2 DEF Queue, LinesInOrder, Before
<1>4. /\ stored' \in Seq(SUBSET LineEvent) /\ Ordered(stored')
      /\ SetOf(stored') = SetOf(stored) \cup Head(flight)
  <2>1. stored \in Seq(SUBSET LineEvent) /\ Ordered(stored)
    BY DEF Queue, QueueTypes, LinesInOrder
  <2>2. /\ Append(stored, Head(flight)) \in Seq(SUBSET LineEvent)
        /\ SetOf(Append(stored, Head(flight))) = SetOf(stored) \cup Head(flight)
    BY SMTT(20), <1>2, <2>1, SetOfAppend
  <2>3. Ordered(Append(stored, Head(flight)))
    BY <1>2, <1>3, <2>1, SetOfAppend, Zenon
  <2> QED
    BY <1>1, <2>2, <2>3
<1>5. InChan' = InChan
  BY <1>1 DEF InChan
<1>6. LinesInOrder'
  BY <1>1, <1>2, <1>4, <1>5 DEF Queue, LinesInOrder, Before
<1>7. QueueTypes'
  BY <1>1, <1>2, <1>4 DEF Queue, QueueTypes
<1> QED
  BY <1>1, <1>2, <1>4, <1>5, <1>6, <1>7 DEF Queue, Emitted

(* What a failure takes leaves the rest in order. *)
LEMMA DropShrinks ==
  ASSUME Queue, UNCHANGED stored,
         chan' = chan \/ chan' = <<>>,
         pending' = pending \/ pending' = {},
         flight' = flight \/ flight' = <<>>
  PROVE  Queue' /\ Emitted' \subseteq Emitted
<1>1. chan' \in Seq(LineEvent) /\ InChan' \subseteq InChan
      /\ \A i, j \in 1..Len(chan') : i < j => chan'[i].line < chan'[j].line
  <2>1. CASE chan' = chan
    BY <2>1 DEF Queue, QueueTypes, LinesInOrder, InChan
  <2>2. CASE chan' = <<>>
    <3>1. Len(chan') = 0 /\ 1..Len(chan') = {}
      BY <2>2
    <3> QED
      BY <2>2, <3>1 DEF InChan
  <2> QED
    BY <2>1, <2>2
<1>2. /\ flight' \in Seq(SUBSET LineEvent) /\ Ordered(flight')
      /\ SetOf(flight') \subseteq SetOf(flight)
  <2>1. CASE flight' = flight
    BY <2>1 DEF Queue, QueueTypes, LinesInOrder
  <2>2. CASE flight' = <<>>
    BY <2>2, SetOfEmpty
  <2> QED
    BY <2>1, <2>2
<1>3. LinesInOrder'
  BY <1>1, <1>2 DEF Queue, LinesInOrder, Before
<1>4. QueueTypes'
  BY <1>1, <1>2 DEF Queue, QueueTypes
<1> QED
  BY <1>1, <1>2, <1>3, <1>4 DEF Queue, Emitted
-----------------------------------------------------------------------------
(* The file and what the tailer has read of it. *)

HalfType == [line : Nat, last : BOOLEAN]

LEMMA HalfFacts ==
  ASSUME NEW n \in Nat
  PROVE  /\ Half(n) \in HalfType
         /\ Half(n).last <=> n % 2 = 0
         /\ Half(n).line \in Nat
         /\ Half(n).last => 2 * Half(n).line = n
         /\ ~Half(n).last => 2 * Half(n).line = n + 1
<1> DEFINE l == (n + 1) \div 2
<1>1. /\ l \in Nat
      /\ n % 2 = 0 => 2 * l = n
      /\ n % 2 # 0 => 2 * l = n + 1
  OBVIOUS
<1>2. (n % 2 = 0) \in BOOLEAN
  OBVIOUS
<1>3. Half(n).line = l /\ Half(n).last = (n % 2 = 0)
  BY Zenon DEF Half
<1>4. Half(n) \in HalfType
  BY <1>1, <1>2, Zenon DEF Half, HalfType
<1> HIDE DEF l
<1> QED
  BY <1>1, <1>3, <1>4

(* A read ends with the first newline after pos, or with the file. *)
LEMMA ReadIsPrefix ==
  ASSUME Content \in Seq(HalfType), pos \in Nat
  PROVE  LET left == IF pos < Len(Content) THEN Len(Content) - pos ELSE 0
         IN  /\ Read \in Seq(HalfType)
             /\ Len(Read) \in 0..left
             /\ left > 0 => Len(Read) > 0
             /\ \A i \in 1..Len(Read) : Read[i] = Content[pos + i]
             /\ \A i \in 1..(Len(Read) - 1) : ~Content[pos + i].last
             /\ Content[pos + Len(Read)].last \/ Len(Read) = left
<1> DEFINE c == Content
           m == Len(c)
           k == IF pos < m THEN m - pos ELSE 0
           rest == SubSeq(c, pos + 1, m)
           ends == {i \in 1..Len(rest) : rest[i].last}
<1>1. m \in Nat /\ k \in Nat /\ \A i \in 1..m : c[i] \in HalfType
  BY ElementOfSeq
<1>2. /\ rest \in Seq(HalfType) /\ Len(rest) = k
      /\ \A i \in 1..k : rest[i] = c[pos + i]
  <2>1. \A i \in (pos + 1)..m : c[i] \in HalfType
    BY <1>1
  <2>2. /\ rest \in Seq(HalfType)
        /\ Len(rest) = IF pos + 1 <= m THEN m - (pos + 1) + 1 ELSE 0
        /\ \A i \in 1..(m - (pos + 1) + 1) : rest[i] = c[pos + 1 + i - 1]
    BY <1>1, <2>1, SubSeqProperties
  <2> HIDE DEF c, m, rest
  <2>3. Len(rest) = k
    BY <1>1, <2>2
  <2>4. ASSUME NEW i \in 1..k PROVE rest[i] = c[pos + i]
    <3>1. i \in 1..(m - (pos + 1) + 1) /\ pos + 1 + i - 1 = pos + i
      BY <1>1
    <3> QED
      BY <2>2, <3>1
  <2> QED
    BY <2>2, <2>3, <2>4
<1>3. Read = IF ends = {} THEN rest
             ELSE SubSeq(rest, 1, CHOOSE i \in ends : \A j \in ends : i <= j)
  BY DEF Read
<1>4. CASE ends = {}
  <2>1. Read = rest
    BY <1>3, <1>4
  <2>2. \A i \in 1..k : ~c[pos + i].last
    BY <1>2, <1>4
  <2> HIDE DEF c, m, k, rest, ends
  <2>3. /\ Read \in Seq(HalfType) /\ Len(Read) = k
        /\ \A i \in 1..k : Read[i] = c[pos + i]
    BY <1>2, <2>1
  <2>4. \A i \in 1..(Len(Read) - 1) : ~c[pos + i].last
    <3>1. \A i \in 1..(Len(Read) - 1) : i \in 1..k
      BY <1>1, <2>3
    <3> QED
      BY <2>2, <3>1
  <2>5. Len(Read) \in 0..k /\ (k > 0 => Len(Read) > 0)
    BY <1>1, <2>3
  <2> QED
    BY <2>3, <2>4, <2>5 DEF c, m, k
<1>5. CASE ends # {}
  <2> DEFINE x == CHOOSE i \in ends : \A j \in ends : i <= j
  <2>1. ends \in SUBSET Nat
    BY <1>1, <1>2
  <2>2. x \in ends /\ \A j \in ends : x <= j
    BY <1>5, <2>1, LeastExists
  <2>3. x \in 1..k /\ rest[x].last /\ Read = SubSeq(rest, 1, x)
    BY <1>2, <1>3, <1>5, <2>2
  <2> HIDE DEF x
  <2>4. \A i \in 1..(x - 1) : i \in 1..k /\ ~rest[i].last
    BY <1>1, <1>2, <2>2, <2>3
  <2>5. \A i \in 1..x : rest[i] \in HalfType
    BY <1>2, <2>3, ElementOfSeq
  <2>6. /\ Read \in Seq(HalfType) /\ Len(Read) = x
        /\ \A i \in 1..x : Read[i] = rest[i]
    <3>1. /\ Read \in Seq(HalfType)
          /\ Len(Read) = IF 1 <= x THEN x - 1 + 1 ELSE 0
          /\ \A i \in 1..(x - 1 + 1) : Read[i] = rest[1 + i - 1]
      BY SMTT(20), <1>1, <2>3, <2>5, SubSeqProperties
    <3>2. x - 1 + 1 = x /\ x >= 1 /\ \A i \in 1..x : 1 + i - 1 = i
      BY <1>1, <2>3
    <3> HIDE DEF rest
    <3> QED
      BY <3>1, <3>2
  <2> HIDE DEF c, m, rest, ends
  <2>7. \A i \in 1..x : i \in 1..k /\ Read[i] = c[pos + i]
    BY <1>1, <1>2, <2>3, <2>6
  <2>8. c[pos + x].last
    BY <1>2, <2>3
  <2>9. ASSUME NEW i \in 1..(x - 1) PROVE ~c[pos + i].last
    <3>1. i \in 1..k /\ ~rest[i].last /\ rest[i] = c[pos + i]
      BY <1>2, <2>4
    <3> QED
      BY <3>1
  <2>10. x \in 0..k /\ x > 0
    BY <1>1, <2>3
  <2> QED
    BY <2>6, <2>7, <2>8, <2>9, <2>10 DEF c, m
<1> QED
  BY <1>4, <1>5

(* The half before the first one of the file the tailer has open, counted
   from the beginning of the log, and the half up to which it has read. *)
Base == halves - Len(file) - Len(kept)
Front == Base + IF pos <= Len(Content) THEN pos ELSE 0

FileTypes ==
  /\ mode \in {"live", "dump"} /\ same \in BOOLEAN /\ tailing \in BOOLEAN
  /\ halves \in Nat /\ pos \in Nat
  /\ file \in Seq(HalfType) /\ kept \in Seq(HalfType) /\ buf \in Seq(HalfType)

(* The files hold the halves as the game wrote them, one after the other. *)
FileHolds ==
  /\ Base >= 0
  /\ \A i \in 1..Len(Content) : Content[i] = Half(Base + i)
  /\ \A i \in 1..Len(file) : file[i] = Half(halves - Len(file) + i)
  /\ IF same THEN kept = <<>> ELSE pos <= Len(kept)

(* A dump's file does not change; a line without its end is the last. *)
DumpHolds ==
  /\ ~tailing => mode = "dump"
  /\ mode = "dump" =>
       /\ same /\ Len(file) = halves /\ pos <= halves
       /\ IF buf = <<>> THEN tailing => pos % 2 = 0
          ELSE pos = halves /\ Last(buf) = Half(halves) /\ ~Half(halves).last

FileInv == FileTypes /\ FileHolds /\ DumpHolds

fileVars == <<mode, file, tailVars, halves>>

LEMMA FileInvFacts ==
  ASSUME FileInv
  PROVE  /\ Content \in Seq(HalfType) /\ Len(Content) \in Nat /\ Base \in Nat
         /\ Front \in Nat /\ Front <= halves
         /\ Len(file) \in Nat /\ Len(kept) \in Nat
         /\ same => Base = halves - Len(file)
<1>1. Content \in Seq(HalfType) /\ Len(Content) \in Nat
  BY DEF FileInv, FileTypes, Content
<1>2. Len(file) \in Nat /\ Len(kept) \in Nat /\ Base \in Nat
  BY DEF FileInv, FileTypes, FileHolds, Base
<1>3. same => Len(kept) = 0
  BY DEF FileInv, FileHolds
<1>4. Len(Content) = IF same THEN Len(file) ELSE Len(kept)
  BY DEF Content
<1>5. halves \in Nat /\ pos \in Nat
  BY DEF FileInv, FileTypes
<1> QED
  BY <1>1, <1>2, <1>3, <1>4, <1>5 DEF Front, Base

LEMMA FileInit ==
  DelInit => FileInv /\ Front = pos /\ halves \in Nat
<1> SUFFICES ASSUME DelInit PROVE FileInv /\ Front = pos /\ halves \in Nat
  OBVIOUS
<1>1. /\ halves \in Nat /\ file = Halves(halves) /\ kept = <<>> /\ buf = <<>>
      /\ same = TRUE /\ tailing = TRUE /\ mode \in {"live", "dump"}
      /\ pos = IF mode = "live" THEN halves ELSE 0
  BY DeliveryAssumption DEF DelInit
<1>2. /\ file \in Seq(HalfType) /\ Len(file) = halves
      /\ \A i \in 1..halves : file[i] = Half(i)
  <2>1. \A i \in 1..halves : Half(i) \in HalfType
    BY <1>1, HalfFacts
  <2> QED
    BY <1>1, <2>1 DEF Halves
<1>3. Content = file /\ Len(kept) = 0 /\ Base = 0 /\ pos \in Nat /\ pos <= halves
  <2>1. Content = file
    BY <1>1 DEF Content
  <2>2. Len(kept) = 0 /\ Base = 0
    <3>1. kept = <<>> /\ halves \in Nat
      BY <1>1
    <3>2. Len(kept) = 0
      BY <3>1
    <3>3. Len(file) = halves
      BY <1>2
    <3>4. Base = halves - halves - 0
      BY <3>2, <3>3 DEF Base
    <3> QED
      BY <3>1, <3>2, <3>4
  <2>3. pos \in Nat /\ pos <= halves
    BY <1>1
  <2> QED
    BY <2>1, <2>2, <2>3
<1>4. FileTypes
  BY <1>1, <1>2, <1>3 DEF FileTypes
<1>5. FileHolds
  BY <1>1, <1>2, <1>3 DEF FileHolds
<1>6. DumpHolds
  BY <1>1, <1>2, <1>3 DEF DumpHolds
<1> QED
  BY <1>1, <1>2, <1>3, <1>4, <1>5, <1>6 DEF FileInv, Front

(* Whatever the game does to the log, the tailer is no further back in it. *)
LEMMA GameKeepsFile ==
  ASSUME FileInv, Write \/ Recreate \/ Truncate
  PROVE  FileInv' /\ Front' \in Nat /\ Front' >= Front
<1>1. /\ mode = "live" /\ UNCHANGED <<mode, pos, buf, tailing>> /\ tailing
      /\ halves \in Nat /\ pos \in Nat
  BY DEF FileInv, FileTypes, DumpHolds, Write, Recreate, Truncate, tailVars
<1>2. DumpHolds'
  BY <1>1 DEF DumpHolds
<1>3. CASE Write
  <2>1. /\ halves' = halves + 1 /\ file' = Append(file, Half(halves + 1))
        /\ UNCHANGED <<same, kept>>
        /\ ~same => Len(file) + 1 < Len(kept)
        /\ same /\ pos > Len(file) => Len(file) + 1 < pos
    BY <1>3 DEF Write, tailVars
  <2>2. Half(halves + 1) \in HalfType
    BY <1>1, HalfFacts
  <2>3. /\ file' \in Seq(HalfType) /\ Len(file') = Len(file) + 1
        /\ \A i \in 1..Len(file) : file'[i] = file[i]
        /\ file'[Len(file) + 1] = Half(halves + 1)
    BY <2>1, <2>2, AppendProperties DEF FileInv, FileTypes
  <2>4. Base' = Base /\ Len(file) \in Nat
    BY <1>1, <2>1, <2>3, FileInvFacts DEF Base
  <2>5. ASSUME NEW i \in 1..Len(file') PROVE file'[i] = Half(halves' - Len(file') + i)
    <3>1. halves' - Len(file') = halves - Len(file)
      BY <1>1, <2>1, <2>3, <2>4
    <3>2. CASE i \in 1..Len(file)
      BY <2>3, <3>1, <3>2 DEF FileInv, FileHolds
    <3>3. CASE i = Len(file) + 1
      <4>1. halves - Len(file) + i = halves + 1
        BY <1>1, <2>4, <3>3
      <4> QED
        BY <2>3, <3>1, <3>3, <4>1
    <3> QED
      BY <2>3, <2>4, <3>2, <3>3
  <2>6. CASE same
    <3>1. Content = file /\ Content' = file' /\ Base = halves - Len(file)
      BY <2>1, <2>6, FileInvFacts DEF Content
    <3>2. Base' = halves' - Len(file') /\ Base' >= 0
      BY <1>1, <2>1, <2>3, <2>4, <3>1, FileInvFacts
    <3>3. FileHolds'
      BY <2>1, <2>5, <2>6, <3>1, <3>2 DEF FileInv, FileHolds
    <3>4. Front' = Front
      BY <1>1, <2>1, <2>3, <2>4, <2>6, <3>1 DEF Front
    <3> QED
      BY <1>1, <1>2, <2>1, <2>3, <3>3, <3>4, FileInvFacts DEF FileInv, FileTypes
  <2>7. CASE ~same
    <3>1. Content = kept /\ Content' = kept
      BY <2>1, <2>7 DEF Content
    <3>2. FileHolds'
      BY <1>1, <2>1, <2>4, <2>5, <2>7, <3>1, FileInvFacts DEF FileInv, FileHolds
    <3>3. Front' = Front
      BY <1>1, <2>4, <3>1 DEF Front
    <3> QED
      BY <1>1, <1>2, <2>1, <2>3, <3>2, <3>3, FileInvFacts DEF FileInv, FileTypes
  <2> QED
    BY <2>6, <2>7
<1>4. CASE Recreate
  <2>1. /\ same /\ same' = FALSE /\ kept' = file /\ file' = <<>>
        /\ pos <= Len(file) /\ UNCHANGED halves
    BY <1>4 DEF Recreate
  <2>2. /\ Content = file /\ Content' = file /\ Len(file') = 0
        /\ Base = halves - Len(file) /\ Base' = Base
    BY <1>1, <2>1, FileInvFacts DEF Content, Base
  <2>3. FileHolds'
    BY <1>1, <2>1, <2>2, FileInvFacts DEF FileInv, FileHolds
  <2>4. Front' = Front
    BY <1>1, <2>1, <2>2 DEF Front
  <2>5. same' \in BOOLEAN
    BY <2>1, Zenon
  <2>6. file' \in Seq(HalfType) /\ kept' \in Seq(HalfType)
    BY <2>1 DEF FileInv, FileTypes
  <2> QED
    BY <1>1, <1>2, <2>1, <2>3, <2>4, <2>5, <2>6, FileInvFacts DEF FileInv, FileTypes
<1>5. CASE Truncate
  <2>1. same /\ UNCHANGED <<same, kept, halves>> /\ file' = <<>> /\ kept = <<>>
    BY <1>5 DEF Truncate, tailVars, FileInv, FileHolds
  <2>2. Content' = <<>> /\ Len(file') = 0 /\ Len(kept') = 0 /\ Base' = halves
    BY <1>1, <2>1 DEF Content, Base
  <2>3. FileHolds'
    BY <1>1, <2>1, <2>2 DEF FileHolds
  <2>4. Front' = halves
    BY <1>1, <2>1, <2>2 DEF Front
  <2> QED
    BY <1>1, <1>2, <2>1, <2>3, <2>4, FileInvFacts DEF FileInv, FileTypes
<1> QED
  BY <1>3, <1>4, <1>5

LEMMA ReopenKeepsFile ==
  ASSUME FileInv, Reopen
  PROVE  FileInv' /\ Front' \in Nat /\ Front' >= Front
<1>1. /\ mode = "live" /\ UNCHANGED <<mode, file, tailing, halves>> /\ tailing
      /\ Read = <<>> /\ Len(file) < pos
      /\ same' = TRUE /\ kept' = <<>> /\ pos' = 0 /\ buf' = <<>>
  BY DEF Reopen
<1>2. /\ Len(Content) \in Nat /\ pos \in Nat /\ halves \in Nat
      /\ Len(file) \in Nat /\ Len(kept) \in Nat
  BY FileInvFacts DEF FileInv, FileTypes
<1>3. pos >= Len(Content)
  <2>1. Len(Read) = 0
    BY <1>1
  <2> QED
    BY <1>2, <2>1, ReadIsPrefix, FileInvFacts
<1>4. Content' = file /\ Base' = halves - Len(file) /\ Front' = Base'
  BY <1>1, <1>2 DEF Content, Base, Front
<1>5. Front = Base'
  <2>1. CASE same
    BY <1>1, <1>2, <1>4, <2>1, FileInvFacts DEF Front, Content
  <2>2. CASE ~same
    <3>1. Content = kept /\ pos = Len(kept)
      BY <1>2, <1>3, <2>2 DEF Content, FileInv, FileHolds
    <3> QED
      BY <1>2, <1>4, <3>1 DEF Front, Base
  <2> QED
    BY <2>1, <2>2
<1>6. FileTypes'
  BY <1>1 DEF FileInv, FileTypes
<1>7. FileHolds'
  BY <1>1, <1>2, <1>4, <1>5, FileInvFacts DEF FileInv, FileHolds
<1>8. DumpHolds'
  BY <1>1 DEF DumpHolds
<1> QED
  BY <1>4, <1>5, <1>6, <1>7, <1>8, FileInvFacts DEF FileInv

(* No line is emitted that was not read, and a line not read to its end only
   at the end of a dump. *)
LinesRead ==
  \A e \in Emitted : 2 * e.line <= IF tailing THEN Front ELSE halves + 1

(* A dump's lines are emitted as far as it has read. *)
LinesEmitted ==
  \A l \in Nat \ {0} :
    2 * l <= (IF tailing THEN pos ELSE halves + 1) => \E e \in Emitted : e.line = l

LEMMA EmittedAreLines ==
  ASSUME Queue PROVE Emitted \subseteq LineEvent
<1>1. /\ chan \in Seq(LineEvent) /\ pending \subseteq LineEvent
      /\ flight \in Seq(SUBSET LineEvent) /\ stored \in Seq(SUBSET LineEvent)
  BY DEF Queue, QueueTypes
<1>2. InChan \subseteq LineEvent
  BY <1>1 DEF InChan
<1>3. SetOf(flight) \subseteq LineEvent /\ SetOf(stored) \subseteq LineEvent
  BY <1>1 DEF SetOf
<1> QED
  BY <1>1, <1>2, <1>3 DEF Emitted

LEMMA QueueStays ==
  ASSUME Queue, UNCHANGED <<chan, pending, flight, stored>>
  PROVE  Queue' /\ Emitted' = Emitted
BY DEF Queue, QueueTypes, LinesInOrder, Emitted, InChan

(* A line whose end was read, or the last of a dump, enters the channel. *)
LEMMA EmitKeeps ==
  ASSUME Queue, NEW b, Emit(b), UNCHANGED <<pending, flight, stored>>,
         Last(b).line \in Nat \ {0},
         \A d \in Emitted : d.line < Last(b).line
  PROVE  /\ Queue'
         /\ \E e \in LineEvent : e.line = Last(b).line /\ Emitted' = Emitted \cup {e}
<1> DEFINE l == Last(b).line
           w == \/ b = <<Half(2 * l - 1), Half(2 * l)>>
                \/ b = <<Half(2 * l - 1)>> /\ mode = "dump"
           e == [line |-> l, whole |-> w]
<1>1. chan' = Append(chan, e)
  BY Zenon DEF Emit
<1>2. w \in BOOLEAN
  BY Zenon
<1> HIDE DEF w
<1>3. e \in LineEvent /\ e.line = l
  BY <1>2 DEF LineEvent
<1> HIDE DEF e
<1>4. Queue' /\ Emitted' = Emitted \cup {e}
  BY <1>1, <1>3, EmitExtends
<1> QED
  BY <1>3, <1>4

LEMMA ReadKeeps ==
  ASSUME Queue, FileInv, LinesRead, TailReads
  PROVE  /\ Queue' /\ FileInv' /\ LinesRead'
         /\ mode = "dump" /\ LinesEmitted => LinesEmitted'
<1> DEFINE r == Read
           m == Len(r)
           n == Len(Content)
           h == Base + pos + m
<1>1. /\ tailing /\ r # <<>> /\ pos' = pos + m
      /\ UNCHANGED <<mode, file, same, kept, tailing, halves, pending, flight, stored>>
      /\ IF Last(r).last THEN Emit(buf \o r) /\ buf' = <<>>
         ELSE buf' = buf \o r /\ UNCHANGED chan
  BY DEF TailReads, pushVars
<1>2. /\ n \in Nat /\ pos \in Nat /\ halves \in Nat /\ Base \in Nat
      /\ Content \in Seq(HalfType) /\ buf \in Seq(HalfType)
      /\ Len(file) \in Nat /\ Len(kept) \in Nat
  BY FileInvFacts DEF FileInv, FileTypes
<1>3. /\ r \in Seq(HalfType) /\ m \in Nat /\ m >= 1 /\ pos < n /\ pos + m <= n
      /\ \A i \in 1..m : r[i] = Content[pos + i]
      /\ \A i \in 1..(m - 1) : ~Content[pos + i].last
      /\ Content[pos + m].last \/ pos + m = n
  <2>1. /\ r \in Seq(HalfType)
        /\ m \in 0..(IF pos < n THEN n - pos ELSE 0)
        /\ \A i \in 1..m : r[i] = Content[pos + i]
        /\ \A i \in 1..(m - 1) : ~Content[pos + i].last
        /\ Content[pos + m].last \/ m = IF pos < n THEN n - pos ELSE 0
    BY <1>2, ReadIsPrefix
  <2>2. m # 0
    BY <1>1, <2>1, EmptySeq
  <2> HIDE DEF r, m, n
  <2>3. m \in Nat /\ m >= 1 /\ pos < n /\ pos + m <= n
    BY <1>2, <2>1, <2>2
  <2> QED
    BY <1>2, <2>1, <2>3
<1>4. Content' = Content /\ Base' = Base
  BY <1>1 DEF Content, Base
<1> HIDE DEF r, m, n
<1>5. Front = Base + pos /\ Front' = h /\ Front < h /\ h \in Nat
  BY <1>1, <1>2, <1>3, <1>4 DEF Front, n
<1>6. /\ \A i \in 1..m : pos + i \in 1..n /\ Content[pos + i] = Half(Base + pos + i)
      /\ m \in 1..m
  <2>1. ASSUME NEW i \in 1..m
        PROVE  pos + i \in 1..n /\ Content[pos + i] = Half(Base + pos + i)
    <3>1. pos + i \in 1..n /\ Base + (pos + i) = Base + pos + i
      BY <1>2, <1>3
    <3>2. Content[pos + i] = Half(Base + (pos + i))
      BY <3>1 DEF FileInv, FileHolds, n
    <3> QED
      BY <3>1, <3>2
  <2> QED
    BY <1>3, <2>1
<1>7. Last(r) = Half(h) /\ Half(h) \in HalfType
  BY <1>3, <1>5, <1>6, HalfFacts DEF Last, m
<1>8. /\ buf \o r \in Seq(HalfType) /\ buf \o r # <<>> /\ Last(buf \o r) = Half(h)
  <2> DEFINE k == Len(buf)
             s == buf \o r
  <2>1. /\ s \in Seq(HalfType) /\ Len(s) = k + m
        /\ \A i \in 1..(k + m) : s[i] = IF i <= k THEN buf[i] ELSE r[i - k]
    BY <1>2, <1>3, ConcatProperties DEF m
  <2>2. k \in Nat
    BY <1>2
  <2>3. /\ k + m \in 1..(k + m) /\ ~ (k + m <= k)
        /\ k + m - k = m /\ k + m # 0
    BY <1>3, <2>2
  <2>4. s[k + m] = r[m]
    <3> HIDE DEF k, s
    <3>1. s[k + m] = IF k + m <= k THEN buf[k + m] ELSE r[k + m - k]
      BY <1>3, <2>1, <2>2, <2>3
    <3> QED
      BY <2>3, <3>1
  <2>5. buf \o r # <<>>
    BY <2>1, <2>3
  <2> QED
    BY <1>7, <2>1, <2>4, <2>5 DEF Last, m
<1>9. FileHolds'
  <2>1. ~same => pos + m <= Len(kept)
    BY <1>3 DEF Content, n
  <2> QED
    BY <1>1, <1>4, <2>1 DEF FileInv, FileHolds
<1>10. mode = "dump" =>
         /\ buf = <<>> /\ pos % 2 = 0 /\ n = halves /\ Base = 0 /\ same
         /\ Len(file) = halves
  <2> SUFFICES ASSUME mode = "dump"
               PROVE  /\ buf = <<>> /\ pos % 2 = 0 /\ n = halves /\ Base = 0 /\ same
                      /\ Len(file) = halves
    OBVIOUS
  <2>1. same /\ Len(file) = halves
    BY DEF FileInv, DumpHolds
  <2>2. n = halves /\ Base = 0
    BY <1>2, <2>1, FileInvFacts DEF Content, n
  <2>3. buf = <<>>
    BY <1>2, <1>3, <2>2 DEF FileInv, DumpHolds
  <2> QED
    BY <1>1, <2>1, <2>2, <2>3 DEF FileInv, DumpHolds
<1>11. CASE Last(r).last
  <2>1. Emit(buf \o r) /\ buf' = <<>>
    BY <1>1, <1>11
  <2>2. Half(h).last /\ 2 * Half(h).line = h /\ Half(h).line \in Nat \ {0}
    BY SMTT(20), <1>2, <1>3, <1>5, <1>7, <1>11, HalfFacts
  <2>3. h % 2 = 0
    BY <1>5, <2>2, HalfFacts
  <2>4. ASSUME NEW d \in Emitted PROVE d.line \in Nat /\ d.line < Half(h).line
    <3>1. 2 * d.line <= Front
      BY <1>1 DEF LinesRead
    <3>2. d.line \in Nat
      BY EmittedAreLines DEF LineEvent
    <3> QED
      BY <1>2, <1>3, <1>5, <2>2, <3>1, <3>2
  <2>5. PICK e \in LineEvent :
          /\ e.line = Half(h).line
          /\ Queue' /\ Emitted' = Emitted \cup {e}
    BY <1>1, <1>8, <2>1, <2>2, <2>4, EmitKeeps
  <2>6. LinesRead'
    <3> SUFFICES ASSUME NEW d \in Emitted \cup {e} PROVE 2 * d.line <= h
      BY <1>1, <1>5, <2>5 DEF LinesRead
    <3>1. CASE d \in Emitted
      BY <1>5, <2>2, <2>4, <3>1
    <3>2. CASE d = e
      BY <1>5, <2>2, <2>5, <3>2
    <3> QED
      BY <3>1, <3>2
  <2>7. DumpHolds'
    BY <1>1, <1>2, <1>3, <1>10, <2>1, <2>3 DEF FileInv, DumpHolds
  <2>8. ASSUME mode = "dump", LinesEmitted PROVE LinesEmitted'
    <3>1. m <= 2
      <4>1. SUFFICES ASSUME m > 2 PROVE FALSE
        BY <1>3
      <4>2. 2 \in 1..(m - 1) /\ 2 \in 1..m
        BY <1>3, <4>1
      <4>3. ~Half(Base + pos + 2).last
        BY <1>3, <1>6, <4>2
      <4>4. Base + pos + 2 \in Nat /\ (Base + pos + 2) % 2 = 0
        BY <1>2, <1>10, <2>8
      <4> QED
        BY <4>3, <4>4, HalfFacts
    <3>2. h = pos + m /\ m = 2
      <4>1. h = pos + m /\ pos % 2 = 0
        BY <1>2, <1>3, <1>10, <2>8
      <4>2. m # 1
        BY <1>2, <2>3, <4>1
      <4> QED
        BY <1>3, <3>1, <4>1, <4>2
    <3> SUFFICES ASSUME NEW l \in Nat \ {0}, 2 * l <= pos + m
                 PROVE  \E d \in Emitted \cup {e} : d.line = l
      BY <1>1, <2>5 DEF LinesEmitted
    <3>3. CASE 2 * l <= pos
      BY <1>1, <2>8, <3>3 DEF LinesEmitted
    <3>4. CASE 2 * l > pos
      BY <1>2, <1>10, <2>2, <2>5, <2>8, <3>2, <3>4
    <3> QED
      BY <1>2, <3>3, <3>4
  <2>9. FileTypes'
    BY <1>1, <1>2, <1>3, <2>1 DEF FileInv, FileTypes
  <2> QED
    BY <1>9, <2>5, <2>6, <2>7, <2>8, <2>9 DEF FileInv
<1>12. CASE ~Last(r).last
  <2>1. buf' = buf \o r /\ UNCHANGED chan
    BY <1>1, <1>12
  <2>2. Queue' /\ Emitted' = Emitted
    BY <1>1, <2>1, QueueStays
  <2>3. ~Half(h).last /\ h % 2 # 0 /\ pos + m = n
    BY <1>3, <1>5, <1>6, <1>7, <1>12, HalfFacts
  <2>4. LinesRead'
    <3> SUFFICES ASSUME NEW d \in Emitted PROVE 2 * d.line <= h
      BY <1>1, <1>5, <2>2 DEF LinesRead
    <3>1. d.line \in Nat
      BY EmittedAreLines DEF LineEvent
    <3>2. 2 * d.line <= Base + pos
      BY <1>1, <1>5 DEF LinesRead
    <3> QED
      BY SMTT(20), <1>2, <1>3, <3>1, <3>2
  <2>5. DumpHolds'
    <3>1. mode = "dump" => h = halves /\ pos + m = halves
      BY <1>2, <1>3, <1>10, <2>3
    <3> QED
      BY <1>1, <1>2, <1>8, <1>10, <2>1, <2>3, <3>1 DEF FileInv, DumpHolds
  <2>6. ASSUME mode = "dump", LinesEmitted PROVE LinesEmitted'
    <3>1. m <= 1
      <4>1. SUFFICES ASSUME m > 1 PROVE FALSE
        BY <1>3
      <4>2. ~Half(Base + pos + 2).last
        <5>1. CASE m = 2
          BY <1>7, <1>12, <5>1
        <5>2. CASE m > 2
          <6>1. 2 \in 1..(m - 1) /\ 2 \in 1..m
            BY <1>3, <5>2
          <6> QED
            BY <1>3, <1>6, <6>1
        <5> QED
          BY <1>3, <4>1, <5>1, <5>2
      <4>3. Base + pos + 2 \in Nat /\ (Base + pos + 2) % 2 = 0
        BY <1>2, <1>10, <2>6
      <4> QED
        BY <4>2, <4>3, HalfFacts
    <3> SUFFICES ASSUME NEW l \in Nat \ {0}, 2 * l <= pos + m
                 PROVE  \E d \in Emitted : d.line = l
      BY <1>1, <2>2 DEF LinesEmitted
    <3>2. 2 * l <= pos
      BY <1>2, <1>3, <1>10, <2>6, <3>1
    <3> QED
      BY <1>1, <2>6, <3>2 DEF LinesEmitted
  <2>7. FileTypes'
    BY <1>1, <1>2, <1>3, <1>8, <2>1 DEF FileInv, FileTypes
  <2> QED
    BY <1>9, <2>2, <2>4, <2>5, <2>6, <2>7 DEF FileInv
<1> QED
  BY <1>11, <1>12

(* What is missing went with a broken connection, and nothing is left to send
   once the pusher says goodbye. *)
Arrives ==
  breaks = 0 =>
    /\ link # "broken"
    /\ link = "done" => flight = <<>>
    /\ mode = "dump" => LinesEmitted

Closing ==
  link \in {"closing", "done"} => ~tailing /\ chan = <<>> /\ pending = {}

PipeInv ==
  Queue /\ FileInv /\ LinesRead /\ breaks \in Nat /\ Arrives /\ Closing

LEMMA PipeInit ==
  DelInit => PipeInv
<1> SUFFICES ASSUME DelInit PROVE PipeInv
  OBVIOUS
<1>1. /\ chan = <<>> /\ pending = {} /\ flight = <<>> /\ stored = <<>>
      /\ link = "down" /\ breaks = 0 /\ tailing = TRUE /\ mode \in {"live", "dump"}
      /\ mode = "dump" => pos = 0
  BY DEF DelInit
<1>2. Len(chan) = 0 /\ InChan = {} /\ SetOf(stored) = {} /\ SetOf(flight) = {}
  BY <1>1, SetOfEmpty DEF InChan
<1>3. Queue /\ Emitted = {}
  BY <1>1, <1>2, SetOfEmpty DEF Queue, QueueTypes, LinesInOrder, Before, Emitted
<1>4. mode = "dump" => LinesEmitted
  BY <1>1 DEF LinesEmitted
<1> QED
  BY <1>1, <1>3, <1>4, FileInit DEF PipeInv, LinesRead, Arrives, Closing

(* The pusher leaves the file alone. *)
LEMMA FileStays ==
  ASSUME FileInv, LinesRead, UNCHANGED fileVars, Emitted' \subseteq Emitted
  PROVE  /\ FileInv' /\ LinesRead'
         /\ LinesEmitted /\ Emitted' = Emitted => LinesEmitted'
<1>1. UNCHANGED <<mode, file, same, kept, pos, buf, tailing, halves>>
  BY DEF fileVars, tailVars
<1>2. Content' = Content /\ Base' = Base
  BY <1>1 DEF Content, Base
<1>3. Front' = Front
  BY <1>1, <1>2 DEF Front
<1>4. FileTypes'
  BY <1>1 DEF FileInv, FileTypes
<1>5. FileHolds'
  BY <1>1, <1>2 DEF FileInv, FileHolds
<1>6. DumpHolds'
  BY <1>1 DEF FileInv, DumpHolds
<1>7. LinesRead'
  BY <1>1, <1>3 DEF LinesRead
<1>8. LinesEmitted /\ Emitted' = Emitted => LinesEmitted'
  BY <1>1 DEF LinesEmitted
<1> QED
  BY <1>4, <1>5, <1>6, <1>7, <1>8 DEF FileInv

LEMMA LinesAreBounded ==
  ASSUME Queue, FileInv, LinesRead
  PROVE  halves + 1 \in Nat /\ \A e \in Emitted : e.line <= halves + 1
<1>1. halves \in Nat /\ Front \in Nat /\ Front <= halves
  BY FileInvFacts DEF FileInv, FileTypes
<1>2. ASSUME NEW e \in Emitted PROVE e.line <= halves + 1
  <2>1. e.line \in Nat /\ (2 * e.line <= Front \/ 2 * e.line <= halves + 1)
    BY EmittedAreLines DEF LineEvent, LinesRead
  <2> QED
    BY <1>1, <2>1
<1> QED
  BY <1>1, <1>2

LEMMA GameKeeps ==
  ASSUME PipeInv, Write \/ Recreate \/ Truncate
  PROVE  PipeInv'
<1>1. /\ mode = "live" /\ UNCHANGED <<mode, tailing, chan, pending, link, flight, breaks, stored>>
  BY DEF Write, Recreate, Truncate, tailVars, pushVars
<1>2. Queue' /\ Emitted' = Emitted
  BY <1>1, QueueStays DEF PipeInv
<1>3. FileInv' /\ Front' >= Front /\ tailing /\ Front \in Nat /\ Front' \in Nat
  <2>1. FileInv /\ tailing
    BY <1>1 DEF PipeInv, FileInv, DumpHolds
  <2> QED
    BY <2>1, GameKeepsFile, FileInvFacts
<1>4. LinesRead'
  <2> SUFFICES ASSUME NEW e \in Emitted PROVE 2 * e.line <= Front'
    BY <1>1, <1>2, <1>3 DEF LinesRead
  <2>1. e.line \in Nat /\ 2 * e.line <= Front
    BY <1>3, EmittedAreLines DEF LineEvent, LinesRead, PipeInv
  <2> QED
    BY <1>3, <2>1
<1> QED
  BY <1>1, <1>2, <1>3, <1>4 DEF PipeInv, Arrives, Closing

LEMMA ReopenKeeps ==
  ASSUME PipeInv, Reopen
  PROVE  PipeInv'
<1>1. /\ mode = "live" /\ UNCHANGED <<mode, tailing, chan, pending, link, flight, breaks, stored>>
      /\ tailing
  BY DEF Reopen, pushVars
<1>2. Queue' /\ Emitted' = Emitted
  BY <1>1, QueueStays DEF PipeInv
<1>3. FileInv' /\ Front' >= Front /\ Front \in Nat /\ Front' \in Nat
  BY ReopenKeepsFile, FileInvFacts DEF PipeInv
<1>4. LinesRead'
  <2> SUFFICES ASSUME NEW e \in Emitted PROVE 2 * e.line <= Front'
    BY <1>1, <1>2, <1>3 DEF LinesRead
  <2>1. e.line \in Nat /\ 2 * e.line <= Front
    BY <1>1, EmittedAreLines DEF LineEvent, LinesRead, PipeInv
  <2> QED
    BY <1>3, <2>1
<1> QED
  BY <1>1, <1>2, <1>3, <1>4 DEF PipeInv, Arrives, Closing

(* At the end of a dump everything has been read, and a line without its end
   is emitted as it is. *)
LEMMA TailEndsKeeps ==
  ASSUME PipeInv, TailEnds
  PROVE  PipeInv'
<1>1. /\ tailing /\ mode = "dump" /\ Read = <<>> /\ tailing' = FALSE
      /\ UNCHANGED <<mode, file, same, kept, pos, buf, halves, pending, link, flight,
                     breaks, stored>>
      /\ IF buf = <<>> THEN UNCHANGED chan ELSE Emit(buf)
  BY DEF TailEnds, pushVars
<1>2. /\ same /\ Len(file) = halves /\ pos <= halves /\ Content = file
      /\ pos \in Nat /\ halves \in Nat
  BY <1>1 DEF PipeInv, FileInv, FileTypes, DumpHolds, Content
<1>3. pos = halves
  <2>1. Len(Read) = 0 /\ Len(Content) = halves
    BY <1>1, <1>2
  <2>2. Content \in Seq(HalfType)
    BY FileInvFacts DEF PipeInv
  <2> QED
    BY <1>2, <2>1, <2>2, ReadIsPrefix
<1>4. Front = halves
  BY <1>2, <1>3, FileInvFacts DEF Front, PipeInv
<1>5. Content' = Content /\ Base' = Base
  BY <1>1 DEF Content, Base
<1>6. FileInv'
  <2>1. FileTypes'
    BY <1>1 DEF PipeInv, FileInv, FileTypes
  <2>2. FileHolds'
    BY <1>1, <1>5 DEF PipeInv, FileInv, FileHolds
  <2>3. DumpHolds'
    BY <1>1 DEF PipeInv, FileInv, DumpHolds
  <2> QED
    BY <2>1, <2>2, <2>3 DEF FileInv
<1>7. ASSUME NEW e \in Emitted PROVE e.line \in Nat /\ 2 * e.line <= halves
  BY <1>1, <1>4, EmittedAreLines DEF LineEvent, LinesRead, PipeInv
<1>8. Closing' /\ (breaks \in Nat)'
  BY <1>1 DEF PipeInv, Closing
<1>9. CASE buf = <<>>
  <2>1. Queue' /\ Emitted' = Emitted
    BY <1>1, <1>9, QueueStays DEF PipeInv
  <2>2. LinesRead'
    <3> SUFFICES ASSUME NEW e \in Emitted PROVE 2 * e.line <= halves + 1
      BY <1>1, <2>1 DEF LinesRead
    <3> QED
      BY <1>2, <1>7
  <2>3. halves % 2 = 0
    BY <1>1, <1>3, <1>9 DEF PipeInv, FileInv, DumpHolds
  <2>4. LinesEmitted => LinesEmitted'
    <3> SUFFICES ASSUME LinesEmitted, NEW l \in Nat \ {0}, 2 * l <= halves + 1
                 PROVE  \E e \in Emitted : e.line = l
      BY <1>1, <2>1 DEF LinesEmitted
    <3>1. 2 * l <= pos
      BY <1>2, <1>3, <2>3
    <3> QED
      BY <1>1, <3>1 DEF LinesEmitted
  <2> QED
    BY <1>1, <1>6, <1>8, <2>1, <2>2, <2>4 DEF PipeInv, Arrives
<1>10. CASE buf # <<>>
  <2>1. Emit(buf) /\ Last(buf) = Half(halves) /\ ~Half(halves).last
    BY <1>1, <1>10 DEF PipeInv, FileInv, DumpHolds
  <2>2. /\ Half(halves).line \in Nat /\ 2 * Half(halves).line = halves + 1
    BY <1>2, <2>1, HalfFacts
  <2>3. Half(halves).line \in Nat \ {0}
    BY <1>2, <2>2
  <2>4. \A e \in Emitted : e.line < Half(halves).line
    BY <1>2, <1>7, <2>2
  <2>5. PICK e \in LineEvent :
          /\ e.line = Half(halves).line
          /\ Queue' /\ Emitted' = Emitted \cup {e}
    BY <1>1, <2>1, <2>3, <2>4, EmitKeeps DEF PipeInv
  <2>6. LinesRead'
    <3> SUFFICES ASSUME NEW d \in Emitted \cup {e} PROVE 2 * d.line <= halves + 1
      BY <1>1, <2>5 DEF LinesRead
    <3>1. CASE d \in Emitted
      BY <1>2, <1>7, <3>1
    <3>2. CASE d = e
      BY <1>2, <2>2, <2>5, <3>2
    <3> QED
      BY <3>1, <3>2
  <2>7. LinesEmitted => LinesEmitted'
    <3> SUFFICES ASSUME LinesEmitted, NEW l \in Nat \ {0}, 2 * l <= halves + 1
                 PROVE  \E d \in Emitted \cup {e} : d.line = l
      BY <1>1, <2>5 DEF LinesEmitted
    <3>1. CASE 2 * l <= pos
      BY <1>1, <3>1 DEF LinesEmitted
    <3>2. CASE 2 * l > pos
      <4>1. 2 * l = halves + 1
        BY <1>2, <1>3, <3>2
      <4> QED
        BY <1>2, <2>2, <2>5, <4>1
    <3> QED
      BY <1>2, <3>1, <3>2
  <2> QED
    BY <1>1, <1>6, <1>8, <2>5, <2>6, <2>7 DEF PipeInv, Arrives
<1> QED
  BY <1>9, <1>10

(* Connecting, receiving, sending and storing move events on and lose none. *)
LEMMA MovesKeep ==
  ASSUME PipeInv, UNCHANGED <<fileVars, breaks>>, Queue', Emitted' = Emitted,
         link' = "broken" => link = "broken",
         breaks = 0 /\ link' = "done" => flight' = <<>>,
         link' \in {"closing", "done"} => ~tailing /\ chan' = <<>> /\ pending' = {}
  PROVE  PipeInv'
<1>1. UNCHANGED <<mode, tailing, breaks>>
  BY DEF fileVars, tailVars
<1>2. FileInv' /\ LinesRead' /\ (LinesEmitted => LinesEmitted')
  BY FileStays DEF PipeInv
<1>3. Arrives'
  BY <1>1, <1>2 DEF PipeInv, Arrives
<1>4. Closing'
  BY <1>1 DEF PipeInv, Closing
<1> QED
  BY <1>1, <1>2, <1>3, <1>4 DEF PipeInv

(* A failure of the network loses events, and is counted. *)
LEMMA LossesKeep ==
  ASSUME PipeInv, UNCHANGED <<fileVars, stored>>,
         chan' = chan \/ chan' = <<>>,
         pending' = pending \/ pending' = {},
         flight' = flight \/ flight' = <<>>,
         breaks' \in Nat, breaks' # 0,
         link' \in {"closing", "done"} => ~tailing /\ chan' = <<>> /\ pending' = {}
  PROVE  PipeInv'
<1>1. tailing' = tailing
  BY DEF fileVars, tailVars
<1>2. Queue' /\ Emitted' \subseteq Emitted
  BY DropShrinks DEF PipeInv
<1>3. FileInv' /\ LinesRead'
  BY <1>2, FileStays DEF PipeInv
<1>4. Arrives'
  BY DEF Arrives
<1>5. Closing'
  BY <1>1 DEF Closing
<1> QED
  BY <1>2, <1>3, <1>4, <1>5 DEF PipeInv

LEMMA PusherKeeps ==
  ASSUME PipeInv,
         \/ Connect \/ ConnectFails \/ PushReceives \/ PushTick \/ Break \/ Notice
         \/ Flush \/ Closed \/ CloseTimesOut \/ Process
  PROVE  PipeInv'
<1>1. UNCHANGED fileVars
  BY DEF fileVars, Connect, ConnectFails, PushReceives, PushTick, Break, Notice, Flush,
     Closed, CloseTimesOut, Process
<1>2. /\ breaks \in Nat /\ Queue /\ Closing
      /\ link = "broken" \/ link = "down" \/ link = "up" => link \notin {"closing", "done"}
      /\ link = "broken" => breaks # 0
  BY DEF PipeInv, Arrives
<1>3. PICK bound \in Nat : \A e \in Emitted : e.line <= bound
  BY LinesAreBounded DEF PipeInv
<1>4. CASE Connect
  <2>1. link = "down" /\ link' = "up" /\ UNCHANGED <<chan, pending, flight, stored, breaks>>
    BY <1>4 DEF Connect
  <2>2. Queue' /\ Emitted' = Emitted
    BY <1>2, <2>1, QueueStays
  <2> QED
    BY <1>1, <2>1, <2>2, MovesKeep
<1>5. CASE ConnectFails
  <2>1. /\ link = "down" /\ chan' = <<>> /\ breaks' = breaks + 1
        /\ UNCHANGED <<pending, flight, link, stored>>
    BY <1>5 DEF ConnectFails
  <2>2. breaks' \in Nat /\ breaks' # 0
    BY <1>2, <2>1
  <2> QED
    BY <1>1, <2>1, <2>2, LossesKeep
<1>6. CASE PushReceives
  <2>1. /\ link \in {"up", "broken"} /\ chan # <<>>
        /\ pending' = pending \cup {Head(chan)} /\ chan' = Tail(chan)
        /\ UNCHANGED <<link, flight, breaks, stored>>
    BY <1>6 DEF PushReceives
  <2>2. Queue' /\ Emitted' = Emitted
    BY <1>2, <2>1, ReceiveMoves
  <2> QED
    BY <1>1, <2>1, <2>2, MovesKeep
<1>7. CASE PushTick
  <2>1. /\ link \in {"up", "broken"} /\ pending' = {}
        /\ flight' = IF link = "up" THEN flight \o SplitByGameSecond(pending) ELSE <<>>
        /\ UNCHANGED <<link, chan, breaks, stored>>
    BY <1>7 DEF PushTick
  <2>2. CASE link = "up"
    <3>1. Queue' /\ Emitted' = Emitted
      BY <1>2, <1>3, <2>1, <2>2, TickMoves
    <3> QED
      BY <1>1, <2>1, <2>2, <3>1, MovesKeep
  <2>3. CASE link = "broken"
    BY <1>1, <1>2, <2>1, <2>3, LossesKeep
  <2> QED
    BY <2>1, <2>2, <2>3
<1>8. CASE Break
  <2>1. /\ link' = "broken" /\ flight' = <<>> /\ breaks' = breaks + 1
        /\ UNCHANGED <<chan, pending, stored>>
    BY <1>8 DEF Break
  <2>2. breaks' \in Nat /\ breaks' # 0
    BY <1>2, <2>1
  <2> QED
    BY <1>1, <2>1, <2>2, LossesKeep
<1>9. CASE Notice
  <2>1. /\ link = "broken" /\ link' = "down" /\ pending' = {}
        /\ UNCHANGED <<chan, flight, breaks, stored>>
    BY <1>9 DEF Notice
  <2> QED
    BY <1>1, <1>2, <2>1, LossesKeep
<1>10. CASE Flush
  <2>1. /\ link \in {"up", "broken"} /\ ~tailing /\ chan = <<>>
        /\ pending' = {} /\ link' = "closing"
        /\ flight' = IF link = "up" THEN flight \o SplitByGameSecond(pending) ELSE <<>>
        /\ UNCHANGED <<chan, breaks, stored>>
    BY <1>10 DEF Flush
  <2>2. CASE link = "up"
    <3>1. Queue' /\ Emitted' = Emitted
      BY <1>2, <1>3, <2>1, <2>2, TickMoves
    <3> QED
      BY <1>1, <2>1, <2>2, <3>1, MovesKeep
  <2>3. CASE link = "broken"
    BY <1>1, <1>2, <2>1, <2>3, LossesKeep
  <2> QED
    BY <2>1, <2>2, <2>3
<1>11. CASE Closed
  <2>1. /\ link = "closing" /\ flight = <<>> /\ link' = "done"
        /\ UNCHANGED <<chan, pending, flight, breaks, stored>>
    BY <1>11 DEF Closed
  <2>2. Queue' /\ Emitted' = Emitted
    BY <1>2, <2>1, QueueStays
  <2>3. ~tailing /\ chan = <<>> /\ pending = {}
    BY <1>2, <2>1 DEF Closing
  <2> QED
    BY <1>1, <2>1, <2>2, <2>3, MovesKeep
<1>12. CASE CloseTimesOut
  <2>1. /\ link = "closing" /\ link' = "done" /\ flight' = <<>> /\ breaks' = breaks + 1
        /\ UNCHANGED <<chan, pending, stored>>
    BY <1>12 DEF CloseTimesOut
  <2>2. breaks' \in Nat /\ breaks' # 0
    BY <1>2, <2>1
  <2>3. ~tailing /\ chan' = <<>> /\ pending' = {}
    BY <1>2, <2>1 DEF Closing
  <2> QED
    BY <1>1, <2>1, <2>2, <2>3, LossesKeep
<1>13. CASE Process
  <2>1. flight # <<>> /\ UNCHANGED <<chan, pending, link, breaks>>
    BY <1>13 DEF Process
  <2>2. Queue' /\ Emitted' = Emitted
    BY <1>2, <1>13, ProcessMoves
  <2>3. /\ breaks = 0 => link' # "done"
        /\ link' \in {"closing", "done"} => ~tailing /\ chan' = <<>> /\ pending' = {}
    BY <1>2, <2>1 DEF PipeInv, Arrives, Closing
  <2> QED
    BY <1>1, <1>2, <2>1, <2>2, <2>3, MovesKeep
<1> QED
  BY <1>4, <1>5, <1>6, <1>7, <1>8, <1>9, <1>10, <1>11, <1>12, <1>13

LEMMA PipeSteps ==
  PipeInv /\ [DelNext]_delVars => PipeInv'
<1> SUFFICES ASSUME PipeInv, [DelNext]_delVars PROVE PipeInv'
  OBVIOUS
<1>1. CASE UNCHANGED delVars
  <2>1. UNCHANGED <<fileVars, chan, pending, flight, stored, link, breaks>>
    BY <1>1 DEF delVars, pushVars, fileVars
  <2>2. Queue' /\ Emitted' = Emitted
    BY <2>1, QueueStays DEF PipeInv
  <2>3. /\ breaks = 0 /\ link' = "done" => flight' = <<>>
        /\ link' \in {"closing", "done"} => ~tailing /\ chan' = <<>> /\ pending' = {}
    BY <2>1 DEF PipeInv, Arrives, Closing
  <2> QED
    BY <2>1, <2>2, <2>3, MovesKeep
<1>2. CASE TailReads
  <2>1. /\ Queue' /\ FileInv' /\ LinesRead'
        /\ mode = "dump" /\ LinesEmitted => LinesEmitted'
    BY <1>2, ReadKeeps DEF PipeInv
  <2>2. UNCHANGED <<mode, tailing, link, pending, flight, breaks>> /\ tailing
    BY <1>2 DEF TailReads, pushVars
  <2> QED
    BY <2>1, <2>2 DEF PipeInv, Arrives, Closing
<1> QED
  BY <1>1, <1>2, GameKeeps, ReopenKeeps, TailEndsKeeps, PusherKeeps
     DEF DelNext, Tailer, Pusher

(* Over any number of failures, deletions and truncations the server stores no
   line twice and stores the log's seconds in order: the tailer reads onward
   only (tailer.rs:99-137), the pusher takes what it sends
   (pusher.rs:117-136), and a connection's batches are processed in the order
   they were sent. *)
THEOREM DeliveryKeepsOrder ==
  DelSpec => []OnceInOrder
<1>1. PipeInv => OnceInOrder
  <2> SUFFICES ASSUME PipeInv, NEW j \in 1..Len(stored), NEW k \in 1..Len(stored), j < k,
                      NEW d \in stored[j], NEW e \in stored[k]
               PROVE  d.line # e.line /\ Second(d.line) <= Second(e.line)
    BY DEF OnceInOrder
  <2>1. d.line < e.line
    BY DEF PipeInv, Queue, LinesInOrder, Ordered, Before
  <2>2. d \in Emitted /\ e \in Emitted
    BY DEF Emitted, SetOf
  <2>3. d.line \in Nat /\ e.line \in Nat
    BY <2>2, EmittedAreLines DEF PipeInv, LineEvent
  <2> QED
    BY <2>1, <2>3, SecondsFollowLines
<1> QED
  BY <1>1, PipeInit, PipeSteps, PTL DEF DelSpec

(* An import that has ended without a failure of the network has stored every
   line of its file, the unfinished last one included (pusher.rs:140-187,
   tailer.rs:79-83). *)
THEOREM ImportsAreComplete ==
  DelSpec => []CloseProvesDelivery
<1>1. PipeInv => CloseProvesDelivery
  <2> SUFFICES ASSUME PipeInv, link = "done", breaks = 0
               PROVE  StoredLines = {Half(i).line : i \in 1..halves}
    BY DEF CloseProvesDelivery
  <2>1. ~tailing /\ chan = <<>> /\ pending = {} /\ flight = <<>> /\ mode = "dump"
    BY DEF PipeInv, Closing, Arrives, FileInv, DumpHolds
  <2>2. LinesEmitted /\ LinesRead /\ halves \in Nat
    BY <2>1 DEF PipeInv, Arrives, FileInv, FileTypes
  <2>3. Emitted = SetOf(stored)
    <3>1. Len(chan) = 0
      BY <2>1
    <3>2. InChan = {}
      BY <3>1 DEF InChan
    <3> QED
      BY <2>1, <3>2, SetOfEmpty DEF Emitted
  <2>4. StoredLines = {e.line : e \in Emitted}
    BY <2>3 DEF StoredLines, SetOf
  <2>5. ASSUME NEW e \in Emitted PROVE \E i \in 1..halves : Half(i).line = e.line
    <3> DEFINE i == 2 * e.line - 1
    <3>1. e.line \in Nat \ {0} /\ 2 * e.line <= halves + 1
      BY <2>1, <2>2, EmittedAreLines DEF LinesRead, LineEvent, PipeInv
    <3>2. i \in 1..halves /\ i \in Nat /\ i % 2 # 0
      BY <2>2, <3>1
    <3>3. Half(i).line \in Nat /\ 2 * Half(i).line = i + 1
      BY <3>2, HalfFacts
    <3>4. Half(i).line = e.line
      BY <3>1, <3>3
    <3> QED
      BY <3>2, <3>4
  <2>6. ASSUME NEW i \in 1..halves PROVE \E e \in Emitted : e.line = Half(i).line
    <3>1. /\ i \in Nat /\ Half(i).line \in Nat
          /\ 2 * Half(i).line = i \/ 2 * Half(i).line = i + 1
      BY <2>2, HalfFacts
    <3>2. Half(i).line \in Nat \ {0} /\ 2 * Half(i).line <= halves + 1
      BY <2>2, <3>1
    <3> QED
      BY <2>1, <2>2, <3>2 DEF LinesEmitted
  <2> QED
    BY <2>4, <2>5, <2>6
<1> QED
  BY <1>1, PipeInit, PipeSteps, PTL DEF DelSpec
=============================================================================
