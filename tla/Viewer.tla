------------------------------ MODULE Viewer -------------------------------
(***************************************************************************)
(* One viewer WebSocket of a stream (froklog-server/viewer.rs), over the   *)
(* stream's journal and its broadcast channel.                             *)
(*                                                                         *)
(* Simplifications:                                                        *)
(* - One viewer: viewers share the journal, the channel and the connected  *)
(*   flag, and only read them.                                             *)
(* - A batch is its number in order of arrival, which is also its receive  *)
(*   time, and a log time.  An ingest task stores it and then broadcasts   *)
(*   it, in two steps.                                                     *)
(* - A burst is sent in one step: the page takes in what was sent before   *)
(*   it acts, so only the order of its own messages is left to chance.     *)
(* - Speeds, acknowledgements and heartbeats are left out, and so are      *)
(*   private viewers, which differ in that nothing revokes them.           *)
(***************************************************************************)
EXTENDS Journal, Sequences

CONSTANTS
  Burst,        \* CATCHUP_BURST
  Capacity,     \* BROADCAST_CAPACITY
  LogTimes,     \* log times of the batches, in order of arrival
  Msgs,         \* what a page may send
  MaxDrops,     \* bound on disconnections of the ingest client
  MaxCuts,      \* bound on prunes and clears
  MaxMsgs,      \* bound on control messages a handler takes
  Failing       \* numbers of the batches whose journal write may fail

ASSUME BurstAssumption == Burst \in Nat \ {0}
ASSUME CapacityAssumption == Capacity \in Nat \ {0}
ASSUME LogTimesAssumption == LogTimes \in Seq(Nat)

(* ClientMsg.  "seek" stands for the seeks that go straight to a position,
   "seek_full" for those that stream all before it; play tells whether they
   then run or stay paused. *)
ClientMsg ==
  [t : {"seek", "seek_full"}, clock : {"wall", "log"}, to : Nat, play : BOOLEAN]
  \cup [t : {"preload_range"}, from : Nat, to : Nat]
  \cup [t : {"pause", "resume", "live"}]

ASSUME MsgsAssumption == Msgs \subseteq ClientMsg

MaxBatches == Len(LogTimes)    \* bound on batches received
Times == {LogTimes[n] : n \in 1..MaxBatches}

VARIABLES
  connected,    \* client_connected
  arrived,      \* number of batches the ingest task has received
  unsent,       \* stored but not yet broadcast, or 0
  sent,         \* everything broadcast, in order
  drops, cuts,  \* counters of the bounds
  public,       \* public_stream
  revoked,      \* the handler's revoke_rx has changed
  mode,         \* ViewerMode, "none" when no handler runs
  step,         \* where the handler is
  rx,           \* the broadcast the receiver reads next
  pausedByDisconnect,
  ingestWasDown,
  msgs,         \* control messages taken by this handler
  out,          \* what the last step sent to the page
  (* History, per handler. *)
  delivered,    \* batches sent to the page
  lagged,       \* batches the receiver skipped before they were delivered
  wheel,        \* a control message was taken since the last StreamDone
  ended,        \* the page was sent StreamDone and no NowLive since
  sinceRevoke   \* batches delivered after the stream was made private

ingestVars == <<connected, arrived, unsent, sent, drops, cuts, public>>
handlerVars == <<mode, step, rx, pausedByDisconnect, ingestWasDown, msgs>>
historyVars == <<delivered, lagged, wheel, ended>>
vars == <<journalVars, ingestVars, revoked, handlerVars, out, historyVars,
          sinceRevoke>>
-----------------------------------------------------------------------------
(* Positions in the index. *)

JournalLen == Cardinality(DOMAIN index)
PosOf(id) == Cardinality({j \in DOMAIN index : j < id})
At(pos) == CHOOSE id \in DOMAIN index : PosOf(id) = pos

(* Journal::seek_index, seek_index_by_log_ts: the first entry not before the
   target.  The former is a binary search, right as receive times ascend. *)
FirstPos(ids) == IF ids = {} THEN JournalLen ELSE PosOf(Oldest(ids))
SeekIndex(ts) == FirstPos({id \in DOMAIN index : index[id].wall >= ts})
SeekIndexByLogTs(ts) == FirstPos({id \in DOMAIN index : EntryTs(index[id]) >= ts})

(* Journal::read_burst: the rows at positions pos .. pos + count - 1. *)
ReadBurst(pos, count) ==
  {id \in DOMAIN index : PosOf(id) >= pos /\ PosOf(id) < pos + count}
Number(id) == index[id].wall
-----------------------------------------------------------------------------
(* ViewerMode. *)

NoHandler == [m |-> "none"]
CatchUp(pos) == [m |-> "catchUp", pos |-> pos]
CatchUpTo(pos, target, play) ==
  [m |-> "catchUpTo", pos |-> pos, target |-> target, play |-> play]
Live == [m |-> "live"]
Replay(pos) == [m |-> "replay", pos |-> pos]
Paused(pos) == [m |-> "paused", pos |-> pos]

(* ServerMsg. *)
BatchMsg(n) == [t |-> "batch", n |-> n]
StreamDone == [t |-> "stream_done"]
NowLive == [t |-> "now_live"]
CatchUpDone == [t |-> "catch_up_done"]

(* Nothing is sent by this step. *)
Quiet == out' = <<>> /\ UNCHANGED <<historyVars, sinceRevoke>>

(* A step that sends one of the control messages above. *)
Say(msg) ==
  /\ out' = <<msg>>
  /\ ended' = (msg = StreamDone \/ (ended /\ msg # NowLive))
  /\ wheel' = (wheel /\ msg # StreamDone)
  /\ UNCHANGED <<delivered, lagged, sinceRevoke>>

(* A step that sends batches, oldest first, and then whatever follows. *)
InOrder(ids) == [p \in 1..Cardinality(ids) |->
  BatchMsg(Number(CHOOSE id \in ids : Cardinality({j \in ids : j < id}) = p - 1))]

SendStored(ids, after) ==
  /\ out' = InOrder(ids) \o after
  /\ delivered' = delivered \cup {Number(id) : id \in ids}
  /\ sinceRevoke' = IF revoked THEN sinceRevoke + Cardinality(ids) ELSE 0
  /\ UNCHANGED <<lagged, wheel, ended>>
-----------------------------------------------------------------------------
(* handle_client_msg. *)

Target(msg) == IF msg.clock = "wall" THEN SeekIndex(msg.to)
                                     ELSE SeekIndexByLogTs(msg.to)

(* preload_bounds *)
PreloadBounds(from, to) == IF to < from THEN from ELSE to

ModeAfter(msg, current) ==
  CASE msg.t = "seek" -> IF msg.play THEN Replay(Target(msg)) ELSE Paused(Target(msg))
    [] msg.t = "seek_full" -> CatchUpTo(0, Target(msg), msg.play)
    [] msg.t = "preload_range" ->
         LET from == SeekIndexByLogTs(msg.from)
         IN CatchUpTo(from, PreloadBounds(from, SeekIndexByLogTs(msg.to)), FALSE)
    [] msg.t = "pause" -> Paused(current)
    [] msg.t = "resume" -> Replay(current)
    [] msg.t = "live" -> Live

(* The position a control message acts on. *)
CurrentPos == IF mode.m = "live" THEN JournalLen ELSE mode.pos

(* Faulty variants: the flag is kept; both flags are reset. *)
TakeMsgKeepsFlag(msg) ==
  /\ mode' = ModeAfter(msg, CurrentPos)
  /\ step' = "top"
  /\ msgs' = msgs + 1
  /\ wheel' = TRUE
  /\ out' = <<>>
  /\ UNCHANGED <<rx, pausedByDisconnect, ingestWasDown, delivered, lagged, ended,
                 sinceRevoke>>

TakeMsgResetsBoth(msg) ==
  /\ mode' = ModeAfter(msg, CurrentPos)
  /\ step' = "top"
  /\ pausedByDisconnect' = (pausedByDisconnect /\ mode.m # "paused")
  /\ ingestWasDown' = (ingestWasDown /\ mode.m # "paused")
  /\ msgs' = msgs + 1
  /\ wheel' = TRUE
  /\ out' = <<>>
  /\ UNCHANGED <<rx, delivered, lagged, ended, sinceRevoke>>

(* A control message is taken.  Only the Paused arm resets the flag. *)
TakeMsg(msg) ==
  /\ mode' = ModeAfter(msg, CurrentPos)
  /\ step' = "top"
  /\ pausedByDisconnect' = (pausedByDisconnect /\ mode.m # "paused")
  /\ msgs' = msgs + 1
  /\ wheel' = TRUE
  /\ out' = <<>>
  /\ UNCHANGED <<rx, ingestWasDown, delivered, lagged, ended, sinceRevoke>>

(* Where the handler looks at its socket: after a burst, while it waits in
   Live and in Paused, and while a replay is pacing. *)
Listening ==
  \/ step \in {"poll", "pace"}
  \/ step = "arm" /\ mode.m \in {"live", "paused"}

Handle(msg) ==
  /\ Listening
  /\ TakeMsg(msg)
  /\ UNCHANGED <<journalVars, ingestVars, revoked>>
-----------------------------------------------------------------------------
(* The ingest client, the ingest task, maintenance and the owner. *)

Init ==
  /\ JournalInit
  /\ connected = FALSE /\ arrived = 0 /\ unsent = 0 /\ sent = <<>>
  /\ drops = 0 /\ cuts = 0 /\ public = TRUE /\ revoked = FALSE
  /\ mode = NoHandler /\ step = "top" /\ rx = 1
  /\ pausedByDisconnect = FALSE /\ ingestWasDown = FALSE /\ msgs = 0
  /\ out = <<>> /\ delivered = {} /\ lagged = {} /\ wheel = FALSE /\ ended = FALSE
  /\ sinceRevoke = 0

(* Bystander: a step the handler has no part in. *)
Bystander ==
  /\ out' = <<>>
  /\ UNCHANGED <<handlerVars, historyVars, sinceRevoke>>

ClientConnects ==
  /\ ~connected
  /\ connected' = TRUE
  /\ UNCHANGED <<journalVars, arrived, unsent, sent, drops, cuts, public, revoked>>
  /\ Bystander

ClientDrops ==
  /\ connected /\ unsent = 0 /\ drops < MaxDrops
  /\ connected' = FALSE
  /\ drops' = drops + 1
  /\ UNCHANGED <<journalVars, arrived, unsent, sent, cuts, public, revoked>>
  /\ Bystander

(* handle_ingest: journal.append; an error is logged and the batch is
   broadcast all the same. *)
Store ==
  /\ connected /\ unsent = 0 /\ arrived < MaxBatches
  /\ arrived' = arrived + 1
  /\ unsent' = arrived + 1
  /\ \/ JournalAppend(arrived + 1, {[ts |-> LogTimes[arrived + 1]]})
     \/ arrived + 1 \in Failing /\ UNCHANGED journalVars
  /\ UNCHANGED <<connected, sent, drops, cuts, public, revoked>>
  /\ Bystander

Broadcast ==
  /\ unsent # 0
  /\ sent' = Append(sent, unsent)
  /\ unsent' = 0
  /\ UNCHANGED <<journalVars, connected, arrived, drops, cuts, public, revoked>>
  /\ Bystander

Maintain ==
  /\ cuts < MaxCuts
  /\ cuts' = cuts + 1
  /\ JournalClear \/ \E cutoff \in Times : JournalPrune(cutoff)
  /\ UNCHANGED <<connected, arrived, unsent, sent, drops, public, revoked>>
  /\ Bystander

(* patch_stream_handler: revoking is an event of the channel, which making
   the stream public again does not take back. *)
MakePrivate ==
  /\ public
  /\ public' = FALSE
  /\ revoked' = (mode # NoHandler)
  /\ UNCHANGED <<journalVars, connected, arrived, unsent, sent, drops, cuts>>
  /\ Bystander

MakePublic ==
  /\ ~public
  /\ public' = TRUE
  /\ UNCHANGED <<journalVars, connected, arrived, unsent, sent, drops, cuts, revoked>>
  /\ Bystander
-----------------------------------------------------------------------------
(* The handler. *)

World == UNCHANGED <<journalVars, ingestVars, revoked>>
Flags == UNCHANGED <<pausedByDisconnect, ingestWasDown, msgs>>
Goto(m, s) == mode' = m /\ step' = s

(* player_ws_handler: the handles are taken under the registry lock, before
   the upgrade. *)
Open ==
  /\ mode = NoHandler /\ public
  /\ Goto(CatchUp(0), "info")
  /\ rx' = Len(sent) + 1
  /\ pausedByDisconnect' = FALSE /\ ingestWasDown' = FALSE /\ msgs' = 0
  /\ revoked' = FALSE
  /\ out' = <<>> /\ delivered' = {} /\ lagged' = {} /\ wheel' = FALSE
  /\ ended' = FALSE /\ sinceRevoke' = 0
  /\ UNCHANGED <<journalVars, ingestVars>>

(* The handler returns. *)
Return ==
  /\ mode' = NoHandler /\ step' = "top" /\ rx' = 1
  /\ pausedByDisconnect' = FALSE /\ ingestWasDown' = FALSE /\ msgs' = 0
  /\ revoked' = FALSE
  /\ out' = <<>> /\ delivered' = {} /\ lagged' = {} /\ wheel' = FALSE
  /\ ended' = FALSE /\ sinceRevoke' = 0
  /\ UNCHANGED <<journalVars, ingestVars>>

(* The page goes away: the next send or receive fails. *)
PageLeaves == mode # NoHandler /\ Return

InfoMsg == [t |-> "info", isLive |-> connected, logLast |-> LogLastTs]

SendInfo ==
  /\ step = "info"
  /\ Goto(mode, "top")
  /\ out' = <<InfoMsg>>
  /\ UNCHANGED <<rx, historyVars, sinceRevoke>>
  /\ Flags /\ World

(* Faulty variant: revocation is not looked for between two arms. *)
TopUnchecked ==
  /\ mode # NoHandler /\ step = "top"
  /\ Goto(mode, "arm") /\ UNCHANGED rx /\ Quiet /\ Flags /\ World

(* The head of the loop: a revoked viewer is closed. *)
Top ==
  /\ mode # NoHandler /\ step = "top"
  /\ \/ revoked /\ Return
     \/ ~revoked /\ Goto(mode, "arm") /\ UNCHANGED rx /\ Quiet /\ Flags /\ World

(* revoke_rx.changed() in a select!. *)
RevokeWakes ==
  /\ revoked
  /\ step = "pace" \/ (step = "arm" /\ mode.m \in {"live", "paused"})
  /\ Return

(* No control message is waiting; the pause between two batches is over. *)
Continue ==
  /\ step \in {"poll", "pace"}
  /\ Goto(mode, "top")
  /\ UNCHANGED rx /\ Quiet /\ Flags /\ World

(* ViewerMode::CatchUp: a burst; a short one ends the journal. *)
CatchUpBurst ==
  /\ step = "arm" /\ mode.m = "catchUp"
  /\ LET burst == ReadBurst(mode.pos, Burst)
         pos == mode.pos + Cardinality(burst)
     IN /\ SendStored(burst, <<>>)
        /\ Goto(CatchUp(pos), IF Cardinality(burst) < Burst THEN "caught" ELSE "poll")
  /\ UNCHANGED rx /\ Flags /\ World

(* Faulty variant: the subscription begins here. *)
GoLiveLate ==
  /\ step = "caught" /\ connected
  /\ Goto(Live, "top")
  /\ rx' = Len(sent) + 1
  /\ IF mode.m = "replay" THEN Say(NowLive) ELSE Quiet
  /\ Flags /\ World

(* The end of the journal, with the client connected: only a replay tells
   the page. *)
GoLive ==
  /\ step = "caught" /\ connected
  /\ Goto(Live, "top")
  /\ IF mode.m = "replay" THEN Say(NowLive) ELSE Quiet
  /\ UNCHANGED rx /\ Flags /\ World

(* StreamDone, and a pause of our own making. *)
EndAt(pos) ==
  /\ Goto(Paused(pos), "top")
  /\ pausedByDisconnect' = TRUE /\ ingestWasDown' = TRUE
  /\ Say(StreamDone)
  /\ UNCHANGED <<rx, msgs>> /\ World

FinishRecording == step = "caught" /\ ~connected /\ EndAt(mode.pos)

(* ViewerMode::Live. *)
Receive ==
  /\ step = "arm" /\ mode.m = "live" /\ rx <= Len(sent)
  /\ LET oldest == IF Len(sent) > Capacity THEN Len(sent) - Capacity + 1 ELSE 1
     IN IF rx < oldest
        THEN (* RecvError::Lagged is only logged *)
             /\ rx' = oldest
             /\ lagged' = lagged \cup ({sent[p] : p \in rx..oldest - 1} \ delivered)
             /\ out' = <<>>
             /\ UNCHANGED <<delivered, sinceRevoke>>
        ELSE /\ rx' = rx + 1
             /\ out' = <<BatchMsg(sent[rx])>>
             /\ delivered' = delivered \cup {sent[rx]}
             /\ sinceRevoke' = IF revoked THEN sinceRevoke + 1 ELSE 0
             /\ UNCHANGED lagged
  /\ Goto(Live, "top")
  /\ UNCHANGED <<wheel, ended>> /\ Flags /\ World

(* The tick sees the client gone; the position is read after that. *)
SeeDisconnect ==
  /\ step = "arm" /\ mode.m = "live" /\ ~connected
  /\ Goto(mode, "gone")
  /\ UNCHANGED rx /\ Quiet /\ Flags /\ World

EndLive == step = "gone" /\ EndAt(JournalLen)

(* ViewerMode::CatchUpTo, arrived at pos. *)
Preloaded(pos) == Goto(IF mode.play THEN Replay(pos) ELSE Paused(pos), "top")

PreloadedMsg == IF mode.play THEN <<>> ELSE <<CatchUpDone>>

CatchUpToDone ==
  /\ step = "arm" /\ mode.m = "catchUpTo" /\ mode.pos >= mode.target
  /\ Preloaded(mode.target)
  /\ SendStored({}, PreloadedMsg)
  /\ UNCHANGED rx /\ Flags /\ World

CatchUpToBurst ==
  /\ step = "arm" /\ mode.m = "catchUpTo" /\ mode.pos < mode.target
  /\ LET left == mode.target - mode.pos
         count == IF left < Burst THEN left ELSE Burst
         burst == ReadBurst(mode.pos, count)
         pos == mode.pos + Cardinality(burst)
     IN \/ /\ Cardinality(burst) < count      \* the journal ended early
           /\ Preloaded(pos)
           /\ SendStored(burst, PreloadedMsg)
        \/ /\ Cardinality(burst) = count
           /\ Goto([mode EXCEPT !.pos = pos], "poll")
           /\ SendStored(burst, <<>>)
  /\ UNCHANGED rx /\ Flags /\ World

(* ViewerMode::Replay: one batch, and a pause if the next one is later. *)
ReplayBatch ==
  /\ step = "arm" /\ mode.m = "replay" /\ mode.pos < JournalLen
  /\ LET next == mode.pos + 1
         pause == /\ next < JournalLen
                  /\ EntryTs(index[At(next)]) > EntryTs(index[At(mode.pos)])
     IN Goto(Replay(next), IF pause THEN "pace" ELSE "top")
  /\ SendStored({At(mode.pos)}, <<>>)
  /\ UNCHANGED rx /\ Flags /\ World

ReplayEnd ==
  /\ step = "arm" /\ mode.m = "replay" /\ mode.pos >= JournalLen
  /\ Goto(mode, "caught")
  /\ UNCHANGED rx /\ Quiet /\ Flags /\ World

(* Faulty variant: announce, but stay paused. *)
PausedTickStays ==
  /\ step = "arm" /\ mode.m = "paused" /\ ingestWasDown /\ connected
  /\ ingestWasDown' = FALSE /\ pausedByDisconnect' = FALSE
  /\ Goto(mode, "top")
  /\ Say(NowLive)
  /\ UNCHANGED <<rx, msgs>> /\ World

(* on_paused_tick: announce the client's return, and resume if the pause was
   ours. *)
PausedTick ==
  /\ step = "arm" /\ mode.m = "paused" /\ ingestWasDown /\ connected
  /\ ingestWasDown' = FALSE /\ pausedByDisconnect' = FALSE
  /\ Goto(IF pausedByDisconnect THEN CatchUp(mode.pos) ELSE mode, "top")
  /\ Say(NowLive)
  /\ UNCHANGED <<rx, msgs>> /\ World

Handler ==
  \/ SendInfo \/ Top \/ RevokeWakes \/ Continue
  \/ CatchUpBurst \/ GoLive \/ FinishRecording
  \/ Receive \/ SeeDisconnect \/ EndLive
  \/ CatchUpToDone \/ CatchUpToBurst
  \/ ReplayBatch \/ ReplayEnd \/ PausedTick

Environment ==
  \/ ClientConnects \/ ClientDrops \/ Store \/ Broadcast
  \/ Maintain \/ MakePrivate \/ MakePublic
(* The socket of a page that sends what it likes. *)
AnyPage ==
  \/ Open
  \/ PageLeaves
  \/ \E msg \in Msgs : msgs < MaxMsgs /\ Handle(msg)

Next == Handler \/ Environment \/ AnyPage

Spec == Init /\ [][Next]_vars

(* The handler is a task that runs while it can, and so is ingest between
   storing and broadcasting.  Nothing makes clients, pages or owners act. *)
FairSpec == Spec /\ WF_vars(Handler) /\ WF_vars(Broadcast)
-----------------------------------------------------------------------------
Modes ==
  {NoHandler, Live}
  \cup [m : {"catchUp", "replay", "paused"}, pos : Nat]
  \cup [m : {"catchUpTo"}, pos : Nat, target : Nat, play : BOOLEAN]

Steps == {"info", "top", "arm", "poll", "pace", "caught", "gone"}

(* Every variable has its type, and the handler is only at steps its mode
   has. *)
TypeOK ==
  /\ connected \in BOOLEAN /\ public \in BOOLEAN /\ revoked \in BOOLEAN
  /\ arrived \in Nat /\ unsent \in Nat /\ sent \in Seq(Nat)
  /\ drops \in Nat /\ cuts \in Nat /\ msgs \in Nat
  /\ mode \in Modes /\ step \in Steps /\ rx \in Nat \ {0}
  /\ pausedByDisconnect \in BOOLEAN /\ ingestWasDown \in BOOLEAN
  /\ wheel \in BOOLEAN /\ ended \in BOOLEAN
  /\ delivered \subseteq Nat /\ lagged \subseteq Nat /\ sinceRevoke \in Nat
  /\ step = "poll" => mode.m \in {"catchUp", "catchUpTo"}
  /\ step = "pace" => mode.m = "replay"
  /\ step = "caught" => mode.m \in {"catchUp", "replay"}
  /\ step = "gone" => mode.m = "live"

(* A position never points behind the end of the journal, nor a preload
   behind its target, unless maintenance has shortened the journal: whatever
   the page asked for, nothing is read twice or skipped on the way. *)
PositionsInJournal ==
  cuts = 0 =>
    /\ mode.m \in {"catchUp", "catchUpTo", "replay", "paused"} => mode.pos <= JournalLen
    /\ mode.m = "catchUpTo" => mode.pos <= mode.target /\ mode.target <= JournalLen

(* Broadcast to this viewer but not yet taken by it. *)
Pending == {sent[p] : p \in rx..Len(sent)} \cup ({unsent} \ {0})

(* The catch-up position, where one is under way or will be resumed. *)
CatchingUp == mode.m = "catchUp" \/ (mode.m = "paused" /\ pausedByDisconnect)

(* "we never miss a live batch" (viewer.rs:113): whoever only watches has
   been sent every stored batch, or still has it ahead, in the journal or in
   the channel.  The exceptions are batches the channel dropped, and journal
   positions moved by a prune. *)
NothingMissed ==
  mode # NoHandler /\ msgs = 0 /\ cuts = 0 =>
    \A id \in DOMAIN rows :
      \/ Number(id) \in delivered \cup lagged \cup Pending
      \/ CatchingUp /\ PosOf(id) >= mode.pos

StoredNumbers == {Number(id) : id \in DOMAIN rows}

(* The same as a promise: what is stored reaches a viewer that only watches,
   as long as the client stays. *)
StoredIsShown ==
  []<>(\/ StoredNumbers \subseteq delivered \cup lagged
       \/ mode = NoHandler \/ msgs > 0 \/ cuts > 0 \/ ~connected)

(* "only that kind of pause is undone" (viewer.rs:376-378): the server ends a
   pause by itself only if no control message was taken since it told the
   page that the stream had ended. *)
WheelIsRespected ==
  [][mode.m = "paused" /\ mode'.m = "catchUp" => ~wheel]_vars

(* After public access is revoked a viewer gets at most the burst that was
   under way, *)
RevokedSeesLittle == sinceRevoke <= Burst
=============================================================================
