----------------------------- MODULE ViewerPage ----------------------------
(***************************************************************************)
(* The viewer page (static/stream.html) on the other end of its WebSocket: *)
(* what it believes about the stream, the batches it keeps, and what it    *)
(* sends of itself and for its user.                                       *)
(*                                                                         *)
(* Simplifications:                                                        *)
(* - What the page shows is how often each batch has been applied since    *)
(*   the last reset.                                                       *)
(* - The page takes in a message in the step that sends it; its own        *)
(*   messages wait in `up`.  Everything the two can do in another order    *)
(*   gives one of these behaviours, as the page acts on a message only     *)
(*   after it has come and both directions keep their order.               *)
(* - Batches are told apart by their number; pages pinned to a session     *)
(*   that has ended, pulls and speeds are left out.                        *)
(***************************************************************************)
EXTENDS Viewer, SequencesExt

CONSTANTS
  Scopes,       \* "all": no ?session=; "latest": ?session=latest
  SessionStart, \* SESSION_LOG_TS in scope "latest"
  MaxUser,      \* bound on what the user does
  MaxOpens      \* bound on connections of the page

ASSUME ScopesAssumption == Scopes \subseteq {"all", "latest"}
ASSUME StartAssumption == SessionStart \in Nat

VARIABLES
  page,         \* the page's variables, see InitPage
  up,           \* messages of the page on their way
  user, opens   \* counters of the bounds

pageVars == <<vars, page, up, user, opens>>
-----------------------------------------------------------------------------
Unapplied == [n \in 1..MaxBatches |-> 0]

InitPage(scope) ==
  [scope |-> scope,
   canGoLive |-> TRUE,              \* tlCanGoLive
   endedByDisconnect |-> FALSE,
   isLive |-> TRUE,                 \* tlIsLive
   paused |-> FALSE,                \* tlPaused
   preloading |-> FALSE,            \* sessionPreloading
   logLast |-> None,                \* logLastTs
   cache |-> <<>>,                  \* cachedBatches
   known |-> {},                    \* cacheIndex
   complete |-> FALSE,              \* cacheComplete
   applied |-> Unapplied,           \* S
   due |-> {},                      \* history: stored when Info was sent
   send |-> <<>>]                   \* sent by the current step

(* applyBatch; two is as bad as more. *)
Once(applied, n) == [applied EXCEPT ![n] = IF @ = 0 THEN 1 ELSE 2]

(* applyBatchesUpTo: the cache up to the first batch that is later. *)
CachedUpTo(cache, ts) ==
  {cache[i] : i \in {i \in DOMAIN cache : \A j \in 1..i : LogTimes[cache[j]] <= ts}}
Rebuilt(shown) == [n \in 1..MaxBatches |-> IF n \in shown THEN 1 ELSE 0]

Sends(p, msg) == [p EXCEPT !.send = Append(@, msg)]

(* Faulty variant: the state is reset and not rebuilt. *)
GoLiveWiped(p) ==
  Sends([p EXCEPT !.isLive = TRUE, !.paused = FALSE, !.applied = Unapplied],
        [t |-> "live"])

(* goLive: rebuild from the cache, then follow. *)
GoLivePage(p) ==
  Sends([p EXCEPT !.isLive = TRUE, !.paused = FALSE,
                  !.applied = Rebuilt(ToSet(p.cache))],
        [t |-> "live"])

SeekMsg(ts, play) == [t |-> "seek", clock |-> "log", to |-> ts, play |-> play]
SeekFullMsg(ts, play) == [t |-> "seek_full", clock |-> "log", to |-> ts, play |-> play]
PreloadMsg(from, to) == [t |-> "preload_range", from |-> from, to |-> to]

(* snapSessionToStart: show what was loaded; follow, or park at its end.  The
   end of the bar moves in to the last batch shown. *)
Snap(p) ==
  LET shown == [p EXCEPT !.preloading = FALSE, !.applied = Rebuilt(ToSet(p.cache))]
      last == IF p.cache = <<>> THEN None ELSE LogTimes[Last(p.cache)]
      end == IF last # None /\ p.logLast # None /\ last < p.logLast
             THEN last ELSE p.logLast
  IN IF p.canGoLive
     THEN Sends([shown EXCEPT !.isLive = TRUE, !.paused = FALSE], [t |-> "live"])
     ELSE Sends([shown EXCEPT !.logLast = end],
                SeekMsg(IF end = None THEN SessionStart ELSE end, FALSE))

AtRest(p) == [p EXCEPT !.isLive = FALSE, !.paused = TRUE]

(* ws.onmessage *)
OnInfo(p, msg) ==
  LET known == [p EXCEPT !.logLast = IF msg.logLast = None THEN @ ELSE msg.logLast,
                         !.isLive = @ /\ msg.isLive,
                         !.canGoLive = @ /\ msg.isLive,
                         !.due = StoredNumbers]
      clean == [known EXCEPT !.cache = <<>>, !.known = {}, !.complete = FALSE,
                             !.applied = Unapplied, !.isLive = FALSE, !.paused = TRUE,
                             !.preloading = msg.logLast # None /\ msg.logLast > SessionStart]
  IN CASE p.scope = "all" -> known
       [] p.scope = "latest" /\ clean.preloading ->
            Sends(clean, PreloadMsg(SessionStart, msg.logLast))
       [] OTHER -> Sends(clean, PreloadMsg(SessionStart, SessionStart))

OnCatchUpDone(p) ==
  LET done == [p EXCEPT !.complete = TRUE]
  IN IF p.preloading THEN Snap(AtRest(done)) ELSE done

OnStreamDone(p) ==
  LET done == AtRest([p EXCEPT !.complete = TRUE, !.canGoLive = FALSE,
                               !.endedByDisconnect = TRUE])
  IN IF p.preloading THEN Snap(done) ELSE done

OnNowLive(p) ==
  LET back == [p EXCEPT !.complete = TRUE, !.canGoLive = TRUE,
                        !.endedByDisconnect = FALSE]
  IN CASE p.preloading -> Snap(AtRest(back))
       [] ~p.preloading /\ p.endedByDisconnect -> GoLivePage(back)
       [] OTHER -> [back EXCEPT !.isLive = TRUE, !.paused = FALSE]

OnBatch(p, n) ==
  LET ts == LogTimes[n]
      new == [p EXCEPT !.cache = Append(@, n), !.known = @ \cup {n}]
      shown == [new EXCEPT !.applied = Once(@, n),
                           !.logLast = IF @ = None \/ (p.isLive /\ ts > @) THEN ts ELSE @]
  IN CASE n \in p.known ->
            IF p.preloading THEN p ELSE [p EXCEPT !.applied = Once(@, n)]
       [] n \notin p.known /\ p.scope = "latest" /\ ts < SessionStart -> p
       [] OTHER -> IF p.preloading THEN new ELSE shown

React(p, msg) ==
  CASE msg.t = "info" -> OnInfo(p, msg)
    [] msg.t = "catch_up_done" -> OnCatchUpDone(p)
    [] msg.t = "stream_done" -> OnStreamDone(p)
    [] msg.t = "now_live" -> OnNowLive(p)
    [] msg.t = "batch" -> OnBatch(p, msg.n)

(* ws.onopen, ws.onclose.  Closing empties the cache but not its index. *)
OnOpen(p) == [p EXCEPT !.isLive = TRUE, !.paused = FALSE]
OnClose(p) == [p EXCEPT !.complete = FALSE, !.preloading = FALSE, !.cache = <<>>]

(* The page takes in what this step sends, and what it sends goes up. *)
After(p, messages) ==
  LET read[k \in 0..Len(messages)] == IF k = 0 THEN p ELSE React(read[k - 1], messages[k])
  IN read[Len(messages)]

PageReacts ==
  LET after == After(page, out')
  IN /\ page' = [after EXCEPT !.send = <<>>]
     /\ up' = up \o after.send
-----------------------------------------------------------------------------
(* The user. *)

(* seekWithCache, and the full re-stream where the cache does not reach. *)
SeekTo(p, ts, play) ==
  LET covered == \/ p.complete
                 \/ p.cache # <<>> /\ LogTimes[Last(p.cache)] >= ts
  IN IF covered
     THEN Sends([p EXCEPT !.applied = Rebuilt(CachedUpTo(p.cache, ts))], SeekMsg(ts, play))
     ELSE Sends([p EXCEPT !.applied = Unapplied], SeekFullMsg(ts, play))

(* togglePlayPause *)
PlayPause(p) ==
  CASE p.isLive -> SeekTo(AtRest(p), p.logLast, FALSE)
    [] ~p.isLive /\ p.paused -> Sends([p EXCEPT !.paused = FALSE], [t |-> "resume"])
    [] OTHER -> Sends([p EXCEPT !.paused = TRUE], [t |-> "pause"])

(* commitSeek, inside the bar and at its right end. *)
SeekBar(p, ts) ==
  SeekTo([p EXCEPT !.isLive = FALSE, !.paused = ~p.canGoLive], ts, p.canGoLive)

SeekBarEnd(p) ==
  IF p.scope = "latest"
  THEN SeekTo([p EXCEPT !.isLive = FALSE], p.logLast, ~p.paused)
  ELSE GoLivePage(p)

(* The Go Live pill is there while the client is connected and the page is
   elsewhere; the other controls once there is a timeline, and not during a
   preload. *)
UserChoices(p) ==
  (IF p.canGoLive /\ ~p.isLive THEN {GoLivePage(p)} ELSE {})
  \cup (IF p.preloading \/ p.logLast = None THEN {}
        ELSE {PlayPause(p), SeekBarEnd(p)} \cup {SeekBar(p, ts) : ts \in Times})

UserActs ==
  /\ mode # NoHandler /\ step # "info" /\ user < MaxUser
  /\ user' = user + 1
  /\ \E p \in UserChoices(page) :
       /\ page' = [p EXCEPT !.send = <<>>]
       /\ up' = up \o p.send
  /\ UNCHANGED <<vars, opens>>
-----------------------------------------------------------------------------
PageInit ==
  /\ Init
  /\ \E scope \in Scopes : page = InitPage(scope)
  /\ up = <<>> /\ user = 0 /\ opens = 0

(* A step of the handler; one that ends it closes the page's socket. *)
HandlerRuns ==
  /\ Handler
  /\ \/ mode' # NoHandler /\ PageReacts
     \/ mode' = NoHandler /\ page' = OnClose(page) /\ up' = <<>>
  /\ UNCHANGED <<user, opens>>

HandlerListens ==
  /\ up # <<>>
  /\ Handle(Head(up))
  /\ up' = Tail(up)
  /\ UNCHANGED <<page, user, opens>>

PageOpens ==
  /\ opens < MaxOpens
  /\ Open
  /\ page' = OnOpen(page)
  /\ opens' = opens + 1
  /\ UNCHANGED <<up, user>>

PageCloses ==
  /\ PageLeaves
  /\ page' = OnClose(page)
  /\ up' = <<>>
  /\ UNCHANGED <<user, opens>>

IngestActs ==
  /\ ClientConnects \/ ClientDrops \/ Store \/ Broadcast
  /\ UNCHANGED <<page, up, user, opens>>

PageNext ==
  HandlerRuns \/ HandlerListens \/ PageOpens \/ PageCloses \/ IngestActs \/ UserActs

PageSpec == PageInit /\ [][PageNext]_pageVars

(* As in Viewer; and a message that waits is read. *)
PageFairSpec ==
  PageSpec /\ WF_pageVars(HandlerRuns) /\ WF_pageVars(HandlerListens)
-----------------------------------------------------------------------------
(* On its first connection a page of the whole stream whose user only
   watches shows every stored batch once the handler has nothing left to
   send, whichever of the journal and the channel brought it and whatever
   was reset in between. *)
PageShowsAll ==
  /\ page.scope = "all" /\ opens = 1 /\ user = 0 /\ lagged = {}
  /\ mode.m = "live" /\ Pending = {} /\ up = <<>>
  => \A n \in StoredNumbers : page.applied[n] > 0

(* A page that was told on this connection that the stream has ended shows
   the client's return, whatever it and its user have sent meanwhile
   (viewer.rs:164-167); or it is fed live already.  The second is no more
   than that: the Live arm announces nothing, and so does a new handler, so a
   page that went live in the ended state, or has reconnected, is fed and
   still shows its client as gone. *)
PageLearnsReturn ==
  ended /\ page.endedByDisconnect /\ connected
    ~> page.canGoLive \/ ~connected \/ mode.m \in {"live", "none"}
=============================================================================
