------------------------------ MODULE Delivery ------------------------------
(***************************************************************************)
(* The way of a log line from the game's file to the server: the game      *)
(* appends to the log, and deletes, recreates or truncates it; tail()      *)
(* (tailer.rs) emits whole lines; push_to_server (pusher.rs) collects the  *)
(* events of one tick, splits them by game second and sends them over a    *)
(* WebSocket that may break at any time.  Live mode follows the file; dump *)
(* mode reads a finished file once and closes.                             *)
(*                                                                         *)
(* Simplifications:                                                        *)
(* - A line is two halves, the second ending in the newline.  The splitter *)
(*   and the parser are the channel, one event per line.                   *)
(* - A batch is a set: events of one second are sorted by an unstable sort *)
(*   on the second, which leaves their order open.                         *)
(* - A file that is recreated or truncated does not reach the old size     *)
(*   again before the tailer's next 50 ms poll.                            *)
(***************************************************************************)
EXTENDS Integers, Sequences, FiniteSets

CONSTANTS
  MaxLines,     \* bound on lines the game writes
  PerSecond,    \* lines with the same log second
  MaxResets,    \* bound on recreated or truncated files
  MaxBreaks     \* bound on failures of the network

ASSUME DeliveryAssumption ==
  /\ MaxLines \in Nat \ {0}
  /\ PerSecond \in Nat \ {0}
  /\ MaxResets \in Nat
  /\ MaxBreaks \in Nat

VARIABLES
  mode,         \* "live" or "dump"
  file,         \* what the path holds: a sequence of halves
  same,         \* TRUE: the tailer has the path's file open
  kept,         \* else: the halves of the deleted file it has open
  halves,       \* halves written so far
  pos,          \* bytes the tailer has consumed, in halves
  buf,          \* the tailer's incomplete line
  tailing,      \* FALSE: the tailer has returned
  chan,         \* events the pusher has not received
  pending,      \* events of the running tick
  link,         \* the pusher: "down", "up", "broken", "closing" or "done"
  flight,       \* batches sent and not processed
  stored,       \* batches the server has processed
  gone,         \* ghost: lines truncated away unread, or older than the tail
  breaks, resets,
  timedOut      \* ghost: the closing handshake was not answered in 5 s

tailVars == <<same, kept, pos, buf, tailing>>
pushVars == <<pending, link, flight, breaks, timedOut>>
delVars == <<mode, file, tailVars, halves, chan, pushVars, stored, gone, resets>>

Half(n) == [line |-> (n + 1) \div 2, last |-> n % 2 = 0]
Halves(n) == [i \in 1..n |-> Half(i)]
Second(l) == (l + PerSecond - 1) \div PerSecond
Last(s) == s[Len(s)]

DelInit ==
  /\ mode \in {"live", "dump"}
  /\ IF mode = "live" THEN halves \in {0, 2} ELSE halves \in 1..2 * MaxLines
  /\ file = Halves(halves)
  /\ same = TRUE /\ kept = <<>>
  \* TailFrom::End in live mode, between two lines
  /\ pos = IF mode = "live" THEN halves ELSE 0
  /\ buf = <<>>
  /\ tailing = TRUE
  /\ chan = <<>> /\ pending = {}
  /\ link = "down" /\ flight = <<>> /\ stored = <<>>
  /\ gone = IF mode = "live" /\ halves = 2 THEN {1} ELSE {}
  /\ breaks = 0 /\ resets = 0 /\ timedOut = FALSE
-----------------------------------------------------------------------------
(* The game. *)

Write ==
  /\ mode = "live" /\ halves < 2 * MaxLines
  \* the named assumption on regrowth
  /\ ~same => Len(file) + 1 < Len(kept)
  /\ same /\ pos > Len(file) => Len(file) + 1 < pos
  /\ halves' = halves + 1
  /\ file' = Append(file, Half(halves'))
  /\ UNCHANGED <<mode, tailVars, chan, pushVars, stored, gone, resets>>

(* The log is deleted and made anew; an open handle keeps the old file.  The
   game does so between two lines. *)
Recreate ==
  /\ mode = "live" /\ resets < MaxResets
  /\ halves % 2 = 0 /\ same /\ file # <<>> /\ pos <= Len(file)
  /\ same' = FALSE /\ kept' = file
  /\ file' = <<>>
  /\ resets' = resets + 1
  /\ UNCHANGED <<mode, pos, buf, tailing, halves, chan, pushVars, stored, gone>>

Truncate ==
  /\ mode = "live" /\ resets < MaxResets
  /\ halves % 2 = 0 /\ same /\ pos <= Len(file)
  /\ gone' = gone \cup {file[i].line : i \in pos + 1..Len(file)}
  /\ file' = <<>>
  /\ resets' = resets + 1
  /\ UNCHANGED <<mode, tailVars, halves, chan, pushVars, stored>>
-----------------------------------------------------------------------------
(* tail() *)

Content == IF same THEN file ELSE kept

(* read_until: to the next newline, or to the end of what there is. *)
Read ==
  LET rest == SubSeq(Content, pos + 1, Len(Content))
      ends == {i \in 1..Len(rest) : rest[i].last}
  IN IF ends = {} THEN rest
     ELSE SubSeq(rest, 1, CHOOSE i \in ends : \A j \in ends : i <= j)

(* A whole line is both its halves; at the end of a dump what is left is. *)
Emit(b) ==
  chan' = Append(chan, [line |-> Last(b).line,
                        whole |-> \/ b = <<Half(2 * Last(b).line - 1),
                                           Half(2 * Last(b).line)>>
                                  \/ b = <<Half(2 * Last(b).line - 1)>> /\ mode = "dump"])

TailReads ==
  /\ tailing /\ Read # <<>>
  /\ pos' = pos + Len(Read)
  /\ IF Last(Read).last
     THEN Emit(buf \o Read) /\ buf' = <<>>
     ELSE buf' = buf \o Read /\ UNCHANGED chan
  /\ UNCHANGED <<mode, file, same, kept, tailing, halves, pushVars, stored, gone, resets>>

ReopenKeepsPos ==
  /\ tailing /\ mode = "live" /\ Read = <<>> /\ Len(file) < pos /\ ~same
  /\ same' = TRUE /\ kept' = <<>> /\ buf' = <<>>
  /\ UNCHANGED <<mode, file, pos, tailing, halves, chan, pushVars, stored, gone, resets>>

(* Idle, and the path is shorter than what was consumed: open it again. *)
Reopen ==
  /\ tailing /\ mode = "live" /\ Read = <<>> /\ Len(file) < pos
  /\ same' = TRUE /\ kept' = <<>> /\ pos' = 0 /\ buf' = <<>>
  /\ UNCHANGED <<mode, file, tailing, halves, chan, pushVars, stored, gone, resets>>

(* Dump mode stops at the end of the file, after its unfinished line. *)
TailEnds ==
  /\ tailing /\ mode = "dump" /\ Read = <<>>
  /\ tailing' = FALSE
  /\ IF buf = <<>> THEN UNCHANGED chan ELSE Emit(buf)
  /\ UNCHANGED <<mode, file, same, kept, pos, buf, halves, pushVars, stored, gone, resets>>
-----------------------------------------------------------------------------
(* push_to_server *)

(* connect_async and the hello *)
Connect ==
  /\ link = "down"
  /\ link' = "up"
  /\ UNCHANGED <<mode, file, tailVars, halves, chan, pending, flight, breaks,
                 timedOut, stored, gone, resets>>

(* An unreachable server: what has accumulated is discarded. *)
ConnectFails ==
  /\ link = "down" /\ breaks < MaxBreaks
  /\ breaks' = breaks + 1
  /\ chan' = <<>>
  /\ UNCHANGED <<mode, file, tailVars, halves, pending, link, flight, timedOut,
                 stored, gone, resets>>

PushReceives ==
  /\ link \in {"up", "broken"} /\ chan # <<>>
  /\ pending' = pending \cup {Head(chan)}
  /\ chan' = Tail(chan)
  /\ UNCHANGED <<mode, file, tailVars, halves, link, flight, breaks, timedOut,
                 stored, gone, resets>>

(* split_by_game_second: one batch per second, in the order of the seconds. *)
SplitByGameSecond(events) ==
  LET secs == {Second(e.line) : e \in events}
  IN [k \in 1..Cardinality(secs) |->
        LET s == CHOOSE x \in secs : Cardinality({y \in secs : y < x}) = k - 1
        IN {e \in events : Second(e.line) = s}]

(* Faulty variant: pending is sent but not taken. *)
PushTickClones ==
  /\ link \in {"up", "broken"} /\ pending # {} /\ Len(flight) < 4
  /\ flight' = IF link = "up" THEN flight \o SplitByGameSecond(pending) ELSE <<>>
  /\ UNCHANGED <<mode, file, tailVars, halves, chan, pending, link, breaks,
                 timedOut, stored, gone, resets>>

(* The tick: pending is taken before it is sent, so what a broken link does
   not carry is lost. *)
PushTick ==
  /\ link \in {"up", "broken"} /\ pending # {}
  /\ pending' = {}
  /\ flight' = IF link = "up" THEN flight \o SplitByGameSecond(pending) ELSE <<>>
  /\ UNCHANGED <<mode, file, tailVars, halves, chan, link, breaks, timedOut,
                 stored, gone, resets>>

(* The link breaks under what is in flight; the pusher learns of it later. *)
Break ==
  /\ link = "up" /\ breaks < MaxBreaks
  /\ breaks' = breaks + 1
  /\ link' = "broken" /\ flight' = <<>>
  /\ UNCHANGED <<mode, file, tailVars, halves, chan, pending, timedOut, stored,
                 gone, resets>>

(* A close, an error or a failed send: pending goes with the connection. *)
Notice ==
  /\ link = "broken"
  /\ link' = "down"
  /\ pending' = {}
  /\ UNCHANGED <<mode, file, tailVars, halves, chan, flight, breaks, timedOut,
                 stored, gone, resets>>

(* The channel is closed: flush, then send Close. *)
Flush ==
  /\ link \in {"up", "broken"} /\ ~tailing /\ chan = <<>>
  /\ pending' = {}
  /\ flight' = IF link = "up" THEN flight \o SplitByGameSecond(pending) ELSE <<>>
  /\ link' = "closing"
  /\ UNCHANGED <<mode, file, tailVars, halves, chan, breaks, timedOut, stored,
                 gone, resets>>

(* Faulty variant: the program ends as soon as Close is sent. *)
CloseAtOnce ==
  /\ link = "closing"
  /\ link' = "done" /\ flight' = <<>>
  /\ UNCHANGED <<mode, file, tailVars, halves, chan, pending, breaks, timedOut,
                 stored, gone, resets>>

(* The server's Close arrives after it has processed every frame before it. *)
Closed ==
  /\ link = "closing" /\ flight = <<>>
  /\ link' = "done"
  /\ UNCHANGED <<mode, file, tailVars, halves, chan, pending, flight, breaks,
                 timedOut, stored, gone, resets>>

CloseTimesOut ==
  /\ link = "closing" /\ flight # <<>> /\ breaks < MaxBreaks
  /\ link' = "done" /\ flight' = <<>> /\ timedOut' = TRUE
  /\ breaks' = breaks + 1
  /\ UNCHANGED <<mode, file, tailVars, halves, chan, pending, stored, gone, resets>>

Process ==
  /\ flight # <<>>
  /\ stored' = Append(stored, Head(flight))
  /\ flight' = Tail(flight)
  /\ UNCHANGED <<mode, file, tailVars, halves, chan, pending, link, breaks,
                 timedOut, gone, resets>>

Tailer == TailReads \/ Reopen \/ TailEnds
Pusher == Connect \/ PushTick \/ Notice \/ Flush \/ Closed

DelNext ==
  \/ Write \/ Recreate \/ Truncate
  \/ Tailer \/ Pusher \/ PushReceives \/ Process
  \/ ConnectFails \/ Break \/ CloseTimesOut

DelSpec == DelInit /\ [][DelNext]_delVars
-----------------------------------------------------------------------------
StoredLines == {e.line : e \in UNION {stored[k] : k \in 1..Len(stored)}}
Complete == {l \in 1..MaxLines : 2 * l <= halves}

(* No line is stored twice and log time never runs backwards in what the
   server stores, over any number of reconnections. *)
OnceInOrder ==
  \A j, k \in 1..Len(stored) : j < k =>
    \A d \in stored[j], e \in stored[k] :
      d.line # e.line /\ Second(d.line) <= Second(e.line)

(* While the network holds, every whole line the game writes after the tail
   began arrives, through deletions of the log; only a truncation may take
   unread lines. *)
EveryLineArrives ==
  []<>(mode = "live" /\ breaks = 0 => Complete \subseteq StoredLines \cup gone)

(* An import whose close was answered has stored the whole log, whatever was
   in flight when the program was done. *)
CloseProvesDelivery ==
  link = "done" /\ breaks = 0 =>
    StoredLines = {Half(i).line : i \in 1..halves}
=============================================================================
