# Verification of froklog

froklog reads an EverQuest log on the player's machine, turns lines into combat
events, and pushes them over a WebSocket to a server that stores each player's
stream and plays it back, live or from any point in its history, to viewers in
a browser. This directory holds TLA+ models of its parts, the configurations
that check them with TLC, and proofs checked by TLAPS. Source paths below are
relative to the repository.

## 1. Inventory

### Server (`src/bin/froklog-server/`)

| Part | State | Operations | Hard parts | Correct when |
|---|---|---|---|---|
| Journal (`journal.rs`) | one SQLite file per stream: `batches`, its AUTOINCREMENT counter; the seek index in memory | append, prune, clear, open, next_batch_id, seeks and reads | index and table change in two steps; VACUUM can fail after the DELETE | every stored batch is in the index; ids are never reused |
| Session index (`session_index.rs`) | `sessions` table and the list loaded from it | append (cut), prune, clear, retroactive_scan, open | anchors are row ids of batches not stored yet; numbers are list lengths | a break or a login is a boundary, and no stored batch ever changes session |
| Ingest (`ingest.rs`) | one task per client WebSocket; the `client_connected` flag | hello, receive, split, marker check and insert, cut, append, broadcast | four critical sections per batch, interleaving with other connections and with maintenance | what was accepted is stored once, under the right session |
| Maintenance (`main.rs`) | tasks of the prune and reset endpoints and of the daily retention sweep | prune_stream_data, reset | journal, sessions and markers are changed under three separate locks | the survivors keep their sessions; tasks end |
| Viewer (`viewer.rs`) | per browser: mode (catch-up, live, replay, paused), position, subscription | burst reads, live forwarding, pause, resume, seek, session jump | positions are index offsets that prune and clear shift; the broadcast overlaps the catch-up | every batch reaches a live viewer, in order |
| Registry and stream endpoints (`streams.rs`, `main.rs`) | `by_id`, `token_to_id`, `name_to_id`; `meta.json` per stream | create, patch, delete, purge, load at start | the meta file is written outside the lock; removing a stream unlists its name | a restart comes back with what was being served; a purged stream stays gone |
| Rate limiter (`ratelimit.rs`) | per-address window, count and ban | check, cleanup | windows, bans and evictions that end together; the proxy's header | nobody exceeds the limit; a ban told is kept |
| Markers, mob overrides, segment rosters | one table each | add, list, delete, set | pages act on lists they fetched earlier | a stale delete hits what the page showed or nothing |
| Viewer page (`static/stream.html`) | timeline state, batch cache and its index, what is shown | messages from the server; play, pause, seek, Go Live; preload of a session | its messages cross the server's; reconnection keeps half of its state | it shows each batch once, and learns what became of the stream |
| Admin, config, other pages | configuration read at start | list, delete, purge; HTML | none | |

### Client (`src/`)

| Part | State | Operations | Hard parts | Correct when |
|---|---|---|---|---|
| Engine lifecycle (`main.rs`) | restart, quit and connected flags, the threads of each engine, the configuration | start, stop, restart on a settings change, follow the game to another log | an old thread may outlive the restart | one tailer reads at a time; what runs is what is configured |
| Tailer (`tailer.rs`) | file, position, half a line | poll, deletion, recreation, truncation; dump of a whole file | the file changes under it | each complete line is delivered once, in order |
| Pusher (`pusher.rs`) | channel, batch of the tick, connection | register, collect, split by second, send, reconnect, close | a connection that breaks between send and close | an import whose close was answered is stored |
| Parser and state (`parser.rs`, `state.rs`, `patterns.rs`) | sightings of mobs, pets, casts, crowd control, loot, totals; the instance one is in | one log line at a time | protocols spread over many lines; time gaps | a line goes to the right actor and sighting; the stream and the totals agree |
| Triggers (`triggers.rs`) | compiled triggers, stored variables, delayed alerts, reference groups | match, fire, delay, reload, edit | reload while alerts are pending | each alert fired reaches its queue |
| Alert engine and overlays (`alert_engine.rs`, `overlay*.rs`) | queue, running alert and phase per window, history; position and size of windows; the meter's rows | drain, preempt, expire, sleep, hide, drag, resize, redraw | several timers and windows over shared queues | every alert is shown once, in order; the meter tells one fight |
| Settings (`settings_window.rs`, `tray.rs`, `sound_packages.rs`, `config.rs`) | boxes and panels, triggers.toml, config.toml, packages | edit, save, reload, rename, delete | copies that go stale; panels that remember indexes | what is shown is what is kept and what runs |
| Clock, auth, speech, icons, fonts | skew estimate; tokens; files | measure, compare, load | I/O | |
| Chat (`chat/`) | phrases, moods and a neural backend, used by the log generator | pick, generate | chance | |

### Tools

`froklog-loggen` invents logs: groups that fight pulls of mobs, second by second.
`froklog-debug` reads a log as a second parser that prints what it decides.
`froklog-replay` sends a log file as a client would, `froklog-migrate` converts
old journals once.

### How the parts interact

The tailer hands lines to the parser; parser events go to the pusher and to the
trigger engine; the pusher sends a batch a second over the ingest WebSocket. On
the server the ingest task writes journal, sessions and markers and broadcasts
each stored batch; viewer tasks read journal and sessions under read locks and
receive the broadcast. Maintenance requests and the retention sweep take the
same write locks, one call at a time. Registry locks are held only to clone
handles.

## 2. Plan

1. The durable store of a stream and everything that writes it (section 3), its
   abstract specification, proofs. **Done.**
2. The viewer and the page at the other end of its WebSocket (section 4), proofs.
   **Done.**
3. The rest of the server around its streams (section 5), proofs. **Done.**
4. The client: engine, tailer, pusher (section 6), proofs. **Done.**
5. The readers and the writer of logs: parser, debug tool, log generator
   (section 7), proofs. **Done.**
6. Alerts and their windows (section 8); what Settings edits, dragging, the meter
   (section 9), proofs. **Done.**
7. Left: the parts named in section 11 that have state.

One module models one component. Components that share state are composed by
EXTENDS or INSTANCE (`StreamStore` over `Journal` and `SessionIndex`, `Viewer` over
`Journal`, `ViewerPage` over `Viewer`, `Trace` over `Combat`). Components that share
none are checked in one run by an MC module with a variable `part`: an initial
state names the part to explore, and the others stand still. This is the same as a
run for each, except that deadlock and fairness are stated for the part.

## 3. The stream store

### Modules

| Module | Models |
|---|---|
| `Journal` | `journal.rs`: the table `rows`, the seek index `index`, the counter `autoinc`; each operator is one call made under the journal lock |
| `SessionIndex` | `session_index.rs`: the table `sessionRows` and the list `sessions`, same convention |
| `StreamStore` | the tasks that call them: `handle_ingest` per connection, `prune_stream_data` and reset per maintenance task, the marker endpoints, a restart |
| `SessionPartition` | the promise: stored batches are divided into runs of play, and nothing but a wholesale reset moves a stored batch to another run |
| `MCStreamStore` | batches and symmetry for TLC |
| `StreamStoreProofs` | the theorems about the tables, counters and anchors; those about sessions, and the refinement |
| `OrderLemmas` | least and greatest elements, ranks, induction by least elements; sequences and parts of sequences |

A task is a sequence of actions, one per critical section, and its local
variables (`wall`, `subs`, `anchor`, `adminMin`, ...) hold exactly what the code
keeps across an `await`. `pc[c] = "recv"` is a handler waiting in
`socket.recv()`; `markCheck`/`markAdd` are the two marker calls;
`loginAnchor`/`loginDedup`/`loginCut` the login path; `store`/`gapDedup`/`gapCut`/
`append` one turn of the loop over sub-batches. `Restart` stops the process at
any point: the locals are lost, the tables stay, `StreamEntry::new` reopens them
and scans a journal that has no sessions. I/O errors are the alternatives guarded
by `Faults`. Definitions marked as faulty variants are not part of any
specification; each is a bug one could have written, and the run named for it in
`PROJECT.json` finds it when it replaces the real definition.

### Runs

| Run | Instance | Shows |
|---|---|---|
| `ingest` | 1 client, 4 batches, restarts, failing appends, 4 row ids | `GapsAreCut`: a break between neighbouring stored batches is a boundary; `EveryCutIsMade`: a decided cut is recorded |
| `prune` | 1 client with split pushes, 2 maintenance tasks that prune and reset, 4 row ids, fair tasks | `SessionsChronological`; `IdsNeverReused`; `KeepsHistory` (implements `SessionPartition`) |
| `faults` | 2 clients, 1 maintenance task, every operation, every fault, 2 row ids | `Inductive`, what the proofs use: among it that anchors are bounded, that every row is in the index, and that the connected flag means a client |
| `scan` | 1 client without logins, fair tasks, 6 row ids | `LiveMatchesScan`: live boundaries and `retroactive_scan` agree but for the first session; `AcceptedIsStored` |

The times are small: a gap is 3 s and a split window 1 s, and the batches put
events within, at and beyond both. Two windows make a push overflow into the
last one. Two connections and two maintenance tasks are enough for every pair of
critical sections to interleave; four row ids give a prune something to keep, to
drop and to re-anchor. The counters bounded for TLC are row ids (`MaxBatches`),
the clock (`MaxClock`) and markers added by hand (`MaxMarkers`).

Fairness (`FairSpec`) is weak fairness of each ingest and maintenance task that
is past its first step: tokio polls every ready task and its locks are FIFO.
Nothing is assumed of clients or owners.

### Seen while modelling

- The number of a new session is `len() + 1` (`ingest.rs:294`), which is the primary
  key of a kept row once older rows were pruned: the insert fails and a decided
  cut is lost (`session_index.rs:5-9`). So `EveryCutIsMade` is checked without prunes.
- `wall_ts` is read before the lock (`ingest.rs:167`), so with two connections it is
  not monotonic, as `journal.rs:242-243` says.
- The journal lock is released before the session lock is taken
  (`main.rs:773-780`), so a prune may leave a batch without a session
  (`session_index.rs:164-166` says every remaining batch has one).
- After such a prune a restart loads sessions `ORDER BY num`, which is no longer
  their order; a login in the later part of a split push is anchored at the first
  part (`ingest.rs:214`); the first batch of a fresh stream has no session until a
  restart; two connections can both cut at, or add a marker for, the same position,
  since check and write are separate critical sections; a failing VACUUM leaves
  deleted batches in the index; a scan stopped halfway is never completed; a batch
  of unknown events has time 0 (`event.rs:260-262`), so the one after it looks like a
  break in play; every handler lowers the connected flag when it ends
  (`ingest.rs:267`), also when another connection is open (`streams.rs:65` says
  otherwise).

## 4. The viewer

### Modules

| Module | Models |
|---|---|
| `Viewer` | `handle_viewer_ws` (`viewer.rs`) for one public viewer, over `Journal` and the broadcast channel; the ingest client, maintenance and the owner as its environment |
| `ViewerPage` | the script of `static/stream.html`: its timeline state, its cache, and what it sends for itself and for its user |
| `MCViewer`, `MCViewerPage` | batches and messages for TLC |
| `ViewerProofs` | the theorems about both |

`mode` is `ViewerMode`; `step` is where the handler stands in its loop: about to
send the stream's info, at the `top` of the loop, in the `arm` of its mode,
looking at its socket after a burst (`poll`) or while a replay waits (`pace`), at
the end of the journal and about to load the connected flag (`caught`), or having
seen the client gone and about to read the journal's length (`gone`). These are
the places where the code awaits, so a batch, a prune, a revocation, a control
message or the client's return may come at each. `rx` is the position of the
broadcast receiver in `sent`. `pausedByDisconnect` and `ingestWasDown` are the
locals of the same names; `delivered`, `lagged`, `wheel`, `ended` and `sinceRevoke`
are history for the properties and `out` is what the step sends. A position is an
index into the seek index, as in the code, so a prune shifts it under the viewer.

In `Viewer` the page sends whatever `Msgs` holds, whenever the handler listens.
`ViewerPage` replaces that environment by the real page, which reacts to `out` in
the step that sends it and whose own messages wait in `up`: the page acts on a
message only after it has come, and both directions keep their order, so every
behaviour of the two is one of these but for delays nobody sees.

### Runs

| Run | Instance | Shows |
|---|---|---|
| `viewer` | bursts of 2, channel of 1, 2 batches whose log times are ahead of the server's, 1 disconnection, 1 prune or clear, any 2 control messages, the second journal write may fail | `NothingMissed`: subscribing first, storing before broadcasting and ending on a short burst leave no gap, but for what the channel dropped; `StoredIsShown`, the same as a promise; `WheelIsRespected`: only a pause of the server's own is undone; `RevokedSeesLittle` |
| `page` | bursts of 1, 2 batches, 1 disconnection, 1 action of the user, 2 connections, with and without `?session=latest` | `PageShowsAll`; `PageLearnsReturn` though its messages cross the server's |

Bursts of two let a burst be short, full or empty; the page's run, with bursts of
one, has catch-ups of several bursts. With a channel of one the second broadcast
already overwrites what a slow receiver has not read. Two batches are enough for
one to be in the journal and the other anywhere between client, journal, channel
and viewer; log times that differ from arrival times separate the two searches.
The first of two control messages puts the handler into any mode, and the second
finds it at any step of that mode; the proofs are for any number of both.
The page adds what depends on its own state: one user action, one
disconnection and one reconnection are enough to cross every message of the
server with every message of the page. The counters bounded are `MaxBatches`
(length of `LogTimes`), `MaxDrops`, `MaxCuts`, `MaxMsgs`, `MaxUser`, `MaxOpens`. The page runs
do not check for deadlock: with the page gone for good and the client away
everything does stop.

Fairness is weak, of the handler as one task (it runs while it can, and its
intervals tick) and of ingest between storing and broadcasting; with the page,
also of taking in a message that waits. A client, a page, a user or an owner need
never act.

### Seen while modelling

- A page the user paused is moved when the client returns, though
  `stream.html:3245-3246` says it is not: `endedByDisconnect` is set by `stream_done`
  and cleared by nothing the user does, so `now_live` goes live (`stream.html:3252`).
- The preload flag may stay up for good (`stream.html:3117` says it is up while the
  preload is in flight): Go Live is offered during a preload
  (`stream.html:3843`) and does not look at the flag (`stream.html:3554`); the `live`
  it sends ends the preload on the server, whose end is never reported.
- An ended session is not loaded in full (`stream.html:3179`, `3192`): the target is the
  position of the first batch with the last log time (`viewer.rs:804`), and
  `CatchUpTo` stops before it (`viewer.rs:405`).
- A receiver that lagged is only logged, though the journal has the batches; a
  prune shifts the positions of every viewer; a page that reconnects empties its
  cache but keeps its index and what it shows; `canGoLive` is raised only by
  `now_live`, which neither the live arm nor a new handler sends, so a page that
  went live while the client was away shows it as gone; a batch is known to the
  page by sequence number and time, which a client that starts anew may repeat;
  the connected flag sent with the info may have changed before the catch-up ends.

## 5. The server around its streams

### Modules

| Module | Models |
|---|---|
| `Registry` | `streams.rs` and the handlers of `main.rs` that create, patch and purge streams: the registry in memory (`mem`, `tokens`, `names`), `meta.json` and the directory of each stream on disk, restarts at any step |
| `RateLimiter` | `ratelimit.rs` and `client_ip`: an entry per address, requests directly or through the proxy |
| `Curation` | markers, mob overrides and segment rosters, written by pages that act on lists fetched earlier |
| `MCServer` | the three parts for TLC |
| `ServerProofs` | the theorems about all three |

`task[t]` is a handler between two steps: what it holds and which it does next
(`createMeta`, `patchMeta`, `deleteDir`, ...); a step is one registry lock or one file
call. `lost` remembers streams of which a file call failed, which is what the code
logs and goes on; `purged` those whose purge was answered. `OnePatch` lets a client
send a PATCH only after the answer to the one before: without it two PATCHes of one
stream, each cloning under the lock and writing outside of it
(`main.rs:545-565`), can leave the older of the two on disk.

### Run

`server`: two streams of one player and household, two handlers, three writes of
`meta.json`; two clients and the proxy, two requests in a window of 2 s, a ban of
7 s, nine seconds (a ban must outlast the three windows after which the cleanup
evicts); two pages, three markers. Two handlers are any pair of create,
patch, purge crossing a restart; three writes give a stream created, patched, and a
second one of the same name. It shows `PurgeIsFinal`, `DiskIsMemory`,
`NamesHold` (a public stream is found by its name after every restart and not
hidden by a private one), `LimitHolds`, `StaleDeleteIsHarmless`. Deadlock is not
checked: each part stops at its bounds.

## 6. The client's way from log to server

### Modules

| Module | Models |
|---|---|
| `Engine` | `main.rs`: the monitor that starts one engine after another, its tailer, parser and pusher threads, the watcher that follows the game from log to log, and what tray and Settings do; the flags `restart`, `quit`, `connected` |
| `Delivery` | `tailer.rs` and `pusher.rs`: the file and the half lines read from it, the channel, the batch of a tick, the connection, what the server has stored |
| `MCClient` | both for TLC, with their fairness |
| `ClientProofs` | the theorems about both |

In `Engine`, `mon.pc` is where the monitor stands, `eng[i]` the threads of the i-th
engine and `target` what the last one was started on. The monitor sleeps 500 ms
between two engines and looks at no thread: `Elapse` counts the sleep in ticks of
100 ms. A tailer polls the flags every 200 ms, so a tick waits for one that has yet to
poll, and does not wait for one that is blocked: a tailer that hands a line to a full
channel (`tailer.rs:178`, a send that holds its whole thread) polls nothing until the
parser has taken a line, and may outlive the sleep, the next engine's start and more.
The splitter, parser, trigger and sink threads end with their tailer. What a pusher does
between start and end is `Delivery`'s; in `Engine` it reports `connected` as it likes,
for a pusher asleep for its 5 s may outlive its engine, too. Profiles are told apart by
their log. `late` (tailers that were blocked when the last sleep ran out) and
`overlooked` (below) are history: no action reads them.

In `Delivery` a line is two halves, so the game can be seen in the middle of one;
`same` says whether the tailer's handle is still the file under the path; `gone` are
the lines a truncation took before they were read, `breaks` the failures of the
network.

Assumed, and named in the modules: a tailer's poll is shorter than the monitor's sleep
(`TimingAssumption`, 200 ms and 500 ms in the code); tailing starts between two lines,
the game replaces its log between two lines, and a replaced log does not reach its old
size within one 50 ms poll (`tail` compares sizes only).

### What the code overlooks

A change of the configuration or of the game's log reaches the engine by the restart
flag, and there are four ways in which nobody sets it, or it is lost. The model takes
all of them; `overlooked` is true from then on until the monitor reads the configuration
again, and the property makes an exception of that time only.

- *Between the monitor's two reads.* It clones the configuration (`main.rs:164`),
  and only then clears the flag (`168`). A change saved in between sets a flag
  that is wiped, and the engine is started on the clone.
- *Before the watcher's first look.* The watcher takes what it sees first for what
  the engine reads (`main.rs:219-221`), 8 s after the start; a game that has changed logs by
  then is not followed.
- *Undone before the watcher looked.* The game goes from a to b, the engine is
  restarted for another reason and reads b, the game goes back to a: the watcher sees a
  twice and asks for nothing.
- *Pinned before the watcher looked.* In Auto mode the game has gone from a to b
  and the watcher has not looked yet; the user pins b. `mutate_log_profiles` compares what
  was active before and after (`settings_window.rs:637-650`), b both times, and in pinned
  mode the watcher does not look (`main.rs:214`). The engine stays on a.

In each the engine goes on reading the wrong log, or pushing to the old stream, until the
next restart.

### Run

`client`: two logs, three acts, where an act is what user or game do, or a tailer that
blocks or dies; four lines, two in a second, two resets of the file, one broken
connection. Three acts are what the longest of the four ways takes. Seven engines are never reached with three acts, so that bound cuts
nothing off. Logs are interchangeable, so the first profile is a fixed one. It shows
`OneTailer` (of two tailers alive at once, the older was blocked when the monitor's sleep
ran out, and nothing else leads there), `RunningEngineFollows` (whatever user and
game did, once they pause the engine reads the active log and pushes to the configured
stream, but for the four ways above; with any one of them left out of `overlooked`, the
run finds it violated), `OnceInOrder`, `EveryLineArrives` and `CloseProvesDelivery`.

Fairness, all of it weak: the monitor runs, the watcher's timer fires, and a tailer polls
and is unblocked, as its parser takes lines without waiting for anything. Nothing is
assumed of an engine's pusher, of user and game, or of the network in `Delivery`: its liveness is
promised while no connection broke. Deadlock is not checked: a user who quits ends
everything.

## 7. Reading logs, and inventing them

### Modules

| Module | Models |
|---|---|
| `Combat` | `parser.rs`, `state.rs`: who fights whom, sightings of mobs, pets and warders, casts, crowd control, healing, slays, loot, gaps and resets; totals for the overlays and events for the stream |
| `Trace` | `froklog-debug`, the same lines through its own copy of the rules |
| `Marks` | the parser's marks for instances and raids, and its heartbeats |
| `Encounter` | the fights of `froklog-loggen` |
| `MCParser` | scenes, zones and groups for TLC |
| `SequenceParts` | the part of a sequence that passes a test, as a recursive function |
| `CombatProofs` | the theorems about combat and the debug tool |
| `LogProofs` | the theorems about marks, encounters and alerts (section 8) |

A line is `[op, src, tgt, sp]`: which regex it matches, who, whom, with what. `Combat`
keeps the parser as a record `s` that each operator takes to the next, and a second
copy `twin` that reads the same lines at another speed; `told` is what a reader of the
events adds up, `trail` what the log says of each mob. `Trace` adds the debug tool's
state `d`, and `mended`, the names the parser took for mobs when they healed, which
only the property reads. `Marks` keeps the truth (`made`, `inside`, `unseen`) beside what the parser
remembers, because an entry line does not say which instance was entered; an entry line
that starts with the created zone's name (`parser.rs:206`, `224`) is that zone's, so no
zone's name may begin another's.
`Encounter` goes by seconds in the order of `run_encounter`; chance is a free choice.

### Run

`parser`: six scenes of at most five lines, each a handful of kinds of lines chosen to
meet (pull, healing, looting, spells, pets, resets), with the time gaps at which
sightings split, loot expires or a reset falls due; four moves between zones
with a tier and without, and between instances; six groups of two players, two
encounters with pulls of up to two mobs. It shows `WholeEncounters` (a mob's lines
less than 15 s apart, or from its mez on, go to one sighting until it dies or is taken
for a player; the first after its death opens a new one), `LedgersAgree` (the overlays'
totals are those of the stream), `ReplaysAlike` (the speed of reading changes
nothing), `TraceAgrees` (the debug tool comes to the parser's totals),
`MarksAreArrivals`, `AimHolds`. The constants of `Encounter` are scaled: an
encounter of 2 s for 300, ticks every second for every 6 or 4, a vendor after every
fight for every fifth. Deadlock is not checked: scenes end.

`TraceAgrees` compares every total both print for a player. It is stated for scenes
without a reset, for warders as the only pets, for lines in which a single word neither
burns nor is riposted (`ToldAlike`), and for what a name heals unless the parser once
took it for a mob (`mended`): "exactly as the production parser does"
(`froklog-debug/main.rs:3-4`) does not hold beyond. The debug tool compares names as
written; splits sightings by its own clock, so silences of 15 s in the log are missed
and `--delay-ms` invents some, and parked mobs are not kept; does not know generated,
summoned or berserk pets, whose hits become a mob's; lets burns, mezzes and wakings
change nothing; makes corpses candidates but ripostes none; books points without a
sighting under number 0; never expires pending loot; and credits mobs that heal.
What the tool books by sighting is not compared for these reasons.

Names: `Spaced` are those with a space, which both take for mobs; `NamesAssumption` says
that warders and corpses are among them ("X`s warder", "X's corpse") and that the
generated pet names, single words, are not.

### Seen while modelling

- `Combat`: sightings are found by a name in any capitalisation, players by the name as
  written. A mob taken for a player as "An orc" loses its sighting if it was last listed
  so (`evict_player_from_mob_list`), and its next line as "an orc" opens a second one;
  `WholeEncounters` leaves such names out. A line that only names a warder registers it without an event, so a
  reader of the stream does not learn its owner; `confirmed_mobs` is not cleaned of
  names that are no candidates; slay and loot take the oldest sighting of a name;
  ids restart at 0 after a reset, and 0 also means "no mob", so `LedgersAgree` leaves
  that number out; `state.rs:106` says `mob_list` has the most recent first, it is in
  order of appearance; the last snapshot may stay unpublished until the next line
  (`parser.rs:1522`).
- `Encounter`: a cast aimed at a mob that was killed keeps its index and hits the next
  mob (`froklog-loggen/main.rs:3087-3093`), so `AimHolds` speaks of mobs still alive;
  casts and HoTs survive into the next encounter; dead targets are healed and the
  spells of dead casters land; the count of DoTs is reset at any kill
  (`3096-3099`); a slow that was resisted clears the debuff flag; looting moves the
  clock inside the loop over kills.

## 8. Alerts

`Alerts` models the trigger engine (`triggers.rs`), the two queues, the alert, merged
and notice windows over `alert_engine.rs`, and the history (`overlay*.rs`);
`MCAlerts` gives two trigger files and three lines, `LogProofs` holds the theorems. `win[w]` is a window's queue, its
running alert and the phase that alert is in; `phase = "place"` is a window shown for
being placed. `fired`, `forgotten` and `drawn` are history.

| Run | Instance | Shows |
|---|---|---|
| `alerts` | two files (captures, urgencies and two triggers on a line; stored variables, delays, notices), three alerts, one thing the user does | `EveryAlertOnce`, `OrderKept`, `AlertsSettle` |
| `idle_hides` | the same with `history_idle_secs` set for the merged window | a violation of `DrawnBeforeKept`: the merged window hides when the newest entry of the history is old, also while an alert is active (`overlay_merged.rs:266-273`); the first alert after a quiet time plays unseen and lands in the history, the defect `overlay.rs:336-345` guards against |

Three alerts are one on screen, one waiting and one that comes in; the second file
makes them wait for their time. Fairness: delays run out (weak); a window is ticked
while it is awake (strong, for the game may fall silent and return: a window ticks 30
times a second and stays awake for `hide_inactive_secs`). `AlertsSettle` excepts what
the code leaves behind: a window that sleeps, and the window the user switched away
from, whose queue and running alert stay in it. Deadlock is not checked: three alerts
fired and shown are the end.

Seen while modelling: the splitter drops lines for the triggers when their channel is
full (`main.rs:342-343`); the preview of a line ignores variables stored earlier by
that line.

## 9. Settings, windows and the meter

| Module | Models |
|---|---|
| `Drag` | a drag (`overlay_shell.rs`): the probe that finds out which kind of display server this is, and the two ways of following the pointer |
| `Desk` | Config in memory and on disk against the boxes and switches of Settings, drags, resizes, the tray and restarts |
| `Editor` | the list of triggers, the stack of panels, triggers.toml and the running engine |
| `Groups` | reference variables, their groups, and the tab's own copy of them |
| `Sounds` | packages, manifests and files, and the Sounds tab (`sound_packages.rs`) |
| `Meter` | the DPS meter's choice of mob, redraws, pins and hiding (`overlay_dps.rs`) |
| `MCSettings` | all six for TLC |
| `SettingsProofs` | the theorems about all six |

Run `settings`: a pointer that is anywhere within five pixels of the press at each of four
ticks, probe at two; five
acts in `Desk`; three triggers with lists of two and two changes; three groups of two
variables, four edits; three packages of two labels, five changes; two mobs, three
hits, two clicks, one reset, two rows. Each bound is past what its hazards need: a box that lags takes an open, a change elsewhere and a
save; a stale index a panel over a panel over a list; a row left over a fight of two
names and then of one. (Two names always fit two rows: `MeterShowsOneFight` covers
the meter whose rows are cut off.) It shows `FollowsPointer`, `LastWordWins`, `ShownIsLive`, `PanelsStayAimed`,
`ValuesAreLive`, `LabelsPlayTheirs`, `MeterTellsOneFight`. Deadlock is not checked:
bounds are reached.

Two properties name what the code does not keep, and the run does it all the same.

`FollowsPointer`: the code tells the two kinds of server apart by one reading, on the tick
after its first move (`overlay_shell.rs:239-270`): if the pointer's local coordinates
dropped by at least half of that move, they are rebased. A pointer that goes on in
the same direction in those 16 ms hides the drop: at 6 px a tick, the first move is 6 px and
the next reading is the same as the last. The drag then takes the server for one
that keeps the frame of the press (`DragMode::Absolute`), and sets the window each tick to a
reading that its own last move has shifted. In the model the pointer jumps anywhere between
two ticks; `steady` is history and stays true while it went less than half the first move
between that move and the next reading, and only such drags are promised to follow. The same jump against
the direction of the move makes a server that freezes the frame look like one
that rebases.

`LastWordWins`: every box of Settings is saved whenever one is left, and the two
switches of a window are saved in pairs (`settings_window.rs:2078-2132`). A drag brings
its boxes along (`241-269`), a resize (`overlay_shell.rs:435-442`) and the tray do not, so a
width resized, or a switch flipped from the tray, while Settings is open is undone by the
next box or paired switch that is saved. `behind` and `undone` are history: the fields whose
boxes lag, and those that were undone in this way. The property is that these two
kinds of fields and these two ways are all: every other word of the user stands, also with
Settings open, and `undone` fields stand again once they are set again.

Seen while modelling: `Config::save` truncates and then writes; a second instance
started at the same moment is not kept out; the tray's icon choice may be stale; a drag
that ends at (-1, -1) counts as never positioned; a resize is given up unsaved when
the pointer cannot be read; switching the reference group saves nothing
(`settings_window.rs:832-840`), though the engine reads the active one
(`triggers.rs:336-341`); unpinning leaves the meter on another player's mob, a pin may
mean another mob after a reset, and idleness looks at the tab that is shown only;
labels that differ in characters a file name may not have share a file, a copy that
fails after a rename leaves an alias, and a manifest that cannot be written is
ignored; two profiles of one name are edited as the first
(`settings_window.rs:2325-2354`); a file picked asynchronously lands in whatever panel is
open then (`1618-1675`).

## 10. Proofs

`StreamStoreProofs` proves, for every set of connections, maintenance tasks,
batches, cutoffs, operations and faults:

| Theorem | Statement |
|---|---|
| `InductiveHolds` | `Spec => []Inductive` |
| `TypeCorrect` | `Spec => []TypeOK` |
| `AnchorsStayBounded` | `Spec => []AnchorsBounded` |
| `BatchesStayFindable` | `Spec => []IndexCoversRows` |
| `RowIdsAreFresh` | `Spec => IdsNeverReused` |
| `IndexStaysExact` | `"vacuum" \notin Faults \/ "prune" \notin Ops` implies `Spec => []IndexMirrorsRows` |
| `FlagImpliesClient` | `Spec => []OpenWhileConnected` |

`AnchorsBounded` is not inductive alone. A cut uses an anchor read earlier, so
the anchors of tasks must be bounded too (`TasksBounded`) and a task about to cut
must have one (`CutHasAnchor`); a prune re-anchors to an id taken from the index,
so the index must lie within the counter (`TypeOK`); and that the index covers the
table is what makes the re-built index after a prune cover it again. `Inductive`
is their conjunction. It is split by the state it speaks of (`JournalInv`,
`SessionInv`, `IngestInv`, `AdminInv`, `FlagInv`); each operation of the journal
and the session index has a lemma saying it keeps its part, and each action a
lemma that puts the parts together.

Assumptions: `None` is not a number, a gap and a split window are positive,
events carry the times of `Times` or, when unknown, 0, and a batch that is not
empty has a latest event (batches are finite).

`ViewerProofs` proves, for every burst size and channel capacity, every sequence of
batches, every set of control messages and of failing writes, and any number of
prunes, disconnections and messages, and with the page for either scope, any session
start and any number of connections and of actions of the user:

| Theorem | Statement |
|---|---|
| `ViewerInvariant` | `Spec => []Inv` |
| `ViewerTypes` | `Spec => []TypeOK` |
| `PositionsStayInJournal` | `Spec => []PositionsInJournal` |
| `WatchersMissNothing` | `Spec => []NothingMissed` |
| `RevocationBites` | `Spec => []RevokedSeesLittle` |
| `PausesAreRespected` | `Spec => WheelIsRespected` |
| `PageInvariant` | `PageSpec => []PageInv`: the handler's invariant with the page it has, and that what the page sends are messages the handler knows |
| `PagesShowAll` | `PageSpec => []PageShowsAll` |

`NothingMissed` is not inductive. Between the short burst that ended the catch-up
and the load of the connected flag (`caught`) nothing is ahead in the journal any
more, so what was stored meanwhile must already be in the channel or about to be
(`WatchOK` with `Ahead`); that a viewer who only watches is in one of three modes is
part of it. The receiver must not run ahead of the channel (`ChannelOK`), table and
index must agree while nothing was pruned (`JournalOK`), and a position must be
where a burst of n batches puts it. That last part rests on lemmas about positions
in a finite set of row ids: every position below the length is one entry's
(`PosOnto`), a burst is as long as asked for or ends the journal (`BurstSize`), and a
new id comes last and moves nobody (`PosAppend`). `RevokedSeesLittle` needs that a
burst only begins where no revocation was seen (`RevokeOK`), `WheelIsRespected` that
the flag is raised only in an untouched pause (`FlagsOK`). There is one lemma per
action, and one (`HandlerKeeps`) for what every step of the handler leaves alone.

`PageShowsAll` compares what the page has applied with what is stored, across a
handler that catches up, follows, announces an end and a return, and is sent "live" by
the page itself, in messages that cross. Two facts hold at every step of a page of the
whole stream whose user only watches, on its first connection (`Watched`). What
it keeps, it has applied, and the handler's `delivered` is among what it keeps: any
message may reset what is applied, but then rebuilds it from the cache (`PageOK`,
`ReactKeeps`). And once the handler is past the end of the journal, or the page has
been told of an end or has itself sent something (`Beyond`), every stored row is
delivered, lagged or pending (`Covered`): `NothingMissed` alone does not say so,
because a control message ends its premise, and the page sends "live" by itself. Only
the short burst that ends the first catch-up makes `Beyond` true, since until then
nothing but information and batches is sent (`CatchUpSends`), and there `WatchOK` gives
`Covered`; nothing is unseen after that (`HandlerSeen`). The messages of one step are
read by a recursive function, whose values are drawn out with `InductionUpTo`
(`AfterIs`).

Assumptions: bursts and the channel are not empty, log times are numbers, control
messages are those of `ClientMsg`, and scopes are the two the page has.

It also proves what the sessions mean, for every set of batches, any number of
maintenance tasks and whatever fails, under the conditions it names:

| Theorem | Statement | Assumes |
|---|---|---|
| `SessionsStayChronological` | `Spec => []SessionsChronological` | one client; no prunes or no restarts |
| `HistoryIsKept` | `Spec => KeepsHistory`: `StreamStore` implements `SessionPartition` | the same |
| `CutsAreMade` | `Spec => EveryCutIsMade` | no prunes, a session database that takes its rows |
| `GapsStayCut` | `Spec => []GapsAreCut` | one client, neither prunes nor resets, a session database that takes its rows |
| `LiveCutsMatchScan` | `Spec => []LiveMatchesScan` | one client whose batches hold play and no login; neither prunes, resets nor restarts; both databases take their rows |

Each condition is one the code needs. Two connections may both choose the next row as
the anchor of a cut, and one of them store it before the other cuts. A prune
renumbers nothing, so the next cut may take a number already used and is lost; or it
takes a free one below those of older sessions, and a restart, which loads sessions by
number, puts them out of order. A reset between a cut and its append takes the cut and
leaves the batch. A restart, or an append that fails, between the two leaves a boundary
without a gap.

`HistoryInv` adds to `Inductive`: without prunes the table has the list's sessions
under their positions (`TableAgrees`), so that a new number is free; from the choice
of an anchor to the cut no row is stored (`AnchorIsNext`), and from the last look at the
list no session is begun (`CutIsDue`), so that a cut goes to the end of the list;
what a prune is about to re-anchor to is no later than any row (`PruneBelow`). The same
parts say why a step maps to a step or a stutter of `SessionPartition`. `TableInv`
is enough for the cuts of any number of clients. `GapInv` adds that a task about to
append has cut where a cut was due (`GapReady`); `LiveInv` that every boundary has a
break before it, but for the one a task is about to fill (`CutAhead`).

`OrderLemmas` holds what these proofs and others need of finite sets of numbers: a
least and a greatest element, the rank of an element and that ranks enumerate the
set (which is what the lists sorted by id and the position of a row come to), and
`InductionUpTo`, induction up to a bound over a set of numbers. The provers cannot
instantiate the library's induction theorems, which take a predicate; an
induction here is over the set of those numbers for which the claim holds. It also
holds what is needed of sequences: what appending, concatenating and taking a part of
one by positions yield.

`ServerProofs` proves, for any number of streams, players, households, handlers,
clients, requests in a window and pages, whichever file call fails and whenever the
server restarts:

| Theorem | Statement |
|---|---|
| `PurgesAreFinal` | `RegSpec => []PurgeIsFinal` |
| `DiskHoldsMemory` | `OnePatch` implies `RegSpec => []DiskIsMemory` |
| `PublicNamesHold` | `RegSpec => NamesHold` |
| `LimitCannotBeStretched` | `LimSpec => LimitHolds` |
| `OldListsAreSafe` | `CurSpec => StaleDeleteIsHarmless` |

A purge is final because nobody can still write the stream's file: a handler about to
create a stream is alone with it (`CreatedAlone`) and one about to remove a directory
comes after the stream has left the registry (`DeletedLast`), while a PATCH under way
fails as the directory is gone. For the second theorem a file exists only in a
directory (`MetaInDirs`), a creation registers what it has written (`WrittenFirst`), a
served stream is on disk as served unless a PATCH is at it (`ServedIsKept`), and what is
on disk and not served belongs to a handler under way (`UnservedIsPassing`).
Names are rebuilt on a restart from the files in the order of their times, which
differ (`Stamped`), so the last public one of an identity is one. The limiter's
invariant relates the entry to the ages of a client's last passes, newest first
(`Fits`): those counted are of the entry's window, one more may have been let through
at its start, a window's worth before those are the last that can be recent; and
no client knows of a ban its entry does not hold (`BanKept`). Every marker ever on a
page is one of those given so far (`CurInv`), and of those two with one id are one.
Assumptions: `None` is neither an entry, a file nor a stream, `MaxStamp` is a number; a
ban is at least a window long (by default 300 s and 10 s), for the cleanup evicts an
entry by the age of its window.

`ClientProofs` proves, for any number of engines, logs, lines and resets, and whatever
user, game and network do:

| Theorem | Statement |
|---|---|
| `EnginesNeverOverlap` | `EngSpec => []OneTailer` |
| `ChangesAreHeard` | `EngSpec => []Heard` |
| `DeliveryKeepsOrder` | `DelSpec => []OnceInOrder` |
| `ImportsAreComplete` | `DelSpec => []CloseProvesDelivery` |

But for the tailers that were blocked when a sleep ran out, only the last engine's
may be alive, and none once the monitor has slept (`OldTailersGone`). No action's
guard says so: a tick of the sleep waits for a tailer only as long as its poll takes, and
the sleep is longer (`ElapseKeeps`). `Heard` is the safety half of
`RunningEngineFollows`: an engine that runs reads the active log, or its restart is asked
for, or the watcher is in Auto mode and has yet to look, unless the change was overlooked; and
it pushes to the configured stream. Its invariant adds that between its two reads the
monitor's clone is the configuration, unless the change was overlooked (`CloneIsFresh`).

The pipe holds the lines in order from end to end: stored before in
flight, before the batch of the tick, before the channel (`Queue`). The tailer's handle,
its position and the half line it has read fit the file under the path or the one it
was (`FileInv`), so that it emits a line only after all of it was read (`LinesRead`),
which is why a new line is later than all before. Without a failure nothing is lost on
the way, and an import's lines are emitted as far as it has read (`Arrives`); what the
pusher closes is empty (`Closing`). Assumptions: the bounds are numbers, and
`TimingAssumption`.

`SettingsProofs` proves, for any number of triggers, panels, groups, variables,
packages, labels, mobs, hits and rows:

| Theorem | Statement |
|---|---|
| `DragsFollow` | `DragSpec => []FollowsPointer` |
| `LastWordsWin` | `DeskSpec => []LastWordWins` |
| `EditorShowsWhatRuns` | `EdSpec => []ShownIsLive` |
| `PanelsAimTrue` | `EdSpec => []PanelsStayAimed` |
| `TriggersReadWhatIsSet` | `GrpSpec => []ValuesAreLive` |
| `LabelsKeepTheirSounds` | `SndSpec => []LabelsPlayTheirs` |
| `MeterShowsOneFight` | `MetSpec => []MeterTellsOneFight` |

Neither a drag's speed nor what is done beside an open Settings window is limited. A
drag: the way of following is the one this server needs, unless the pointer went too far
while that was being told, and the reading a probe was made at is its length (`ModeFits`).
The desk: a box that nobody typed in shows the setting, unless it was set beside Settings
(`BoxesAreFresh`), and the file lags only in a width being dragged (`FileIsCurrent`).
The editor: what is open is what the file holds, and each panel of the stack aims at
an item of the panel below (`Stack`). Groups: the group that is read exists
(`Readable`), and file, engine and tab agree on the groups. Sounds: in every package,
and in an export, each label has a file of its own name that holds what was meant
(`Sound`); the numbers the tab lists are the manifest's in order, which is where
the lemmas on ranks come in. The meter: what the window was last drawn with is one
fight also while it is hidden (`MetInv`), because the mob chosen is one whose amounts
exist (`ViewIsListed`) and a snapshot ranks and adds up whichever names it has
(`SnapshotTells`). The totals are folds over two names at most: that a fold of two is
their sum, in either order, is `SumOfTwo`. Assumptions: group names come in an order, labels
have one; the bound on mobs is a number, and a meter has at least one row
(`overlay_dps.rs:517`).

`LogProofs` proves, for any zones, instances and walks; for any triggers, lines, delays,
windows and settings; and for any group of players, pulls, blows and deaths:

| Theorem | Statement |
|---|---|
| `ArrivalsAreMarked` | `MarksSpec => MarksAreArrivals` |
| `AlertsAreNeverLost` | `AlertsSpec => []EveryAlertOnce` |
| `OrderIsKept` | `AlertsSpec => OrderKept` |
| `AimIsKept` | `EncSpec => []AimHolds` |

While the player's own new instance is unseen its number waits and no zone counts as the
current one (`NewIsPending`); a tiered instance entered last is the current zone
unless a newer one was made (`InsideIsCurrent`). Of the alerts fired, each is in one of
eight places and in no other (`Once`), and in a place no number comes twice and none
is newer than the last fired (`AlertsInv`); an action moves a set of numbers from one
place to another. Order follows from the same invariant and from lemmas on the part of
a sequence that is neither urgent nor ambient: what a window takes from a queue, what
it drains into the history and what it shows keep it. Mobs are told apart by the number
they were pulled with (`MobsAreTold`), and what is in flight
points at its mob for as long as the mob is there (`Aimed` in `EncInv`).

`CombatProofs` proves, for any lines of combat, waits between them, names and speeds of
reading:

| Theorem | Statement |
|---|---|
| `SpeedDoesNotMatter` | `CombatSpec => []ReplaysAlike` |
| `TotalsAgree` | `CombatSpec => []LedgersAgree` |
| `DebugToolAgrees` | `TraceSpec => []TraceAgrees` |
| `EncountersAreWhole` | `CombatSpec => WholeEncounters` |

Two parsers that read the same lines at different speeds stay `Alike`: equal in all but
the wall clocks, their own and those of their sightings. That is inductive because
neither the parser nor a sighting of a mob is ever without a log time, so the wall
clock, which `update_mob_list` falls back to, decides nothing; one lemma per kind of
step, and `HandleAlike` for any line. For the totals a line starts `Silent`, nothing
booked or told, and ends `Booked`: the keys the totals grew by are those of the events
told, number 0 apart (`HandleBooks`); most kinds of steps are `Mute`. Tables that agree
and grow alike agree (`GrownAgree`). The run's bound on lines plays no part in either.

The debug tool is `InStep` with the parser between lines: the same players and casters,
the same candidates and mobs among single words, and the same printed totals but for what
`mended` names healed. That is not inductive alone, for the two clean up at different
lines: the parser after mezzes and wakings too, the tool only after a fight. But whatever
was attacked was sorted into mobs and players by the line that attacked it, and that
stays so (`Settled`), so cleaning up once more changes nothing (`NamedFits`). One lemma
per kind of line follows, `HandleFits` for any. That no pet is known but warders is read
backwards: no line takes a pet away (`HandleKeepsPets`), so it was so before the line as
well.

For whole encounters, between lines every sighting has a number of its own below the next
one and was seen no later than now (`Listed`), and the list is `Followed` by the trail: a
name is slain there when the parser has it among the dead, and the sighting of its last
line is in the list, any other of the same name out of sight for at least 15 s by then
and not mezzed. Without the last part a line might resume an older sighting of the name,
as `update_mob_list` takes the first that fits. A line is `Shaped`: it gives no sighting
and only takes players off the list, or gives one, that of a mob of the name or a new
one, amid steps that leave the list alone. Only the list and the number of the sighting
enter into it, so blows, crowd control and the rest share one argument (`LineFollowed`).

Assumptions: `ScriptAssumption`, a line has a kind the parser knows, who, whom and with
what, and none is older than the one before, as the game writes them; `NamesAssumption`
(section 7); a line without a time stamp is not in `Combat`, so neither the runs nor the
theorems say anything of it; zones have a tier in their entry line or not, and `None` is
no zone; a trigger file is a list of triggers with lists of actions, and `Nothing` is no
alert; the amounts and times of an encounter are positive.

Sequences are where the provers need help. `SelectSeq` and the folds take an operator,
which they cannot instantiate, so `Alerts`, `Encounter` and `Combat` take members out by position
with `Part` (`SequenceParts`). What it returns (the members at those positions, each
once, in their order) follows from the lemmas on ranks, and that the part of a
concatenation is the concatenation of the parts from those on both.

Only model-checked:

- All liveness (`AcceptedIsStored`, `AlertsSettle`, `EveryLineArrives`,
  `RunningEngineFollows` and that of the viewer and its page): the provers have no
  rule for fairness.
- The properties above for more clients, operations or faults than the theorems allow,
  where the runs allow them: `prune` and `faults`.

## 11. Not modelled

- Text: regexes and formats (a line is what it matches), HTML, routing, JSON,
  compression, logging, labels and display times.
- I/O without state of its own: speech, icons, fonts, drawing and layout, the token
  file, the clock's skew estimate, file pickers.
- Chance: the chat generator (`chat/`) and the names, prices and chat of
  `froklog-loggen`, which draw text and keep nothing others depend on.
- `froklog-replay` and `froklog-migrate`: sequential, run once by hand.
- Authentication: an action starts after it succeeded.
- Of the viewer: private viewers, who differ in that nothing revokes them; playback
  speeds, acknowledgements and heartbeats; of the page, sessions that have ended,
  pulls and rewinding.
- Of the parser: modifiers and the breakdowns by spell, type and avoidance; of the
  meter, two of its four tabs; of Settings, presets and the import of foreign trigger
  files.
- Of the server: read-only endpoints and listings.
