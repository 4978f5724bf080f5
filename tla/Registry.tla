------------------------------ MODULE Registry ------------------------------
(***************************************************************************)
(* The streams froklog-server hosts: the registry in memory (streams.rs),  *)
(* the meta.json and database directory of each stream on disk, and the    *)
(* handlers that create, patch and purge streams (main.rs).  A handler     *)
(* takes the registry lock for one step at a time and writes files between *)
(* such steps, so handlers interleave, and the server may stop between any *)
(* two steps; a restart reads the disk back.                               *)
(*                                                                         *)
(* Simplifications:                                                        *)
(* - A stream's tokens are its own: naming the stream stands for holding   *)
(*   its token.  Tokens are checked in the step that looks the stream up.  *)
(* - Game, server and player name form one identity, compared in lower     *)
(*   case; NoName is an empty server, which gives no public page.          *)
(* - owner_key and home_token are one household value, NoHome when empty.  *)
(* - The journal and the sessions of a stream are in module StreamStore.   *)
(***************************************************************************)
EXTENDS Naturals, FiniteSets

CONSTANTS
  Streams,      \* stream ids ever drawn; generate_token never repeats one
  Players,      \* public identities
  Households,   \* owner keys and home tokens
  Tasks,        \* handlers that may run at once
  MaxStamp,     \* bound on meta.json writes
  OnePatch,     \* TRUE: a client waits for its PATCH before sending another
  NoName, NoHome, None

VARIABLES
  mem,          \* by_id: stream -> entry, None when not registered
  tokens,       \* token_to_id: streams whose token resolves
  names,        \* name_to_id: identity -> stream, None when absent
  dirs,         \* streams that have a directory
  meta,         \* meta.json: stream -> entry and mtime, None when absent
  stamp,        \* mtime of the latest meta.json write
  task,         \* what each handler is doing
  purged,       \* ghost: streams whose purge was answered with success
  lost          \* ghost: streams whose meta.json or directory call failed

regVars == <<mem, tokens, names, dirs, meta, stamp, task, purged, lost>>

Entry == [who : Players \cup {NoName}, public : BOOLEAN,
          home : Households \cup {NoHome}]
Kept == [entry : Entry, mtime : Nat]   \* what a meta.json holds
Idle == [pc |-> "idle"]

ASSUME RegAssumption ==
  /\ None \notin Entry \cup Kept \cup Streams
  /\ MaxStamp \in Nat

Registered == {s \in Streams : mem[s] # None}

RegInit ==
  /\ mem = [s \in Streams |-> None]
  /\ tokens = {}
  /\ names = [p \in Players |-> None]
  /\ dirs = {}
  /\ meta = [s \in Streams |-> None]
  /\ stamp = 0
  /\ task = [t \in Tasks |-> Idle]
  /\ purged = {}
  /\ lost = {}

Busy(s) == \E t \in Tasks : task[t] # Idle /\ task[t].stream = s
Patching(s) == \E t \in Tasks : task[t].pc = "patchMeta" /\ task[t].stream = s
-----------------------------------------------------------------------------
(* StreamRegistry. *)

(* find_id_by_player, then the public check every public route makes. *)
PublicStream(p) ==
  IF names[p] # None /\ mem[names[p]].public THEN names[p] ELSE None

(* insert *)
Insert(s, e) ==
  /\ mem' = [mem EXCEPT ![s] = e]
  /\ tokens' = tokens \cup {s}
  /\ names' = IF e.who = NoName THEN names ELSE [names EXCEPT ![e.who] = s]

(* remove: the public name goes only when it still leads to this stream. *)
Remove(s) ==
  /\ mem' = [mem EXCEPT ![s] = None]
  /\ tokens' = tokens \ {s}
  /\ names' = [p \in Players |->
                 IF p = mem[s].who /\ names[p] = s THEN None ELSE names[p]]
-----------------------------------------------------------------------------
(* create_stream_handler: open the databases, write meta.json, register. *)

CreateOpen(t, s, e) ==
  /\ task[t] = Idle
  /\ s \notin dirs /\ mem[s] = None /\ s \notin purged \cup lost /\ ~Busy(s)
  /\ dirs' = dirs \cup {s}
  /\ \/ /\ task' = [task EXCEPT ![t] =
                      [pc |-> "createMeta", stream |-> s, entry |-> e]]
        /\ UNCHANGED lost
     \/ \* StreamEntry::new fails: answered 500, the directory stays
        /\ lost' = lost \cup {s}
        /\ UNCHANGED task
  /\ UNCHANGED <<mem, tokens, names, meta, stamp, purged>>

(* Faulty variant: the directory is made again when it is missing. *)
WriteMetaCreating(s, e) ==
  /\ stamp < MaxStamp
  /\ dirs' = dirs \cup {s}
  /\ meta' = [meta EXCEPT ![s] = [entry |-> e, mtime |-> stamp + 1]]
  /\ stamp' = stamp + 1
  /\ UNCHANGED lost

(* std::fs::write of meta.json: fails without the directory, and may fail
   with it.  A failure is only logged. *)
WriteMeta(s, e) ==
  \/ /\ s \in dirs
     /\ stamp < MaxStamp
     /\ meta' = [meta EXCEPT ![s] = [entry |-> e, mtime |-> stamp + 1]]
     /\ stamp' = stamp + 1
     /\ UNCHANGED <<lost, dirs>>
  \/ /\ lost' = lost \cup {s}
     /\ UNCHANGED <<meta, stamp, dirs>>

CreateMeta(t) ==
  /\ task[t].pc = "createMeta"
  /\ WriteMeta(task[t].stream, task[t].entry)
  /\ task' = [task EXCEPT ![t].pc = "createInsert"]
  /\ UNCHANGED <<mem, tokens, names, purged>>

CreateInsert(t) ==
  /\ task[t].pc = "createInsert"
  /\ Insert(task[t].stream, task[t].entry)
  /\ task' = [task EXCEPT ![t] = Idle]
  /\ UNCHANGED <<dirs, meta, stamp, purged, lost>>

(* Faulty variant: the snapshot is taken before the entry is changed. *)
PatchUpdateStale(t, s, public, home) ==
  LET e == [mem[s] EXCEPT !.public = public, !.home = home]
  IN /\ task[t] = Idle /\ mem[s] # None
     /\ (OnePatch => ~Patching(s))
     /\ e # mem[s]
     /\ mem' = [mem EXCEPT ![s] = e]
     /\ task' = [task EXCEPT ![t] =
                   [pc |-> "patchMeta", stream |-> s, entry |-> mem[s]]]
     /\ UNCHANGED <<tokens, names, dirs, meta, stamp, purged, lost>>

(* patch_stream_handler: under the write lock the entry is changed and a
   snapshot taken; viewers of a stream that goes private are told to stop
   (module Viewer).  meta.json is written after the lock is released. *)
PatchUpdate(t, s, public, home) ==
  LET e == [mem[s] EXCEPT !.public = public, !.home = home]
  IN /\ task[t] = Idle /\ mem[s] # None
     /\ (OnePatch => ~Patching(s))
     /\ e # mem[s]
     /\ mem' = [mem EXCEPT ![s] = e]
     /\ task' = [task EXCEPT ![t] =
                   [pc |-> "patchMeta", stream |-> s, entry |-> e]]
     /\ UNCHANGED <<tokens, names, dirs, meta, stamp, purged, lost>>

PatchMeta(t) ==
  /\ task[t].pc = "patchMeta"
  /\ WriteMeta(task[t].stream, task[t].entry)
  /\ task' = [task EXCEPT ![t] = Idle]
  /\ UNCHANGED <<mem, tokens, names, purged>>

(* delete_stream_handler: authorised under the read lock, removed under the
   write lock (404 when another purge was first), then the directory. *)
DeleteCheck(t, s) ==
  /\ task[t] = Idle /\ mem[s] # None
  /\ task' = [task EXCEPT ![t] =
                [pc |-> "deleteRemove", stream |-> s, entry |-> mem[s]]]
  /\ UNCHANGED <<mem, tokens, names, dirs, meta, stamp, purged, lost>>

DeleteRemove(t) ==
  LET s == task[t].stream
  IN /\ task[t].pc = "deleteRemove"
     /\ IF mem[s] # None
        THEN Remove(s) /\ task' = [task EXCEPT ![t].pc = "deleteDir"]
        ELSE /\ task' = [task EXCEPT ![t] = Idle]
             /\ UNCHANGED <<mem, tokens, names>>
     /\ UNCHANGED <<dirs, meta, stamp, purged, lost>>

(* remove_dir_all: all of it, or it fails (500) with meta.json gone or not. *)
DeleteDir(t) ==
  LET s == task[t].stream
  IN /\ task[t].pc = "deleteDir"
     /\ task' = [task EXCEPT ![t] = Idle]
     /\ \/ /\ dirs' = dirs \ {s}
           /\ meta' = [meta EXCEPT ![s] = None]
           /\ purged' = purged \cup {s}
           /\ UNCHANGED lost
        \/ /\ s \in dirs
           /\ meta' \in {meta, [meta EXCEPT ![s] = None]}
           /\ lost' = lost \cup {s}
           /\ UNCHANGED <<dirs, purged>>
     /\ UNCHANGED <<mem, tokens, names, stamp>>
-----------------------------------------------------------------------------
(* load_persisted_streams: private before public, older before newer, so the
   public stream written last takes the public name.  Streams whose database
   does not open are left out. *)

(* Faulty variant: by time only. *)
LoadsBeforeByTime(a, b) == meta[a].mtime < meta[b].mtime

LoadsBefore(a, b) ==
  IF meta[a].entry.public # meta[b].entry.public
  THEN meta[b].entry.public
  ELSE meta[a].mtime < meta[b].mtime

LastLoaded(p, loaded) ==
  LET mine == {s \in loaded : meta[s].entry.who = p}
  IN IF mine = {} THEN None
     ELSE CHOOSE s \in mine : \A o \in mine \ {s} : LoadsBefore(o, s)

Restart ==
  \E unreadable \in SUBSET {s \in Streams : meta[s] # None} :
    LET loaded == {s \in Streams : meta[s] # None} \ unreadable
    IN /\ mem' = [s \in Streams |-> IF s \in loaded THEN meta[s].entry ELSE None]
       /\ tokens' = loaded
       /\ names' = [p \in Players |-> LastLoaded(p, loaded)]
       /\ task' = [t \in Tasks |-> Idle]
       \* a handler cut short was never answered
       /\ lost' = lost \cup unreadable \cup
                    {task[t].stream : t \in {u \in Tasks : task[u] # Idle}}
       /\ UNCHANGED <<dirs, meta, stamp, purged>>

RegNext ==
  \/ \E t \in Tasks :
       \/ \E s \in Streams, e \in Entry : CreateOpen(t, s, e)
       \/ CreateMeta(t) \/ CreateInsert(t)
       \/ \E s \in Streams, public \in BOOLEAN, home \in Households \cup {NoHome} :
            PatchUpdate(t, s, public, home)
       \/ PatchMeta(t)
       \/ \E s \in Streams : DeleteCheck(t, s)
       \/ DeleteRemove(t) \/ DeleteDir(t)
  \/ Restart

RegSpec == RegInit /\ [][RegNext]_regVars
-----------------------------------------------------------------------------
(* A stream whose purge succeeded leaves nothing on disk and stays gone,
   through every restart and whatever handlers were under way. *)
PurgeIsFinal ==
  \A s \in purged : mem[s] = None /\ s \notin dirs /\ meta[s] = None

(* What is on disk is what is served, so a restart changes neither what
   exists, who may see it, nor whose page it is on; except where a file call
   failed or a handler is still writing. *)
DiskIsMemory ==
  \A s \in Streams \ lost : ~Busy(s) =>
    IF mem[s] = None THEN meta[s] = None
    ELSE meta[s] # None /\ meta[s].entry = mem[s]

(* A public stream is found by its name after every restart: no private
   stream of the same identity stands in front of it.  Until then a name is
   lost only with the stream it leads to, whichever others are purged. *)
PublicIsFound ==
  \A s \in Registered : mem[s].public /\ mem[s].who # NoName =>
    PublicStream(mem[s].who) # None

NamesHold ==
  [][IF Restart THEN PublicIsFound'
     ELSE \A p \in Players :
            names[p] # None /\ mem'[names[p]] # None => names'[p] # None]_regVars
=============================================================================
