---------------------------- MODULE ServerProofs ----------------------------
(***************************************************************************)
(* Proofs about the server around its streams, for every set of streams,   *)
(* identities, clients, handlers and pages: a purge is final, the disk     *)
(* holds what is served (Registry), headers and bans do not stretch the    *)
(* request limit (RateLimiter), and a marker id never comes to mean        *)
(* another marker (Curation).                                              *)
(***************************************************************************)
EXTENDS Registry, RateLimiter, Curation, OrderLemmas

Work == [pc : {"createMeta", "createInsert", "patchMeta", "deleteRemove", "deleteDir"},
         stream : Streams, entry : Entry]

RegTypeOK ==
  /\ mem \in [Streams -> Entry \cup {None}]
  /\ dirs \subseteq Streams
  /\ meta \in [Streams -> Kept \cup {None}]
  /\ stamp \in Nat
  /\ task \in [Tasks -> Work \cup {Idle}]
  /\ purged \subseteq Streams

At(t, s, pcs) == task[t].pc \in pcs /\ task[t].stream = s

(* A stream being created is nobody else's business, and neither registered
   nor purged before. *)
CreatedAlone ==
  \A t \in Tasks, s \in Streams : At(t, s, {"createMeta", "createInsert"}) =>
    /\ mem[s] = None /\ s \notin purged
    /\ \A u \in Tasks \ {t} : task[u] = Idle \/ task[u].stream # s

(* A directory is deleted after its stream was unregistered. *)
DeletedLast ==
  \A t \in Tasks, s \in Streams : At(t, s, {"deleteDir"}) => mem[s] = None

MetaInDirs == \A s \in Streams : meta[s] # None => s \in dirs

(* What a handler is about to register it has written. *)
WrittenFirst ==
  \A t \in Tasks, s \in Streams \ lost : At(t, s, {"createInsert"}) =>
    meta[s] # None /\ meta[s].entry = task[t].entry

(* A served stream is on disk as it is served, or a handler is about to
   write it so. *)
ServedIsKept ==
  \A s \in Streams \ lost : mem[s] # None =>
    IF \E t \in Tasks : At(t, s, {"patchMeta"})
    THEN \A t \in Tasks : At(t, s, {"patchMeta"}) => task[t].entry = mem[s]
    ELSE meta[s] # None /\ meta[s].entry = mem[s]

(* A directory whose stream is not served is coming or going. *)
UnservedIsPassing ==
  \A s \in Streams \ lost : mem[s] = None /\ s \in dirs =>
    \E t \in Tasks : At(t, s, {"createMeta", "createInsert", "deleteDir"})

PurgeInv == RegTypeOK /\ PurgeIsFinal /\ CreatedAlone /\ DeletedLast
DiskInv == MetaInDirs /\ WrittenFirst /\ ServedIsKept /\ UnservedIsPassing

-----------------------------------------------------------------------------
LEMMA WorkFacts ==
  ASSUME RegTypeOK, NEW t \in Tasks, task[t].pc # "idle"
  PROVE  /\ task[t] \in Work /\ task[t].stream \in Streams
         /\ task[t].entry \in Entry /\ task[t] # Idle
  BY DEF RegTypeOK, Work, Idle

LEMMA IdleFacts ==
  ASSUME NEW t \in Tasks, task[t] = Idle, NEW s, NEW pcs, "idle" \notin pcs
  PROVE  ~At(t, s, pcs)
  BY DEF At, Idle

(* The initial state. *)
LEMMA InitPurge == RegInit => PurgeInv
  BY RegAssumption DEF RegInit, PurgeInv, RegTypeOK, PurgeIsFinal, CreatedAlone,
     DeletedLast, At, Idle

LEMMA InitDisk == RegInit => DiskInv
  BY DEF RegInit, DiskInv, MetaInDirs, WrittenFirst, ServedIsKept, UnservedIsPassing, At, Idle

-----------------------------------------------------------------------------
(* Purges: one lemma per action *)

LEMMA PurgeCreateOpen ==
  ASSUME PurgeInv, NEW t \in Tasks, NEW s \in Streams, NEW e \in Entry, CreateOpen(t, s, e)
  PROVE  PurgeInv'
  <1>1. RegTypeOK'
    BY DEF PurgeInv, RegTypeOK, CreateOpen, Work
  <1>2. PurgeIsFinal'
    BY DEF PurgeInv, PurgeIsFinal, CreateOpen
  <1>3. CreatedAlone'
    BY DEF PurgeInv, RegTypeOK, CreatedAlone, CreateOpen, At, Busy, Idle, Work
  <1>4. DeletedLast'
    BY DEF PurgeInv, RegTypeOK, DeletedLast, CreateOpen, At, Work
  <1> QED BY <1>1, <1>2, <1>3, <1>4 DEF PurgeInv

(* What a write of meta.json does to the files. *)
LEMMA WriteMetaKeeps ==
  ASSUME RegTypeOK, NEW s \in Streams, NEW e \in Entry, WriteMeta(s, e)
  PROVE  /\ meta' \in [Streams -> Kept \cup {None}] /\ stamp' \in Nat /\ dirs' = dirs
         /\ \A r \in Streams : meta'[r] # meta[r] => r = s /\ s \in dirs /\ lost' = lost
         /\ s \notin lost' => meta'[s] # None /\ meta'[s].entry = e /\ s \in dirs
         /\ lost \subseteq lost' /\ lost' \subseteq lost \cup {s}
  BY RegAssumption DEF RegTypeOK, WriteMeta, Kept

LEMMA PurgeCreateMeta ==
  ASSUME PurgeInv, NEW t \in Tasks, CreateMeta(t)
  PROVE  PurgeInv'
  <1> DEFINE s == task[t].stream
  <1>1. s \in Streams /\ task[t].entry \in Entry /\ task[t] \in Work
    BY WorkFacts DEF CreateMeta, PurgeInv
  <1>2. WriteMeta(s, task[t].entry)
    BY DEF CreateMeta
  <1> HIDE DEF s
  <1>3. /\ meta' \in [Streams -> Kept \cup {None}] /\ stamp' \in Nat /\ dirs' = dirs
        /\ \A r \in Streams : meta'[r] # meta[r] => r = s /\ s \in dirs
    BY <1>1, <1>2, WriteMetaKeeps DEF PurgeInv
  <1>4. RegTypeOK'
    BY <1>1, <1>3 DEF PurgeInv, RegTypeOK, CreateMeta, Work
  <1>5. PurgeIsFinal'
    BY <1>3 DEF PurgeInv, PurgeIsFinal, CreateMeta, RegTypeOK
  <1>6. CreatedAlone'
    BY <1>1 DEF PurgeInv, RegTypeOK, CreatedAlone, CreateMeta, At, Idle, Work
  <1>7. DeletedLast'
    BY <1>1 DEF PurgeInv, RegTypeOK, DeletedLast, CreateMeta, At, Work
  <1> QED BY <1>4, <1>5, <1>6, <1>7 DEF PurgeInv

LEMMA PurgeCreateInsert ==
  ASSUME PurgeInv, NEW t \in Tasks, CreateInsert(t)
  PROVE  PurgeInv'
  <1>1. task[t].stream \in Streams /\ task[t].entry \in Entry /\ task[t] \in Work
    BY WorkFacts DEF CreateInsert, PurgeInv
  <1>2. task[t].stream \notin purged
    BY <1>1 DEF CreateInsert, PurgeInv, CreatedAlone, At
  <1>3. RegTypeOK'
    BY <1>1 DEF PurgeInv, RegTypeOK, CreateInsert, Insert
  <1>4. PurgeIsFinal'
    BY <1>1, <1>2 DEF PurgeInv, PurgeIsFinal, CreateInsert, Insert, RegTypeOK
  <1>5. \A u \in Tasks : u # t => task[u] = Idle \/ task[u].stream # task[t].stream
    BY <1>1 DEF CreateInsert, PurgeInv, CreatedAlone, At
  <1>6. CreatedAlone'
    BY <1>1, <1>5 DEF PurgeInv, RegTypeOK, CreatedAlone, CreateInsert, Insert, At, Idle, Work
  <1>7. DeletedLast'
    BY <1>1, <1>5 DEF PurgeInv, RegTypeOK, DeletedLast, CreateInsert, Insert, At, Idle, Work
  <1> QED BY <1>3, <1>4, <1>6, <1>7 DEF PurgeInv

LEMMA PurgePatchUpdate ==
  ASSUME PurgeInv, NEW t \in Tasks, NEW s \in Streams, NEW pub \in BOOLEAN,
         NEW home \in Households \cup {NoHome}, PatchUpdate(t, s, pub, home)
  PROVE  PurgeInv'
  <1>1. [mem[s] EXCEPT !.public = pub, !.home = home] \in Entry
    BY DEF PurgeInv, RegTypeOK, PatchUpdate, Entry
  <1>2. RegTypeOK'
    BY <1>1 DEF PurgeInv, RegTypeOK, PatchUpdate, Work
  <1>3. PurgeIsFinal'
    BY DEF PurgeInv, PurgeIsFinal, PatchUpdate, RegTypeOK
  <1>4. CreatedAlone'
    BY DEF PurgeInv, RegTypeOK, CreatedAlone, PatchUpdate, At, Idle, Work
  <1>5. DeletedLast'
    BY DEF PurgeInv, RegTypeOK, DeletedLast, PatchUpdate, At, Idle, Work
  <1> QED BY <1>2, <1>3, <1>4, <1>5 DEF PurgeInv

LEMMA PurgePatchMeta ==
  ASSUME PurgeInv, NEW t \in Tasks, PatchMeta(t)
  PROVE  PurgeInv'
  <1> DEFINE s == task[t].stream
  <1>1. s \in Streams /\ task[t].entry \in Entry /\ task[t] \in Work
    BY WorkFacts DEF PatchMeta, PurgeInv
  <1>2. WriteMeta(s, task[t].entry)
    BY DEF PatchMeta
  <1> HIDE DEF s
  <1>3. /\ meta' \in [Streams -> Kept \cup {None}] /\ stamp' \in Nat /\ dirs' = dirs
        /\ \A r \in Streams : meta'[r] # meta[r] => r = s /\ s \in dirs
    BY <1>1, <1>2, WriteMetaKeeps DEF PurgeInv
  <1>4. RegTypeOK'
    BY <1>1, <1>3 DEF PurgeInv, RegTypeOK, PatchMeta, Work
  <1>5. PurgeIsFinal'
    BY <1>3 DEF PurgeInv, PurgeIsFinal, PatchMeta, RegTypeOK
  <1>6. CreatedAlone'
    BY <1>1 DEF PurgeInv, RegTypeOK, CreatedAlone, PatchMeta, At, Idle, Work
  <1>7. DeletedLast'
    BY <1>1 DEF PurgeInv, RegTypeOK, DeletedLast, PatchMeta, At, Idle, Work
  <1> QED BY <1>4, <1>5, <1>6, <1>7 DEF PurgeInv

LEMMA PurgeDeleteCheck ==
  ASSUME PurgeInv, NEW t \in Tasks, NEW s \in Streams, DeleteCheck(t, s)
  PROVE  PurgeInv'
  <1>1. RegTypeOK'
    BY DEF PurgeInv, RegTypeOK, DeleteCheck, Work
  <1>2. PurgeIsFinal'
    BY DEF PurgeInv, PurgeIsFinal, DeleteCheck
  <1>3. CreatedAlone'
    BY DEF PurgeInv, RegTypeOK, CreatedAlone, DeleteCheck, At, Idle, Work
  <1>4. DeletedLast'
    BY DEF PurgeInv, RegTypeOK, DeletedLast, DeleteCheck, At, Idle, Work
  <1> QED BY <1>1, <1>2, <1>3, <1>4 DEF PurgeInv

LEMMA PurgeDeleteRemove ==
  ASSUME PurgeInv, NEW t \in Tasks, DeleteRemove(t)
  PROVE  PurgeInv'
  <1>1. task[t].stream \in Streams /\ task[t] \in Work
    BY WorkFacts DEF DeleteRemove, PurgeInv
  <1>2. mem' \in [Streams -> Entry \cup {None}]
        /\ \A r \in Streams : mem'[r] = mem[r] \/ mem'[r] = None
    BY <1>1 DEF PurgeInv, RegTypeOK, DeleteRemove, Remove
  <1>3. RegTypeOK'
    BY <1>1, <1>2 DEF PurgeInv, RegTypeOK, DeleteRemove, Work, Idle
  <1>4. PurgeIsFinal'
    BY <1>2 DEF PurgeInv, PurgeIsFinal, DeleteRemove, RegTypeOK
  <1>5. CreatedAlone'
    BY <1>1, <1>2 DEF PurgeInv, RegTypeOK, CreatedAlone, DeleteRemove, At, Idle, Work
  <1>6. DeletedLast'
    BY <1>1, <1>2 DEF PurgeInv, RegTypeOK, DeletedLast, DeleteRemove, Remove, At, Idle, Work
  <1> QED BY <1>3, <1>4, <1>5, <1>6 DEF PurgeInv

LEMMA PurgeDeleteDir ==
  ASSUME PurgeInv, NEW t \in Tasks, DeleteDir(t)
  PROVE  PurgeInv'
  <1>1. task[t].stream \in Streams /\ task[t] \in Work
    BY WorkFacts DEF DeleteDir, PurgeInv
  <1>2. mem[task[t].stream] = None
    BY <1>1 DEF DeleteDir, PurgeInv, DeletedLast, At
  <1>3. RegTypeOK'
    BY <1>1 DEF PurgeInv, RegTypeOK, DeleteDir
  <1>4. PurgeIsFinal'
    BY <1>1, <1>2 DEF PurgeInv, PurgeIsFinal, DeleteDir, RegTypeOK
  <1>5. \A u \in Tasks : task[u] # Idle /\ task[u].stream = task[t].stream =>
          ~(task[u].pc \in {"createMeta", "createInsert"})
    BY <1>1 DEF DeleteDir, PurgeInv, CreatedAlone, At, Idle, Work
  <1>6. CreatedAlone'
    BY <1>1, <1>5 DEF PurgeInv, RegTypeOK, CreatedAlone, DeleteDir, At, Idle, Work
  <1>7. DeletedLast'
    BY <1>1 DEF PurgeInv, RegTypeOK, DeletedLast, DeleteDir, At, Idle, Work
  <1> QED BY <1>3, <1>4, <1>6, <1>7 DEF PurgeInv

LEMMA PurgeRestart ==
  ASSUME PurgeInv, Restart
  PROVE  PurgeInv'
  <1>1. \A s \in Streams : mem'[s] = None \/ (meta[s] # None /\ mem'[s] = meta[s].entry)
    BY DEF Restart
  <1>2. mem' \in [Streams -> Entry \cup {None}]
    BY DEF Restart, PurgeInv, RegTypeOK, Kept
  <1>3. RegTypeOK'
    BY <1>2 DEF PurgeInv, RegTypeOK, Restart
  <1>4. PurgeIsFinal'
    BY <1>1 DEF PurgeInv, PurgeIsFinal, Restart, RegTypeOK
  <1>5. CreatedAlone' /\ DeletedLast'
    BY DEF CreatedAlone, DeletedLast, Restart, At, Idle
  <1> QED BY <1>3, <1>4, <1>5 DEF PurgeInv

LEMMA PurgeStep == PurgeInv /\ [RegNext]_regVars => PurgeInv'
  <1> SUFFICES ASSUME PurgeInv, [RegNext]_regVars PROVE PurgeInv'
    OBVIOUS
  <1>1. CASE UNCHANGED regVars
    BY <1>1 DEF regVars, PurgeInv, RegTypeOK, PurgeIsFinal, CreatedAlone, DeletedLast, At
  <1>2. CASE RegNext
    BY <1>2, PurgeCreateOpen, PurgeCreateMeta, PurgeCreateInsert, PurgePatchUpdate,
       PurgePatchMeta, PurgeDeleteCheck, PurgeDeleteRemove, PurgeDeleteDir, PurgeRestart
       DEF RegNext
  <1> QED BY <1>1, <1>2

(* A purged stream stays gone, for any number of streams, handlers and
   restarts. *)
THEOREM PurgesAreFinal == RegSpec => []PurgeIsFinal
  <1>1. PurgeInv => PurgeIsFinal
    BY DEF PurgeInv
  <1> QED BY <1>1, InitPurge, PurgeStep, PTL DEF RegSpec

-----------------------------------------------------------------------------
(* The disk: one lemma per action *)

LEMMA DiskCreateOpen ==
  ASSUME PurgeInv, DiskInv, NEW t \in Tasks, NEW s \in Streams, NEW e \in Entry,
         CreateOpen(t, s, e)
  PROVE  DiskInv'
  <1>1. MetaInDirs'
    BY DEF DiskInv, MetaInDirs, CreateOpen
  <1>2. WrittenFirst'
    BY DEF DiskInv, PurgeInv, RegTypeOK, WrittenFirst, CreateOpen, At, Work
  <1>3. ASSUME NEW r \in Streams, r \notin lost', mem'[r] # None
        PROVE  IF \E u \in Tasks : At(u, r, {"patchMeta"})'
               THEN \A u \in Tasks : At(u, r, {"patchMeta"})' => task'[u].entry = mem'[r]
               ELSE meta'[r] # None /\ meta'[r].entry = mem'[r]
    <2>1. r \notin lost /\ mem[r] # None /\ r # s /\ mem' = mem /\ meta' = meta
      BY <1>3 DEF CreateOpen
    <2>2. \A u \in Tasks : At(u, r, {"patchMeta"})' =>
            At(u, r, {"patchMeta"}) /\ task'[u] = task[u]
      BY <2>1 DEF CreateOpen, At, PurgeInv, RegTypeOK, Work
    <2>3. \A u \in Tasks : At(u, r, {"patchMeta"}) => At(u, r, {"patchMeta"})'
      BY <2>1 DEF CreateOpen, At, PurgeInv, RegTypeOK, Idle
    <2> QED BY <2>1, <2>2, <2>3 DEF DiskInv, ServedIsKept
  <1>4. ASSUME NEW r \in Streams, r \notin lost', mem'[r] = None, r \in dirs'
        PROVE  \E u \in Tasks : At(u, r, {"createMeta", "createInsert", "deleteDir"})'
    <2>1. CASE r = s
      BY <1>4, <2>1 DEF CreateOpen, At, PurgeInv, RegTypeOK
    <2>2. CASE r # s
      <3>1. PICK u \in Tasks : At(u, r, {"createMeta", "createInsert", "deleteDir"})
        BY <1>4, <2>2 DEF CreateOpen, DiskInv, UnservedIsPassing
      <3>2. u # t
        BY <3>1, IdleFacts DEF CreateOpen
      <3> QED BY <3>1, <3>2 DEF CreateOpen, At, PurgeInv, RegTypeOK
    <2> QED BY <2>1, <2>2
  <1> QED BY <1>1, <1>2, <1>3, <1>4 DEF DiskInv, ServedIsKept, UnservedIsPassing

LEMMA DiskCreateMeta ==
  ASSUME PurgeInv, DiskInv, NEW t \in Tasks, CreateMeta(t)
  PROVE  DiskInv'
  <1> DEFINE s == task[t].stream
             e == task[t].entry
  <1>1. s \in Streams /\ e \in Entry /\ task[t] \in Work
    BY WorkFacts DEF CreateMeta, PurgeInv
  <1>2. /\ dirs' = dirs
        /\ \A r \in Streams : meta'[r] # meta[r] => r = s /\ s \in dirs
        /\ s \notin lost' => meta'[s] # None /\ meta'[s].entry = e
        /\ lost \subseteq lost'
    BY <1>1, WriteMetaKeeps DEF CreateMeta, PurgeInv
  <1>3. /\ mem[s] = None /\ task[t].pc = "createMeta" /\ mem' = mem
        /\ \A u \in Tasks \ {t} : task[u] = Idle \/ task[u].stream # s
        /\ task' = [task EXCEPT ![t] = [task[t] EXCEPT !.pc = "createInsert"]]
    BY <1>1 DEF CreateMeta, PurgeInv, CreatedAlone, At
  <1>4. task'[t].pc = "createInsert" /\ task'[t].stream = s /\ task'[t].entry = e
    BY <1>1, <1>3 DEF PurgeInv, RegTypeOK, Work
  <1>5. \A u \in Tasks \ {t} : task'[u] = task[u]
    BY <1>3 DEF PurgeInv, RegTypeOK
  <1> HIDE DEF s, e
  <1>6. MetaInDirs'
    BY <1>2 DEF DiskInv, MetaInDirs
  <1>7. WrittenFirst'
    BY <1>1, <1>2, <1>3, <1>4, <1>5 DEF DiskInv, WrittenFirst, At, Idle
  <1>8. ServedIsKept'
    <2> SUFFICES ASSUME NEW r \in Streams, r \notin lost', mem'[r] # None
        PROVE  IF \E u \in Tasks : At(u, r, {"patchMeta"})'
               THEN \A u \in Tasks : At(u, r, {"patchMeta"})' => task'[u].entry = mem'[r]
               ELSE meta'[r] # None /\ meta'[r].entry = mem'[r]
      BY DEF ServedIsKept
    <2>1. r # s /\ r \notin lost /\ meta'[r] = meta[r] /\ mem'[r] = mem[r]
      BY <1>2, <1>3
    <2>2. \A u \in Tasks : At(u, r, {"patchMeta"})' <=> At(u, r, {"patchMeta"})
      BY <1>3, <1>4, <1>5 DEF At
    <2>3. \A u \in Tasks : At(u, r, {"patchMeta"}) => task'[u] = task[u]
      BY <1>3, <1>5 DEF At
    <2> QED BY <2>1, <2>2, <2>3 DEF DiskInv, ServedIsKept
  <1>9. UnservedIsPassing'
    <2> SUFFICES ASSUME NEW r \in Streams, r \notin lost', mem'[r] = None, r \in dirs'
        PROVE  \E u \in Tasks : At(u, r, {"createMeta", "createInsert", "deleteDir"})'
      BY DEF UnservedIsPassing
    <2>1. PICK u \in Tasks : At(u, r, {"createMeta", "createInsert", "deleteDir"})
      BY <1>2, <1>3 DEF DiskInv, UnservedIsPassing
    <2> QED BY <2>1, <1>4, <1>5 DEF At, s
  <1> QED BY <1>6, <1>7, <1>8, <1>9 DEF DiskInv

LEMMA DiskCreateInsert ==
  ASSUME PurgeInv, DiskInv, NEW t \in Tasks, CreateInsert(t)
  PROVE  DiskInv'
  <1> DEFINE s == task[t].stream
             e == task[t].entry
  <1>1. s \in Streams /\ e \in Entry /\ task[t] \in Work
    BY WorkFacts DEF CreateInsert, PurgeInv
  <1>2. /\ task[t].pc = "createInsert" /\ mem' = [mem EXCEPT ![s] = e]
        /\ UNCHANGED <<dirs, meta, lost>> /\ task' = [task EXCEPT ![t] = Idle]
    BY DEF CreateInsert, Insert
  <1>3. /\ task'[t] = Idle /\ \A u \in Tasks \ {t} : task'[u] = task[u]
        /\ mem'[s] = e /\ \A r \in Streams \ {s} : mem'[r] = mem[r]
    BY <1>1, <1>2 DEF PurgeInv, RegTypeOK
  <1>4. \A u \in Tasks \ {t} : task[u] = Idle \/ task[u].stream # s
    BY <1>1, <1>2 DEF PurgeInv, CreatedAlone, At
  <1>5. s \notin lost => meta[s] # None /\ meta[s].entry = e
    BY <1>1, <1>2 DEF DiskInv, WrittenFirst, At
  <1>6. e # None
    BY <1>1, RegAssumption
  <1> HIDE DEF s, e
  <1>7. MetaInDirs'
    BY <1>2 DEF DiskInv, MetaInDirs
  <1>8. WrittenFirst'
    BY <1>2, <1>3 DEF DiskInv, WrittenFirst, At, Idle
  <1>9. ServedIsKept'
    <2> SUFFICES ASSUME NEW r \in Streams, r \notin lost', mem'[r] # None
        PROVE  IF \E u \in Tasks : At(u, r, {"patchMeta"})'
               THEN \A u \in Tasks : At(u, r, {"patchMeta"})' => task'[u].entry = mem'[r]
               ELSE meta'[r] # None /\ meta'[r].entry = mem'[r]
      BY DEF ServedIsKept
    <2>1. CASE r = s
      <3>1. \A u \in Tasks : ~At(u, r, {"patchMeta"})'
        BY <2>1, <1>3, <1>4 DEF At, Idle
      <3> QED BY <3>1, <2>1, <1>2, <1>3, <1>5
    <2>2. CASE r # s
      <3>1. \A u \in Tasks : At(u, r, {"patchMeta"})' <=> At(u, r, {"patchMeta"})
        BY <1>2, <1>3 DEF At, Idle
      <3>2. \A u \in Tasks : At(u, r, {"patchMeta"}) => task'[u] = task[u]
        BY <1>2, <1>3 DEF At
      <3> QED BY <3>1, <3>2, <2>2, <1>2, <1>3 DEF DiskInv, ServedIsKept
    <2> QED BY <2>1, <2>2
  <1>10. UnservedIsPassing'
    <2> SUFFICES ASSUME NEW r \in Streams, r \notin lost', mem'[r] = None, r \in dirs'
        PROVE  \E u \in Tasks : At(u, r, {"createMeta", "createInsert", "deleteDir"})'
      BY DEF UnservedIsPassing
    <2>1. r # s
      BY <1>3, <1>6
    <2>2. PICK u \in Tasks : At(u, r, {"createMeta", "createInsert", "deleteDir"})
      BY <2>1, <1>2, <1>3 DEF DiskInv, UnservedIsPassing
    <2> QED BY <2>1, <2>2, <1>3 DEF At, s
  <1> QED BY <1>7, <1>8, <1>9, <1>10 DEF DiskInv

LEMMA DiskPatchUpdate ==
  ASSUME OnePatch, PurgeInv, DiskInv, NEW t \in Tasks, NEW s \in Streams, NEW pub \in BOOLEAN,
         NEW home \in Households \cup {NoHome}, PatchUpdate(t, s, pub, home)
  PROVE  DiskInv'
  <1> DEFINE e == [mem[s] EXCEPT !.public = pub, !.home = home]
             w == [pc |-> "patchMeta", stream |-> s, entry |-> e]
  <1>1. /\ task[t] = Idle /\ mem[s] # None /\ ~Patching(s)
        /\ mem' = [mem EXCEPT ![s] = e] /\ task' = [task EXCEPT ![t] = w]
        /\ UNCHANGED <<dirs, meta, lost>>
    BY DEF PatchUpdate
  <1>2. e \in Entry
    BY <1>1 DEF PurgeInv, RegTypeOK, Entry
  <1>3. /\ task'[t] = w /\ \A u \in Tasks \ {t} : task'[u] = task[u]
        /\ mem'[s] = e /\ \A r \in Streams \ {s} : mem'[r] = mem[r]
        /\ w.pc = "patchMeta" /\ w.stream = s /\ w.entry = e
    BY <1>1 DEF PurgeInv, RegTypeOK
  <1>4. e # None
    BY <1>2, RegAssumption
  <1> HIDE DEF e, w
  <1>5. MetaInDirs'
    BY <1>1 DEF DiskInv, MetaInDirs
  <1>6. WrittenFirst'
    BY <1>1, <1>3 DEF DiskInv, WrittenFirst, At
  <1>7. ServedIsKept'
    <2> SUFFICES ASSUME NEW r \in Streams, r \notin lost', mem'[r] # None
        PROVE  IF \E u \in Tasks : At(u, r, {"patchMeta"})'
               THEN \A u \in Tasks : At(u, r, {"patchMeta"})' => task'[u].entry = mem'[r]
               ELSE meta'[r] # None /\ meta'[r].entry = mem'[r]
      BY DEF ServedIsKept
    <2>1. CASE r = s
      <3>1. \A u \in Tasks : At(u, r, {"patchMeta"})' => u = t
        BY <2>1, <1>1, <1>3 DEF At, Patching
      <3> QED BY <3>1, <2>1, <1>3 DEF At
    <2>2. CASE r # s
      <3>1. \A u \in Tasks : At(u, r, {"patchMeta"})' <=> At(u, r, {"patchMeta"})
        BY <2>2, <1>1, <1>3 DEF At, Idle
      <3>2. \A u \in Tasks : At(u, r, {"patchMeta"}) => task'[u] = task[u]
        BY <1>1, <1>3 DEF At, Idle
      <3> QED BY <3>1, <3>2, <2>2, <1>1, <1>3 DEF DiskInv, ServedIsKept
    <2> QED BY <2>1, <2>2
  <1>8. UnservedIsPassing'
    <2> SUFFICES ASSUME NEW r \in Streams, r \notin lost', mem'[r] = None, r \in dirs'
        PROVE  \E u \in Tasks : At(u, r, {"createMeta", "createInsert", "deleteDir"})'
      BY DEF UnservedIsPassing
    <2>1. PICK u \in Tasks : At(u, r, {"createMeta", "createInsert", "deleteDir"})
      BY <1>1, <1>3, <1>4 DEF DiskInv, UnservedIsPassing
    <2>2. u # t
      BY <2>1, <1>1, IdleFacts
    <2> QED BY <2>1, <2>2, <1>3 DEF At
  <1> QED BY <1>5, <1>6, <1>7, <1>8 DEF DiskInv

LEMMA DiskPatchMeta ==
  ASSUME PurgeInv, DiskInv, NEW t \in Tasks, PatchMeta(t)
  PROVE  DiskInv'
  <1> DEFINE s == task[t].stream
             e == task[t].entry
  <1>1. s \in Streams /\ e \in Entry /\ task[t] \in Work
    BY WorkFacts DEF PatchMeta, PurgeInv
  <1>2. /\ dirs' = dirs
        /\ \A r \in Streams : meta'[r] # meta[r] => r = s /\ s \in dirs /\ lost' = lost
        /\ s \notin lost' => meta'[s] # None /\ meta'[s].entry = e /\ s \in dirs
        /\ lost \subseteq lost'
    BY <1>1, WriteMetaKeeps DEF PatchMeta, PurgeInv
  <1>3. task[t].pc = "patchMeta" /\ mem' = mem /\ task' = [task EXCEPT ![t] = Idle]
    BY DEF PatchMeta
  <1>4. task'[t] = Idle /\ \A u \in Tasks \ {t} : task'[u] = task[u]
    BY <1>3 DEF PurgeInv, RegTypeOK
  <1>5. At(t, s, {"patchMeta"}) /\ task[t] # Idle
    BY <1>3, WorkFacts DEF At, PurgeInv
  <1> HIDE DEF s, e
  <1>6. MetaInDirs'
    BY <1>2 DEF DiskInv, MetaInDirs
  <1>7. WrittenFirst'
    <2> SUFFICES ASSUME NEW u \in Tasks, NEW r \in Streams, r \notin lost',
                        At(u, r, {"createInsert"})'
        PROVE  meta'[r] # None /\ meta'[r].entry = task'[u].entry
      BY DEF WrittenFirst
    <2>1. u # t /\ At(u, r, {"createInsert"}) /\ task'[u] = task[u] /\ r \notin lost
      BY <1>2, <1>4 DEF At, Idle
    <2>2. r # s
      BY <2>1, <1>5 DEF PurgeInv, CreatedAlone, At
    <2> QED BY <2>1, <2>2, <1>2 DEF DiskInv, WrittenFirst
  <1>8. ServedIsKept'
    <2> SUFFICES ASSUME NEW r \in Streams, r \notin lost', mem'[r] # None
        PROVE  IF \E u \in Tasks : At(u, r, {"patchMeta"})'
               THEN \A u \in Tasks : At(u, r, {"patchMeta"})' => task'[u].entry = mem'[r]
               ELSE meta'[r] # None /\ meta'[r].entry = mem'[r]
      BY DEF ServedIsKept
    <2>1. r \notin lost /\ mem[r] # None /\ mem'[r] = mem[r]
      BY <1>2, <1>3
    <2>2. \A u \in Tasks : At(u, r, {"patchMeta"})' => At(u, r, {"patchMeta"}) /\ task'[u] = task[u]
      BY <1>4 DEF At, Idle
    <2>3. CASE r = s
      <3>1. \A u \in Tasks : At(u, r, {"patchMeta"}) => task[u].entry = mem[r]
        BY <2>1, <2>3, <1>5 DEF DiskInv, ServedIsKept
      <3>2. e = mem[r]
        BY <3>1, <2>3, <1>5 DEF e
      <3> QED BY <3>1, <3>2, <2>1, <2>2, <2>3, <1>2
    <2>4. CASE r # s
      <3>1. \A u \in Tasks : At(u, r, {"patchMeta"}) => At(u, r, {"patchMeta"})'
        BY <2>4, <1>4 DEF At, s
      <3> QED BY <3>1, <2>1, <2>2, <2>4, <1>2 DEF DiskInv, ServedIsKept
    <2> QED BY <2>3, <2>4
  <1>9. UnservedIsPassing'
    <2> SUFFICES ASSUME NEW r \in Streams, r \notin lost', mem'[r] = None, r \in dirs'
        PROVE  \E u \in Tasks : At(u, r, {"createMeta", "createInsert", "deleteDir"})'
      BY DEF UnservedIsPassing
    <2>1. PICK u \in Tasks : At(u, r, {"createMeta", "createInsert", "deleteDir"})
      BY <1>2, <1>3 DEF DiskInv, UnservedIsPassing
    <2>2. u # t
      BY <2>1, <1>3 DEF At
    <2> QED BY <2>1, <2>2, <1>4 DEF At
  <1> QED BY <1>6, <1>7, <1>8, <1>9 DEF DiskInv

LEMMA DiskDeleteCheck ==
  ASSUME PurgeInv, DiskInv, NEW t \in Tasks, NEW s \in Streams, DeleteCheck(t, s)
  PROVE  DiskInv'
  <1> DEFINE w == [pc |-> "deleteRemove", stream |-> s, entry |-> mem[s]]
  <1>1. /\ task[t] = Idle /\ task' = [task EXCEPT ![t] = w]
        /\ UNCHANGED <<mem, dirs, meta, lost>>
    BY DEF DeleteCheck
  <1>2. task'[t] = w /\ w.pc = "deleteRemove" /\ \A u \in Tasks \ {t} : task'[u] = task[u]
    BY <1>1 DEF PurgeInv, RegTypeOK
  <1> HIDE DEF w
  <1>3. MetaInDirs'
    BY <1>1 DEF DiskInv, MetaInDirs
  <1>4. WrittenFirst'
    BY <1>1, <1>2 DEF DiskInv, WrittenFirst, At
  <1>5. ServedIsKept'
    <2>1. \A u \in Tasks, r \in Streams :
            /\ At(u, r, {"patchMeta"})' <=> At(u, r, {"patchMeta"})
            /\ At(u, r, {"patchMeta"}) => task'[u] = task[u]
      BY <1>1, <1>2 DEF At, Idle
    <2> QED BY <2>1, <1>1 DEF DiskInv, ServedIsKept
  <1>6. UnservedIsPassing'
    BY <1>1, <1>2 DEF DiskInv, UnservedIsPassing, At, Idle
  <1> QED BY <1>3, <1>4, <1>5, <1>6 DEF DiskInv

LEMMA DiskDeleteRemove ==
  ASSUME PurgeInv, DiskInv, NEW t \in Tasks, DeleteRemove(t)
  PROVE  DiskInv'
  <1> DEFINE s == task[t].stream
  <1>1. s \in Streams /\ task[t] \in Work /\ task[t].pc = "deleteRemove"
    BY WorkFacts DEF DeleteRemove, PurgeInv
  <1>2. UNCHANGED <<dirs, meta, lost>>
    BY DEF DeleteRemove
  <1>3. \/ /\ mem[s] = None /\ mem' = mem /\ task'[t] = Idle
        \/ /\ mem[s] # None /\ mem' = [mem EXCEPT ![s] = None]
           /\ task'[t].pc = "deleteDir" /\ task'[t].stream = s
    BY <1>1 DEF DeleteRemove, Remove, PurgeInv, RegTypeOK, Work
  <1>4. \A u \in Tasks \ {t} : task'[u] = task[u]
    BY DEF DeleteRemove, PurgeInv, RegTypeOK
  <1>5. \A r \in Streams : mem'[r] # None => mem[r] = mem'[r]
    BY <1>1, <1>3 DEF PurgeInv, RegTypeOK
  <1>6. \A r \in Streams : mem'[r] # mem[r] => r = s /\ task'[t].pc = "deleteDir" /\ task'[t].stream = s
    BY <1>1, <1>3 DEF PurgeInv, RegTypeOK
  <1> HIDE DEF s
  <1>7. MetaInDirs'
    BY <1>2 DEF DiskInv, MetaInDirs
  <1>8. WrittenFirst'
    BY <1>2, <1>3, <1>4 DEF DiskInv, WrittenFirst, At, Idle
  <1>9. ServedIsKept'
    <2>1. \A u \in Tasks, r \in Streams :
            /\ At(u, r, {"patchMeta"})' <=> At(u, r, {"patchMeta"})
            /\ At(u, r, {"patchMeta"}) => task'[u] = task[u]
      BY <1>1, <1>3, <1>4 DEF At, Idle
    <2> QED BY <2>1, <1>2, <1>5 DEF DiskInv, ServedIsKept
  <1>10. UnservedIsPassing'
    <2> SUFFICES ASSUME NEW r \in Streams, r \notin lost', mem'[r] = None, r \in dirs'
        PROVE  \E u \in Tasks : At(u, r, {"createMeta", "createInsert", "deleteDir"})'
      BY DEF UnservedIsPassing
    <2>1. CASE mem[r] # None
      BY <2>1, <1>6 DEF At
    <2>2. CASE mem[r] = None
      <3>1. PICK u \in Tasks : At(u, r, {"createMeta", "createInsert", "deleteDir"})
        BY <2>2, <1>2 DEF DiskInv, UnservedIsPassing
      <3> QED BY <3>1, <1>1, <1>4 DEF At
    <2> QED BY <2>1, <2>2
  <1> QED BY <1>7, <1>8, <1>9, <1>10 DEF DiskInv

LEMMA DiskDeleteDir ==
  ASSUME PurgeInv, DiskInv, NEW t \in Tasks, DeleteDir(t)
  PROVE  DiskInv'
  <1> DEFINE s == task[t].stream
  <1>1. s \in Streams /\ task[t].pc = "deleteDir" /\ mem[s] = None
    BY WorkFacts DEF DeleteDir, PurgeInv, DeletedLast, At
  <1>2. mem' = mem /\ task'[t] = Idle /\ \A u \in Tasks \ {t} : task'[u] = task[u]
    BY DEF DeleteDir, PurgeInv, RegTypeOK
  <1>3. /\ \A r \in Streams \ {s} : meta'[r] = meta[r] /\ (r \in dirs' <=> r \in dirs)
        /\ s \in dirs' => s \in lost'
        /\ lost \subseteq lost' /\ (s \in dirs' \/ meta'[s] = None)
        /\ dirs' \subseteq dirs
    BY <1>1 DEF DeleteDir, PurgeInv, RegTypeOK
  <1>4. \A u \in Tasks : At(u, s, {"createMeta", "createInsert"}) => FALSE
    BY <1>1, WorkFacts DEF PurgeInv, CreatedAlone, At
  <1> HIDE DEF s
  <1>5. MetaInDirs'
    BY <1>3 DEF DiskInv, MetaInDirs
  <1>6. WrittenFirst'
    BY <1>1, <1>2, <1>3, <1>4 DEF DiskInv, WrittenFirst, At, Idle
  <1>7. ServedIsKept'
    <2>1. \A u \in Tasks, r \in Streams :
            /\ At(u, r, {"patchMeta"})' <=> At(u, r, {"patchMeta"})
            /\ At(u, r, {"patchMeta"}) => task'[u] = task[u]
      BY <1>1, <1>2 DEF At, Idle
    <2>2. \A r \in Streams \ lost' : mem'[r] # None => r # s /\ meta'[r] = meta[r] /\ r \notin lost
      BY <1>1, <1>2, <1>3
    <2> QED BY <2>1, <2>2, <1>2 DEF DiskInv, ServedIsKept
  <1>8. UnservedIsPassing'
    <2> SUFFICES ASSUME NEW r \in Streams, r \notin lost', mem'[r] = None, r \in dirs'
        PROVE  \E u \in Tasks : At(u, r, {"createMeta", "createInsert", "deleteDir"})'
      BY DEF UnservedIsPassing
    <2>1. r # s
      BY <1>3
    <2>2. PICK u \in Tasks : At(u, r, {"createMeta", "createInsert", "deleteDir"})
      BY <2>1, <1>2, <1>3 DEF DiskInv, UnservedIsPassing
    <2> QED BY <2>1, <2>2, <1>2 DEF At, s
  <1> QED BY <1>5, <1>6, <1>7, <1>8 DEF DiskInv

(* What was neither lost nor being written comes back as it was. *)
LEMMA DiskRestart ==
  ASSUME PurgeInv, DiskInv, Restart
  PROVE  DiskInv'
  <1>1. /\ \A t \in Tasks : task'[t] = Idle
        /\ UNCHANGED <<dirs, meta>> /\ lost \subseteq lost'
    BY DEF Restart
  <1>2. \A s \in Streams : mem'[s] # None => meta[s] # None /\ mem'[s] = meta[s].entry
    BY DEF Restart
  <1>3. \A s \in Streams \ lost' : meta[s] # None => mem'[s] = meta[s].entry
    BY DEF Restart
  <1>4. \A s \in Streams \ lost', t \in Tasks : task[t] = Idle \/ task[t].stream # s
    BY DEF Restart
  <1>5. MetaInDirs' /\ WrittenFirst'
    BY <1>1 DEF DiskInv, MetaInDirs, WrittenFirst, At, Idle
  <1>6. ServedIsKept'
    BY <1>1, <1>2 DEF ServedIsKept, At, Idle
  <1>7. UnservedIsPassing'
    <2> SUFFICES ASSUME NEW s \in Streams, s \notin lost', mem'[s] = None, s \in dirs'
        PROVE  FALSE
      BY DEF UnservedIsPassing
    <2>1. \A t \in Tasks : \A pcs : "idle" \notin pcs => ~At(t, s, pcs)
      BY <1>4, IdleFacts DEF At
    <2>2. mem[s] # None
      BY <2>1, <1>1 DEF DiskInv, UnservedIsPassing
    <2>3. meta[s] # None /\ meta[s].entry = mem[s]
      BY <2>1, <2>2, <1>1 DEF DiskInv, ServedIsKept
    <2> QED BY <2>2, <2>3, <1>3
  <1> QED BY <1>5, <1>6, <1>7 DEF DiskInv

LEMMA DiskStep == OnePatch /\ PurgeInv /\ DiskInv /\ [RegNext]_regVars => DiskInv'
  <1> SUFFICES ASSUME OnePatch, PurgeInv, DiskInv, [RegNext]_regVars PROVE DiskInv'
    OBVIOUS
  <1>1. CASE UNCHANGED regVars
    BY <1>1 DEF regVars, DiskInv, MetaInDirs, WrittenFirst, ServedIsKept, UnservedIsPassing, At
  <1>2. CASE RegNext
    BY <1>2, DiskCreateOpen, DiskCreateMeta, DiskCreateInsert, DiskPatchUpdate,
       DiskPatchMeta, DiskDeleteCheck, DiskDeleteRemove, DiskDeleteDir, DiskRestart
       DEF RegNext
  <1> QED BY <1>1, <1>2

(* When nobody is writing a stream and no file call of it failed, its
   meta.json says what is served, provided that clients wait for the answer
   to one PATCH before they send the next. *)
THEOREM DiskHoldsMemory ==
  ASSUME OnePatch
  PROVE  RegSpec => []DiskIsMemory
  <1>1. PurgeInv /\ DiskInv => DiskIsMemory
    <2> SUFFICES ASSUME PurgeInv, DiskInv, NEW s \in Streams, s \notin lost, ~Busy(s)
        PROVE  IF mem[s] = None THEN meta[s] = None
               ELSE meta[s] # None /\ meta[s].entry = mem[s]
      BY DEF DiskIsMemory
    <2>1. \A t \in Tasks : \A pcs : "idle" \notin pcs => ~At(t, s, pcs)
      BY IdleFacts DEF Busy, At
    <2>2. CASE mem[s] = None
      BY <2>1, <2>2 DEF DiskInv, UnservedIsPassing, MetaInDirs
    <2>3. CASE mem[s] # None
      BY <2>1, <2>3 DEF DiskInv, ServedIsKept
    <2> QED BY <2>2, <2>3
  <1>2. RegInit => PurgeInv /\ DiskInv
    BY InitPurge, InitDisk
  <1>3. PurgeInv /\ DiskInv /\ [RegNext]_regVars => (PurgeInv /\ DiskInv)'
    BY PurgeStep, DiskStep
  <1> QED BY <1>1, <1>2, <1>3, PTL DEF RegSpec
-----------------------------------------------------------------------------
(* Public names. *)

(* No two meta.json files were written at the same time. *)
Stamped ==
  \A s \in Streams : meta[s] # None =>
    /\ meta[s].mtime <= stamp
    /\ \A o \in Streams \ {s} : meta[o] # None => meta[o].mtime # meta[s].mtime

NamesInv == RegTypeOK /\ Stamped /\ names \in [Players -> Streams \cup {None}]

LEMMA WriteMetaStamps ==
  ASSUME NamesInv, NEW s \in Streams, NEW e \in Entry, WriteMeta(s, e)
  PROVE  Stamped'
  <1>1. CASE meta' = meta /\ stamp' = stamp
    BY <1>1 DEF NamesInv, Stamped
  <1>2. CASE /\ meta' = [meta EXCEPT ![s] = [entry |-> e, mtime |-> stamp + 1]]
             /\ stamp' = stamp + 1
    <2>1. /\ \A o \in Streams \ {s} : meta'[o] = meta[o]
          /\ meta'[s].mtime = stamp + 1
      BY <1>2 DEF NamesInv, RegTypeOK
    <2>2. \A o \in Streams : meta[o] # None => meta[o].mtime \in Nat /\ meta[o].mtime <= stamp
      BY DEF NamesInv, Stamped, RegTypeOK, Kept
    <2>3. stamp \in Nat
      BY DEF NamesInv, RegTypeOK
    <2> SUFFICES ASSUME NEW o \in Streams, meta'[o] # None
                 PROVE  /\ meta'[o].mtime <= stamp'
                        /\ \A r \in Streams \ {o} : meta'[r] # None => meta'[r].mtime # meta'[o].mtime
      BY DEF Stamped
    <2>4. CASE o = s
      BY <1>2, <2>1, <2>2, <2>3, <2>4
    <2>5. CASE o # s
      <3>1. meta[o] # None /\ meta'[o] = meta[o] /\ meta[o].mtime # stamp + 1
        BY <2>1, <2>2, <2>3, <2>5
      <3>2. ASSUME NEW r \in Streams \ {o}, meta'[r] # None
            PROVE  meta'[r].mtime # meta'[o].mtime
        <4>1. CASE r = s
          BY <2>1, <3>1, <4>1
        <4>2. CASE r # s
          BY <2>1, <3>1, <3>2, <4>2 DEF NamesInv, Stamped
        <4> QED BY <4>1, <4>2
      <3> QED BY <3>1, <3>2, <2>2, <2>3, <1>2
    <2> QED BY <2>4, <2>5
  <1> QED BY <1>1, <1>2 DEF WriteMeta

(* The streams of an identity are loaded in an order that has a last. *)
Mine(p, loaded) == {s \in loaded : meta[s].entry.who = p}

LEMMA LastIsLoaded ==
  ASSUME NamesInv, NEW p \in Players, NEW loaded \in SUBSET {s \in Streams : meta[s] # None},
         Mine(p, loaded) # {}
  PROVE  /\ LastLoaded(p, loaded) \in Mine(p, loaded)
         /\ \A o \in Mine(p, loaded) \ {LastLoaded(p, loaded)} :
              LoadsBefore(o, LastLoaded(p, loaded))
  <1> DEFINE mine == Mine(p, loaded)
             listed == {s \in mine : meta[s].entry.public}
             last == IF listed # {} THEN listed ELSE mine
             times == {meta[s].mtime : s \in last}
  <1>1. /\ last # {} /\ last \subseteq mine
        /\ \A s \in mine : /\ s \in Streams /\ meta[s] # None /\ meta[s].mtime \in Nat
                           /\ meta[s].mtime <= stamp /\ meta[s].entry.public \in BOOLEAN
    BY DEF Mine, NamesInv, Stamped, RegTypeOK, Kept, Entry
  <1>2. times \in SUBSET Nat /\ times # {} /\ stamp \in Nat /\ \A x \in times : x <= stamp
    BY <1>1 DEF NamesInv, RegTypeOK
  <1>3. PICK top \in times : \A y \in times : y <= top
    <2> HIDE DEF times
    <2> QED BY <1>2, GreatestExists
  <1>4. PICK s \in last : meta[s].mtime = top
    OBVIOUS
  <1>5. ASSUME NEW o \in mine \ {s} PROVE LoadsBefore(o, s)
    <2>1. meta[o].mtime # meta[s].mtime
      BY <1>1, <1>4 DEF NamesInv, Stamped
    <2>2. CASE o \in last
      <3>1. meta[o].mtime <= top /\ meta[o].mtime \in Nat /\ top \in Nat
        BY <1>1, <1>3, <1>4, <2>2
      <3>3. meta[o].mtime < meta[s].mtime
        BY <1>4, <2>1, <3>1
      <3>2. meta[o].entry.public = meta[s].entry.public
        BY <1>1, <1>4, <2>2
      <3> QED BY <3>3, <3>2 DEF LoadsBefore
    <2>3. CASE o \notin last
      BY <1>1, <1>4, <2>3 DEF LoadsBefore
    <2> QED BY <2>2, <2>3
  <1>6. LastLoaded(p, loaded) = CHOOSE l \in mine : \A o \in mine \ {l} : LoadsBefore(o, l)
    BY DEF LastLoaded, Mine
  <1>7. s \in mine
    BY <1>1, <1>4
  <1> HIDE DEF mine
  <1>8. /\ LastLoaded(p, loaded) \in mine
        /\ \A o \in mine \ {LastLoaded(p, loaded)} : LoadsBefore(o, LastLoaded(p, loaded))
    BY <1>5, <1>6, <1>7
  <1> QED BY <1>8 DEF mine

LEMMA NamesStep ==
  ASSUME PurgeInv, NamesInv, [RegNext]_regVars
  PROVE  NamesInv'
  <1>1. RegTypeOK'
    BY PurgeStep DEF PurgeInv
  <1>2. Stamped'
    <2>1. CASE UNCHANGED <<meta, stamp>>
      BY <2>1 DEF NamesInv, Stamped
    <2>2. ASSUME NEW t \in Tasks, CreateMeta(t) \/ PatchMeta(t) PROVE Stamped'
      <3>1. task[t].stream \in Streams /\ task[t].entry \in Entry
        BY <2>2, WorkFacts DEF CreateMeta, PatchMeta, NamesInv
      <3> QED BY <2>2, <3>1, WriteMetaStamps DEF CreateMeta, PatchMeta
    <2>3. ASSUME NEW t \in Tasks, DeleteDir(t) PROVE Stamped'
      <3> DEFINE s == task[t].stream
      <3>1. s \in Streams
        BY <2>3, WorkFacts DEF DeleteDir, NamesInv
      <3>2. stamp' = stamp /\ meta' \in {meta, [meta EXCEPT ![s] = None]}
        BY <2>3 DEF DeleteDir
      <3>3. \A o \in Streams : meta'[o] = meta[o] \/ meta'[o] = None
        BY <3>1, <3>2 DEF NamesInv, RegTypeOK
      <3> QED BY <3>2, <3>3 DEF NamesInv, Stamped
    <2> QED BY <2>1, <2>2, <2>3 DEF RegNext, regVars, CreateOpen, CreateInsert, PatchUpdate,
               DeleteCheck, DeleteRemove, Restart
  <1>3. names' \in [Players -> Streams \cup {None}]
    <2>1. CASE UNCHANGED names
      BY <2>1 DEF NamesInv
    <2>2. ASSUME NEW t \in Tasks, CreateInsert(t) PROVE names' \in [Players -> Streams \cup {None}]
      <3>1. task[t].stream \in Streams
        BY <2>2, WorkFacts DEF CreateInsert, NamesInv
      <3> QED BY <2>2, <3>1 DEF CreateInsert, Insert, NamesInv
    <2>3. ASSUME NEW t \in Tasks, DeleteRemove(t) PROVE names' \in [Players -> Streams \cup {None}]
      BY <2>3 DEF DeleteRemove, Remove, NamesInv
    <2>4. CASE Restart
      <3>1. PICK unreadable \in SUBSET {s \in Streams : meta[s] # None} :
              names' = [p \in Players |->
                         LastLoaded(p, {s \in Streams : meta[s] # None} \ unreadable)]
        BY <2>4 DEF Restart
      <3>2. ASSUME NEW p \in Players, NEW loaded \in SUBSET {s \in Streams : meta[s] # None}
            PROVE  LastLoaded(p, loaded) \in Streams \cup {None}
        <4>1. CASE Mine(p, loaded) = {}
          BY <4>1 DEF LastLoaded, Mine
        <4>2. CASE Mine(p, loaded) # {}
          BY <4>2, LastIsLoaded DEF Mine
        <4> QED BY <4>1, <4>2
      <3> QED BY <3>1, <3>2
    <2> QED BY <2>1, <2>2, <2>3, <2>4 DEF RegNext, regVars, CreateOpen, CreateMeta, PatchUpdate,
               PatchMeta, DeleteCheck, DeleteDir
  <1> QED BY <1>1, <1>2, <1>3 DEF NamesInv

(* A restart gives a public name to a public stream. *)
LEMMA RestartFindsPublic ==
  ASSUME NamesInv, Restart
  PROVE  PublicIsFound'
  <1>1. PICK unreadable \in SUBSET {s \in Streams : meta[s] # None} :
          LET loaded == {s \in Streams : meta[s] # None} \ unreadable
          IN /\ mem' = [s \in Streams |-> IF s \in loaded THEN meta[s].entry ELSE None]
             /\ names' = [p \in Players |-> LastLoaded(p, loaded)]
    BY DEF Restart
  <1> DEFINE loaded == {s \in Streams : meta[s] # None} \ unreadable
  <1>2. /\ loaded \in SUBSET {s \in Streams : meta[s] # None}
        /\ mem' = [s \in Streams |-> IF s \in loaded THEN meta[s].entry ELSE None]
        /\ names' = [p \in Players |-> LastLoaded(p, loaded)]
    BY <1>1
  <1> HIDE DEF loaded
  <1>3. \A s \in loaded : s \in Streams /\ meta[s].entry \in Entry
    BY <1>2 DEF NamesInv, RegTypeOK, Kept
  <1> SUFFICES ASSUME NEW s \in Streams, mem'[s] # None, mem'[s].public, mem'[s].who # NoName
               PROVE  /\ names'[mem'[s].who] # None
                      /\ mem'[names'[mem'[s].who]].public
    BY RegAssumption DEF PublicIsFound, PublicStream, Registered
  <1> DEFINE p == mem'[s].who
             last == LastLoaded(p, loaded)
  <1>4. s \in loaded /\ mem'[s] = meta[s].entry /\ p \in Players
    BY <1>2, <1>3 DEF Entry
  <1>5. s \in Mine(p, loaded)
    BY <1>4 DEF Mine
  <1>6. /\ last \in Mine(p, loaded)
        /\ \A o \in Mine(p, loaded) \ {last} : LoadsBefore(o, last)
    BY <1>2, <1>4, <1>5, LastIsLoaded
  <1>7. last \in loaded /\ last \in Streams /\ mem'[last] = meta[last].entry
    BY <1>2, <1>3, <1>6 DEF Mine
  <1>8. meta[last].entry.public
    <2>1. CASE last = s
      BY <2>1, <1>4
    <2>2. CASE last # s
      <3>1. LoadsBefore(s, last)
        BY <2>2, <1>5, <1>6
      <3> QED BY <3>1, <1>4 DEF LoadsBefore
    <2> QED BY <2>1, <2>2
  <1>9. names'[p] = last /\ last # None
    BY <1>2, <1>4, <1>7, RegAssumption
  <1> QED BY <1>7, <1>8, <1>9

(* Anything else takes a name only from a stream that goes. *)
LEMMA NamesGoWithStreams ==
  ASSUME NamesInv, [RegNext]_regVars, ~Restart, NEW p \in Players,
         names[p] # None, mem'[names[p]] # None
  PROVE  names'[p] # None
  <1>1. CASE UNCHANGED names
    BY <1>1
  <1>2. ASSUME NEW t \in Tasks, CreateInsert(t) PROVE names'[p] # None
    <2>1. task[t].stream \in Streams /\ task[t].stream # None
      BY <1>2, WorkFacts, RegAssumption DEF CreateInsert, NamesInv
    <2> QED BY <1>2, <2>1 DEF CreateInsert, Insert, NamesInv
  <1>3. ASSUME NEW t \in Tasks, DeleteRemove(t) PROVE names'[p] # None
    <2>1. task[t].stream \in Streams
      BY <1>3, WorkFacts DEF DeleteRemove, NamesInv
    <2> QED BY <1>3, <2>1 DEF DeleteRemove, Remove, NamesInv, RegTypeOK
  <1> QED BY <1>1, <1>2, <1>3 DEF RegNext, regVars, CreateOpen, CreateMeta, PatchUpdate,
             PatchMeta, DeleteCheck, DeleteDir

(* After every restart a public name leads to a public stream of that identity
   whenever there is one, whatever private streams share it and whatever could
   not be read; until then a name is lost only with the stream it leads to
   (main.rs, streams.rs). *)
THEOREM PublicNamesHold == RegSpec => NamesHold
  <1>1. RegInit => PurgeInv /\ NamesInv
    BY InitPurge, RegAssumption DEF RegInit, PurgeInv, NamesInv, Stamped
  <1>2. PurgeInv /\ NamesInv /\ [RegNext]_regVars => PurgeInv' /\ NamesInv'
    BY PurgeStep, NamesStep
  <1>3. PurgeInv /\ NamesInv /\ [RegNext]_regVars =>
          [IF Restart THEN PublicIsFound'
           ELSE \A p \in Players :
                  names[p] # None /\ mem'[names[p]] # None => names'[p] # None]_regVars
    BY RestartFindsPublic, NamesGoWithStreams
  <1> QED BY <1>1, <1>2, <1>3, PTL DEF RegSpec, NamesHold
-----------------------------------------------------------------------------
(* Curation. *)

(* The markers there have been: ids are given in the order of inserts. *)
Given == {[id |-> n, insert |-> n] : n \in 1 .. markerSeq}

CurInv ==
  /\ markerSeq \in Nat
  /\ markers \subseteq Given
  /\ shown \in [Pages -> SUBSET Given]

LEMMA GivenById ==
  ASSUME NEW a \in Given, NEW b \in Given, a.id = b.id
  PROVE  a = b
  BY DEF Given

LEMMA GivenGrows ==
  ASSUME markerSeq \in Nat, markerSeq' = markerSeq + 1
  PROVE  Given \subseteq Given' /\ [id |-> markerSeq + 1, insert |-> markerSeq + 1] \in Given'
  BY DEF Given

LEMMA CurInitInv == CurInit => CurInv
  BY DEF CurInit, CurInv, Given

LEMMA CurList ==
  ASSUME CurInv, NEW p \in Pages, ListMarkers(p)
  PROVE  CurInv'
  BY DEF CurInv, ListMarkers, Given

LEMMA CurAdd ==
  ASSUME CurInv, NEW p \in Pages, AddMarker(p)
  PROVE  CurInv'
  <1> DEFINE marker == [id |-> markerSeq + 1, insert |-> markerSeq + 1]
  <1>1. /\ markerSeq \in Nat /\ markerSeq' = markerSeq + 1
        /\ markers' = markers \cup {marker}
        /\ shown' = [shown EXCEPT ![p] = @ \cup {marker}]
    BY DEF CurInv, AddMarker, NextMarkerId
  <1>2. Given \subseteq Given' /\ marker \in Given'
    BY <1>1, GivenGrows
  <1> HIDE DEF marker
  <1>3. markers' \subseteq Given'
    BY <1>1, <1>2 DEF CurInv
  <1>4. shown' \in [Pages -> SUBSET Given']
    BY <1>1, <1>2 DEF CurInv
  <1> QED BY <1>1, <1>3, <1>4 DEF CurInv

LEMMA CurDelete ==
  ASSUME CurInv, NEW p \in Pages, DeleteMarker(p)
  PROVE  CurInv'
  BY DEF CurInv, DeleteMarker, Given

LEMMA CurStep == CurInv /\ [CurNext]_curVars => CurInv'
  <1> SUFFICES ASSUME CurInv, [CurNext]_curVars PROVE CurInv'
    OBVIOUS
  <1>1. CASE UNCHANGED <<markers, markerSeq, shown>>
    BY <1>1 DEF CurInv, Given
  <1>2. ASSUME NEW p \in Pages, ListMarkers(p) \/ AddMarker(p) \/ DeleteMarker(p)
        PROVE  CurInv'
    BY <1>2, CurList, CurAdd, CurDelete
  <1> QED
    BY <1>1, <1>2 DEF CurNext, curVars, SetOverride, SetMember, SetPublic

(* One id, one marker: deleting by the id on an old list removes what that
   list showed (journal.rs:100-105, main.rs:849). *)
THEOREM OldListsAreSafe == CurSpec => StaleDeleteIsHarmless
  <1>1. CurInv /\ [CurNext]_curVars =>
          [\A p \in Pages : DeleteMarker(p) => markers \ markers' \subseteq shown[p]]_curVars
    <2> SUFFICES ASSUME CurInv, NEW p \in Pages, DeleteMarker(p), NEW r \in markers \ markers'
                 PROVE  r \in shown[p]
      BY DEF curVars
    <2>1. PICK m \in shown[p] : r.id = m.id
      BY DEF DeleteMarker
    <2> QED BY <2>1, GivenById DEF CurInv
  <1> QED BY <1>1, CurInitInv, CurStep, PTL DEF CurSpec, StaleDeleteIsHarmless
-----------------------------------------------------------------------------
(* The request limit. *)

LimTypes ==
  /\ clock \in Nat
  /\ ips \in [Addresses -> IpState \cup {Absent}]
  /\ recent \in [Clients -> [Watched -> 0 .. Window]]
  /\ banned \in [Clients -> Nat]

Newest(a) == \A i, j \in Watched : i <= j => a[i] <= a[j]

(* What an entry says of a client's passes, newest first.  With no entry, and
   once a ban is over, the last one is a window ago.  Otherwise those counted
   are of the entry's window, at most one more was let through at the window's
   start, and a window's worth before those are the last that can be recent. *)
Fits(a, e, now) ==
  /\ Newest(a) /\ a[2 * MaxRequests + 1] = Window
  /\ IF e = Absent THEN a[1] = Window
     ELSE /\ e.start <= now
          /\ e.until > 0 => a[1] = Window \/ a[1] + e.until >= Window + now
          /\ e.until = 0 =>
               /\ e.count <= MaxRequests
               /\ a[1] = Window \/ now < e.start + Window + a[1]
               /\ a[e.count + 1] = Window \/ now <= a[e.count + 1] + e.start
               /\ a[e.count + MaxRequests + 1] = Window

(* A client knows of no ban that its entry does not hold. *)
BanKept(c) == banned[c] > clock => ips[c] # Absent /\ ips[c].until >= banned[c]

LimInv ==
  /\ LimTypes
  /\ \A c \in Clients : Fits(recent[c], ips[c], clock) /\ BanKept(c)

LEMMA LimInitInv == LimInit => LimInv
  BY LimitAssumption DEF LimInit, LimInv, LimTypes, Newest, Fits, BanKept,
     Addresses, Watched

(* One more pass makes room at the front. *)
LEMMA PassShifts ==
  ASSUME LimTypes, NEW c \in Clients, Newest(recent[c])
  PROVE  /\ Passed(c) \in [Watched -> 0 .. Window]
         /\ Newest(Passed(c))
         /\ Passed(c)[1] = 0
         /\ \A i \in 1 .. 2 * MaxRequests : Passed(c)[i + 1] = recent[c][i]
  <1> DEFINE a == recent[c]
  <1>1. a \in [Watched -> 0 .. Window] /\ MaxRequests \in Nat \ {0} /\ Window \in Nat \ {0}
    BY LimitAssumption DEF LimTypes
  <1>2. /\ DOMAIN Passed(c) = Watched /\ Passed(c)[1] = 0
        /\ \A i \in Watched : i # 1 => Passed(c)[i] = a[i - 1] /\ i - 1 \in Watched
    BY <1>1 DEF Passed, Watched
  <1>3. \A i \in Watched : Passed(c)[i] \in 0 .. Window
    BY <1>1, <1>2
  <1>4. Passed(c) \in [Watched -> 0 .. Window]
    BY <1>3 DEF Passed
  <1>5. \A i \in 1 .. 2 * MaxRequests : Passed(c)[i + 1] = a[i]
    BY <1>1, <1>2 DEF Watched
  <1>6. ASSUME NEW i \in Watched, NEW j \in Watched, i <= j
        PROVE  Passed(c)[i] <= Passed(c)[j]
    <2>1. CASE i = 1
      BY <2>1, <1>1, <1>2, <1>3
    <2>2. CASE i # 1
      <3>1. i \in Int /\ j \in Int /\ j # 1 /\ i - 1 <= j - 1
        BY <1>6, <2>2, <1>1 DEF Watched
      <3>2. a[i - 1] <= a[j - 1]
        BY <1>2, <2>2, <3>1 DEF Newest
      <3> QED BY <1>2, <2>2, <3>1, <3>2
    <2> QED BY <2>1, <2>2
  <1> QED BY <1>2, <1>4, <1>5, <1>6 DEF Newest

(* Through the trusted proxy every request is its client's own. *)
LEMMA IpIsClients ==
  ASSUME TrustedProxy = Proxy, NEW c \in Clients, NEW peer \in Addresses,
         NEW header \in Clients \cup {Absent},
         peer = c \/ (peer = Proxy /\ header = c)
  PROVE  ClientIp(peer, header) = c
  BY LimitAssumption DEF ClientIp, Addresses

(* What a request does to the entry and the passes of its client. *)
LEMMA CheckedEntry ==
  ASSUME LimInv, NEW c \in Clients
  PROVE  Checked(c).entry \in IpState /\ Checked(c).pass \in BOOLEAN
  <1>1. ips[c] \in IpState \cup {Absent} /\ Fresh \in IpState /\ clock \in Nat
    BY DEF LimInv, LimTypes, Addresses, Fresh, IpState
  <1>2. /\ MaxRequests \in Nat /\ Window \in Nat /\ Ban \in Nat
    BY LimitAssumption
  <1> QED BY <1>1, <1>2 DEF Checked, IpState, Fresh

(* A request that passes. *)
LEMMA PassFits ==
  ASSUME LimInv, NEW c \in Clients, Checked(c).pass
  PROVE  Fits(Passed(c), Checked(c).entry, clock)
  <1> DEFINE a == recent[c]
             b == Passed(c)
             old == IF ips[c] = Absent THEN Fresh ELSE ips[c]
             e == Checked(c).entry
  <1>1. /\ MaxRequests \in Nat \ {0} /\ Window \in Nat \ {0} /\ Ban \in Nat /\ Ban >= Window
        /\ clock \in Nat /\ a \in [Watched -> 0 .. Window]
    BY LimitAssumption DEF LimInv, LimTypes
  <1>2. /\ Fresh \in IpState /\ Fresh.count = 0 /\ Fresh.start = clock /\ Fresh.until = 0
        /\ ips[c] \in IpState \cup {Absent}
    BY DEF LimInv, LimTypes, Addresses, Fresh, IpState
  <1>3. Newest(a) /\ Fits(a, ips[c], clock)
    BY DEF LimInv, Fits
  <1>4. /\ b \in [Watched -> 0 .. Window] /\ Newest(b) /\ b[1] = 0
        /\ \A i \in 1 .. 2 * MaxRequests : b[i + 1] = a[i]
    BY PassShifts, <1>3 DEF LimInv
  <1>5. e \in IpState /\ e # Absent
    BY CheckedEntry, LimitAssumption
  <1>6. old \in IpState /\ old.until <= clock
    BY <1>1, <1>2 DEF Checked, IpState
  <1>7. \A i \in 1 .. 2 * MaxRequests : a[i] \in 0 .. Window /\ b[i + 1] \in 0 .. Window /\ a[1] <= a[i]
    <2>1. \A i \in 1 .. 2 * MaxRequests :
            i \in Watched /\ i + 1 \in Watched /\ 1 \in Watched /\ 1 <= i
      BY <1>1 DEF Watched
    <2> HIDE DEF a, b
    <2> QED BY <2>1, <1>1, <1>3, <1>4 DEF Newest
  <1>8. /\ \A k \in Nat : k <= MaxRequests => k + 1 \in Watched /\ k + 1 <= MaxRequests + 1
        /\ \A k \in 1 .. MaxRequests : /\ k + MaxRequests + 1 \in Watched
                                      /\ 2 * MaxRequests + 1 \in Watched
                                      /\ k + MaxRequests + 1 <= 2 * MaxRequests + 1
    BY <1>1 DEF Watched
  <1>9. CASE old.until > 0
    <2>1. e = Fresh /\ ips[c] # Absent /\ old = ips[c]
      BY <1>6, <1>9, <1>2, <1>1 DEF Checked, IpState
    <2>2. a[1] = Window
      <3>1. a[1] \in 0 .. Window /\ old.until \in Nat
        BY <1>7, <1>1, <1>6 DEF IpState
      <3> QED BY <2>1, <1>3, <1>6, <1>9, <1>1, <3>1 DEF Fits
    <2>3. b[MaxRequests + 1] = Window
      <3>1. MaxRequests \in 1 .. 2 * MaxRequests
        BY <1>1
      <3>2. b[MaxRequests + 1] = a[MaxRequests] /\ a[MaxRequests] \in 0 .. Window /\ a[1] <= a[MaxRequests]
        BY <3>1, <1>7, <1>4
      <3> QED BY <3>2, <2>2, <1>1
    <2>4. Fits(b, e, clock)
      <3>1. b[2 * MaxRequests + 1] = Window
        BY <2>2, <1>4, <1>7, <1>1
      <3> HIDE DEF b, a, e
      <3> QED BY <3>1, <2>1, <2>3, <1>2, <1>4, <1>1, <1>5 DEF Fits
    <2> QED BY <2>4
  <1>10. CASE old.until = 0
    <2> DEFINE over == clock - old.start >= Window
               n == (IF over THEN 0 ELSE old.count) + 1
               start == IF over THEN clock ELSE old.start
    <2>1. n <= MaxRequests /\ e = [count |-> n, start |-> start, until |-> 0]
      BY <1>10, <1>1, <1>2, <1>6 DEF Checked, IpState
    <2>2. /\ old.start \in Nat /\ old.count \in Nat /\ old.start <= clock /\ old.count <= MaxRequests
          /\ a[1] = Window \/ clock < old.start + Window + a[1]
          /\ a[old.count + 1] = Window \/ clock <= a[old.count + 1] + old.start
          /\ a[old.count + MaxRequests + 1] = Window \/ old.count < MaxRequests
          /\ a[old.count + MaxRequests + 1] = Window
      <3>1. CASE ips[c] = Absent
        <4>1. a[1] = Window /\ old = Fresh
          BY <3>1, <1>3 DEF Fits
        <4>2. a[MaxRequests + 1] = Window
          <5>1. MaxRequests + 1 \in 1 .. 2 * MaxRequests
            BY <1>1
          <5> QED BY <5>1, <4>1, <1>7, <1>1
        <4> QED BY <4>1, <4>2, <1>1, <1>2
      <3>2. CASE ips[c] # Absent
        BY <3>2, <1>3, <1>6, <1>10 DEF Fits, IpState
      <3> QED BY <3>1, <3>2
    <2>3. n \in 1 .. MaxRequests /\ start \in Nat /\ start <= clock
      BY <2>1, <2>2, <1>1
    <2>4. b[1] = Window \/ clock < start + Window + b[1]
      BY <2>2, <1>1, <1>4
    <2>5. b[n + 1] = a[n] /\ a[n] \in 0 .. Window
      <3>1. n \in 1 .. 2 * MaxRequests
        BY <2>3, <1>1
      <3> QED BY <3>1, <1>4, <1>7
    <2>6. b[n + MaxRequests + 1] = a[n + MaxRequests] /\ a[n + MaxRequests] \in 0 .. Window
      <3>1. n + MaxRequests \in 1 .. 2 * MaxRequests
        BY <2>3, <1>1
      <3> QED BY <3>1, <1>4, <1>7
    <2>7. b[n + 1] = Window \/ clock <= b[n + 1] + start
      BY <2>5, <2>2, <2>3, <1>1
    <2>8. b[n + MaxRequests + 1] = Window
      <3>1. CASE over
        <4>1. n = 1 /\ a[old.count + 1] = Window
          <5>1. old.count + 1 \in Watched
            BY <2>2, <1>8
          <5>2. a[old.count + 1] \in 0 .. Window
            BY <5>1, <1>1
          <5> QED BY <3>1, <2>2, <5>2, <1>1
        <4>2. a[old.count + 1] <= a[MaxRequests + 1]
          <5> HIDE DEF old, a
          <5>1. /\ old.count + 1 \in Watched /\ MaxRequests + 1 \in Watched
                /\ old.count + 1 <= MaxRequests + 1
            BY <2>2, <1>8, <1>1
          <5> QED BY <5>1, <1>3 DEF Newest
        <4>3. a[MaxRequests + 1] = Window
          BY <4>1, <4>2, <2>6, <1>1
        <4> QED BY <4>1, <4>3, <2>6, <1>1
      <3>2. CASE ~over
        BY <3>2, <2>2, <2>6, <1>1
      <3> QED BY <3>1, <3>2
    <2>9. /\ e.count = n /\ e.start = start /\ e.until = 0
      BY <2>1
    <2>10. Fits(b, e, clock)
      <3>1. b[2 * MaxRequests + 1] = Window
        <4>1. /\ n + MaxRequests + 1 \in Watched /\ 2 * MaxRequests + 1 \in Watched
              /\ n + MaxRequests + 1 <= 2 * MaxRequests + 1
          BY <2>3, <1>8
        <4>2. b[2 * MaxRequests + 1] \in 0 .. Window
          BY <4>1, <1>4
        <4>3. b[n + MaxRequests + 1] <= b[2 * MaxRequests + 1]
          BY <4>1, <1>4 DEF Newest
        <4> HIDE DEF b, n
        <4> QED BY <4>2, <4>3, <2>8, <1>1
      <3> HIDE DEF b, a, n, start, e, old
      <3> QED BY <3>1, <2>3, <2>4, <2>7, <2>8, <2>9, <1>4, <1>1, <1>5 DEF Fits
    <2> QED BY <2>10
  <1> QED BY <1>9, <1>10, <1>6, <1>1 DEF IpState

(* A request that is turned away. *)
LEMMA RefusalFits ==
  ASSUME LimInv, NEW c \in Clients, ~Checked(c).pass
  PROVE  /\ Fits(recent[c], Checked(c).entry, clock)
         /\ Checked(c).entry # Absent
  <1> DEFINE a == recent[c]
             e == Checked(c).entry
  <1>1. /\ MaxRequests \in Nat \ {0} /\ Window \in Nat \ {0} /\ Ban \in Nat /\ Ban >= Window
        /\ clock \in Nat /\ a \in [Watched -> 0 .. Window] /\ a[1] \in 0 .. Window
    BY LimitAssumption DEF LimInv, LimTypes, Watched
  <1>2. /\ Fresh.count = 0 /\ Fresh.start = clock /\ Fresh.until = 0
        /\ ips[c] \in IpState \cup {Absent}
    BY DEF LimInv, LimTypes, Addresses, Fresh
  <1>3. Newest(a) /\ Fits(a, ips[c], clock)
    BY DEF LimInv, Fits
  <1>4. e # Absent
    BY CheckedEntry, LimitAssumption
  <1>5. CASE e = ips[c]
    BY <1>3, <1>4, <1>5
  <1>6. CASE e # ips[c]
    <2>1. e.start <= clock /\ e.until = clock + Ban
      <3>1. ips[c] # Absent => ips[c].start <= clock /\ ips[c].start \in Nat
        BY <1>2, <1>3 DEF Fits, IpState
      <3>2. CASE ips[c] = Absent
        BY <3>2, <1>2, <1>1, <1>6 DEF Checked
      <3>3. CASE ips[c] # Absent
        BY <3>1, <3>3, <1>2, <1>1, <1>6 DEF Checked
      <3> QED BY <3>2, <3>3
    <2>2. a[1] + e.until >= Window + clock /\ e.until > 0
      BY <2>1, <1>1
    <2>3. Fits(a, e, clock)
      <3> HIDE DEF a, e
      <3> QED BY <2>1, <2>2, <1>3, <1>4, <1>1 DEF Fits
    <2> QED BY <2>3, <1>4
  <1> QED BY <1>4, <1>5, <1>6

LEMMA RequestKeeps ==
  ASSUME LimInv, TrustedProxy = Proxy, NEW c \in Clients, NEW peer \in Addresses,
         NEW header \in Clients \cup {Absent}, Request(c, peer, header)
  PROVE  /\ LimInv'
         /\ \A d \in Clients : recent'[d] # recent[d] => banned[d] <= clock
  <1> DEFINE res == Checked(c)
  <1>1. /\ c \in Addresses /\ clock \in Nat /\ clock' = clock
        /\ ips' = [ips EXCEPT ![c] = res.entry]
        /\ recent' = IF res.pass THEN [recent EXCEPT ![c] = Passed(c)] ELSE recent
        /\ banned' = IF res.pass THEN banned ELSE [banned EXCEPT ![c] = res.entry.until]
    BY IpIsClients DEF Request, Addresses, LimInv, LimTypes
  <1>2. res.entry \in IpState /\ res.entry # Absent /\ res.pass \in BOOLEAN
    BY CheckedEntry, LimitAssumption
  <1>3. Passed(c) \in [Watched -> 0 .. Window]
    BY PassShifts DEF LimInv, Fits
  <1>4. LimTypes'
    <2>1. ips' \in [Addresses -> IpState \cup {Absent}]
      BY <1>1, <1>2 DEF LimInv, LimTypes
    <2>2. recent' \in [Clients -> [Watched -> 0 .. Window]]
      BY <1>1, <1>3 DEF LimInv, LimTypes
    <2>3. banned' \in [Clients -> Nat]
      <3>1. res.entry.until \in Nat
        BY <1>2 DEF IpState
      <3> HIDE DEF res
      <3> QED BY <1>1, <3>1 DEF LimInv, LimTypes
    <2>4. clock' \in Nat
      BY <1>1
    <2>5. LimTypes' <=> /\ clock' \in Nat /\ ips' \in [Addresses -> IpState \cup {Absent}]
                        /\ recent' \in [Clients -> [Watched -> 0 .. Window]]
                        /\ banned' \in [Clients -> Nat]
      BY DEF LimTypes, Addresses, Watched, IpState
    <2> QED BY <2>1, <2>2, <2>3, <2>4, <2>5
  <1>5. /\ ips'[c] = res.entry
        /\ recent'[c] = IF res.pass THEN Passed(c) ELSE recent[c]
        /\ banned'[c] = IF res.pass THEN banned[c] ELSE res.entry.until
    BY <1>1 DEF LimInv, LimTypes
  <1>6. \A d \in Clients \ {c} : /\ ips'[d] = ips[d] /\ recent'[d] = recent[d]
                                 /\ banned'[d] = banned[d]
    BY <1>1 DEF LimInv, LimTypes, Addresses
  <1>7. res.pass => banned[c] <= clock
    <2>1. CASE banned[c] > clock
      <3>1. ips[c] \in IpState /\ ips[c] # Absent /\ ips[c].until >= banned[c]
        BY <2>1 DEF LimInv, LimTypes, BanKept, Addresses
      <3>2. ips[c].until > clock
        BY <2>1, <3>1, <1>1 DEF LimInv, LimTypes, IpState
      <3> QED BY <3>1, <3>2 DEF Checked
    <2>2. CASE ~(banned[c] > clock)
      BY <2>2, <1>1 DEF LimInv, LimTypes
    <2> QED BY <2>1, <2>2
  <1>8. Fits(recent'[c], ips'[c], clock)
    <2>1. CASE res.pass
      BY <2>1, <1>5, PassFits
    <2>2. CASE ~res.pass
      BY <2>2, <1>5, RefusalFits
    <2> QED BY <2>1, <2>2
  <1>9. banned'[c] > clock => ips'[c] # Absent /\ ips'[c].until >= banned'[c]
    <2>1. res.entry.until \in Nat
      BY <1>2 DEF IpState
    <2>2. banned[c] \in Nat
      BY DEF LimInv, LimTypes
    <2> HIDE DEF res
    <2> QED BY <1>1, <1>2, <1>5, <1>7, <2>1, <2>2
  <1>10. \A d \in Clients : /\ Fits(recent'[d], ips'[d], clock')
                            /\ banned'[d] > clock' => ips'[d] # Absent /\ ips'[d].until >= banned'[d]
    <2> SUFFICES ASSUME NEW d \in Clients
                 PROVE  /\ Fits(recent'[d], ips'[d], clock)
                        /\ banned'[d] > clock => ips'[d] # Absent /\ ips'[d].until >= banned'[d]
      BY <1>1
    <2>1. CASE d = c
      BY <2>1, <1>8, <1>9
    <2>2. CASE d # c
      BY <2>2, <1>6 DEF LimInv, BanKept
    <2> QED BY <2>1, <2>2
  <1>11. LimInv'
    BY <1>4, <1>10 DEF LimInv, Fits, Newest, BanKept
  <1>12. ASSUME NEW d \in Clients, recent'[d] # recent[d] PROVE banned[d] <= clock
    BY <1>12, <1>5, <1>6, <1>7
  <1> QED BY <1>11, <1>12

LEMMA CleanupKeeps ==
  ASSUME LimInv, Cleanup
  PROVE  LimInv'
  <1> DEFINE ips1 == [a \in Addresses |->
               IF ips[a] # Absent /\ (ips[a].until > clock \/ clock - ips[a].start < 3 * Window)
               THEN ips[a] ELSE Absent]
  <1>1. ips' = ips1 /\ clock' = clock /\ recent' = recent /\ banned' = banned
    BY DEF Cleanup
  <1>2. LimTypes'
    BY <1>1 DEF LimInv, LimTypes, Addresses, Watched, IpState
  <1>3. ASSUME NEW c \in Clients
        PROVE  Fits(recent[c], ips1[c], clock) /\ (BanKept(c))'
    <2>1. CASE ips1[c] = ips[c]
      BY <1>1, <1>3, <2>1 DEF LimInv, BanKept
    <2>2. CASE ips1[c] # ips[c]
      <3>1. /\ ips1[c] = Absent /\ ips[c] \in IpState /\ ips[c] # Absent
            /\ ~(ips[c].until > clock) /\ ~(clock - ips[c].start < 3 * Window)
        BY <1>3, <2>2 DEF LimInv, LimTypes, Addresses
      <3>2. /\ clock \in Nat /\ banned[c] \in Nat /\ recent[c][1] \in 0 .. Window
            /\ Window \in Nat \ {0} /\ ips[c].start \in Nat /\ ips[c].until \in Nat
        BY <3>1, <1>3, LimitAssumption DEF LimInv, LimTypes, Watched, IpState
      <3>3. recent[c][1] = Window
        BY <3>1, <3>2, <1>3 DEF LimInv, Fits
      <3>4. banned[c] <= clock
        BY <3>1, <3>2, <1>3 DEF LimInv, BanKept
      <3> QED BY <1>1, <1>3, <3>1, <3>2, <3>3, <3>4 DEF LimInv, Fits, BanKept
    <2> QED BY <2>1, <2>2
  <1> HIDE DEF ips1
  <1> QED BY <1>1, <1>2, <1>3 DEF LimInv, Fits, Newest, BanKept

LEMMA TickKeepsLimit ==
  ASSUME LimInv, Tick
  PROVE  LimInv'
  <1> DEFINE older(a) == [i \in Watched |-> IF a[i] < Window THEN a[i] + 1 ELSE Window]
  <1>1. /\ clock \in Nat /\ clock' = clock + 1 /\ ips' = ips /\ banned' = banned
        /\ recent' = [c \in Clients |-> older(recent[c])]
        /\ MaxRequests \in Nat \ {0} /\ Window \in Nat \ {0}
    BY LimitAssumption DEF Tick, LimInv, LimTypes
  <1>2. ASSUME NEW c \in Clients
        PROVE  /\ older(recent[c]) \in [Watched -> 0 .. Window]
               /\ Fits(older(recent[c]), ips[c], clock + 1)
               /\ banned[c] > clock + 1 => ips[c] # Absent /\ ips[c].until >= banned[c]
    <2> DEFINE a == recent[c]
               b == older(recent[c])
               e == ips[c]
    <2>1. /\ a \in [Watched -> 0 .. Window] /\ banned[c] \in Nat
          /\ e \in IpState \cup {Absent} /\ Fits(a, e, clock) /\ BanKept(c)
      BY <1>2 DEF LimInv, LimTypes, Addresses
    <2>2. \A i \in Watched : /\ a[i] \in 0 .. Window /\ b[i] \in 0 .. Window
                             /\ b[i] = Window \/ b[i] = a[i] + 1
                             /\ a[i] = Window => b[i] = Window
                             /\ b[i] = IF a[i] < Window THEN a[i] + 1 ELSE Window
      BY <2>1, <1>1
    <2>3. b \in [Watched -> 0 .. Window]
      BY <2>2
    <2>4. Newest(b)
      <3>1. \A i, j \in Watched : i <= j => a[i] <= a[j]
        BY <2>1 DEF Fits, Newest
      <3> HIDE DEF a, b
      <3> QED BY <3>1, <2>2, <1>1 DEF Newest
    <2>5. Fits(b, e, clock + 1)
      <3>1. 1 \in Watched /\ b[2 * MaxRequests + 1] = Window
        <4>1. 1 \in Watched /\ 2 * MaxRequests + 1 \in Watched
          BY <1>1 DEF Watched
        <4> QED BY <4>1, <2>1, <2>2 DEF Fits
      <3>2. CASE e = Absent
        BY <3>1, <3>2, <2>1, <2>2, <2>4 DEF Fits
      <3>3. CASE e # Absent /\ e.until > 0
        <4>1. e.start \in Nat /\ e.until \in Nat
          BY <2>1, <3>3 DEF IpState
        <4> HIDE DEF a, b, e
        <4> QED BY <3>1, <3>3, <4>1, <2>1, <2>2, <2>4, <1>1 DEF Fits
      <3>4. CASE e # Absent /\ e.until = 0
        <4>1. e.start \in Nat /\ e.count \in Nat
          BY <2>1, <3>4 DEF IpState
        <4>2. e.count + 1 \in Watched /\ e.count + MaxRequests + 1 \in Watched
          <5>1. e.count <= MaxRequests
            BY <2>1, <3>4 DEF Fits
          <5> HIDE DEF e
          <5> QED BY SMTT(20), <5>1, <4>1, <1>1 DEF Watched
        <4> HIDE DEF a, b, e
        <4> QED BY <3>1, <3>4, <4>1, <4>2, <2>1, <2>2, <2>4, <1>1 DEF Fits
      <3>5. e # Absent => e.until = 0 \/ e.until > 0
        BY <2>1 DEF IpState
      <3> QED BY <3>2, <3>3, <3>4, <3>5
    <2>6. banned[c] > clock + 1 => e # Absent /\ e.until >= banned[c]
      BY <2>1, <1>1 DEF BanKept
    <2> QED BY <2>3, <2>5, <2>6
  <1> HIDE DEF older
  <1>3. LimTypes'
    BY <1>1, <1>2 DEF LimInv, LimTypes, Addresses, Watched, IpState
  <1> QED BY <1>1, <1>2, <1>3 DEF LimInv, Fits, Newest, BanKept

LEMMA LimStep ==
  ASSUME TrustedProxy = Proxy, LimInv, [LimNext]_limVars
  PROVE  /\ LimInv'
         /\ \A c \in Clients : recent'[c] # recent[c] /\ clock' = clock => banned[c] <= clock
  <1>1. CASE UNCHANGED limVars
    BY <1>1 DEF limVars, LimInv, LimTypes, Fits, Newest, BanKept
  <1>2. CASE Cleanup
    BY <1>2, CleanupKeeps DEF Cleanup
  <1>3. CASE Tick
    <2>1. clock' # clock
      BY <1>3 DEF Tick, LimInv, LimTypes
    <2> QED BY <1>3, <2>1, TickKeepsLimit
  <1>4. CASE \E c \in Clients, peer \in Addresses, header \in Clients \cup {Absent} :
               Request(c, peer, header)
    BY <1>4, RequestKeeps
  <1> QED BY <1>1, <1>2, <1>3, <1>4 DEF LimNext

(* With the reverse proxy trusted, no headers, no cleanup, no ban that ends and
   no window that begins anew let a client pass more than two windows' worth
   within one window, or pass during a ban it was told of (ratelimit.rs:41-108,
   main.rs). *)
THEOREM LimitCannotBeStretched == LimSpec => LimitHolds
  <1>1. CASE TrustedProxy # Proxy
    <2>1. [LimNext]_limVars =>
            [\A c \in Clients : TrustedProxy = Proxy =>
               /\ recent'[c] # recent[c] /\ clock' = clock => banned[c] <= clock
               /\ recent'[c][2 * MaxRequests + 1] = Window]_limVars
      BY <1>1
    <2> QED BY <2>1, PTL DEF LimSpec, LimitHolds
  <1>2. CASE TrustedProxy = Proxy
    <2>1. LimInv /\ [LimNext]_limVars => LimInv'
      BY <1>2, LimStep
    <2>2. LimInv /\ LimInv' /\ [LimNext]_limVars =>
            [\A c \in Clients : TrustedProxy = Proxy =>
               /\ recent'[c] # recent[c] /\ clock' = clock => banned[c] <= clock
               /\ recent'[c][2 * MaxRequests + 1] = Window]_limVars
      <3>1. ASSUME LimInv', NEW c \in Clients
            PROVE  recent'[c][2 * MaxRequests + 1] = Window
        BY <3>1 DEF LimInv, Fits
      <3> QED BY <1>2, <3>1, LimStep
    <2> QED BY <2>1, <2>2, LimInitInv, PTL DEF LimSpec, LimitHolds
  <1> QED BY <1>1, <1>2
=============================================================================
