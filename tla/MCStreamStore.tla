--------------------------- MODULE MCStreamStore ---------------------------
(* Instances of StreamStore for TLC.  Log seconds are small numbers: a gap is
   3 seconds and a split window 1. *)
EXTENDS StreamStore

Ev(t, k) == [ts |-> t, kind |-> k]
Combat(t) == {Ev(t, "combat")}
Login(t) == {Ev(t, "login")}

(* Play, a login, play after a break, and raid calls, two in one batch. *)
RaidPlayBatches == {Combat(1), Login(4), Combat(7), {Ev(4, "raid"), Ev(7, "raid")}}

(* One push that spans a break: it is split in two. *)
DumpBatches == {Combat(1), Combat(1) \cup Login(4), Combat(4) \cup Combat(7)}

(* No logins, every batch has events; one is split, and its last window takes
   in what lies beyond MaxWindows. *)
GapBatches == {Combat(1), Combat(2), Combat(4), Combat(1) \cup Combat(4) \cup Combat(7)}

(* One of each kind of thing ingest handles, and a kind of event that this
   server does not know. *)
FaultBatches == {Login(4), {Ev(1, "raid"), Ev(4, "combat")}, {Ev(0, "unknown")}}
=============================================================================
