---------------------------- MODULE RateLimiter ----------------------------
(***************************************************************************)
(* The per-address request limit in front of every froklog-server route    *)
(* (ratelimit.rs) and how a request's address is found (client_ip in       *)
(* main.rs).  Requests come from clients directly or through the reverse   *)
(* proxy, which names the client in a header; a direct request may carry   *)
(* any header.                                                             *)
(*                                                                         *)
(* Simplification: the X-Forwarded-For and X-Real-IP headers are one, None *)
(* when both are absent.                                                   *)
(***************************************************************************)
EXTENDS Naturals

CONSTANTS
  Clients,      \* client addresses
  Proxy,        \* the reverse proxy's address
  TrustedProxy, \* trusted_proxy of the config, None when empty or invalid
  MaxRequests, Window, Ban,   \* rate_max, rate_window_secs, ban_secs
  MaxTime,      \* bound on the clock
  Absent        \* no header, no entry

IpState == [count : Nat, start : Nat, until : Nat]   \* until is 0 without a ban

ASSUME LimitAssumption ==
  /\ MaxRequests \in Nat \ {0} /\ Window \in Nat \ {0}
  /\ Ban \in Nat /\ Ban >= Window
  /\ Proxy \notin Clients /\ Absent \notin Clients \cup {Proxy} \cup IpState

VARIABLES
  clock,
  ips,          \* address -> its IpState, Absent when there is none
  recent,       \* ghost: client -> ages of its last passes, newest first, at most Window
  banned        \* ghost: client -> end of the ban it was last told of

limVars == <<clock, ips, recent, banned>>

Addresses == Clients \cup {Proxy}
Watched == 1 .. 2 * MaxRequests + 1   \* the passes remembered

LimInit ==
  /\ clock = 0
  /\ ips = [a \in Addresses |-> Absent]
  /\ recent = [c \in Clients |-> [i \in Watched |-> Window]]
  /\ banned = [c \in Clients |-> 0]

(* client_ip *)
ClientIp(peer, header) ==
  IF TrustedProxy # Absent /\ peer # TrustedProxy THEN peer
  ELSE IF header = Absent THEN peer ELSE header

(* check: the entry after a request, and whether it may pass. *)
Fresh == [count |-> 0, start |-> clock, until |-> 0]

(* A ban that has ended clears the entry and lets its request pass
   uncounted.  Otherwise the request counts in the current window, which
   starts anew once it is over; one too many brings the ban. *)
Checked(a) ==
  LET old == IF ips[a] = Absent THEN Fresh ELSE ips[a]
      over == clock - old.start >= Window
      n == (IF over THEN 0 ELSE old.count) + 1
      start == IF over THEN clock ELSE old.start
  IN IF old.until > clock THEN [pass |-> FALSE, entry |-> old]
     ELSE IF old.until > 0 THEN [pass |-> TRUE, entry |-> Fresh]
     ELSE IF n > MaxRequests
     THEN [pass |-> FALSE, entry |-> [count |-> n, start |-> start, until |-> clock + Ban]]
     ELSE [pass |-> TRUE, entry |-> [count |-> n, start |-> start, until |-> 0]]

(* Ghost: one more pass of a client. *)
Passed(c) == [i \in Watched |-> IF i = 1 THEN 0 ELSE recent[c][i - 1]]

(* rate_limit_middleware: client c asks, directly or through the proxy. *)
Request(c, peer, header) ==
  LET a == ClientIp(peer, header)
      res == Checked(a)
  IN /\ peer = c \/ (peer = Proxy /\ header = c)
     /\ ips' = [ips EXCEPT ![a] = res.entry]
     /\ recent' = IF res.pass THEN [recent EXCEPT ![c] = Passed(c)] ELSE recent
     /\ banned' = IF res.pass THEN banned
                  ELSE [banned EXCEPT ![c] = res.entry.until]
     /\ UNCHANGED clock

(* Faulty variant: a ban does not keep the entry. *)
CleanupForgetsBans ==
  /\ ips' = [a \in Addresses |->
               IF ips[a] # Absent /\ clock - ips[a].start < 3 * Window
               THEN ips[a] ELSE Absent]
  /\ ips' # ips
  /\ UNCHANGED <<clock, recent, banned>>

(* cleanup, every 300 s. *)
Cleanup ==
  /\ ips' = [a \in Addresses |->
               IF ips[a] # Absent /\ (ips[a].until > clock
                                      \/ clock - ips[a].start < 3 * Window)
               THEN ips[a] ELSE Absent]
  /\ ips' # ips
  /\ UNCHANGED <<clock, recent, banned>>

Tick ==
  /\ clock < MaxTime
  /\ clock' = clock + 1
  /\ recent' = [c \in Clients |-> [i \in Watched |->
                  IF recent[c][i] < Window THEN recent[c][i] + 1 ELSE Window]]
  /\ UNCHANGED <<ips, banned>>

LimNext ==
  \/ \E c \in Clients, peer \in Addresses, header \in Clients \cup {Absent} :
       Request(c, peer, header)
  \/ Cleanup
  \/ Tick

LimSpec == LimInit /\ [][LimNext]_limVars
-----------------------------------------------------------------------------
(* Whatever the headers and whatever the cleanup evicts, a request is let
   through only when its client is not under a ban it was told of, and only
   while no more than two windows' worth passed in the length of one window:
   a new window, a ban that ends and an evicted entry never add up to more. *)
LimitHolds ==
  [][\A c \in Clients : TrustedProxy = Proxy =>
       /\ recent'[c] # recent[c] /\ clock' = clock => banned[c] <= clock
       /\ recent'[c][2 * MaxRequests + 1] = Window]_limVars
=============================================================================
