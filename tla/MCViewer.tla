------------------------------ MODULE MCViewer ------------------------------
(* An instance of Viewer for TLC. *)
EXTENDS Viewer

(* The log is a second ahead of the server, so the two kinds of seeks to the
   same time end at different positions. *)
LogAhead == <<2, 3>>

(* Every kind of message; together the targets reach every position. *)
SomeMsgs ==
  [t : {"seek", "seek_full"}, clock : {"wall", "log"}, to : {3}, play : BOOLEAN]
  \cup [t : {"preload_range"}, from : {2}, to : {3}]
  \cup [t : {"preload_range"}, from : {3}, to : {2}]
  \cup [t : {"pause", "resume", "live"}]
=============================================================================
