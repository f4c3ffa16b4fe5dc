---------------------------- MODULE MCPriorityQueue ----------------------------
(***************************************************************************)
(* An instance of PriorityQueue for TLC: entries with finish times, some   *)
(* of them equal, popped earliest first.                                   *)
(***************************************************************************)
EXTENDS PriorityQueue

CONSTANT EndTimes

\* Two entries for every finish time.
MCElement == [time_end : EndTimes, task : {1, 2}]

LaterFirst(l, r) == l.time_end > r.time_end
===============================================================================
