--------------------------- MODULE MCTaskProcessor ----------------------------
(***************************************************************************)
(* Instances of TaskProcessor and ListSchedule for TLC.                    *)
(***************************************************************************)
EXTENDS ListSchedule, MiniDouble

CONSTANTS MaxProcs, MaxTasks, Speeds, TaskKinds

UpTo(set, lo, n) == UNION {[1..len -> set] : len \in lo..n}

Task(c, b) == [complexity |-> c, bits_to_transfer |-> b, userid |-> 0]

\* A light task, one that mostly transfers and one that mostly computes.
MixedTasks == {Task(1, 1), Task(1, 3), Task(3, 1)}
UnevenTasks == {Task(1, 1), Task(4, 1)}

NegativePing == -4
NegativeMips == {-1, 1, 2}

MCProcInputs == UpTo(Speeds, 1, MaxProcs)
MCTaskInputs == UpTo(TaskKinds, 0, MaxTasks)
===============================================================================
