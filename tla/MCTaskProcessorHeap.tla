-------------------------- MODULE MCTaskProcessorHeap --------------------------
(***************************************************************************)
(* An instance of TaskProcessorHeap for TLC.                               *)
(***************************************************************************)
EXTENDS TaskProcessorHeap, MiniDouble

CONSTANTS MaxProcs, MaxTasks, Speeds, Weights

UpTo(set, lo, n) == UNION {[1..len -> set] : len \in lo..n}

Task(c) == [complexity |-> c, bits_to_transfer |-> 1, userid |-> 0]

MCProcInputs == UpTo(Speeds, 1, MaxProcs)
MCTaskInputs == UpTo({Task(c) : c \in Weights}, 0, MaxTasks)
===============================================================================
