------------------------------ MODULE MCSimulate ------------------------------
(***************************************************************************)
(* Instances of Simulate for TLC.                                          *)
(***************************************************************************)
EXTENDS Simulate, MiniDouble

CONSTANTS MaxProcs, MaxTasks, Speeds, TaskKinds

UpTo(set, lo, n) == UNION {[1..len -> set] : len \in lo..n}

Task(c, b, u) == [complexity |-> c, bits_to_transfer |-> b, userid |-> u]

\* Two users, each with a light and a heavy task; one weight is common to both.
TwoUserTasks == {Task(1, 1, 0), Task(3, 1, 0), Task(1, 1, 1), Task(2, 1, 1)}

MCProcInputs == UpTo(Speeds, 1, MaxProcs)
MCArgInputs == [task_comp : {"small_first", "large_first"},
                proc_comp : {"slow_first", "fast_first"}, n_user_hint : {2}]
MCTaskInputs == UpTo(TaskKinds, 0, MaxTasks)
===============================================================================
