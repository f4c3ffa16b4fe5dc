--------------------------------- MODULE MCRow ---------------------------------
(***************************************************************************)
(* Instances of Row for TLC.                                               *)
(***************************************************************************)
EXTENDS Row, MiniDouble

CONSTANTS MaxProcs, Speeds, ProblemSizes, Slices, MaxTasks

MCProcInputs == UNION {[1..n -> Speeds] : n \in 1..MaxProcs}
MCTaskInputs == {<<>>}
MCArgInputs == [task_comp : {"small_first", "large_first"},
                proc_comp : {"slow_first", "fast_first"}, n_user_hint : {1, 2}]

\* One player or two, with at most MaxTasks tasks together.
MCJobInputs ==
    {jb \in [problem_size : ProblemSizes, slice_sizes : [1..1 -> Slices] \cup [1..2 -> Slices]] :
        Reserved(jb) <= MaxTasks}
===============================================================================
