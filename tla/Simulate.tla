------------------------------- MODULE Simulate -------------------------------
(***************************************************************************)
(* smpp::simulate(): shuffle and sort the caller's tasks, sort a copy of   *)
(* the processors, run the task processor on both, and read the finish     *)
(* time of every user off the back of the result vector.                   *)
(***************************************************************************)
EXTENDS TaskProcessor, FiniteSets

CONSTANT ArgInputs   \* the remaining arguments: records of type Arguments

\* `shuffle` is left out: the sort that follows is not stable, so what is known
\* of the order of the tasks is the same without it.
Arguments == [task_comp : {"small_first", "large_first"},
              proc_comp : {"slow_first", "fast_first"},
              n_user_hint : Nat]

ASSUME ArgumentsAssumption == ArgInputs \subseteq Arguments

\* The result is indexed with user ids and never checked: the callers pass the
\* number of slice sizes the tasks were made from.
ASSUME UsersAssumption ==
    \A ts \in TaskInputs, arg \in ArgInputs : \A k \in DOMAIN ts :
        ts[k].userid < arg.n_user_hint

VARIABLES
    args,      \* the arguments, see Arguments
    phase,     \* the statement simulate() is at
    curr,      \* the position in processed_tasks of the reverse iterator
    idx,       \* the users whose finish time is known
    times      \* the result: the finish time per user

sim_vars == <<args, phase, curr, idx, times>>
all_vars == <<vars, sim_vars>>

Users == 0..(args.n_user_hint - 1)
-------------------------------------------------------------------------------
TaskBefore(l, r) ==
    \/ args.task_comp = "small_first" /\ l.complexity < r.complexity
    \/ args.task_comp = "large_first" /\ l.complexity > r.complexity

ProcBefore(l, r) ==
    \/ args.proc_comp = "slow_first" /\ l < r
    \/ args.proc_comp = "fast_first" /\ l > r

Positions(s, x) == {k \in DOMAIN s : s[k] = x}

\* The orders of a vector: the same elements, each as often.
Rearrangements(s) ==
    LET elements == {s[k] : k \in DOMAIN s}
    IN  {t \in [DOMAIN s -> elements] :
            \A x \in elements : Cardinality(Positions(t, x)) = Cardinality(Positions(s, x))}

\* Faulty variants: the tasks are not sorted, the processors the other way round.
ShuffledTasks == Rearrangements(tasks)
SortedProcsBackwards ==
    {t \in Rearrangements(procs) : \A j, k \in DOMAIN t : j < k => ~ProcBefore(t[j], t[k])}

\* std::sort is not stable: any order the comparator does not refute.
SortedTasks ==
    {t \in Rearrangements(tasks) : \A j, k \in DOMAIN t : j < k => ~TaskBefore(t[k], t[j])}
SortedProcs ==
    {t \in Rearrangements(procs) : \A j, k \in DOMAIN t : j < k => ~ProcBefore(t[k], t[j])}

SimInit ==
    /\ Init
    /\ args \in ArgInputs
    /\ phase = "sort"
    /\ curr = 0
    /\ idx = {}
    /\ times = [u \in Users |-> 0]

\* Faulty variant of Sort: the vector is sorted again after the run.
SortAgain ==
    /\ phase \in {"sort", "collect"}
    /\ tasks' \in SortedTasks /\ procs' \in SortedProcs
    /\ phase' = IF phase = "collect" THEN phase ELSE "process"
    /\ UNCHANGED <<p_queue, processed_tasks, i, task_iterator, pc, args, curr, idx, times>>

\* The caller's tasks are rearranged in place, the processors in a copy.
Sort ==
    /\ phase = "sort"
    /\ tasks' \in SortedTasks /\ procs' \in SortedProcs
    /\ phase' = "process"
    /\ UNCHANGED <<p_queue, processed_tasks, i, task_iterator, pc, args, curr, idx, times>>

\* tprocessor(procs, tasks_to_process)
RunProcessor ==
    /\ phase = "process"
    /\ Step
    /\ UNCHANGED sim_vars

ProcessorReturned ==
    /\ phase = "process" /\ pc = "done"
    /\ phase' = "collect"
    /\ curr' = Len(processed_tasks)
    /\ UNCHANGED <<vars, args, idx, times>>

\* idx.insert(user).second; the faulty variant ignores the outcome.
AnySight(user) == TRUE
FirstSight(user) == user \notin idx

\* One iteration of the loop over the completions, last one first: the first
\* sight of a user is its finish time, and the last user ends the loop.
Collect ==
    /\ phase = "collect"
    /\ curr > 0
    /\ LET tc == processed_tasks[curr]
           user == tasks[tc.task].userid
           seen == idx \cup {user}
       IN  \/ /\ FirstSight(user)
              /\ idx' = seen
              /\ times' = [times EXCEPT ![user] = tc.time_end]
              /\ phase' = IF Cardinality(seen) = args.n_user_hint THEN "done" ELSE phase
           \/ ~FirstSight(user) /\ UNCHANGED <<idx, times, phase>>
    /\ curr' = curr - 1
    /\ UNCHANGED <<vars, args>>

CollectOver ==
    /\ phase = "collect"
    /\ curr = 0
    /\ phase' = "done"
    /\ UNCHANGED <<vars, args, curr, idx, times>>

\* With return_processed the result includes processed_tasks as it is.
SimTerminated == phase = "done" /\ UNCHANGED all_vars

SimStep == Sort \/ RunProcessor \/ ProcessorReturned \/ Collect \/ CollectOver
SimNext == SimStep \/ SimTerminated

SimSpec == SimInit /\ [][SimNext]_all_vars
SimFairSpec == SimSpec /\ WF_all_vars(SimStep)
-------------------------------------------------------------------------------
\* The types of the variables; every user met is one the result has room for.
SimTypeOK ==
    /\ TypeOK
    /\ args \in Arguments
    /\ phase \in {"sort", "process", "collect", "done"}
    /\ curr \in 0..Len(processed_tasks)
    /\ idx \subseteq Users
    /\ times \in [Users -> Double]

\* The completions of one user, among those in the result vector.
Of(user) == {r \in Processed : tasks[r.task].userid = user}

\* What the caller reads as the user's time is the moment its last task ends,
\* though the scan stops as soon as it has seen every user, and 0 if the user
\* has no task.
TimesAreFinishTimes ==
    phase = "done" /\ NonNegativeDurations =>
        \A u \in Users :
            IF Of(u) = {} THEN times[u] = 0
            ELSE /\ \E r \in Of(u) : times[u] = r.time_end
                 /\ \A r \in Of(u) : r.time_end <= times[u]

\* The chosen priority is what the schedule shows: of two tasks, the one the
\* comparator prefers never starts later, whoever the workers are.
PriorityServed ==
    NonNegativeDurations =>
        \A r, s \in Started :
            TaskBefore(tasks[r.task], tasks[s.task]) => r.time_start <= s.time_start

\* In the first wave the preferred tasks meet the preferred processors.
FirstWaveByRank ==
    \A r, s \in Started :
        /\ r.task <= Len(procs) /\ s.task <= Len(procs)
        /\ TaskBefore(tasks[r.task], tasks[s.task])
        => ~ProcBefore(procs[s.worker_index], procs[r.worker_index])

\* Completions point into the caller's task vector and index the sorted copy of
\* the processors: neither may be rearranged once there is a completion.
PointersStayValid ==
    [][Started # {} => UNCHANGED <<tasks, procs>>]_all_vars

\* Every call returns, and leaves a task for no one to do: all are processed.
CallReturns == <>(phase = "done" /\ {r.task : r \in Processed} = DOMAIN tasks)
===============================================================================
