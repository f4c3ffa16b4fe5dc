----------------------------- MODULE ListSchedule ------------------------------
(***************************************************************************)
(* What the event loop of TaskProcessor makes of a list of tasks when the  *)
(* processors are equal: a list schedule, known in advance up to the names *)
(* of the workers, and not far from the best there is.                     *)
(***************************************************************************)
EXTENDS TaskProcessor, Sums

Fs == INSTANCE FiniteSetsExt
Fn == INSTANCE Functions

IdenticalProcs == \A v, w \in DOMAIN procs : procs[v] = procs[w]
Costs == [t \in DOMAIN tasks |-> Duration(procs[1], tasks[t])]

\* Until when worker w has been given work.
Load(w) == Fs!Max({0} \cup {r.time_end : r \in {q \in Started : q.worker_index = w}})

\* Reference: give every task in turn to a least loaded worker.
Give(load, cost) ==
    LET w == CHOOSE v \in DOMAIN load : \A u \in DOMAIN load : load[v] <= load[u]
    IN  [load EXCEPT ![w] = Plus(@, cost)]

\* The loads of the workers when the first n tasks have been given away.
LoadsAfter(workers, costs) ==
    LET loads[n \in 0..Len(costs)] ==
            IF n = 0 THEN [w \in workers |-> 0] ELSE Give(loads[n - 1], costs[n])
    IN  loads
GreedyLoads == LoadsAfter(DOMAIN procs, Costs)
-------------------------------------------------------------------------------
\* On equal processors the order in which the library's heap breaks ties does not
\* show in the result, though which worker runs which task depends on it: at every
\* moment the workers' loads are those of the reference, whose workers bear other
\* names; and every task starts when the reference starts it.
TiesDoNotMatter ==
    IdenticalProcs /\ NonNegativeDurations =>
        /\ \E f \in Fn!Bijection(DOMAIN procs, DOMAIN procs) :
              \A w \in DOMAIN procs : Load(w) = GreedyLoads[task_iterator - 1][f[w]]
        /\ \A r \in Started :
              /\ \E w \in DOMAIN procs : r.time_start = GreedyLoads[r.task - 1][w]
              /\ \A w \in DOMAIN procs : r.time_start <= GreedyLoads[r.task - 1][w]

\* The most by which a finish time of this schedule has been rounded up.
Excesses == {0} \cup {r.time_end - (r.time_start + Costs[r.task]) : r \in Started}
RoundedUp == Fs!Max(Excesses)

\* Graham's bound for list scheduling on m equal processors, with what rounding can
\* add to it: when a task ends, m times that is no more than the work up to and
\* including this task and m - 1 times the task itself, and one rounding for each time
\* a task is counted.  (Of the task that ends last this is the bound on the makespan.)
\* A schedule that leaves a worker idle, or lets a task overtake, exceeds it.
GrahamBound ==
    LET m == Len(procs)
        Work == PartialSums(Costs)
    IN  IdenticalProcs /\ NonNegativeDurations =>
            \A r \in Started :
                m * r.time_end <= Work[r.task] + (m - 1) * Costs[r.task]
                                    + (r.task + m - 1) * RoundedUp
===============================================================================
