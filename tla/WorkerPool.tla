------------------------------ MODULE WorkerPool ------------------------------
(***************************************************************************)
(* What a list schedule promises, with no queue and no loop: a pool of     *)
(* workers that run in parallel in simulated time and take the tasks of a  *)
(* list in order.  A worker that becomes free takes the next task at that  *)
(* very moment, and time never advances over an idle worker while a task   *)
(* waits.  TaskProcessor, the event loop of the code, implements it.       *)
(***************************************************************************)
EXTENDS Integers, Sequences

CONSTANTS
    Double,       \* the times, see TaskProcessor
    Plus(_, _)    \* their sum

VARIABLES
    cost,        \* cost[w][t]: how long worker w takes for task t
    ntasks,      \* tasks are numbered 1..ntasks, in list order
    now,         \* simulated time
    running,     \* running[w]: the one job of worker w, or {} when it is idle
    dispatched,  \* tasks 1..dispatched have been given to a worker
    finished     \* the jobs that have ended

vars == <<cost, ntasks, now, running, dispatched, finished>>

Workers == DOMAIN cost
Waiting == dispatched < ntasks
Idle(w) == running[w] = {}

\* Worker w takes the first waiting task at time t.
JobAt(w, t) ==
    [time_start   |-> t,
     time_end     |-> Plus(t, cost[w][dispatched + 1]),
     worker_index |-> w,
     task         |-> dispatched + 1]

Init ==
    /\ ntasks \in Nat
    /\ cost \in Seq([1..ntasks -> Double])
    /\ now = 0
    /\ running = [w \in Workers |-> {}]
    /\ dispatched = 0
    /\ finished = {}

Start(w) ==
    /\ Waiting
    /\ Idle(w)
    /\ running' = [running EXCEPT ![w] = {JobAt(w, now)}]
    /\ dispatched' = dispatched + 1
    /\ UNCHANGED <<cost, ntasks, now, finished>>

\* The job that ends first ends; its worker goes on with the next task, if any.
Complete(w) ==
    \E job \in running[w] :
        /\ Waiting => \A v \in Workers : ~Idle(v)
        /\ \A v \in Workers : \A other \in running[v] : job.time_end <= other.time_end
        /\ now' = job.time_end
        /\ finished' = finished \cup {job}
        /\ running' = [running EXCEPT ![w] =
                          IF Waiting THEN {JobAt(w, job.time_end)} ELSE {}]
        /\ dispatched' = IF Waiting THEN dispatched + 1 ELSE dispatched
        /\ UNCHANGED <<cost, ntasks>>

Next == \E w \in Workers : Start(w) \/ Complete(w)

Spec == Init /\ [][Next]_vars
FairSpec == Spec /\ WF_vars(Next)
===============================================================================
