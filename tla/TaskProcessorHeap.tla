--------------------------- MODULE TaskProcessorHeap ---------------------------
(***************************************************************************)
(* The event loop of TaskProcessor on the queue it really has: p_queue is  *)
(* the vector of PriorityQueue, every pop and emplace one of its calls.    *)
(* It implements TaskProcessor, whose queue is a set, and through it the   *)
(* pool of workers.                                                        *)
(***************************************************************************)
EXTENDS Integers, Sequences

CONSTANTS
    ProcInputs, TaskInputs, Bandwidth, ConnectionSetup, Double, Plus(_, _), Per(_, _)

VARIABLES procs, tasks, p_queue, processed_tasks, i, task_iterator, pc

vars == <<procs, tasks, p_queue, processed_tasks, i, task_iterator, pc>>

Fn == INSTANCE Functions

\* The loop on a set: its operators, and what this loop implements.
Loop == INSTANCE TaskProcessor WITH p_queue <- Fn!Range(p_queue)

\* What TaskProcessor assumes of its constants and the heap rests on: finish times
\* are numbers, never NaN, and so can be compared.
ASSUME NumbersAssumption ==
    /\ ProcInputs \subseteq Seq(Loop!Mips) /\ TaskInputs \subseteq Seq(Loop!SimpleTask)
    /\ Bandwidth \in Double /\ ConnectionSetup \in Double
    /\ Double \subseteq Int /\ 0 \in Double
    /\ \A x, y \in Double : Plus(x, y) \in Double /\ Per(x, y) \in Double

\* The comparator of the queue, task_completition::later_first.
later_first(l, r) == Loop!LaterFirst(l, r)

Queue == INSTANCE VectorHeap WITH comparator <- later_first
-------------------------------------------------------------------------------
Init ==
    /\ procs \in ProcInputs
    /\ tasks \in TaskInputs
    /\ p_queue = <<>>
    /\ processed_tasks = <<>>
    /\ i = 1
    /\ task_iterator = 1
    /\ pc = "seed"

Seed ==
    /\ pc = "seed"
    /\ i <= Len(procs)
    /\ Loop!TasksRemain
    /\ p_queue' \in Queue!Emplaced(p_queue, Loop!NextCompletion(i, 0))
    /\ task_iterator' = task_iterator + 1
    /\ i' = i + 1
    /\ UNCHANGED <<procs, tasks, processed_tasks, pc>>

SeedingOver ==
    /\ pc = "seed"
    /\ i > Len(procs) \/ ~Loop!TasksRemain
    /\ pc' = "drain"
    /\ UNCHANGED <<procs, tasks, p_queue, processed_tasks, i, task_iterator>>

\* The queue after the popped worker has been given the next task, if any.
Refilled(rest, tk) ==
    IF Loop!TasksRemain
    THEN Queue!Emplaced(rest, Loop!NextCompletion(tk.worker_index, tk.time_end))
    ELSE {rest}

Process ==
    /\ pc = "drain"
    /\ p_queue # <<>>
    /\ \E p \in Queue!AfterPop(p_queue) :
        /\ p_queue' \in Refilled(p.rest, p.value)
        /\ processed_tasks' = Append(processed_tasks, p.value)
    /\ Loop!AdvanceIterator
    /\ UNCHANGED <<procs, tasks, i, pc>>

Return ==
    /\ pc = "drain"
    /\ p_queue = <<>>
    /\ pc' = "done"
    /\ UNCHANGED <<procs, tasks, p_queue, processed_tasks, i, task_iterator>>

Terminated == pc = "done" /\ UNCHANGED vars

Step == Seed \/ SeedingOver \/ Process \/ Return
Next == Step \/ Terminated

Spec == Init /\ [][Next]_vars
FairSpec == Spec /\ WF_vars(Step)
-------------------------------------------------------------------------------
\* The vector is a heap of at most one running completion per processor: the
\* loop keeps the library's preconditions, and never pops an empty queue.
QueueIsHeap ==
    /\ Queue!IsHeap(p_queue)
    /\ Len(p_queue) <= Len(procs)
    /\ \A k, l \in DOMAIN p_queue :
          p_queue[k].worker_index = p_queue[l].worker_index => k = l

\* The loop on the heap implements the loop on the set, liveness included: the
\* front of the vector is a completion that no running one precedes.
ImplementsLoop == Loop!FairSpec
===============================================================================
