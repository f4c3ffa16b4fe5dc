---------------------------- MODULE TaskProcessor -----------------------------
(***************************************************************************)
(* smpp::TaskProcessorWithTransfer::operator(): the discrete-event loop    *)
(* that schedules a list of tasks on a list of processors.  The loop keeps *)
(* the running tasks in a priority queue ordered by finish time; every     *)
(* iteration pops the earliest, gives its worker the next task, and        *)
(* appends the popped completion to the result.                            *)
(*                                                                         *)
(* Times, rates and complexities are doubles.  Of their arithmetic nothing *)
(* is assumed but what rounding leaves true: a sum may absorb a summand or *)
(* be infinite, it is never on the wrong side of one.  NaN is left out.    *)
(* Indices are 1-based, an iterator or pointer into the task vector is the *)
(* position it designates.                                                 *)
(***************************************************************************)
EXTENDS Integers, Sequences

CONSTANTS
    ProcInputs,       \* the processor vectors: sequences of mips values
    TaskInputs,       \* the task vectors: sequences of SimpleTask
    Bandwidth,        \* bits per unit of time
    ConnectionSetup,  \* time per transfer
    Double,           \* the values of type double, as multiples of a unit
    Plus(_, _),       \* x + y, rounded
    Per(_, _)         \* x / y, rounded

\* The program accepts any number as mips, --bandwidth and --ping.
Mips == Double
SimpleTask ==
    [complexity : Double \cap Nat, bits_to_transfer : Double \cap Nat, userid : Nat]

ASSUME InputsAssumption ==
    /\ ProcInputs \subseteq Seq(Mips)
    /\ TaskInputs \subseteq Seq(SimpleTask)
    /\ Bandwidth \in Double /\ ConnectionSetup \in Double

ASSUME DoubleAssumption ==
    /\ Double \subseteq Int /\ 0 \in Double
    /\ \A x, y \in Double :
          /\ Plus(x, y) \in Double
          /\ Per(x, y) \in Double
          /\ y >= 0 => x <= Plus(x, y)
          /\ x >= 0 /\ y >= 0 => Per(x, y) >= 0

VARIABLES
    procs,            \* argument: the processors, in scheduling order
    tasks,            \* argument: the tasks, in scheduling order
    p_queue,          \* the running completions; each one is of another task
    processed_tasks,  \* the completions already popped, in pop order
    i,                \* the counter of the seeding loop
    task_iterator,    \* the first task not yet given to a worker
    pc                \* "seed", "drain" or "done"

vars == <<procs, tasks, p_queue, processed_tasks, i, task_iterator, pc>>
-------------------------------------------------------------------------------
TimeToComplete(mips, complexity) == Per(complexity, mips)

TransferTime(bits) == Plus(Per(bits, Bandwidth), ConnectionSetup)

Duration(mips, task) ==
    Plus(TimeToComplete(mips, task.complexity), TransferTime(task.bits_to_transfer))

Completion ==
    [time_start : Double, time_end : Double,
     worker_index : DOMAIN procs, task : DOMAIN tasks]

\* The completion of the next task when worker w takes it at time t.
NextCompletion(w, t) ==
    [time_start   |-> t,
     time_end     |-> Plus(t, Duration(procs[w], tasks[task_iterator])),
     worker_index |-> w,
     task         |-> task_iterator]

\* Faulty variants of LaterFirst: ordered the other way, or by start time.
EarlierFirst(l, r) == l.time_end < r.time_end
LaterStartFirst(l, r) == l.time_start > r.time_start

\* task_completition::later_first, the comparator of the queue.
LaterFirst(l, r) == l.time_end > r.time_end

\* std::pop_heap yields an element that no other one precedes; which one,
\* among equals, depends on the library.
IsTop(tk) == \A other \in p_queue : ~LaterFirst(tk, other)

TasksRemain == task_iterator <= Len(tasks)
-------------------------------------------------------------------------------
Init ==
    /\ procs \in ProcInputs
    /\ tasks \in TaskInputs
    /\ p_queue = {}
    /\ processed_tasks = <<>>
    /\ i = 1
    /\ task_iterator = 1
    /\ pc = "seed"

\* One iteration of the seeding loop: worker i starts a task at time 0.
Seed ==
    /\ pc = "seed"
    /\ i <= Len(procs)
    /\ TasksRemain
    /\ p_queue' = p_queue \cup {NextCompletion(i, 0)}
    /\ task_iterator' = task_iterator + 1
    /\ i' = i + 1
    /\ UNCHANGED <<procs, tasks, processed_tasks, pc>>

\* Faulty variant of SeedingOver: the last processor may be left out.
SeedingOverEarly ==
    /\ pc = "seed"
    /\ i >= Len(procs) \/ ~TasksRemain
    /\ pc' = "drain"
    /\ UNCHANGED <<procs, tasks, p_queue, processed_tasks, i, task_iterator>>

SeedingOver ==
    /\ pc = "seed"
    /\ i > Len(procs) \/ ~TasksRemain
    /\ pc' = "drain"
    /\ UNCHANGED <<procs, tasks, p_queue, processed_tasks, i, task_iterator>>

\* Faulty variants of Refill and AdvanceIterator: the worker is the one seeded
\* last, or gets no further task; the iterator moves whether or not a task was
\* taken, or not at all.
RefillNever(tk) == {}
RefillSeededWorker(tk) ==
    IF TasksRemain THEN {NextCompletion(i - 1, tk.time_end)} ELSE {}
AdvanceAlways == task_iterator' = task_iterator + 1
AdvanceNever == UNCHANGED task_iterator

\* The worker of the popped completion takes the next task where tk ended.
Refill(tk) ==
    IF TasksRemain THEN {NextCompletion(tk.worker_index, tk.time_end)} ELSE {}

AdvanceIterator ==
    task_iterator' = IF TasksRemain THEN task_iterator + 1 ELSE task_iterator

\* One iteration of the event loop: pop, refill the worker, keep the result.
Process ==
    /\ pc = "drain"
    /\ \E tk \in p_queue :
        /\ IsTop(tk)
        /\ p_queue' = (p_queue \ {tk}) \cup Refill(tk)
        /\ processed_tasks' = Append(processed_tasks, tk)
    /\ AdvanceIterator
    /\ UNCHANGED <<procs, tasks, i, pc>>

\* Faulty variant of Return: the loop waits on an empty queue.
ReturnNever == pc = "drain" /\ p_queue = {} /\ UNCHANGED vars

Return ==
    /\ pc = "drain"
    /\ p_queue = {}
    /\ pc' = "done"
    /\ UNCHANGED <<procs, tasks, p_queue, processed_tasks, i, task_iterator>>

\* The call has returned.
Terminated == pc = "done" /\ UNCHANGED vars

Step == Seed \/ SeedingOver \/ Process \/ Return
Next == Step \/ Terminated

Spec == Init /\ [][Next]_vars
\* A sequential loop: it goes on as long as it has something to do.
FairSpec == Spec /\ WF_vars(Step)
-------------------------------------------------------------------------------
Processed == {processed_tasks[k] : k \in DOMAIN processed_tasks}
Started == p_queue \cup Processed

\* What the ordering properties rest on.  The program checks no sign of --ping,
\* --bandwidth and --mips: with a negative one a task may "end" before it starts.
NonNegativeDurations ==
    /\ ConnectionSetup >= 0 /\ Bandwidth >= 0
    /\ \A w \in DOMAIN procs : procs[w] >= 0

\* The types of the loop's variables.
TypeOK ==
    /\ procs \in Seq(Mips)
    /\ tasks \in Seq(SimpleTask)
    /\ p_queue \subseteq Completion
    /\ processed_tasks \in Seq(Completion)
    /\ i \in 1..(Len(procs) + 1)
    /\ task_iterator \in 1..(Len(tasks) + 1)
    /\ pc \in {"seed", "drain", "done"}

\* Every task is started exactly once, in list order, is never lost between the
\* queue and the result and never in both, and when the call returns all of
\* them have been processed (if there is a processor at all).
EachTaskOnce ==
    /\ {r.task : r \in Started} = 1..(task_iterator - 1)
    /\ \A r, s \in Started : r.task = s.task => r = s
    /\ \A k, l \in DOMAIN processed_tasks :
          processed_tasks[k] = processed_tasks[l] => k = l
    /\ p_queue \cap Processed = {}
    /\ pc = "done" /\ Len(procs) > 0 =>
          {r.task : r \in Processed} = DOMAIN tasks

\* A worker never runs two tasks at once, and never pauses between two: what it
\* starts, it starts at 0 or at the moment its previous task ended.
BackToBack ==
    NonNegativeDurations =>
        \A r \in Started :
            /\ \A s \in Started : r.worker_index = s.worker_index /\ r # s =>
                  r.time_end <= s.time_start \/ s.time_end <= r.time_start
            /\ \/ r.time_start = 0
               \/ \E s \in Processed : s.worker_index = r.worker_index
                                      /\ s.time_end = r.time_start

\* No worker is idle while a task waits: at the moment a task starts, every
\* worker is running one (the fact all bounds on list schedules rest on).
NoIdleWhileWaiting ==
    NonNegativeDurations =>
        \A r \in Started : r.time_start > 0 =>
            \A w \in DOMAIN procs :
                \E s \in Started : s.worker_index = w
                                  /\ s.time_start <= r.time_start
                                  /\ r.time_start <= s.time_end

\* Tasks start in the order of the task vector, whatever the speeds of the
\* workers: the priority chosen by the caller's sort is the one that is served.
StartsInListOrder ==
    NonNegativeDurations =>
        \A r, s \in Started : r.task < s.task => r.time_start <= s.time_start

\* The result vector is in order of finish time, and nothing that is still
\* running ends before what has been reported: simulate() reads the last
\* completion of each user off the back of this vector.
FinishOrder ==
    NonNegativeDurations =>
        /\ \A k, l \in DOMAIN processed_tasks : k < l =>
              processed_tasks[k].time_end <= processed_tasks[l].time_end
        /\ \A r \in Processed : \A s \in p_queue : r.time_end <= s.time_end

\* The event loop implements the pool of workers that run in parallel: the
\* queue holds each worker's job, the clock is the last completion popped.
Pool == INSTANCE WorkerPool WITH
    cost       <- [w \in DOMAIN procs |->
                     [t \in DOMAIN tasks |-> Duration(procs[w], tasks[t])]],
    ntasks     <- Len(tasks),
    now        <- IF processed_tasks = <<>> THEN 0
                  ELSE processed_tasks[Len(processed_tasks)].time_end,
    running    <- [w \in DOMAIN procs |-> {r \in p_queue : r.worker_index = w}],
    dispatched <- task_iterator - 1,
    finished   <- Processed

ImplementsPool == Pool!FairSpec

\* The call returns: the queue is refilled only while tasks remain.
Terminates == <>(pc = "done")
===============================================================================
