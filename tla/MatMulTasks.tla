----------------------------- MODULE MatMulTasks ------------------------------
(***************************************************************************)
(* A call of create_tasks: it returns the tasks of MatMul, or fails.       *)
(***************************************************************************)
EXTENDS MatMul

CONSTANTS
    MaxSize,     \* max_size() of the result: more throws length_error
    JobInputs    \* the arguments: records of type Job

ASSUME JobsAssumption == MaxSize \in Size /\ JobInputs \subseteq Job

VARIABLES
    job,      \* the arguments
    tasks,    \* the result, as runs of equal tasks
    pc        \* "call", or how the call ended: "done", "thrown" or "crashed"

vars == <<job, tasks, pc>>
-------------------------------------------------------------------------------
Init == job \in JobInputs /\ tasks = <<>> /\ pc = "call"

\* The capacity is computed first, for all slice sizes: problem_size / 0 ends the
\* process.
SomeSliceIsZero == \E n \in DOMAIN job.slice_sizes : job.slice_sizes[n] = 0

\* reserve() throws, or an insertion does; the exception drops the vector.
Overflows == Reserved(job) > MaxSize \/ TaskCount(Inserted(job)) > MaxSize

Return ==
    /\ pc = "call"
    /\ ~SomeSliceIsZero /\ ~Overflows
    /\ tasks' = Inserted(job)
    /\ pc' = "done"
    /\ UNCHANGED job

Fail ==
    /\ pc = "call"
    /\ \/ SomeSliceIsZero /\ pc' = "crashed"
       \/ ~SomeSliceIsZero /\ Overflows /\ pc' = "thrown"
    /\ UNCHANGED <<job, tasks>>

Terminated == pc # "call" /\ UNCHANGED vars

Next == Return \/ Fail \/ Terminated

Spec == Init /\ [][Next]_vars
-------------------------------------------------------------------------------
SumOfUser(user, Weight(_)) ==
    Total([n \in DOMAIN tasks |->
              IF tasks[n].task.userid = user THEN tasks[n].count * Weight(tasks[n].task) ELSE 0])

\* partial * slice_size is a multiple of 2^SizeBits: the edge has complexity 0.
LosesEdge(p, s) == Partial(p, s) # 0 /\ Wrap(Partial(p, s) * s) = 0

UsersAreDistinct == Len(job.slice_sizes) <= UserIdMod

\* The capacity computed before the loop is the number of tasks the loop makes,
\* though one formula asks for a remainder and the other for a complexity: they
\* part only when the complexity of an edge block wraps to 0.
ReserveIsExact ==
    pc = "done" =>
        \/ TaskCount(tasks) = Reserved(job)
        \/ \E n \in DOMAIN job.slice_sizes : LosesEdge(job.problem_size, job.slice_sizes[n])

\* The tasks of every user are the whole product: whatever the slice size, their
\* complexities add up to the complexity of multiplying the two matrices.
TilesTheProduct ==
    LET Flops(task) == task.complexity
        p == job.problem_size
    IN  pc = "done" /\ UsersAreDistinct =>
          \A n \in DOMAIN job.slice_sizes :
              Fits(p, job.slice_sizes[n]) => SumOfUser(n - 1, Flops) = ProductFlops(p)

\* What the slice size changes is the traffic: each factor is sent once per
\* block row or column, the result once.
TransferVolume ==
    LET Bits(task) == task.bits_to_transfer
        p == job.problem_size
    IN  pc = "done" /\ UsersAreDistinct =>
          \A n \in DOMAIN job.slice_sizes :
              LET s == job.slice_sizes[n]
              IN  Fits(p, s) => SumOfUser(n - 1, Bits) = ProductBits(p, s)
===============================================================================
