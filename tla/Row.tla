---------------------------------- MODULE Row ----------------------------------
(***************************************************************************)
(* One row of the sweep in main(): create_tasks makes the tasks of the     *)
(* players' slice sizes, simulate() schedules them and finds the players'  *)
(* times, and both are repeated randomize_count times.  The row composes   *)
(* MatMul and Simulate; Driver has the sweep around it.                    *)
(***************************************************************************)
EXTENDS Simulate, MatMul

CONSTANTS
    JobInputs,        \* problem size and slice sizes, records of type Job
    RandomizeCount,
    One               \* the quotient of equal numbers, in the unit of Double

\* create_tasks neither divides by zero nor throws, see MatMulTasks; the vector
\* is empty before it is called.
ASSUME RowAssumption ==
    /\ \A jb \in JobInputs : /\ jb \in Job /\ jb.slice_sizes # <<>>
                             /\ \A k \in DOMAIN jb.slice_sizes : jb.slice_sizes[k] > 0
    /\ TaskInputs = {<<>>}
    /\ RandomizeCount \in Nat /\ One \in Nat

\* MatMul computes complexities as integers: they are numbers a double can hold.
ASSUME ExactAssumption ==
    \A jb \in JobInputs : \A k \in DOMAIN Inserted(jb) :
        LET run == Inserted(jb)[k]
        IN  run.count > 0 =>
              run.task.complexity \in Double /\ run.task.bits_to_transfer \in Double

VARIABLES
    job,       \* the slice sizes of the row
    row_pc,    \* "create", "simulate" or "done"
    results    \* the times of the simulations so far

row_vars == <<job, row_pc, results>>
-------------------------------------------------------------------------------
RowInit ==
    /\ SimInit
    /\ job \in JobInputs
    /\ args.n_user_hint = Len(job.slice_sizes)
    /\ row_pc = "create"
    /\ results = <<>>

\* The call of simulate() starts from fresh locals.  main() keeps the processors
\* in an order of its own, but any order is sorted to the same ones.
CreateTasks ==
    /\ row_pc = "create"
    /\ tasks' = Expanded(Inserted(job))
    /\ p_queue' = {} /\ processed_tasks' = <<>> /\ i' = 1 /\ task_iterator' = 1
    /\ pc' = "seed" /\ phase' = "sort" /\ curr' = 0 /\ idx' = {}
    /\ times' = [u \in Users |-> 0]
    /\ row_pc' = "simulate"
    /\ UNCHANGED <<procs, args, job, results>>

RunSimulate ==
    /\ row_pc = "simulate"
    /\ SimStep
    /\ UNCHANGED row_vars

\* Faulty variant of RunsRemain: the runs are counted from 0.
RunsRemainFromZero == Len(results) < RandomizeCount

\* The single player's row and the first simulation of a pair come in any case.
RunsRemain == args.n_user_hint > 1 /\ Len(results) + 1 < RandomizeCount

TakeTimes ==
    /\ row_pc = "simulate"
    /\ phase = "done"
    /\ results' = Append(results, times)
    /\ row_pc' = IF RunsRemain THEN "create" ELSE "done"
    /\ UNCHANGED <<all_vars, job>>

RowOver == row_pc = "done" /\ UNCHANGED <<all_vars, row_vars>>

RowStep == CreateTasks \/ RunSimulate \/ TakeTimes
RowNext == RowStep \/ RowOver

RowSpec == RowInit /\ [][RowNext]_<<all_vars, row_vars>>
RowFairSpec == RowSpec /\ WF_<<all_vars, row_vars>>(RowStep)
-------------------------------------------------------------------------------
\* The types of the variables.  SimTypeOK has what simulate() takes on trust: the
\* user ids of the tasks index a result of one time per slice size.
RowTypeOK ==
    /\ SimTypeOK
    /\ job \in JobInputs
    /\ row_pc \in {"create", "simulate", "done"}
    /\ results \in Seq([Users -> Double])

PlayersHaveIds == Len(job.slice_sizes) <= UserIdMod

\* The number of a matrix's elements is a size_t, and every player has its own id.
Representable == job.problem_size * job.problem_size < SizeMod /\ PlayersHaveIds

\* No block of one player is as heavy as one of another's.
NoTies ==
    \A j, k \in DOMAIN tasks :
        tasks[j].complexity = tasks[k].complexity => tasks[j].userid = tasks[k].userid

\* Averaging is over ties only: on equal processors, if the players' blocks have
\* different weights, no shuffle, unstable sort or tie in the queue shows in the
\* times, and all simulations of a row agree.  (Where the weight of a block wraps,
\* blocks of one player may tie that differ in what they transfer.)
RunsAgree ==
    /\ Representable /\ NoTies
    /\ \A v, w \in DOMAIN procs : procs[v] = procs[w]
    /\ NonNegativeDurations
    => \A j, k \in DOMAIN results : results[j] = results[k]

\* The quotients and sums of this simulation: what each is exactly, and what the
\* program, in doubles, takes it for.  How good doubles are depends on the numbers.
Reckonings ==
    (UNION {
        LET work == tasks[t].complexity
            bits == tasks[t].bits_to_transfer
            computed == TimeToComplete(procs[w], work)
            sent == Per(bits, Bandwidth)
        IN  {<<work * One, procs[w] * computed>>,
             <<bits * One, Bandwidth * sent>>,
             <<sent + ConnectionSetup, TransferTime(bits)>>,
             <<computed + TransferTime(bits), Duration(procs[w], tasks[t])>>} :
        w \in DOMAIN procs, t \in DOMAIN tasks})
    \cup {<<r.time_start + Duration(procs[r.worker_index], tasks[r.task]), r.time_end>> :
             r \in Started}

NothingRoundedDown == \A n \in Reckonings : n[1] <= n[2]
AllExact == \A n \in Reckonings : n[1] = n[2]

NothingWraps ==
    \A k \in DOMAIN job.slice_sizes : Fits(job.problem_size, job.slice_sizes[k])

\* What a player has to do, from the problem size and its slice size: one matrix
\* product, and its transfers, with one setup per block.  In units of mips times
\* bandwidth times time, if all is done at the speed mips.
PlayersWork(s, mips) ==
    LET p == job.problem_size
        blocks == BlocksPerSide(p, s) * BlocksPerSide(p, s)
    IN  Bandwidth * One * ProductFlops(p)
          + mips * (One * ProductBits(p, s) + Bandwidth * ConnectionSetup * blocks)

\* No player is done before the processors together can have done its product and
\* even the slowest of them its transfers: no block is lost between create_tasks, the
\* schedule and the scan for the times.  (Unless numbers are rounded down or wrap.)
ProductIsPaidFor ==
    /\ phase = "done" /\ NonNegativeDurations /\ PlayersHaveIds /\ NothingWraps
    /\ NothingRoundedDown
    => \A u \in Users, w \in DOMAIN procs :
          (\A v \in DOMAIN procs : procs[w] <= procs[v]) =>
              PlayersWork(job.slice_sizes[u + 1], procs[w])
                <= Bandwidth * Total(procs) * times[u]

\* On one processor the last player's time is all the work there is, no more and no
\* less, in exact arithmetic.
OneProcessorDoesItAll ==
    /\ phase = "done" /\ Len(procs) = 1 /\ NonNegativeDurations /\ NothingWraps
    /\ AllExact
    => LET all == Total([k \in DOMAIN job.slice_sizes |->
                            PlayersWork(job.slice_sizes[k], procs[1])])
           Done(u) == Bandwidth * procs[1] * times[u]
       IN  /\ \A u \in Users : Done(u) <= all
           /\ \E u \in Users : Done(u) = all

\* The sweep of main() as far as this row goes: its last slice sizes are the
\* players', and its first simulation is the one that has no result before it.
Sweep == INSTANCE Driver WITH
    opts    <- [single_player |-> args.n_user_hint = 1, fix_first |-> 0,
                randomize_count |-> RandomizeCount, sim_log |-> FALSE],
    slices  <- job.slice_sizes, a <- 1, b <- Len(job.slice_sizes), i <- 0,
    pc      <- IF results = <<>> THEN "first" ELSE "average",
    runs    <- Len(results),
    file    <- <<>>, synced <- 0, good <- TRUE, log <- <<>>, log_good <- FALSE,
    MaxSize <- SizeMod - 1, OptionInputs <- {}

\* What Driver takes for one step, a simulation, is what create_tasks and simulate()
\* do, as often as Driver does it and in no other order.
ImplementsSweep == [][Sweep!FirstRun \/ Sweep!NextRun]_(Sweep!vars)

\* A row comes to an end, with the simulations that were asked for.
RowEnds == <>(row_pc = "done" /\ Len(results) = Sweep!RunsAsked)
===============================================================================
