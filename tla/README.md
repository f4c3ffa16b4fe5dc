# Verification of the list-scheduling simulator

`src/simulation_framework` simulates how two "players" share a set of processors.
Each player cuts the same square matrix product into block tasks of its own slice
size; the tasks of both are sorted, handed out to the processors by list scheduling,
and the program reports when each player's last task ends. This directory holds TLA+
models of that program, their TLC configurations and TLAPS proofs.

Paths below are relative to `src/simulation_framework/`; `smpp/` holds the library
headers and `main.cpp` the driver. The program is sequential. What is hard about it is
simulated parallelism, the bookkeeping between three loops, unstable orders (ties in a
heap, `std::sort`, a shuffle), integers that wrap, and output that is written piece by
piece while a computation may fail or be interrupted.

## Inventory

| Component | State | Operations | What makes it correct |
| --- | --- | --- | --- |
| Task processor, `smpp/task_processor.hpp`, `task_completition.hpp` | queue of running completions, result vector, task iterator | `operator()`: seed every processor with a task, then pop, refill, keep | every task once; workers never idle while a task waits; list order; result in finish order; returns |
| Priority queue, `smpp/priority_queue.hpp` | vector kept as a heap | `push`/`emplace`, `pop`, `top`, `empty` | library preconditions kept; pops an element no other precedes; loses nothing |
| `simulate`, `smpp/smpp.hpp` | the caller's task vector (rearranged in place), copy of the processors, set of users seen, times | shuffle, two sorts, run the processor, scan the result backwards | reported times are the users' finish times; the priority asked for is the one served; pointers into the task vector stay valid |
| Task creation, `smpp/mmsim.hpp` | the task vector being built, user id | block counts, complexities, `create_tasks` | tasks tile the whole product; traffic; capacity |
| Tasks and processors, `smpp/task.hpp`, `processor.hpp` | none (values) | `create`, `time_to_complete`, four comparators | part of the modules that use them |
| Driver, `main.cpp` | options, slice sizes, accumulated times, output file, log | option checks, slice expansion, sweep, averaging, exception handlers | file is the sweep in order; rows are means of their own runs; rows survive |
| Boost (`dependencies/`), project files | - | option parsing, build | not modelled: third-party code, no behaviour of this program |

Interactions. `main` calls `create_tasks`, then `simulate` for every row and every
repetition. `simulate` sorts the vector it was given *by reference*, calls the task
processor through the `TaskProcessor` interface and gets back completions that hold
pointers into that same vector; `main` prints them to the log after the call. The task
processor drives the priority queue; the queue calls back the comparator `later_first`.

Hard behaviours (each is a row of `hazards` in `PROJECT.json`): direction of the
comparator and ties; a heap that is silently broken between two calls; refill at the
wrong time or on the wrong worker; iterator, queue and result out of step; a loop that
refills what it drains; reverse scan with an early exit that silently relies on the
order of the result; unstable sort after a shuffle; pointers kept across the call; block
counts computed by two different formulas; wrapping `size_t`; division by a zero step or
slice size; an empty range of slice sizes; half-written rows; writes that fail unnoticed,
to the output and to the log; interrupted sweeps; earlier results lost when the output is opened;
averaging that counts the first run separately; finish times that are sums of doubles.

## Modules

| Module | Models | Notes |
| --- | --- | --- |
| `WorkerPool` | the promise of a list schedule | abstract: workers run in parallel, take tasks in order, time never passes over an idle worker while a task waits |
| `TaskProcessor` | `TaskProcessorWithTransfer::operator()` | `Seed`/`SeedingOver` are the first loop, `Process`/`Return` the second; the queue is a set, ties are nondeterministic |
| `ListSchedule` | what the loop makes of equal processors | the reference schedule and Graham's bound, as properties of `TaskProcessor` |
| `TaskProcessorHeap` | the same loop on the vector it really uses | implements `TaskProcessor` |
| `VectorHeap` | `push_heap`/`pop_heap` as used by the queue | the contract of the library, external; violated preconditions allow any outcome |
| `PriorityQueue`, `PriorityBag` | the queue as an object under any calls, and its promise | `top()`, which nobody calls, included |
| `Simulate` | `simulate()` | extends `TaskProcessor`: `Sort`, `RunProcessor`, `ProcessorReturned`, `Collect`, `CollectOver` |
| `Sums` | the sum in `calculate_number_of_tasks` | partial sums and sum of a list, recursive functions |
| `MatMul` | `mmsim` | operators: what `create_tasks` computes; equal tasks are kept as runs |
| `MatMulTasks` | a call of `create_tasks` | `Return` and `Fail`: division by zero, `length_error` |
| `Row` | one row of the sweep, `main.cpp:198-226` | composes `MatMul` and `Simulate`: `CreateTasks`, `RunSimulate`, `TakeTimes`; implements the steps of `Driver` |
| `Driver` | `main()` | options, expansion, files, sweep; one step per simulation |
| `MiniDouble` | arithmetic of `double` in the small | for TLC only: a mantissa, rounding, infinity |
| `SumProofs`, `TaskProcessorProofs`, `SimulateProofs`, `DriverProofs`, `PriorityQueueProofs`, `TaskProcessorHeapProofs`, `MatMulProofs`, `RowProofs` | - | theorems, see below |
| `MC*` | - | instances for TLC |

How state corresponds to code, where it is not by name:

- an iterator or pointer into the task vector is a 1-based position; `p_queue` of
  `TaskProcessor` is the set of completions in the C++ queue (they are distinct, each
  is of another task), of `TaskProcessorHeap` the vector itself;
- `pc`/`phase` is the statement a function is at; a `Terminated` (or `Over`) step stands
  for a function that has returned, so that TLC's deadlock check stays on everywhere;
- a file in `Driver` is the sequence of pieces written to its stream; `synced` counts
  the flushed ones. Death of the process, or a write that fails, keeps the flushed pieces
  and any number of later ones; a stream that has failed (`good` is FALSE) takes no more;
  leaving `main` closes it. At first the file holds what an earlier call left there;
- the log is the sequence of its complete blocks, one for every row that is logged, or
  what an earlier call left. `log_good` says that its stream is open and has not failed;
- operators whose comment begins "Faulty variant(s) of" are not part of the model: they
  are the bugs against which each property was tried out, named in `mutants`.

### Abstractions

- Times, speeds and rates are doubles. The set of values (`Double`), the sum (`Plus`) and
  the quotient (`Per`) are constants, of which `DoubleAssumption` says no more than what
  rounding leaves true: results are values again, adding a non-negative number never
  gives less, a quotient of non-negative numbers is not negative. Absorption, ties made
  by rounding and infinities (a speed or bandwidth of 0) are therefore inside the models
  and the proofs. NaN is not: `later_first` and the comparators of the sorts are then no
  strict weak orderings and the library may do anything.
- For TLC, `MiniDouble` gives these constants values: integers in `Ticks` up to `Exact`,
  multiples of `Grain` beyond it, `Infinity` at the end. Where `Exact = Infinity`, sums
  are exact and quotients are cut off.
- Complexities are exact integers; the `size_t` products they start from wrap.
- `std::sort` yields any arrangement its comparator allows. It is not stable, so the
  shuffle before it adds nothing to what may come out, and is not a step.
- `std::push_heap`/`std::pop_heap` yield any heap their contract allows, or anything if
  called on a vector that is no heap.
- Reading `begin()` of an empty vector in `write_to_stream` (undefined) ends the process:
  the loop runs past the end until it faults. A division by zero ends it as well.
- An exhausted memory appears as `MaxSize` (expansion, `length_error`) and as
  `RunFails` (any simulation may throw).
- The log is flushed line by line, so the death of the process does not shorten it. A
  write to it may fail (`LogWriteError`): the block it belongs to is incomplete and does
  not count, and no later one gets into the file.

## Runs

| Run | Question | Instance | Bounds and why they are enough |
| --- | --- | --- | --- |
| `schedule` | Is the event loop a list schedule, in finish order, and does it return? | `MCTaskProcessor`, `schedule.cfg` | 1-3 processors of 2 speeds, 0-5 tasks of 3 kinds: fewer tasks than workers, ties on equal and unequal processors, workers refilled more than once |
| `rounding` | Does order rest on exact arithmetic? | `MCTaskProcessor`, `rounding.cfg` | exact up to 6 units, then steps of 8, infinite at 32, speeds 0, 1 and 3: with 5 tasks durations are absorbed, sums are rounded up as well as down, distinct times tie, and workers never finish |
| `negative_ping` | What is left with a negative `--ping` or `--mips`? | `negative_ping.cfg` | setup of -4 and speeds -1, 1, 2: negative and positive durations mix |
| `heap_loop` | Does the loop on the real vector do what the loop on a set does? | `MCTaskProcessorHeap`, `heap.cfg` | 4 processors: a heap of three levels |
| `priority_queue` | Is the vector a priority queue under any calls? | `MCPriorityQueue`, `priority_queue.cfg` | 5 entries of 3 finish times, duplicates and ties |
| `simulate` | Are the reported times right under any shuffle and any unstable sort? | `MCSimulate`, `simulate.cfg` | 2 users, up to 4 tasks of 4 kinds (one complexity common to both users), all combinations of priorities; a user without tasks occurs |
| `matmul_tasks` | Do the blocks tile the product? | `MCMatMulTasks`, `matmul_tasks.cfg` | 10-bit sizes, orders 0-10 and 96, slices that divide, do not divide, exceed the order, are 0, or make an edge wrap to 0; up to 3 slice sizes |
| `row` | Do the parts fit together? | `MCRow`, `row.cfg` | orders 0-3, slices 1-4, one or two players with up to 5 tasks together, 1-3 processors of 2 speeds, 2 simulations; speeds, bandwidth and `Ticks` such that every quotient and sum is exact, as `OneProcessorDoesItAll` asks |
| `sweep` | Is the output the sweep, however it ends? | `MCDriver`, `sweep.cfg` | all starts; 1, 2 or 4 slice sizes, repeated or 0; ranges of two slice sizes, of none (min = max), with a step of 0 and too long to be reserved (max below min wraps); 0-3 simulations per row; failure, failing writes to the output and the log, and death at every step |
| `slice_range` | What does the expansion produce, and does it end? | `MCDriver`, `slice_range.cfg` | every min, max, step of 4 bits, so all wraps and divisions by zero; at most 12 slice sizes fit the vector |
| `max_slice` | Is the maximum of the help text swept? | `max_slice.cfg` | violated, see Findings |

What they show:

- `EachTaskOnce`, `BackToBack`, `NoIdleWhileWaiting`, `StartsInListOrder`, `FinishOrder`:
  the schedule is correct at every step of the loop, not only at its end.
- `ImplementsPool`: the sequential loop *is* the pool of parallel workers, liveness
  included. `ImplementsLoop` and `ImplementsBag` continue the chain down to the vector.
- `GrahamBound`: on equal processors every task ends within Graham's bound of the work
  that precedes it in the list, so the schedule as a whole does. Doubles round up, which
  makes a schedule longer: the bound has `RoundedUp`, the most by which one of its finish
  times has been rounded up, for each time a task is counted. Where that is 0 the bound is
  Graham's. In `rounding` it is not always 0, and without it the bound is exceeded.
- `TiesDoNotMatter`: on equal processors the unspecified tie-breaking of the heap cannot
  be seen in the times: at every step the loads of the workers are those of a reference
  that gives each task to a least loaded worker, up to the workers' names, and every task
  starts when the reference starts it. (On unequal processors this is not so: the property
  is stated for equal ones only.) In `rounding` it and the ordering properties hold of
  coarse doubles.
- `TimesAreFinishTimes`: the early exit of the reverse scan is right, because of
  `FinishOrder`. `PriorityServed` and `FirstWaveByRank`: sorting really determines who is
  served first. `PointersStayValid`: the vectors completions refer to are not rearranged
  while completions exist. `CallReturns`: every call returns with all tasks processed.
- `ReserveIsExact`: the two formulas for the number of blocks agree, unless the
  complexity of an edge block wraps to 0. `TilesTheProduct`, `TransferVolume`: totals of
  work and traffic, as long as nothing wraps (`Fits`).
- `RowTypeOK`: the user ids `create_tasks` hands out fit the result `simulate` returns,
  which the code never compares. `ProductIsPaidFor`, `OneProcessorDoesItAll`: from the
  slice sizes to the times no block is lost, doubled or charged to the other player. The
  work owed is computed from the slice sizes alone (`PlayersWork`) and compared with the
  times `simulate` returns. How good doubles are depends on the numbers, so this is said of
  the simulations whose own quotients and sums (`Reckonings`) are not rounded down, or are
  exact (`NothingRoundedDown`, `AllExact`), and in which nothing wraps (`NothingWraps`).
  `RunsAgree`: what averaging averages is the effect of ties, nothing else, on equal
  processors. It assumes that a matrix has no more elements than a `size_t` can count and
  that players have different ids (`Representable`); otherwise blocks of one player may
  weigh the same and differ in traffic. `ImplementsSweep`, `RowEnds`: a row makes the
  simulations `Driver` counts.
- `FileIsTheSweep`, `RowsSurvive`, `MeanOfRuns`: the output. At most the last row is
  incomplete, and then `main` has returned 0 all the same; a failed write is not reported
  either, but what was written before it stays, and nothing follows it. If the range of
  slice sizes is empty, the process dies and the first line of the header, which has been
  flushed, is all there is.
- `LogFollowsSweep`: the log is the earlier one (if `--sim_log` is not given, or the log
  does not open, which nobody checks) or the rows of the sweep from the first on, in order.
  As long as no write to it fails it has every row that is done, and at most one more;
  afterwards it falls behind and `main` does not notice.
- `EarlierResultsKept`: whatever `main` refuses before it simulates anything (an option, a
  step of 0, a range that is too long or never ends, an output that does not open), it
  refuses before it empties the output, and the earlier results stay. This does not extend
  to what goes wrong later. An exception in a simulation, such as the `length_error` of the
  reservation at `mmsim.hpp:60`, ends in a handler too, and the earlier results are gone;
  an empty range is not refused at all. The earlier *log* is emptied at `main.cpp:153`,
  before it is known whether the output opens.
- `SweepIsProgression`, `Ends`: the slice sizes; even a counter that wraps for ever ends
  in an exception.

The ordering properties assume `NonNegativeDurations` (`--ping`, `--bandwidth` and all
`--mips` are not negative): the command line checks no sign. `negative_ping` shows what remains.

Fairness. Every program here is one sequential thread with nothing to wait for, so
weak fairness of its next statement (`WF_vars(Step)`) is what running it means. `Driver`
may be killed at any time, and `Killed` is not part of `Step`: nothing forces it.

## Findings

- `--slices` is described as "slice params (min slice, max slice, step)" (`main.cpp:56`),
  but the loop at `main.cpp:119` runs while `i < slice_end`: the maximum is never swept.
  With min = max there is no slice size at all, and `write_to_stream` (`main.cpp:23`)
  dereferences `begin()` of an empty vector. Run `max_slice`.

## Proofs

All constants are arbitrary, under the assumptions the modules name:

- `InputsAssumption`, `DoubleAssumption` of `TaskProcessor`: types of the inputs; any
  rounding, any signs, infinities;
- `ArgumentsAssumption`, `UsersAssumption` of `Simulate`: types; user ids below
  `n_user_hint`. `RowProofs` shows that the one real caller keeps the latter;
- `DriverAssumption`: types; any width of `size_t`, any number of slice sizes;
- `ComparatorAssumption` of `PriorityQueue`: the comparator is a strict weak ordering, as
  the library demands; `TaskProcessorHeapProofs` proves it of `LaterFirst`;
- `NumbersAssumption` of `TaskProcessorHeap`, `WidthsAssumption` of `MatMul`,
  `JobsAssumption` of `MatMulTasks`: types; any width of `size_t` and `uint8_t`;
- `RowAssumption`: what `main` passes to `create_tasks`, one slice size or more, none of
  them 0; `One`, what `Double` has for the quotient of equal numbers, is a natural number.
  `ExactAssumption`: the complexities of these tasks, integers in `MatMul`, are numbers a
  double can hold.

Most invariants are proved by one lemma per action or per kind of action. Where a proof
needs induction over a list, it is done on the set of lengths or positions for which a
formula fails: if it has a member it has a least one (`LeastNumber` in `SumProofs`), and
that is absurd. `Induction` and `Recursion` there say the same of sets of numbers that
are closed under successor and of recursive functions.

`SumProofs`: lemmas about `Sums` (`PartialSumsStep`, `TotalConcat`, `TotalOne`,
`TotalAtLeast`, `TotalChanged` and others) for the modules below. Three carry most of
`RowProofs`: `TotalScaled` (a factor of all terms is one of the sum), `TotalFront`
and `TotalPermuted` (rearranging a list, as `std::sort` does, keeps its sum).

`TaskProcessorProofs`:

- `TypeCorrect`. `DurationType` and `NextCompletionType` say that what is queued is a
  completion, and of non-negative length if the setup is.
- `EachTaskOnceHolds`. `EachTaskOnce` is not inductive: that all tasks are processed when
  the loop ends needs that the queue cannot run empty while tasks remain. `QueueInv` adds
  this: `OneJobPerWorker`, `Busy` (a job for every worker seeded so far, and for all of
  them while a task waits after seeding), `Seeding` (the state of the first loop) and
  `QueueDrained`.
- `FinishOrderHolds`, `BackToBackHolds`, `StartsInListOrderHolds`,
  `NoIdleWhileWaitingHolds`, from `TimeInv`. Its heart is `Clock`: nothing running ends
  before anything else has started. Then the popped completion's end is the present:
  what is running ends at or after it and has started by then, what has been reported
  ended before, and the refill starts exactly there. `Busy` gives `NoIdleWhileWaiting`.
- `RefinesPool`: `Spec => Pool!Spec`. `Seed` is `Start(i)`, `Process` is `Complete` of the
  popped completion's worker (its guard is `Busy` and `IsTop`), the rest stutters. It
  does not need non-negative durations.
- `TiesDoNotMatterHolds`, from `LoadsInv`: the loads are those of the reference, renamed.
  `GivenTo` says that the next task always goes to a least loaded worker: after seeding
  because the popped completion is a worker's last and no other worker is free earlier,
  during seeding because a free worker's load is 0. Which of several such workers it is
  may differ from the reference's choice; `Renamed` then exchanges the two, whose loads
  are equal, in the bijection.
- `GrahamBoundHolds`: the loads add up to no more than the work given away and one rounding
  for each task (`WorkGiven`, `RoundingInv`), whatever the rounding; the least load is at
  most their mean, and a task starts at the least load and ends one rounding after its
  duration at most. `TotalAtLeast` is the mean, `TotalChanged` the effect of one task.

`SimulateProofs`: every safety property of `Simulate`, from `SimInv`, whose first part is
the invariant of the loop it runs.

- `TimesAreFinishTimesHolds`. `Scan` says what the reverse scan knows half way: users it
  has met have the time of their last completion, the others have none behind `curr`. It
  may stop as soon as it has met `n_user_hint` users, because these are then all of them
  (`AllUsers`); that the last in the vector is the last in time is `FinishOrder`.
- `PriorityServedHolds` from `Sorted` and `StartsInListOrder`; `FirstWaveByRankHolds` from
  `FirstWave` (refills are of tasks behind the first wave); `PointersStayValidHolds` from
  `Fresh`; `SimTypeCorrect`.
- `WorkTakesTime`, a bound on any schedule, for `RowProofs`: if each task takes at least
  as long as its worker needs for some number of units at its rate, no more units are done
  by a time than all workers' rates allow by then. Induction over the list: what the first
  `n` tasks amount to is no more than every worker does until the end of its last one among
  them (`DoneBy`), and a worker starts a task when its earlier ones have ended (`EndsBefore`).

`DriverProofs`: every safety property of `Driver`, `MaxSliceIsSwept` of course excepted.

- `TypeCorrect`, with `Place`: where the two loops of the sweep can be.
- `RowsSurviveHolds`: `RowsFlushed` says that complete rows are flushed, and only what is
  not flushed can be lost. `Untouched` is needed because opening does empty the file.
- `EarlierResultsKeptHolds` from `Accepted`: past the point where the output is opened,
  nothing `Refused` speaks of is true any more, and before it the file is the earlier one.
- `FileIsTheSweepHolds`: `Written` ties the length of the file to `Done`, the number of rows
  the two counters amount to. Row number and counters are translated by `Quotient` and
  `AdvanceOne`.
- `LogFollowsSweepHolds` from `Logged`, the same for the log, whose stream may fail;
  `MeanOfRunsHolds` from `Counted`; `SweepIsProgressionHolds` from `Expanded`, the
  invariant of the expansion.

`PriorityQueueProofs`:

- `HeapBetweenCalls`, `TypeCorrect`: the vector is a heap between any two calls, so the
  library's preconditions hold at each.
- `QueueImplementsBag`: `Spec => Bag!Spec`. `FrontIsFirst`: no element of a heap precedes
  its front, by the least position that would; the rest is that the contract of
  `push_heap` and `pop_heap` rearranges and loses nothing.

`TaskProcessorHeapProofs` uses these lemmas for the event loop's own comparator:

- `QueueStaysHeap`; `HeapImplementsLoop`: `Spec => Loop!Spec`, with the vector's range as
  the set. `QueueIsHeap` includes that no worker is queued twice (`DistinctWorkers`), so
  that set and vector lose the same completion.

`MatMulProofs`: about `MatMul`'s operators, for any widths.

- `ReserveIsExactHolds`: block counts by `calculate_number_of_tasks` and by the loops of
  `create_tasks` are the same numbers, unless an edge block's complexity wraps to 0.
- `TilesTheProductHolds`, `TransferVolumeHolds`: the totals over the list of runs become
  totals per slice size (`TotalConcat`), where they are identities of the block counts
  that hold when nothing wraps (`Fits`).
- `JobPrice`: the tasks of one slice size cost, at any prices for work, traffic and setup,
  what its product costs. The two theorems above are about one sum each; here it is a
  linear mixture of both and of the number of blocks.

`RowProofs`:

- `RowTypeCorrect`, from `RowInv`: `create_tasks` keeps the promise `UsersAssumption` asks
  of a caller of `simulate`, and `SimInv` holds between and during the simulations.
- `RowImplementsSweep`: `ImplementsSweep`, from the same invariant with `ToCome`, the
  number of simulations still to come.
- `RunsAgreeHolds`, which compares two executions, in four parts. `OneArrangement`: if only
  equal tasks tie, there is one way to sort them; where two ways first part, the task that
  should come first would be missing from one of them. `ReturnedTimes`: on equal processors
  the times are a function of the sorted tasks (`ReferenceTimes`), by
  `TiesDoNotMatterHolds` and `TimesAreFinishTimesHolds`; `ReferenceInv` keeps these facts
  through the row. `AgreeInv`: the tasks of each simulation are an arrangement of what
  `create_tasks` made, and all results are the times of the one sorted arrangement.
  `BlocksDiffer`: full, edge and corner blocks of one slice size differ in weight, so that
  `NoTies`, which is about players, is enough.
- `ProductIsPaidForHolds`. `CreatedPrice` gives the price of the tasks `create_tasks` makes
  for a player, from `JobPrice`; `ScheduledPrice` says that it is still that of the tasks
  which `simulate` has sorted and scheduled, because they are an arrangement of the former
  (`AgreeInv`, `TotalPermuted`) and a player's tasks are its own (`UserIsOwn`). Where
  nothing is rounded down, each task takes its price at least (`TaskTakesTime`), at the
  price of the slowest processor; so all of a player's have been paid by the time its last
  one ends (`WorkTakesTime`), and that time is the one reported (`TimesAreFinishTimes`).
- `OneProcessorDoesItAllHolds`. One processor takes the tasks one after the other, in list
  order and without a pause (`OneAfterTheOther`: its load is that of the reference schedule,
  by `TiesDoNotMatterHolds`, and with one worker that is a running sum).
  Where all is exact, what it has done after `n` tasks is the price of the first `n`
  (`AloneDone`, by induction); after the last it is the price of all (`AllPrices`). The
  player whose task ends last has that time, and no player a later one.

Only model-checked, and why: liveness, that is `Terminates`, `CallReturns`, `Ends`,
`RowEnds` and the fairness part of `ImplementsPool` and `ImplementsLoop`. The prover has
no rules for `ENABLED`. Every other property that a run checks and the code keeps is a
theorem.

## Not modelled

- `dependencies/` is a copy of Boost: nearly all lines of the repository, none of them
  this program's behaviour. Only `program_options` is used, once, to parse the command
  line; `ReadOptions` has its outcomes. The program's own code is `main.cpp` and
  `smpp/*.hpp`, some 600 lines, and each of its operations is in a module.
- The build files.
- Text: header fields, log lines, precision of numbers, and the automatic file name
  (`main.cpp:137-150`). It lacks slice sizes and mips, so two sweeps may get one name, and
  the second overwrites the results of the first: nothing in the program prevents it.
- NaN, and memory that runs out within `create_tasks` (see `RunFails` for its effect).

## Plan

Done, in order of importance: 1. `TaskProcessor` with `WorkerPool`; 2. `Simulate`;
3. `MatMul`; 4. `VectorHeap`, `PriorityQueue`, `TaskProcessorHeap`; 5. `Driver`;
6. proofs about `TaskProcessor` and its refinement; 7. arithmetic that rounds;
8. `Row`, and `Driver` with failing writes and earlier results.

Done since: 9. proofs about `Simulate` and `Driver`.

Then: 10. proofs about `PriorityQueue`, `TaskProcessorHeap`, `MatMulTasks` and `Row`;
11. `ListSchedule` with its two theorems; 12. `RunsAgree`.

Last: 13. `ProductIsPaidFor` and `OneProcessorDoesItAll`, once what they need of quotients
and sums was stated of the numbers of one simulation (`Reckonings`) instead of all
doubles; 14. the log as a stream that may fail, what an earlier call left in both files,
and `GrahamBound` for any rounding.
