-------------------------- MODULE TaskProcessorProofs --------------------------
(***************************************************************************)
(* Proofs about TaskProcessor, for every value of its constants.           *)
(***************************************************************************)
EXTENDS ListSchedule, SumProofs

(***************************************************************************)
(* Durations are doubles, and not negative when no parameter is.           *)
(***************************************************************************)
LEMMA DurationType ==
    ASSUME NEW mips \in Mips, NEW task \in SimpleTask
    PROVE  /\ Duration(mips, task) \in Double
           /\ mips >= 0 /\ Bandwidth >= 0 /\ ConnectionSetup >= 0 =>
                 Duration(mips, task) >= 0
<1>1. \A x, y \in Double :
          /\ Plus(x, y) \in Double
          /\ x >= 0 /\ y >= 0 => Plus(x, y) >= 0
  <2> SUFFICES ASSUME NEW x \in Double, NEW y \in Double
               PROVE  /\ Plus(x, y) \in Double
                      /\ x >= 0 /\ y >= 0 => Plus(x, y) >= 0
    OBVIOUS
  <2>1. /\ Plus(x, y) \in Double
        /\ y >= 0 => x <= Plus(x, y)
    BY DoubleAssumption
  <2>2. x \in Int /\ Plus(x, y) \in Int
    BY <2>1, DoubleAssumption
  <2> QED
    BY <2>1, <2>2
<1>2. /\ task.complexity \in Double /\ task.complexity >= 0
      /\ task.bits_to_transfer \in Double /\ task.bits_to_transfer >= 0
  BY DEF SimpleTask
<1>3. /\ TimeToComplete(mips, task.complexity) \in Double
      /\ mips >= 0 => TimeToComplete(mips, task.complexity) >= 0
  BY <1>2, DoubleAssumption DEF TimeToComplete, Mips
<1>4. /\ Per(task.bits_to_transfer, Bandwidth) \in Double
      /\ Bandwidth >= 0 => Per(task.bits_to_transfer, Bandwidth) >= 0
  BY <1>2, DoubleAssumption, InputsAssumption
<1>5. /\ TransferTime(task.bits_to_transfer) \in Double
      /\ Bandwidth >= 0 /\ ConnectionSetup >= 0 =>
            TransferTime(task.bits_to_transfer) >= 0
  BY <1>1, <1>4, InputsAssumption DEF TransferTime
<1> QED
  BY <1>1, <1>3, <1>5 DEF Duration

\* Of the doubles the proofs only need that they can be compared and that 0 is one.
LEMMA DoubleInt == Double \subseteq Int /\ 0 \in Double
  BY DoubleAssumption

(***************************************************************************)
(* The completion of the next task is a completion, whoever takes it.      *)
(***************************************************************************)
LEMMA NextCompletionType ==
    ASSUME TypeOK, TasksRemain, NEW w \in DOMAIN procs, NEW t \in Double
    PROVE  /\ NextCompletion(w, t) \in Completion
           /\ NonNegativeDurations =>
                 NextCompletion(w, t).time_end >= NextCompletion(w, t).time_start
<1>1. procs[w] \in Mips /\ task_iterator \in DOMAIN tasks
  BY DEF TypeOK, TasksRemain
<1>2. tasks[task_iterator] \in SimpleTask
  BY <1>1 DEF TypeOK
<1> DEFINE d == Duration(procs[w], tasks[task_iterator])
<1>3. /\ d \in Double
      /\ NonNegativeDurations => d >= 0
  BY <1>1, <1>2, DurationType DEF NonNegativeDurations
<1> HIDE DEF d
<1>4. /\ Plus(t, d) \in Double
      /\ d >= 0 => t <= Plus(t, d)
  BY <1>3, DoubleAssumption
<1>5. t \in Int /\ Plus(t, d) \in Int
  BY <1>4, DoubleAssumption
<1> QED
  BY <1>1, <1>3, <1>4, <1>5 DEF NextCompletion, Completion, d

(***************************************************************************)
(* Type correctness: the base case and the step.                           *)
(***************************************************************************)
\* The empty queue, the empty result and the iterators at begin are well typed.
LEMMA InitType == Init => TypeOK
  BY InputsAssumption DEF Init, TypeOK

\* No statement of the loops takes a variable out of its type.
LEMMA StepType == TypeOK /\ [Next]_vars => TypeOK'
<1> SUFFICES ASSUME TypeOK, [Next]_vars
             PROVE  TypeOK'
  OBVIOUS
<1>1. CASE Seed
  <2>1. i \in DOMAIN procs /\ TasksRemain
    BY <1>1 DEF Seed, TypeOK
  <2>2. NextCompletion(i, 0) \in Completion
    BY <2>1, NextCompletionType, DoubleInt
  <2> QED
    BY <1>1, <2>1, <2>2 DEF Seed, TypeOK, TasksRemain, Completion
<1>2. CASE SeedingOver
  BY <1>2 DEF SeedingOver, TypeOK, Completion
<1>3. CASE Process
  <2>1. PICK tk \in p_queue :
            /\ p_queue' = (p_queue \ {tk}) \cup Refill(tk)
            /\ processed_tasks' = Append(processed_tasks, tk)
    BY <1>3 DEF Process
  <2>2. tk \in Completion
    BY <2>1 DEF TypeOK
  <2>3. TasksRemain => NextCompletion(tk.worker_index, tk.time_end) \in Completion
    BY <2>2, NextCompletionType DEF Completion
  <2>4. p_queue' \subseteq Completion
    BY <2>1, <2>3 DEF TypeOK, Refill
  <2>5. processed_tasks' \in Seq(Completion)
    BY <2>1, <2>2 DEF TypeOK
  <2>6. task_iterator' \in 1..(Len(tasks) + 1)
    BY <1>3 DEF Process, AdvanceIterator, TasksRemain, TypeOK
  <2>7. Completion' = Completion /\ UNCHANGED <<procs, tasks, i, pc>>
    BY <1>3 DEF Process, Completion
  <2> QED
    BY <2>4, <2>5, <2>6, <2>7 DEF TypeOK
<1>4. CASE Return
  BY <1>4 DEF Return, TypeOK, Completion
<1>5. CASE UNCHANGED vars
  BY <1>5 DEF vars, TypeOK, Completion
<1> QED
  BY <1>1, <1>2, <1>3, <1>4, <1>5 DEF Next, Step, Terminated

\* The queue and the result of operator() hold completions that designate a
\* processor and a task of its arguments, and its two iterators stay in range.
THEOREM TypeCorrect == Spec => []TypeOK
  BY InitType, StepType, PTL DEF Spec
-------------------------------------------------------------------------------
(***************************************************************************)
(* The inductive invariant.  Once is EachTaskOnce before the call returns; *)
(* OneJobPerWorker and Busy say what the queue holds: at most one job per  *)
(* worker, and one for every worker seeded so far, or for all of them      *)
(* while a task waits; Seeding pins down the state of the first loop.      *)
(***************************************************************************)
Once ==
    /\ {r.task : r \in Started} = 1..(task_iterator - 1)
    /\ \A r, s \in Started : r.task = s.task => r = s
    /\ \A m, n \in DOMAIN processed_tasks :
          processed_tasks[m] = processed_tasks[n] => m = n
    /\ p_queue \cap Processed = {}

OneJobPerWorker ==
    \A r, s \in p_queue : r.worker_index = s.worker_index => r = s

Seeding ==
    pc = "seed" =>
        /\ processed_tasks = <<>>
        /\ \A r \in p_queue : r.worker_index < i /\ r.time_start = 0

Busy ==
    /\ pc = "seed" =>
          \A w \in 1..(i - 1) : \E r \in p_queue : r.worker_index = w
    /\ pc # "seed" /\ TasksRemain =>
          \A w \in DOMAIN procs : \E r \in p_queue : r.worker_index = w

QueueDrained == pc = "done" => p_queue = {}

QueueInv == Once /\ OneJobPerWorker /\ Seeding /\ Busy /\ QueueDrained

(***************************************************************************)
(* What the two actions that start a task do to the sets the invariant is  *)
(* about.                                                                  *)
(***************************************************************************)
LEMMA SeedEffect ==
    ASSUME TypeOK, Seeding, Seed
    PROVE  LET new == NextCompletion(i, 0)
           IN  /\ i \in DOMAIN procs
               /\ TasksRemain
               /\ new \in Completion
               /\ p_queue' = p_queue \cup {new}
               /\ Processed = {} /\ Processed' = {}
               /\ Started = p_queue /\ Started' = p_queue'
<1>1. i \in DOMAIN procs /\ TasksRemain
  BY DEF Seed, TypeOK
<1>2. NextCompletion(i, 0) \in Completion
  BY <1>1, NextCompletionType, DoubleInt
<1>3. processed_tasks = <<>> /\ processed_tasks' = <<>>
  BY DEF Seed, Seeding
<1>4. Processed = {} /\ Processed' = {}
  BY <1>3 DEF Processed
<1> QED
  BY <1>1, <1>2, <1>4 DEF Seed, Started

\* An iteration of the event loop moves one completion to the result and adds at
\* most one to those started.
LEMMA ProcessEffect ==
    ASSUME TypeOK, Process
    PROVE  \E tk \in p_queue :
               /\ tk \in Completion
               /\ IsTop(tk)
               /\ p_queue' = (p_queue \ {tk}) \cup Refill(tk)
               /\ processed_tasks' = Append(processed_tasks, tk)
               /\ Processed' = Processed \cup {tk}
               /\ Started' = Started \cup Refill(tk)
<1>1. PICK tk \in p_queue :
          /\ IsTop(tk)
          /\ p_queue' = (p_queue \ {tk}) \cup Refill(tk)
          /\ processed_tasks' = Append(processed_tasks, tk)
  BY DEF Process
<1>2. tk \in Completion
  BY <1>1 DEF TypeOK
<1>3. Processed' = Processed \cup {tk}
  <2>1. /\ DOMAIN processed_tasks = 1..Len(processed_tasks)
        /\ DOMAIN processed_tasks' = 1..(Len(processed_tasks) + 1)
        /\ \A n \in DOMAIN processed_tasks : processed_tasks'[n] = processed_tasks[n]
        /\ processed_tasks'[Len(processed_tasks) + 1] = tk
        /\ Len(processed_tasks) \in Nat
    BY <1>1, <1>2 DEF TypeOK
  <2>2. DOMAIN processed_tasks' = DOMAIN processed_tasks \cup {Len(processed_tasks) + 1}
    BY <2>1
  <2> QED
    BY <2>1, <2>2 DEF Processed
<1>4. Started' = Started \cup Refill(tk)
  BY <1>1, <1>3 DEF Started
<1> QED
  BY <1>1, <1>2, <1>3, <1>4

\* What has been started is well typed, wherever it is.
LEMMA StartedType == TypeOK => Started \subseteq Completion /\ Processed \subseteq Completion
  BY DEF TypeOK, Started, Processed

\* The invariant holds before the first task is seeded.
LEMMA InitQueueInv == Init => QueueInv
<1> SUFFICES ASSUME Init PROVE QueueInv
  OBVIOUS
<1>1. Processed = {} /\ Started = {}
  BY DEF Init, Processed, Started
<1> QED
  BY <1>1 DEF Init, QueueInv, Once, OneJobPerWorker, Seeding, Busy, QueueDrained

(***************************************************************************)
(* Preservation, one lemma per action that moves a completion.             *)
(***************************************************************************)
LEMMA SeedQueueInv == TypeOK /\ QueueInv /\ Seed => QueueInv'
<1> SUFFICES ASSUME TypeOK, QueueInv, Seed
             PROVE  QueueInv'
  OBVIOUS
<1> DEFINE new == NextCompletion(i, 0)
<1>1. /\ i \in DOMAIN procs
      /\ TasksRemain
      /\ new \in Completion
      /\ p_queue' = p_queue \cup {new}
      /\ Processed = {} /\ Processed' = {}
      /\ Started = p_queue /\ Started' = p_queue'
  BY SeedEffect DEF QueueInv
<1>2. new.worker_index = i /\ new.task = task_iterator /\ new.time_start = 0
  BY DEF NextCompletion
<1>3. /\ i' = i + 1 /\ task_iterator' = task_iterator + 1
      /\ pc = "seed" /\ pc' = "seed" /\ processed_tasks' = processed_tasks
      /\ i \in Nat /\ task_iterator \in Nat \ {0}
  BY DEF Seed, TypeOK
<1>4. Seeding /\ processed_tasks = <<>>
  BY <1>3 DEF QueueInv, Seeding
<1>5. p_queue \subseteq Completion
  BY DEF TypeOK
<1> HIDE DEF new
<1>6. Once'
  <2>1. {r.task : r \in Started'} = {r.task : r \in Started} \cup {new.task}
    BY <1>1
  <2>2. {r.task : r \in Started'} = 1..(task_iterator' - 1)
    <3>1. {r.task : r \in Started} = 1..(task_iterator - 1)
      BY DEF QueueInv, Once
    <3>2. 1..task_iterator = 1..(task_iterator - 1) \cup {task_iterator}
      BY <1>3
    <3> QED
      BY <2>1, <3>1, <3>2, <1>2, <1>3
  <2>3. \A r \in Started : r.task \in 1..(task_iterator - 1)
    BY DEF QueueInv, Once
  <2>4. \A r, s \in Started' : r.task = s.task => r = s
    BY <2>3, <1>1, <1>2, <1>3 DEF QueueInv, Once
  <2> QED
    BY <2>2, <2>4, <1>1, <1>3, <1>4 DEF Once
<1>7. OneJobPerWorker'
  BY <1>1, <1>2, <1>3, <1>4 DEF QueueInv, OneJobPerWorker, Seeding
<1>8. Seeding'
  <2>1. \A r \in p_queue : r.worker_index < i /\ r.time_start = 0 /\ r.worker_index \in Int
    BY <1>3, <1>4, <1>5 DEF Seeding, Completion
  <2> QED
    BY <2>1, <1>1, <1>2, <1>3, <1>4 DEF Seeding
<1>9. Busy'
  <2>1. \A w \in 1..i : w \in 1..(i - 1) \/ w = i
    BY <1>3
  <2> QED
    BY <2>1, <1>1, <1>2, <1>3 DEF QueueInv, Busy
<1>10. QueueDrained'
  BY <1>3 DEF QueueDrained
<1> QED
  BY <1>6, <1>7, <1>8, <1>9, <1>10 DEF QueueInv

\* The refill replaces the popped completion, on the same worker.
LEMMA ProcessQueueInv == TypeOK /\ QueueInv /\ Process => QueueInv'
<1> SUFFICES ASSUME TypeOK, QueueInv, Process
             PROVE  QueueInv'
  OBVIOUS
<1>1. PICK tk \in p_queue :
          /\ tk \in Completion
          /\ IsTop(tk)
          /\ p_queue' = (p_queue \ {tk}) \cup Refill(tk)
          /\ processed_tasks' = Append(processed_tasks, tk)
          /\ Processed' = Processed \cup {tk}
          /\ Started' = Started \cup Refill(tk)
  BY ProcessEffect
<1> DEFINE new == NextCompletion(tk.worker_index, tk.time_end)
<1>2. new.worker_index = tk.worker_index /\ new.task = task_iterator
  BY DEF NextCompletion
<1>3. /\ pc = "drain" /\ pc' = "drain"
      /\ task_iterator' = IF TasksRemain THEN task_iterator + 1 ELSE task_iterator
      /\ task_iterator \in Nat \ {0} /\ Len(tasks) \in Nat
      /\ procs' = procs /\ tasks' = tasks
  BY DEF Process, AdvanceIterator, TypeOK
<1>4. Refill(tk) = IF TasksRemain THEN {new} ELSE {}
  BY DEF Refill
<1>5. \A r \in Started : r.task \in 1..(task_iterator - 1)
  BY DEF QueueInv, Once
<1>6. p_queue \subseteq Started /\ Processed \subseteq Started
  BY DEF Started
<1>7. tk \notin Processed
  BY DEF QueueInv, Once
<1> HIDE DEF new
<1>8. Once'
  <2>1. {r.task : r \in Started'} = 1..(task_iterator' - 1)
    <3>1. CASE TasksRemain
      <4>1. {r.task : r \in Started'} = {r.task : r \in Started} \cup {new.task}
        BY <3>1, <1>1, <1>4
      <4> QED
        BY <4>1, <3>1, <1>2, <1>3 DEF QueueInv, Once
    <3>2. CASE ~TasksRemain
      BY <3>2, <1>1, <1>3, <1>4 DEF QueueInv, Once
    <3> QED
      BY <3>1, <3>2
  <2>2. \A r, s \in Started' : r.task = s.task => r = s
    BY <1>1, <1>2, <1>3, <1>4, <1>5 DEF QueueInv, Once
  <2>3. \A m, n \in DOMAIN processed_tasks' :
            processed_tasks'[m] = processed_tasks'[n] => m = n
    <3>1. /\ DOMAIN processed_tasks = 1..Len(processed_tasks)
          /\ DOMAIN processed_tasks' = 1..(Len(processed_tasks) + 1)
          /\ \A n \in DOMAIN processed_tasks : processed_tasks'[n] = processed_tasks[n]
          /\ processed_tasks'[Len(processed_tasks) + 1] = tk
          /\ Len(processed_tasks) \in Nat
      BY <1>1 DEF TypeOK
    <3>2. \A n \in DOMAIN processed_tasks : processed_tasks[n] # tk
      BY <1>7 DEF Processed
    <3>3. \A m, n \in DOMAIN processed_tasks :
              processed_tasks[m] = processed_tasks[n] => m = n
      BY DEF QueueInv, Once
    <3>4. \A n \in DOMAIN processed_tasks' :
              n \in DOMAIN processed_tasks \/ n = Len(processed_tasks) + 1
      BY <3>1
    <3> QED
      BY <3>1, <3>2, <3>3, <3>4
  <2>4. p_queue' \cap Processed' = {}
    <3>1. new \notin Started
      BY <1>2, <1>3, <1>5
    <3> QED
      BY <3>1, <1>1, <1>4, <1>6 DEF QueueInv, Once
  <2> QED
    BY <2>1, <2>2, <2>3, <2>4 DEF Once
<1>9. OneJobPerWorker'
  BY <1>1, <1>2, <1>4 DEF QueueInv, OneJobPerWorker
<1>10. Seeding'
  BY <1>3 DEF Seeding
<1>11. Busy'
  <2> SUFFICES ASSUME TasksRemain', NEW w \in DOMAIN procs
               PROVE  \E r \in p_queue' : r.worker_index = w
    BY <1>3 DEF Busy
  <2>1. TasksRemain
    BY <1>3 DEF TasksRemain
  <2>2. PICK r \in p_queue : r.worker_index = w
    BY <2>1, <1>3 DEF QueueInv, Busy
  <2> QED
    BY <2>1, <2>2, <1>1, <1>2, <1>4
<1>12. QueueDrained'
  BY <1>3 DEF QueueDrained
<1> QED
  BY <1>8, <1>9, <1>10, <1>11, <1>12 DEF QueueInv

\* The other steps move no completion; the event loop starts with every worker
\* busy, or without a task left.
LEMMA StepQueueInv == TypeOK /\ QueueInv /\ [Next]_vars => QueueInv'
<1> SUFFICES ASSUME TypeOK, QueueInv, [Next]_vars
             PROVE  QueueInv'
  OBVIOUS
<1>1. ASSUME UNCHANGED <<p_queue, processed_tasks, task_iterator, tasks>>
      PROVE  Once' /\ OneJobPerWorker'
  BY <1>1 DEF QueueInv, Once, OneJobPerWorker, Started, Processed
<1>2. CASE SeedingOver
  <2>1. Busy'
    <3> SUFFICES ASSUME TasksRemain, NEW w \in DOMAIN procs
                 PROVE  \E r \in p_queue : r.worker_index = w
      BY <1>2 DEF SeedingOver, Busy, TasksRemain
    <3>1. w \in 1..(i - 1)
      BY <1>2 DEF SeedingOver, TypeOK
    <3> QED
      BY <3>1, <1>2 DEF SeedingOver, QueueInv, Busy
  <2> QED
    BY <2>1, <1>1, <1>2 DEF SeedingOver, QueueInv, Seeding, QueueDrained
<1>3. CASE Return
  BY <1>1, <1>3 DEF Return, QueueInv, Busy, Seeding, QueueDrained, TasksRemain
<1>4. CASE UNCHANGED vars
  BY <1>1, <1>4 DEF vars, QueueInv, Busy, Seeding, QueueDrained, TasksRemain
<1> QED
  BY SeedQueueInv, ProcessQueueInv, <1>2, <1>3, <1>4 DEF Next, Step, Terminated

\* The bookkeeping of operator() - queue, iterator and result - never gets out of
\* step.
THEOREM QueueInvariant == Spec => [](TypeOK /\ QueueInv)
<1>1. Init => TypeOK /\ QueueInv
  BY InitType, InitQueueInv
<1>2. TypeOK /\ QueueInv /\ [Next]_vars => (TypeOK /\ QueueInv)'
  BY StepType, StepQueueInv
<1> QED
  BY <1>1, <1>2, PTL DEF Spec

\* When the loop has returned, everything that was started is in the result.
LEMMA OnceFollows == TypeOK /\ QueueInv => EachTaskOnce
<1> SUFFICES ASSUME TypeOK, QueueInv, pc = "done", Len(procs) > 0
             PROVE  {r.task : r \in Processed} = DOMAIN tasks
  BY DEF EachTaskOnce, QueueInv, Once
<1>1. p_queue = {}
  BY DEF QueueInv, QueueDrained
<1>2. 1 \in DOMAIN procs
  BY DEF TypeOK
<1>3. ~TasksRemain
  BY <1>1, <1>2 DEF QueueInv, Busy
<1>4. task_iterator - 1 = Len(tasks)
  BY <1>3 DEF TasksRemain, TypeOK
<1>5. Started = Processed
  BY <1>1 DEF Started
<1>6. {r.task : r \in Started} = 1..(task_iterator - 1)
  BY DEF QueueInv, Once
<1>7. DOMAIN tasks = 1..Len(tasks)
  BY DEF TypeOK
<1> QED
  BY <1>4, <1>5, <1>6, <1>7

(***************************************************************************)
(* Every task is started exactly once, is in the queue or in the result    *)
(* but not in both, and is in the result when operator() returns.          *)
(***************************************************************************)
THEOREM EachTaskOnceHolds == Spec => []EachTaskOnce
  BY OnceFollows, QueueInvariant, PTL
-------------------------------------------------------------------------------
(***************************************************************************)
(* The order of time.  Clock is the heart: no running task ends before     *)
(* another one has started, so the earliest end is the present.            *)
(***************************************************************************)
Clock ==
    NonNegativeDurations =>
        /\ \A r \in Started : 0 <= r.time_start /\ r.time_start <= r.time_end
        /\ \A r \in Started, s \in p_queue : r.time_start <= s.time_end

TimeInv ==
    Clock /\ FinishOrder /\ BackToBack /\ StartsInListOrder /\ NoIdleWhileWaiting

\* Nothing has started yet.
LEMMA InitTimeInv == Init => TimeInv
<1> SUFFICES ASSUME Init PROVE TimeInv
  OBVIOUS
<1>1. Processed = {} /\ Started = {}
  BY DEF Init, Processed, Started
<1> QED
  BY <1>1 DEF Init, TimeInv, Clock, FinishOrder, BackToBack, StartsInListOrder,
              NoIdleWhileWaiting

(***************************************************************************)
(* While the queue is seeded everything starts at 0.                       *)
(***************************************************************************)
LEMMA SeedTimeInv == TypeOK /\ QueueInv /\ TimeInv /\ Seed => TimeInv'
<1> SUFFICES ASSUME TypeOK, QueueInv, TimeInv, Seed
             PROVE  TimeInv'
  OBVIOUS
<1> DEFINE new == NextCompletion(i, 0)
<1>1. /\ i \in DOMAIN procs
      /\ TasksRemain
      /\ new \in Completion
      /\ p_queue' = p_queue \cup {new}
      /\ Processed = {} /\ Processed' = {}
      /\ Started = p_queue /\ Started' = p_queue'
  BY SeedEffect DEF QueueInv
<1>2. new.worker_index = i /\ new.time_start = 0
  BY DEF NextCompletion
<1>3. NonNegativeDurations => new.time_end >= 0
  BY <1>1, <1>2, NextCompletionType, DoubleInt
<1>4. /\ processed_tasks = <<>> /\ processed_tasks' = <<>>
      /\ \A r \in p_queue : r.worker_index < i /\ r.time_start = 0
      /\ i \in Nat
  BY DEF QueueInv, Seeding, Seed, TypeOK
<1>5. \A r \in p_queue' : r.time_start = 0
  BY <1>1, <1>2, <1>4
<1>6. NonNegativeDurations => \A r \in p_queue' : r.time_end >= 0
  BY <1>1, <1>3, <1>4 DEF TimeInv, Clock
<1>7. NonNegativeDurations' <=> NonNegativeDurations
  BY DEF Seed, NonNegativeDurations
<1> HIDE DEF new
<1>8. Clock'
  BY <1>1, <1>5, <1>6, <1>7 DEF Clock
<1>9. FinishOrder'
  BY <1>1, <1>4 DEF FinishOrder
<1>10. BackToBack'
  <2> SUFFICES ASSUME NonNegativeDurations, NEW r \in p_queue', NEW s \in p_queue',
                      r.worker_index = s.worker_index, r # s
               PROVE  FALSE
    BY <1>1, <1>5, <1>7 DEF BackToBack
  <2>1. r \in p_queue /\ s \in p_queue
    BY <1>1, <1>2, <1>4
  <2> QED
    BY <2>1 DEF QueueInv, OneJobPerWorker
<1>11. StartsInListOrder' /\ NoIdleWhileWaiting'
  BY <1>1, <1>5 DEF StartsInListOrder, NoIdleWhileWaiting
<1> QED
  BY <1>8, <1>9, <1>10, <1>11 DEF TimeInv

(***************************************************************************)
(* When tk is popped, its end is the present: everything running ends at   *)
(* it or later and has started by then, everything reported ended before.  *)
(***************************************************************************)
LEMMA ProcessTimeInv == TypeOK /\ QueueInv /\ TimeInv /\ Process => TimeInv'
<1>0. Process => (NonNegativeDurations' <=> NonNegativeDurations)
  BY DEF Process, NonNegativeDurations
<1> SUFFICES ASSUME TypeOK, QueueInv, TimeInv, Process, NonNegativeDurations
             PROVE  TimeInv'
  BY <1>0 DEF TimeInv, Clock, FinishOrder, BackToBack, StartsInListOrder,
              NoIdleWhileWaiting
<1>1. PICK tk \in p_queue :
          /\ tk \in Completion
          /\ IsTop(tk)
          /\ p_queue' = (p_queue \ {tk}) \cup Refill(tk)
          /\ processed_tasks' = Append(processed_tasks, tk)
          /\ Processed' = Processed \cup {tk}
          /\ Started' = Started \cup Refill(tk)
  BY ProcessEffect
<1>2. /\ Started \subseteq Completion /\ p_queue \subseteq Started
      /\ Processed \subseteq Started
  BY StartedType DEF Started
<1> DEFINE present == tk.time_end
<1>3. /\ present \in Double /\ present \in Int
      /\ \A r \in Started : r.time_start \in Int /\ r.time_end \in Int
      /\ \A r \in p_queue : present <= r.time_end
  <2>1. \A r \in Completion : r.time_start \in Int /\ r.time_end \in Int
    BY DoubleInt DEF Completion
  <2> QED
    BY <2>1, <1>1, <1>2 DEF Completion, IsTop, LaterFirst
<1>4. \A r \in Started : r.time_start <= present /\ 0 <= r.time_start
  BY <1>1 DEF TimeInv, Clock
<1>5. \A r \in Processed : r.time_end <= present
  BY <1>1 DEF TimeInv, FinishOrder
<1>6. \A r \in Started : r.time_start <= r.time_end
  BY DEF TimeInv, Clock
<1>7. \A r \in Refill(tk) :
          /\ TasksRemain
          /\ r.time_start = present /\ r.worker_index = tk.worker_index
          /\ r.task = task_iterator
          /\ r \in Completion /\ present <= r.time_end /\ r.time_end \in Int
  <2> SUFFICES ASSUME TasksRemain
               PROVE  LET r == NextCompletion(tk.worker_index, present)
                      IN  /\ r.time_start = present /\ r.worker_index = tk.worker_index
                          /\ r.task = task_iterator
                          /\ r \in Completion /\ present <= r.time_end
                          /\ r.time_end \in Int
    BY DEF Refill
  <2>1. tk.worker_index \in DOMAIN procs
    BY <1>1 DEF Completion
  <2>2. LET r == NextCompletion(tk.worker_index, present)
        IN  r \in Completion /\ r.time_end >= r.time_start
    BY <2>1, <1>3, NextCompletionType
  <2> QED
    BY <2>2, DoubleInt DEF NextCompletion, Completion
<1>8. UNCHANGED procs
  BY DEF Process
<1> HIDE DEF present
<1>9. Clock'
  <2>0. 0 <= present
    BY <1>1, <1>2, <1>3, <1>4
  <2>1. \A r \in Started' : 0 <= r.time_start /\ r.time_start <= r.time_end
    <3>1. \A r \in Refill(tk) : 0 <= r.time_start /\ r.time_start <= r.time_end
      BY <2>0, <1>7
    <3>2. \A r \in Started : 0 <= r.time_start /\ r.time_start <= r.time_end
      BY <1>4, <1>6
    <3> QED
      BY <3>1, <3>2, <1>1
  <2>2. \A r \in Started' : r.time_start <= present
    BY <1>1, <1>3, <1>4, <1>7
  <2>3. \A s \in p_queue' : present <= s.time_end
    BY <1>1, <1>3, <1>7
  <2>4. \A r \in Started' : r.time_start \in Int /\ r.time_end \in Int
    BY <1>1, <1>3, <1>7
  <2>5. p_queue' \subseteq Started'
    BY DEF Started
  <2> QED
    BY <2>1, <2>2, <2>3, <2>4, <2>5, <1>3 DEF Clock
<1>10. FinishOrder'
  <2>1. /\ DOMAIN processed_tasks = 1..Len(processed_tasks)
        /\ DOMAIN processed_tasks' = 1..(Len(processed_tasks) + 1)
        /\ \A n \in DOMAIN processed_tasks : processed_tasks'[n] = processed_tasks[n]
        /\ processed_tasks'[Len(processed_tasks) + 1] = tk
        /\ Len(processed_tasks) \in Nat
    BY <1>1 DEF TypeOK
  <2>2. \A n \in DOMAIN processed_tasks : processed_tasks[n].time_end <= present
    BY <1>5 DEF Processed
  <2>3. \A m, n \in DOMAIN processed_tasks : m < n =>
            processed_tasks[m].time_end <= processed_tasks[n].time_end
    BY DEF TimeInv, FinishOrder
  <2>4. \A m, n \in DOMAIN processed_tasks' : m < n =>
            processed_tasks'[m].time_end <= processed_tasks'[n].time_end
    <3> SUFFICES ASSUME NEW m \in DOMAIN processed_tasks',
                        NEW n \in DOMAIN processed_tasks', m < n
                 PROVE  processed_tasks'[m].time_end <= processed_tasks'[n].time_end
      OBVIOUS
    <3>1. m \in DOMAIN processed_tasks
      BY <2>1
    <3>2. n \in DOMAIN processed_tasks \/ n = Len(processed_tasks) + 1
      BY <2>1
    <3> QED
      BY <3>1, <3>2, <2>1, <2>2, <2>3 DEF present
  <2>5. \A r \in Processed' : r.time_end <= present /\ r.time_end \in Int
    BY <1>1, <1>2, <1>3, <1>5 DEF present
  <2>6. \A s \in p_queue' : present <= s.time_end /\ s.time_end \in Int
    BY <1>1, <1>2, <1>3, <1>7
  <2>7. \A r \in Processed' : \A s \in p_queue' : r.time_end <= s.time_end
    BY <2>5, <2>6, <1>3
  <2> QED
    BY <2>4, <2>7 DEF FinishOrder
<1>11. BackToBack'
  <2>1. \A s \in Started : s.worker_index = tk.worker_index => s.time_end <= present
    BY <1>1, <1>3, <1>5 DEF Started, QueueInv, OneJobPerWorker, present
  <2>2. \A r, s \in Refill(tk) : r = s
    BY DEF Refill
  <2>3. \A r, s \in Started' : r.worker_index = s.worker_index /\ r # s =>
            r.time_end <= s.time_start \/ s.time_end <= r.time_start
    BY <2>1, <2>2, <1>1, <1>7 DEF TimeInv, BackToBack
  <2>4. \A r \in Started' :
            \/ r.time_start = 0
            \/ \E s \in Processed' : s.worker_index = r.worker_index
                                   /\ s.time_end = r.time_start
    BY <1>1, <1>7 DEF TimeInv, BackToBack, present
  <2> QED
    BY <2>3, <2>4 DEF BackToBack
<1>12. StartsInListOrder'
  <2>1. \A r \in Started : r.task < task_iterator
    <3>1. \A r \in Started : r.task \in 1..(task_iterator - 1)
      BY DEF QueueInv, Once
    <3> QED
      BY <3>1 DEF TypeOK
  <2>2. \A r, s \in Started' : r.task < s.task => r.time_start <= s.time_start
    <3> SUFFICES ASSUME NEW r \in Started', NEW s \in Started', r.task < s.task
                 PROVE  r.time_start <= s.time_start
      OBVIOUS
    <3>1. task_iterator \in Int
      BY DEF TypeOK
    <3>2. \A q \in Started : q.task \in Int
      <4> SUFFICES ASSUME NEW q \in Started
                   PROVE  q.task \in Int
        OBVIOUS
      <4>1. q.task \in DOMAIN tasks
        BY <1>2 DEF Completion
      <4>2. DOMAIN tasks \subseteq Int
        BY DEF TypeOK
      <4> QED
        BY <4>1, <4>2
    <3>3. s.task \in Int
      BY <3>1, <3>2, <1>1, <1>7
    <3>4. CASE r \in Started /\ s \in Started
      BY <3>4 DEF TimeInv, StartsInListOrder
    <3>5. CASE r \in Started /\ s \in Refill(tk)
      BY <3>5, <1>4, <1>7
    <3>6. CASE r \in Refill(tk)
      BY <3>1, <3>6, <3>2, <3>3, <2>1, <1>1, <1>7
    <3> QED
      BY <3>4, <3>5, <3>6, <1>1
  <2> QED
    BY <2>2 DEF StartsInListOrder
<1>13. NoIdleWhileWaiting'
  <2> SUFFICES ASSUME NEW r \in Started', r.time_start > 0, NEW w \in DOMAIN procs
               PROVE  \E s \in Started' : s.worker_index = w
                                       /\ s.time_start <= r.time_start
                                       /\ r.time_start <= s.time_end
    BY <1>8 DEF NoIdleWhileWaiting
  <2>1. CASE r \in Started
    BY <2>1, <1>1 DEF TimeInv, NoIdleWhileWaiting
  <2>2. CASE r \in Refill(tk)
    <3>1. PICK q \in p_queue : q.worker_index = w
      BY <2>2, <1>7 DEF QueueInv, Busy, Process
    <3> QED
      BY <3>1, <2>2, <1>1, <1>2, <1>3, <1>4, <1>7
  <2> QED
    BY <2>1, <2>2, <1>1
<1> QED
  BY <1>9, <1>10, <1>11, <1>12, <1>13 DEF TimeInv

\* The timing facts are about the queue and the result, which the other steps
\* leave alone.
LEMMA StepTimeInv == TypeOK /\ QueueInv /\ TimeInv /\ [Next]_vars => TimeInv'
<1> SUFFICES ASSUME TypeOK, QueueInv, TimeInv, [Next]_vars
             PROVE  TimeInv'
  OBVIOUS
<1>1. ASSUME UNCHANGED <<procs, p_queue, processed_tasks>>
      PROVE  TimeInv'
  BY <1>1 DEF TimeInv, Clock, FinishOrder, BackToBack, StartsInListOrder,
              NoIdleWhileWaiting, NonNegativeDurations, Started, Processed
<1>2. CASE SeedingOver \/ Return \/ UNCHANGED vars
  BY <1>1, <1>2 DEF SeedingOver, Return, vars
<1> QED
  BY SeedTimeInv, ProcessTimeInv, <1>2 DEF Next, Step, Terminated

\* The three invariants hold together.
LEMMA Invariance == Spec => [](TypeOK /\ QueueInv /\ TimeInv)
<1>1. Init => TypeOK /\ QueueInv /\ TimeInv
  BY InitType, InitQueueInv, InitTimeInv
<1>2. TypeOK /\ QueueInv /\ TimeInv /\ [Next]_vars => (TypeOK /\ QueueInv /\ TimeInv)'
  BY StepType, StepQueueInv, StepTimeInv
<1> QED
  BY <1>1, <1>2, PTL DEF Spec

(***************************************************************************)
(* The vector operator() returns is in order of finish time, which the     *)
(* reverse scan in simulate() takes for granted.                           *)
(***************************************************************************)
THEOREM FinishOrderHolds == Spec => []FinishOrder
  BY Invariance, PTL DEF TimeInv

(***************************************************************************)
(* A worker runs one task after the other, without a pause: the refill     *)
(* starts where the popped completion ended.                               *)
(***************************************************************************)
THEOREM BackToBackHolds == Spec => []BackToBack
  BY Invariance, PTL DEF TimeInv

(***************************************************************************)
(* The tasks start in the order of the vector simulate() has sorted.       *)
(***************************************************************************)
THEOREM StartsInListOrderHolds == Spec => []StartsInListOrder
  BY Invariance, PTL DEF TimeInv

(***************************************************************************)
(* No worker idles while a task waits: the event loop gives a task to the  *)
(* worker it has just freed before it pops the next completion.            *)
(***************************************************************************)
THEOREM NoIdleWhileWaitingHolds == Spec => []NoIdleWhileWaiting
  BY Invariance, PTL DEF TimeInv
-------------------------------------------------------------------------------
(***************************************************************************)
(* List scheduling.  Until when a worker has been given work, its load, is *)
(* the end of what it runs, and whoever gets the next task bears the least *)
(* load of all.                                                            *)
(***************************************************************************)
EndsOf(S, w) == {0} \cup {r.time_end : r \in {q \in S : q.worker_index = w}}

LEMMA MaxIs ==
    ASSUME NEW X \in SUBSET Int, NEW x \in X, \A y \in X : y <= x
    PROVE  Fs!Max(X) = x
<1>1. \A z \in X : (\A y \in X : z >= y) => z = x
  OBVIOUS
<1>2. \A y \in X : x >= y
  OBVIOUS
<1> QED
  BY <1>1, <1>2 DEF Fs!Max

\* The load of a worker that is running a task.
LEMMA LoadOfRunning ==
    ASSUME TypeOK, QueueInv, TimeInv, NonNegativeDurations, NEW r \in p_queue
    PROVE  /\ r.time_end \in EndsOf(Started, r.worker_index)
           /\ \A y \in EndsOf(Started, r.worker_index) : y <= r.time_end
           /\ Load(r.worker_index) = r.time_end
<1> DEFINE X == EndsOf(Started, r.worker_index)
<1>1. \A s \in Started : s.time_end \in Int
  BY StartedType, DoubleInt DEF Completion
<1>2. r \in Started
  BY DEF Started
<1>3. X \subseteq Int /\ r.time_end \in X
  BY <1>1, <1>2 DEF EndsOf
<1>4. 0 <= r.time_end
  <2>1. r.time_start \in Int /\ 0 <= r.time_start /\ r.time_start <= r.time_end
    BY <1>2, StartedType, DoubleInt DEF Completion, TimeInv, Clock
  <2> QED
    BY <2>1, <1>1, <1>2
<1>5. ASSUME NEW s \in Started, s.worker_index = r.worker_index
      PROVE  s.time_end <= r.time_end
  <2>1. CASE s \in p_queue
    <3>1. s = r
      BY <1>5, <2>1 DEF QueueInv, OneJobPerWorker
    <3> QED
      BY <3>1, <1>1
  <2>2. CASE s \in Processed
    BY <2>2 DEF TimeInv, FinishOrder
  <2> QED
    BY <2>1, <2>2 DEF Started
<1>6. \A y \in X : y <= r.time_end
  BY <1>4, <1>5 DEF EndsOf
<1>7. Fs!Max(X) = r.time_end
  BY <1>3, <1>6, MaxIs
<1> QED
  BY <1>3, <1>6, <1>7 DEF Load, EndsOf

\* A task for worker v that ends no earlier than v's load raises it, and no other.
LEMMA LoadGrows ==
    ASSUME TypeOK, NEW v, NEW x, NEW new,
           x \in EndsOf(Started, v), \A y \in EndsOf(Started, v) : y <= x,
           new.worker_index = v, new.time_end \in Int, x <= new.time_end,
           Started' = Started \cup {new}
    PROVE  /\ Load(v)' = new.time_end
           /\ \A w : w # v => Load(w)' = Load(w)
<1> DEFINE X == EndsOf(Started, v)
           Y == EndsOf(Started', v)
<1>1. \A s \in Started : s.time_end \in Int
  BY StartedType, DoubleInt DEF Completion
<1>2. X \subseteq Int /\ x \in X /\ x \in Int
  BY <1>1 DEF EndsOf
<1>3. Y = X \cup {new.time_end}
  BY DEF EndsOf
<1>4. \A y \in X : y \in Int /\ y <= x
  BY <1>2
<1> HIDE DEF X, Y
<1>5. Y \subseteq Int /\ new.time_end \in Y /\ \A y \in Y : y <= new.time_end
  <2> DEFINE z == new.time_end
  <2>1. z \in Int /\ x <= z
    OBVIOUS
  <2> HIDE DEF z
  <2>2. \A y \in X : y \in Int /\ y <= z
    BY <2>1, <1>2, <1>4
  <2>3. Y = X \cup {z}
    BY <1>3 DEF z
  <2>4. Y \subseteq Int /\ z \in Y /\ \A y \in Y : y <= z
    BY <2>1, <2>2, <2>3
  <2> QED
    BY <2>4 DEF z
<1>6. Fs!Max(Y) = new.time_end
  BY <1>5, MaxIs
<1>7. Load(v)' = new.time_end
  BY <1>6 DEF Load, EndsOf, Y
<1>8. ASSUME NEW w, w # v
      PROVE  Load(w)' = Load(w)
  <2>1. {q \in Started' : q.worker_index = w} = {q \in Started : q.worker_index = w}
    BY <1>8
  <2> QED
    BY <2>1 DEF Load
<1> QED
  BY <1>7, <1>8

\* The next task is given to worker v, whose load is the least.
GivenTo(v) ==
    /\ UNCHANGED <<procs, tasks>>
    /\ TasksRemain
    /\ task_iterator' = task_iterator + 1
    /\ \A w \in DOMAIN procs : Load(v) <= Load(w)
    /\ Started' = Started \cup {NextCompletion(v, Load(v))}
    /\ Load(v)' = Plus(Load(v), Duration(procs[v], tasks[task_iterator]))
    /\ \A w \in DOMAIN procs : w # v => Load(w)' = Load(w)

LoadsAreTimes == \A w \in DOMAIN procs : Load(w) \in Double /\ 0 <= Load(w)

\* While the queue is seeded, worker i is the first without any load.
LEMMA SeedGives ==
    ASSUME TypeOK, QueueInv, TimeInv, NonNegativeDurations, LoadsAreTimes, Seed
    PROVE  \E v \in DOMAIN procs : GivenTo(v)
<1>0. PICK v : v = i
  OBVIOUS
<1> DEFINE new == NextCompletion(v, 0)
<1>1. /\ v \in DOMAIN procs /\ TasksRemain /\ new \in Completion
      /\ Started = p_queue /\ Started' = Started \cup {new}
  BY <1>0, SeedEffect DEF QueueInv
<1>2. new.worker_index = v /\ new.time_start = 0 /\ new.time_end \in Int /\ 0 <= new.time_end
  BY <1>1, NextCompletionType, DoubleInt DEF NextCompletion, Completion
<1>3. {q \in Started : q.worker_index = v} = {}
  <2>1. \A r \in p_queue : r.worker_index < i
    BY DEF Seed, QueueInv, Seeding
  <2>2. i \in Int
    BY DEF TypeOK
  <2> QED
    BY <1>0, <1>1, <2>1, <2>2
<1>4. EndsOf(Started, v) = {0}
  BY <1>3 DEF EndsOf
<1>5. Load(v) = 0
  <2>1. Fs!Max({0}) = 0
    BY MaxIs
  <2> QED
    BY <1>4, <2>1 DEF Load, EndsOf
<1>6. Load(v)' = new.time_end /\ \A w : w # v => Load(w)' = Load(w)
  <2>1. /\ 0 \in EndsOf(Started, v) /\ \A y \in EndsOf(Started, v) : y <= 0
        /\ new.worker_index = v
    BY <1>2, <1>4
  <2>2. 0 <= new.time_end /\ new.time_end \in Int /\ Started' = Started \cup {new}
    BY <1>1, <1>2
  <2> HIDE DEF new
  <2> QED
    BY <2>1, <2>2, LoadGrows
<1>7. new.time_end = Plus(0, Duration(procs[v], tasks[task_iterator]))
  BY DEF NextCompletion
<1> HIDE DEF new
<1>8. \A w \in DOMAIN procs : Load(v) <= Load(w)
  BY <1>5 DEF LoadsAreTimes
<1>9. /\ UNCHANGED <<procs, tasks>>
      /\ task_iterator' = task_iterator + 1
  BY DEF Seed
<1>10. Started' = Started \cup {NextCompletion(v, Load(v))}
  BY <1>1, <1>5 DEF new
<1>11. Load(v)' = Plus(Load(v), Duration(procs[v], tasks[task_iterator]))
  BY <1>5, <1>6, <1>7
<1> QED
  BY <1>1, <1>6, <1>8, <1>9, <1>10, <1>11, Zenon DEF GivenTo

\* When a task is left, the worker of the popped completion bears the least load.
LEMMA ProcessGives ==
    ASSUME TypeOK, QueueInv, TimeInv, NonNegativeDurations, Process, TasksRemain
    PROVE  \E v \in DOMAIN procs : GivenTo(v)
<1>1. PICK tk \in p_queue : /\ tk \in Completion
                            /\ IsTop(tk)
                            /\ Started' = Started \cup Refill(tk)
  BY ProcessEffect
<1> DEFINE v == tk.worker_index
           new == NextCompletion(v, tk.time_end)
<1>2. v \in DOMAIN procs /\ tk.time_end \in Double
  BY <1>1 DEF Completion
<1>3. new.worker_index = v /\ new.time_end \in Int /\ tk.time_end <= new.time_end
  BY <1>2, NextCompletionType, DoubleInt DEF NextCompletion, Completion
<1>4. Started' = Started \cup {new}
  BY <1>1 DEF Refill
<1>5. new.time_end = Plus(tk.time_end, Duration(procs[v], tasks[task_iterator]))
  BY DEF NextCompletion
<1>6. /\ tk.time_end \in EndsOf(Started, v)
      /\ \A y \in EndsOf(Started, v) : y <= tk.time_end
      /\ Load(v) = tk.time_end
  BY LoadOfRunning
<1>7. Load(v)' = new.time_end /\ \A w : w # v => Load(w)' = Load(w)
  <2> HIDE DEF v, new
  <2> QED
    BY <1>3, <1>4, <1>6, LoadGrows
<1>8. ASSUME NEW w \in DOMAIN procs
      PROVE  Load(v) <= Load(w)
  <2>1. PICK r \in p_queue : r.worker_index = w
    BY DEF Process, QueueInv, Busy
  <2>2. Load(w) = r.time_end
    BY <2>1, LoadOfRunning
  <2>3. ~LaterFirst(tk, r)
    BY <1>1 DEF IsTop
  <2>4. r.time_end \in Int /\ tk.time_end \in Int
    BY <1>2, DoubleInt DEF TypeOK, Completion
  <2> QED
    BY <1>6, <2>2, <2>3, <2>4 DEF LaterFirst
<1>9. UNCHANGED <<procs, tasks>> /\ task_iterator' = task_iterator + 1
  BY DEF Process, AdvanceIterator
<1>10. Started' = Started \cup {NextCompletion(v, Load(v))}
  BY <1>4, <1>6
<1>11. Load(v)' = Plus(Load(v), Duration(procs[v], tasks[task_iterator]))
  BY <1>5, <1>6, <1>7
<1> HIDE DEF v, new
<1> QED
  BY <1>2, <1>7, <1>8, <1>9, <1>10, <1>11, Zenon DEF GivenTo

\* Nothing else is given to anyone.
LEMMA GivenOrNot ==
    ASSUME TypeOK, QueueInv, TimeInv, NonNegativeDurations, LoadsAreTimes, [Next]_vars
    PROVE  \/ UNCHANGED <<procs, tasks, Started, task_iterator>>
           \/ \E v \in DOMAIN procs : GivenTo(v)
<1>1. CASE SeedingOver \/ Return \/ UNCHANGED vars
  BY <1>1 DEF SeedingOver, Return, vars, Started, Processed
<1>2. CASE Process /\ ~TasksRemain
  <2>1. UNCHANGED <<procs, tasks, task_iterator>>
    BY <1>2 DEF Process, AdvanceIterator
  <2>2. UNCHANGED Started
    BY <1>2, ProcessEffect DEF Refill
  <2> QED
    BY <2>1, <2>2
<1> QED
  BY <1>1, <1>2, SeedGives, ProcessGives DEF Next, Step, Terminated

LoadsInv == NonNegativeDurations => LoadsAreTimes

LEMMA SignsKept == ASSUME UNCHANGED procs PROVE NonNegativeDurations' <=> NonNegativeDurations
  BY DEF NonNegativeDurations

\* What the next task costs on worker v.
LEMMA CostOfNext ==
    ASSUME TypeOK, TasksRemain, NonNegativeDurations, NEW v \in DOMAIN procs
    PROVE  LET d == Duration(procs[v], tasks[task_iterator])
           IN  d \in Double /\ d \in Int /\ 0 <= d
<1>1. procs[v] \in Mips /\ procs[v] >= 0 /\ task_iterator \in DOMAIN tasks
  BY DEF TypeOK, TasksRemain, NonNegativeDurations
<1>2. tasks[task_iterator] \in SimpleTask
  BY <1>1 DEF TypeOK
<1> QED
  BY <1>1, <1>2, DurationType, DoubleInt DEF NonNegativeDurations

\* At first nobody bears a load.
LEMMA NoLoads ==
    ASSUME Started = {}
    PROVE  \A w : Load(w) = 0
<1>1. Fs!Max({0}) = 0
  BY MaxIs
<1>2. ASSUME NEW w
      PROVE  Load(w) = 0
  <2>1. EndsOf(Started, w) = {0}
    BY DEF EndsOf
  <2> QED
    BY <2>1, <1>1 DEF Load, EndsOf
<1> QED
  BY <1>2

LEMMA StepLoads == TypeOK /\ QueueInv /\ TimeInv /\ LoadsInv /\ [Next]_vars => LoadsInv'
<1>1. [Next]_vars => UNCHANGED procs
  BY DEF Next, Step, Terminated, Seed, SeedingOver, Process, Return, vars
<1> SUFFICES ASSUME TypeOK, QueueInv, TimeInv, NonNegativeDurations, LoadsAreTimes, [Next]_vars
             PROVE  LoadsAreTimes'
  BY <1>1, SignsKept DEF LoadsInv
<1>2. CASE UNCHANGED <<procs, tasks, Started, task_iterator>>
  BY <1>2 DEF LoadsAreTimes, Load
<1>3. ASSUME NEW v \in DOMAIN procs, GivenTo(v)
      PROVE  LoadsAreTimes'
  <2> DEFINE d == Duration(procs[v], tasks[task_iterator])
  <2>1. d \in Double /\ 0 <= d
    BY <1>3, CostOfNext DEF GivenTo
  <2>2. Load(v)' = Plus(Load(v), d) /\ \A w \in DOMAIN procs : w # v => Load(w)' = Load(w)
    BY <1>3 DEF GivenTo
  <2> HIDE DEF d
  <2>3. Load(v) \in Double /\ 0 <= Load(v)
    BY DEF LoadsAreTimes
  <2>4. Plus(Load(v), d) \in Double /\ Load(v) <= Plus(Load(v), d)
    BY <2>1, <2>3, DoubleAssumption
  <2>5. 0 <= Plus(Load(v), d)
    <3>1. Load(v) \in Int /\ Plus(Load(v), d) \in Int
      BY <2>3, <2>4, DoubleInt
    <3> QED
      BY <3>1, <2>3, <2>4
  <2>6. \A w \in DOMAIN procs : Load(w)' \in Double /\ 0 <= Load(w)'
    BY <2>2, <2>4, <2>5 DEF LoadsAreTimes
  <2> QED
    BY <2>6, <1>3 DEF LoadsAreTimes, GivenTo
<1> QED
  BY <1>2, <1>3, GivenOrNot

\* The loads of the workers are what every result about equal processors rests on.
LEMMA LoadInvariance == Spec => [](TypeOK /\ QueueInv /\ TimeInv /\ LoadsInv)
<1>1. Init => LoadsInv
  BY NoLoads, DoubleInt DEF LoadsInv, LoadsAreTimes, Init, Started, Processed
<1> QED
  BY <1>1, StepLoads, Invariance, PTL DEF Spec

(***************************************************************************)
(* The reference: loads again, of which a least one grows.                 *)
(***************************************************************************)
LEMMA GiveType ==
    ASSUME NEW D, NEW load \in [D -> Double], NEW cost, D # {} => cost \in Double
    PROVE  Give(load, cost) \in [D -> Double]
<1> DEFINE w == CHOOSE v \in DOMAIN load : \A u \in DOMAIN load : load[v] <= load[u]
<1>1. Give(load, cost) = [load EXCEPT ![w] = Plus(load[w], cost)]
  BY DEF Give
<1> HIDE DEF w
<1>2. w \in D => Plus(load[w], cost) \in Double
  BY DoubleAssumption
<1> QED
  BY <1>1, <1>2

LEMMA CostsType ==
    ASSUME TypeOK
    PROVE  /\ DOMAIN Costs = 1..Len(tasks) /\ Len(tasks) \in Nat /\ Len(Costs) = Len(tasks)
           /\ DOMAIN procs # {} =>
                 Costs \in Seq(Int) /\ \A n \in 1..Len(tasks) : Costs[n] \in Double
           /\ NonNegativeDurations /\ DOMAIN procs # {} => \A n \in 1..Len(tasks) : 0 <= Costs[n]
<1>1. DOMAIN tasks = 1..Len(tasks) /\ Len(tasks) \in Nat
  BY DEF TypeOK
<1>2. DOMAIN Costs = 1..Len(tasks)
  BY <1>1 DEF Costs
<1>3. ASSUME DOMAIN procs # {}, NEW n \in 1..Len(tasks)
      PROVE  Costs[n] \in Double /\ (NonNegativeDurations => 0 <= Costs[n])
  <2>1. 1 \in DOMAIN procs /\ procs[1] \in Mips
    BY <1>3 DEF TypeOK
  <2>2. tasks[n] \in SimpleTask
    BY <1>1, <1>3 DEF TypeOK
  <2>3. Costs[n] = Duration(procs[1], tasks[n])
    BY <1>1, <1>3 DEF Costs
  <2> QED
    BY <2>1, <2>2, <2>3, DurationType, DoubleInt DEF NonNegativeDurations
<1>4. DOMAIN procs # {} => Costs \in [1..Len(tasks) -> Int]
  BY <1>2, <1>3, DoubleInt DEF Costs
<1>5. Len(Costs) = Len(tasks)
  BY <1>1, <1>2 DEF Costs
<1> QED
  BY <1>1, <1>2, <1>3, <1>4, <1>5

LEMMA GreedyStep ==
    ASSUME TypeOK
    PROVE  /\ GreedyLoads \in [0..Len(tasks) -> [DOMAIN procs -> Double]]
           /\ GreedyLoads[0] = [w \in DOMAIN procs |-> 0]
           /\ \A n \in 1..Len(tasks) : GreedyLoads[n] = Give(GreedyLoads[n - 1], Costs[n])
<1> DEFINE N == Len(tasks)
           V == [DOMAIN procs -> Double]
           none == [w \in DOMAIN procs |-> 0]
           G == GreedyLoads
           Rec(f) == [n \in 0..N |-> IF n = 0 THEN none ELSE Give(f[n - 1], Costs[n])]
<1>1. N \in Nat /\ none \in V
  BY CostsType, DoubleInt
<1>2. ASSUME NEW load \in V, NEW n \in 1..N
      PROVE  Give(load, Costs[n]) \in V
  <2>1. DOMAIN procs # {} => Costs[n] \in Double
    BY <1>2, CostsType
  <2> QED
    BY <2>1, <1>2, GiveType
<1> HIDE DEF N, V, none, G
<1>3. \E f : f = Rec(f)
  <2> DEFINE g == [k \in Nat \ {0} |->
                     [load \in V |-> IF k \in 1..N THEN Give(load, Costs[k]) ELSE load]]
  <2>1. g \in [Nat \ {0} -> [V -> V]]
    BY <1>2
  <2>2. \A k \in 1..N, load \in V : g[k][load] = Give(load, Costs[k])
    BY <1>1
  <2> HIDE DEF g
  <2>3. \A n \in Nat : \E f \in [0..n -> V] : Carries(f, n, none, g)
    BY <2>1, <1>1, Recursion
  <2>4. PICK f \in [0..N -> V] : f[0] = none /\ \A k \in 1..N : f[k] = g[k][f[k - 1]]
    BY <1>1, <2>3 DEF Carries
  <2>5. ASSUME NEW k \in 1..N
        PROVE  f[k] = Give(f[k - 1], Costs[k])
    <3>1. f[k - 1] \in V
      BY <1>1
    <3> QED
      BY <2>2, <2>4, <3>1
  <2>6. f = Rec(f)
    BY <1>1, <2>4, <2>5
  <2> QED
    BY <2>6
<1>4. G = Rec(G)
  <2>1. Len(Costs) = N
    BY CostsType DEF N
  <2>2. LoadsAfter(DOMAIN procs, Costs)
          = CHOOSE f : f = [n \in 0..Len(Costs) |->
                               IF n = 0 THEN none ELSE Give(f[n - 1], Costs[n])]
    BY Zenon DEF LoadsAfter, none
  <2>3. G = CHOOSE f : f = Rec(f)
    BY <2>1, <2>2, Zenon DEF GreedyLoads, G
  <2> HIDE DEF G
  <2> QED
    BY <1>3, <2>3, Zenon
<1>5. G[0] = none /\ \A n \in 1..N : G[n] = Give(G[n - 1], Costs[n])
  BY <1>1, <1>4
<1>6. DOMAIN G = 0..N
  BY <1>4
<1> DEFINE A == {n \in Nat : n <= N => G[n] \in V}
<1>7. 0 \in A
  BY <1>1, <1>5
<1>8. ASSUME NEW n \in Nat, n \in A
      PROVE  n + 1 \in A
  <2>1. SUFFICES ASSUME n + 1 <= N
                 PROVE  G[n + 1] \in V
    OBVIOUS
  <2>2. n + 1 \in 1..N /\ (n + 1) - 1 = n /\ G[n] \in V
    BY <1>1, <1>8, <2>1
  <2> QED
    BY <1>2, <1>5, <2>2
<1> HIDE DEF A
<1>9. \A n \in Nat : n \in A
  BY <1>7, <1>8, Induction
<1>10. \A n \in 0..N : G[n] \in V
  BY <1>1, <1>9 DEF A
<1>11. G \in [0..N -> V]
  BY <1>4, <1>10
<1> QED
  BY <1>5, <1>11 DEF G, N, V, none

(***************************************************************************)
(* Exchanging the names of two workers of the reference keeps them in step *)
(* with the loop's, although both may choose another least loaded worker.  *)
(***************************************************************************)
LEMMA Renamed ==
    ASSUME NEW D, NEW L \in [D -> Int], NEW G \in [D -> Int], NEW H,
           NEW f \in Fn!Bijection(D, D), \A w \in D : L[w] = G[f[w]],
           NEW v \in D, \A w \in D : L[v] <= L[w],
           NEW cost, H[v] = Plus(L[v], cost), \A w \in D : w # v => H[w] = L[w]
    PROVE  /\ G[f[v]] = L[v] /\ \A w \in D : L[v] <= G[w]
           /\ \E h \in Fn!Bijection(D, D) : \A w \in D : H[w] = Give(G, cost)[h[w]]
<1>1. /\ f \in [D -> D]
      /\ \A w, x \in D : f[w] = f[x] => w = x
      /\ \A x \in D : \E w \in D : f[w] = x
  BY DEF Fn!Bijection, Fn!Injection, Fn!Surjection, Fn!IsInjective
<1>2. \A w \in D : L[v] <= G[w]
  BY <1>1
<1>3. f[v] \in D /\ G[f[v]] = L[v] /\ L[v] \in Int
  BY <1>1
<1> DEFINE u == CHOOSE x \in DOMAIN G : \A w \in DOMAIN G : G[x] <= G[w]
<1>4. Give(G, cost) = [G EXCEPT ![u] = Plus(G[u], cost)]
  BY DEF Give
<1>5. u \in D /\ \A w \in D : G[u] <= G[w]
  <2>1. \E x \in DOMAIN G : \A w \in DOMAIN G : G[x] <= G[w]
    BY <1>2, <1>3
  <2> QED
    BY <2>1
<1> HIDE DEF u
<1>6. G[u] = L[v]
  BY <1>2, <1>3, <1>5
<1>7. PICK z \in D : f[z] = u
  BY <1>1, <1>5
<1> DEFINE h == [w \in D |-> IF w = v THEN u ELSE IF w = z THEN f[v] ELSE f[w]]
<1>8. h \in Fn!Bijection(D, D)
  <2>1. h \in [D -> D]
    BY <1>1, <1>5
  <2>2. \A w, x \in D : h[w] = h[x] => w = x
    BY <1>1, <1>7
  <2>3. \A x \in D : \E w \in D : h[w] = x
    <3> SUFFICES ASSUME NEW x \in D PROVE \E w \in D : h[w] = x
      OBVIOUS
    <3>1. PICK w \in D : f[w] = x
      BY <1>1
    <3>2. CASE w = v
      BY <3>1, <3>2, <1>7
    <3>3. CASE w = z
      BY <3>1, <3>3, <1>7
    <3>4. CASE w # v /\ w # z
      BY <3>1, <3>4
    <3> QED
      BY <3>2, <3>3, <3>4
  <2> QED
    BY <2>1, <2>2, <2>3 DEF Fn!Bijection, Fn!Injection, Fn!Surjection, Fn!IsInjective
<1>9. ASSUME NEW w \in D
      PROVE  H[w] = Give(G, cost)[h[w]]
  <2>1. CASE w = v
    BY <2>1, <1>4, <1>5, <1>6
  <2>2. CASE w # v /\ w = z
    <3>1. f[v] # u /\ h[w] = f[v]
      BY <2>2, <1>1, <1>7
    <3>2. Give(G, cost)[h[w]] = G[f[v]]
      BY <3>1, <1>3, <1>4
    <3> QED
      BY <3>2, <2>2, <1>3, <1>6, <1>7
  <2>3. CASE w # v /\ w # z
    <3>1. f[w] # u /\ h[w] = f[w] /\ f[w] \in D
      BY <2>3, <1>1, <1>7
    <3>2. Give(G, cost)[h[w]] = G[f[w]]
      BY <3>1, <1>4
    <3> QED
      BY <3>2, <2>3
  <2> QED
    BY <2>1, <2>2, <2>3
<1> QED
  BY <1>2, <1>3, <1>8, <1>9

\* What equal processors are and what they cost depends on the arguments alone.
LEMMA ArgumentsKept ==
    ASSUME UNCHANGED <<procs, tasks>>
    PROVE  /\ IdenticalProcs' <=> IdenticalProcs
           /\ NonNegativeDurations' <=> NonNegativeDurations
           /\ Costs' = Costs /\ GreedyLoads' = GreedyLoads
  BY DEF IdenticalProcs, NonNegativeDurations, Costs, GreedyLoads

\* The positions of the tasks that have been started are before the iterator.
LEMMA StartedBefore ==
    ASSUME TypeOK, QueueInv, NEW r \in Started
    PROVE  r.task \in 1..Len(tasks) /\ r.task \in 1..(task_iterator - 1)
<1>1. DOMAIN tasks = 1..Len(tasks)
  BY DEF TypeOK
<1>2. r.task \in DOMAIN tasks
  BY StartedType DEF Completion
<1> QED
  BY <1>1, <1>2 DEF QueueInv, Once

\* Before anything has started, loop and reference agree.
LEMMA FreshLoads ==
    TypeOK /\ Started = {} /\ task_iterator = 1 => LoadsInv /\ TiesDoNotMatter
<1> SUFFICES ASSUME TypeOK, Started = {}, task_iterator = 1 PROVE LoadsInv /\ TiesDoNotMatter
  OBVIOUS
<1>1. \A w : Load(w) = 0
  BY NoLoads
<1>2. GreedyLoads[0] = [w \in DOMAIN procs |-> 0] /\ task_iterator - 1 = 0
  BY GreedyStep
<1> DEFINE f == [w \in DOMAIN procs |-> w]
<1>3. f \in Fn!Bijection(DOMAIN procs, DOMAIN procs)
  BY DEF Fn!Bijection, Fn!Injection, Fn!Surjection, Fn!IsInjective
<1>4. \A w \in DOMAIN procs : Load(w) = GreedyLoads[task_iterator - 1][f[w]]
  BY <1>1, <1>2
<1> HIDE DEF f
<1>5. TiesDoNotMatter
  BY <1>3, <1>4 DEF TiesDoNotMatter
<1>6. LoadsInv
  BY <1>1, DoubleInt DEF LoadsInv, LoadsAreTimes
<1> QED
  BY <1>5, <1>6

LEMMA InitTies == Init => TiesDoNotMatter
  BY InitType, FreshLoads DEF Init, Started, Processed

LEMMA StepTies ==
    TypeOK /\ QueueInv /\ TimeInv /\ LoadsInv /\ TiesDoNotMatter /\ [Next]_vars => TiesDoNotMatter'
<1>1. [Next]_vars => UNCHANGED <<procs, tasks>>
  BY DEF Next, Step, Terminated, Seed, SeedingOver, Process, Return, vars
<1> SUFFICES ASSUME TypeOK, QueueInv, TimeInv, LoadsInv, TiesDoNotMatter, [Next]_vars,
                    IdenticalProcs, NonNegativeDurations
             PROVE  TiesDoNotMatter'
  BY <1>1, ArgumentsKept DEF TiesDoNotMatter
<1>2. UNCHANGED <<procs, tasks, GreedyLoads, Costs>>
  BY <1>1, ArgumentsKept
<1>3. CASE UNCHANGED <<procs, tasks, Started, task_iterator>>
  <2>1. \A w : Load(w)' = Load(w)
    BY <1>3 DEF Load
  <2> QED
    BY <2>1, <1>2, <1>3 DEF TiesDoNotMatter
<1>4. ASSUME NEW v \in DOMAIN procs, GivenTo(v)
      PROVE  TiesDoNotMatter'
  <2> DEFINE n == task_iterator
             G == GreedyLoads[n - 1]
             L == [w \in DOMAIN procs |-> Load(w)]
             H == [w \in DOMAIN procs |-> Load(w)']
             new == NextCompletion(v, Load(v))
  <2>1. /\ n' = n + 1 /\ n \in 1..Len(tasks) /\ n \in Nat /\ n - 1 \in 0..Len(tasks)
        /\ (n + 1) - 1 = n
    BY <1>4 DEF GivenTo, TypeOK, TasksRemain
  <2>2. /\ G \in [DOMAIN procs -> Int]
        /\ GreedyLoads[n] = Give(G, Costs[n])
    BY <2>1, GreedyStep, DoubleInt
  <2>3. PICK f \in Fn!Bijection(DOMAIN procs, DOMAIN procs) : \A w \in DOMAIN procs : L[w] = G[f[w]]
    BY DEF TiesDoNotMatter
  <2>4. L \in [DOMAIN procs -> Int]
    BY DoubleInt DEF LoadsInv, LoadsAreTimes
  <2>5. Duration(procs[v], tasks[n]) = Costs[n]
    <3>1. procs[v] = procs[1] /\ n \in DOMAIN tasks
      BY <2>1 DEF IdenticalProcs, TypeOK
    <3> QED
      BY <3>1 DEF Costs
  <2>6. /\ \A w \in DOMAIN procs : L[v] <= L[w]
        /\ H[v] = Plus(L[v], Costs[n])
        /\ \A w \in DOMAIN procs : w # v => H[w] = L[w]
    BY <1>4, <2>5 DEF GivenTo
  <2>7. /\ G[f[v]] = L[v] /\ \A w \in DOMAIN procs : L[v] <= G[w]
        /\ \E h \in Fn!Bijection(DOMAIN procs, DOMAIN procs) :
              \A w \in DOMAIN procs : H[w] = Give(G, Costs[n])[h[w]]
    <3> HIDE DEF G, L, H, n
    <3> QED
      BY <2>2, <2>3, <2>4, <2>6, Renamed
  <2>8. \E h \in Fn!Bijection(DOMAIN procs', DOMAIN procs') :
            \A w \in DOMAIN procs' : Load(w)' = GreedyLoads'[task_iterator' - 1][h[w]]
    BY <1>2, <2>1, <2>2, <2>7
  <2>9. new.task = n /\ new.time_start = L[v]
    BY DEF NextCompletion
  <2>10. ASSUME NEW r \in Started'
         PROVE  /\ \E w \in DOMAIN procs : r.time_start = GreedyLoads[r.task - 1][w]
                /\ \A w \in DOMAIN procs : r.time_start <= GreedyLoads[r.task - 1][w]
    <3>1. CASE r \in Started
      BY <3>1 DEF TiesDoNotMatter
    <3>2. CASE r = new
      <4>1. f[v] \in DOMAIN procs
        BY DEF Fn!Bijection, Fn!Injection
      <4> QED
        BY <4>1, <3>2, <2>7, <2>9
    <3> QED
      BY <3>1, <3>2, <1>4 DEF GivenTo
  <2> HIDE DEF n, G, L, H, new
  <2> QED
    BY <1>2, <2>8, <2>10 DEF TiesDoNotMatter
<1> QED
  BY <1>3, <1>4, GivenOrNot DEF LoadsInv

\* Whatever the library's heap does with ties, on equal processors the loads are those
\* of the reference that gives each task to a least loaded worker, and every task
\* starts when it does there.
THEOREM TiesDoNotMatterHolds == Spec => []TiesDoNotMatter
<1>1. Spec => [](TypeOK /\ QueueInv /\ TimeInv /\ LoadsInv)
  BY LoadInvariance
<1> QED
  BY <1>1, InitTies, StepTies, PTL DEF Spec

(***************************************************************************)
(* Graham's bound.  When a task is given to a least loaded worker, m times *)
(* that load is at most the sum of all loads, and that sum has grown by no *)
(* more than the cost of each task given away so far and a rounding each.  *)
(***************************************************************************)
WorkGiven ==
    IdenticalProcs /\ NonNegativeDurations /\ DOMAIN procs # {} =>
        Total([w \in DOMAIN procs |-> Load(w)])
          <= PartialSums(Costs)[task_iterator - 1] + (task_iterator - 1) * RoundedUp

\* There is a greatest rounding.
RoundingInv ==
    IdenticalProcs /\ NonNegativeDurations /\ DOMAIN procs # {} =>
        /\ Excesses \subseteq Int
        /\ RoundedUp \in Excesses /\ \A x \in Excesses : x <= RoundedUp

GrahamInv == RoundingInv /\ WorkGiven /\ GrahamBound

LEMMA InitGraham == Init => GrahamInv
<1> SUFFICES ASSUME Init, DOMAIN procs # {} PROVE RoundingInv /\ WorkGiven
  BY DEF GrahamInv, GrahamBound, RoundingInv, WorkGiven, Init, Started, Processed
<1> DEFINE L == [w \in DOMAIN procs |-> Load(w)]
<1>1. TypeOK /\ \A w : Load(w) = 0
  BY InitType, NoLoads DEF Init, Started, Processed
<1>2. Len(procs) \in Nat /\ DOMAIN procs = 1..Len(procs)
  BY <1>1 DEF TypeOK
<1>3. L \in Seq(Int) /\ Len(L) = Len(procs) /\ 1 \in 1..Len(procs)
      /\ \A w \in 1..Len(procs) : L[w] = 0
  BY <1>1, <1>2
<1> HIDE DEF L
<1>4. Total(L) = 0
  <2>1. Total(L) = L[1]
    BY <1>3, TotalOnly
  <2> QED
    BY <2>1, <1>3
<1>5. Costs \in Seq(Int) /\ task_iterator - 1 = 0
  BY <1>1, CostsType, DoubleInt DEF Init
<1>6. PartialSums(Costs)[0] = 0
  BY <1>5, PartialSumsStep
<1>7. Excesses = {0}
  BY DEF Init, Excesses, Started, Processed
<1>8. RoundedUp = 0
  BY <1>7, MaxIs DEF RoundedUp
<1> QED
  BY <1>4, <1>5, <1>6, <1>7, <1>8 DEF RoundingInv, WorkGiven, L

\* A task that is given away may bring a greater rounding.
LEMMA GivenRounding ==
    ASSUME TypeOK, QueueInv, TimeInv, LoadsAreTimes, NonNegativeDurations, IdenticalProcs,
           RoundingInv, NEW v \in DOMAIN procs, GivenTo(v)
    PROVE  /\ RoundingInv' /\ RoundedUp \in Nat /\ RoundedUp' \in Nat
           /\ RoundedUp <= RoundedUp'
           /\ Plus(Load(v), Duration(procs[v], tasks[task_iterator]))
                 <= Load(v) + Costs[task_iterator] + RoundedUp'
<1> DEFINE n == task_iterator
           end == Plus(Load(v), Duration(procs[v], tasks[n]))
           x == end - (Load(v) + Costs[n])
<1>1. n \in 1..Len(tasks) /\ Costs[n] \in Int /\ Costs' = Costs
  <2>1. n \in 1..Len(tasks)
    BY DEF TypeOK, GivenTo, TasksRemain
  <2> QED
    BY <2>1, CostsType, DoubleInt, ArgumentsKept DEF GivenTo
<1>2. end \in Int /\ Load(v) \in Int
  <2>1. Duration(procs[v], tasks[n]) \in Double
    BY CostOfNext DEF GivenTo
  <2> QED
    BY <2>1, DoubleAssumption, DoubleInt DEF LoadsAreTimes
<1>3. Excesses' = Excesses \cup {x}
  <2>1. Started' = Started \cup {NextCompletion(v, Load(v))}
    BY DEF GivenTo
  <2>2. /\ NextCompletion(v, Load(v)).time_end = end
        /\ NextCompletion(v, Load(v)).time_start = Load(v)
        /\ NextCompletion(v, Load(v)).task = n
    BY DEF NextCompletion
  <2>3. Excesses' = {0} \cup {r.time_end - (r.time_start + Costs[r.task]) : r \in Started'}
    BY <1>1 DEF Excesses
  <2> HIDE DEF n, end
  <2> QED
    BY <2>1, <2>2, <2>3 DEF Excesses
<1>4. x \in Int
  BY <1>1, <1>2
<1>5. /\ Excesses \subseteq Int /\ 0 \in Excesses
      /\ RoundedUp \in Excesses /\ \A y \in Excesses : y <= RoundedUp
  BY DEF RoundingInv, Excesses
<1>6. Excesses' \subseteq Int
  BY <1>3, <1>4, <1>5
<1> DEFINE top == IF x <= RoundedUp THEN RoundedUp ELSE x
<1> HIDE DEF x
<1>7. top \in Excesses' /\ \A y \in Excesses' : y <= top
  BY <1>3, <1>4, <1>5
<1>8. RoundedUp' = top
  <2>1. Fs!Max(Excesses') = top
    BY <1>6, <1>7, MaxIs
  <2> QED
    BY <2>1 DEF RoundedUp
<1>9. RoundedUp \in Nat /\ RoundedUp' \in Nat /\ RoundedUp <= RoundedUp' /\ x <= RoundedUp'
  BY <1>4, <1>5, <1>8
<1>10. RoundingInv'
  BY <1>6, <1>7, <1>8 DEF RoundingInv
<1>11. end <= Load(v) + Costs[n] + RoundedUp'
  BY <1>1, <1>2, <1>9 DEF x
<1> QED
  BY <1>9, <1>10, <1>11

\* The sum of the loads grows by no more than the cost of the task given away and the
\* greatest rounding, and the bound holds of the task itself.
LEMMA GivenGraham ==
    ASSUME TypeOK, QueueInv, TimeInv, LoadsAreTimes, NonNegativeDurations, IdenticalProcs,
           RoundingInv, WorkGiven, NEW v \in DOMAIN procs, GivenTo(v)
    PROVE  LET m == Len(procs)
               n == task_iterator
               Work == PartialSums(Costs)
               new == NextCompletion(v, Load(v))
           IN  /\ Total([w \in DOMAIN procs |-> Load(w)']) <= Work[n] + n * RoundedUp'
               /\ m * new.time_end
                     <= Work[n] + (m - 1) * Costs[n] + (n + m - 1) * RoundedUp'
<1> DEFINE m == Len(procs)
           n == task_iterator
           Work == PartialSums(Costs)
           L == [w \in DOMAIN procs |-> Load(w)]
           H == [w \in DOMAIN procs |-> Load(w)']
           c == Costs[n]
           e == Plus(Load(v), c)
           u == RoundedUp'
<1>1. /\ m \in Nat \ {0} /\ DOMAIN procs = 1..m /\ v \in 1..m
      /\ n \in 1..Len(tasks) /\ n \in Nat
  BY DEF TypeOK, GivenTo, TasksRemain
<1>2. Duration(procs[v], tasks[n]) = c
  <2>1. procs[v] = procs[1] /\ n \in DOMAIN tasks
    BY <1>1 DEF IdenticalProcs, TypeOK
  <2> QED
    BY <2>1 DEF Costs
<1>3. c \in Double /\ c \in Int /\ 0 <= c
  BY <1>2, CostOfNext DEF GivenTo
<1>4. L \in Seq(Int) /\ Len(L) = m /\ \A w \in 1..m : L[w] = Load(w) /\ Load(w) \in Int
  <2>1. \A w \in 1..m : Load(w) \in Int
    BY <1>1, DoubleInt DEF LoadsAreTimes
  <2> HIDE DEF m
  <2>2. L = [w \in 1..m |-> Load(w)]
    BY <1>1
  <2>3. L \in [1..m -> Int]
    BY <2>1, <2>2
  <2> QED
    BY <1>1, <2>1, <2>2, <2>3
<1>5. e \in Int /\ e <= Load(v) + c + u /\ u \in Nat
  <2>1. e \in Int
    BY <1>3, DoubleAssumption, DoubleInt DEF LoadsAreTimes
  <2> QED
    BY <1>2, <2>1, GivenRounding
<1>6. /\ \A w \in 1..m : L[v] <= L[w]
      /\ H[v] = e /\ \A w \in 1..m : w # v => H[w] = L[w]
  BY <1>1, <1>2 DEF GivenTo
<1>7. H \in Seq(Int) /\ Len(H) = m
  <2>1. DOMAIN H = 1..m /\ \A w \in 1..m : H[w] \in Int
    BY <1>1, <1>4, <1>5, <1>6
  <2> HIDE DEF m
  <2>2. H = [w \in 1..m |-> H[w]]
    BY <1>1
  <2>3. H \in [1..m -> Int]
    BY <2>1, <2>2
  <2> QED
    BY <1>1, <2>3
<1>8. /\ Work[n] = Work[n - 1] + c /\ Work[n - 1] \in Int
      /\ Total(L) <= Work[n - 1] + (n - 1) * RoundedUp
  <2>1. Costs \in Seq(Int) /\ Len(Costs) = Len(tasks) /\ Len(tasks) \in Nat
    BY <1>1, CostsType
  <2>2. /\ Work \in [0..Len(tasks) -> Int]
        /\ \A k \in 1..Len(tasks) : Work[k] = Work[k - 1] + Costs[k]
    BY <2>1, PartialSumsStep
  <2>3. n - 1 \in 0..Len(tasks)
    BY <1>1, <2>1
  <2>4. Total(L) <= Work[n - 1] + (n - 1) * RoundedUp
    BY <1>1 DEF WorkGiven
  <2> HIDE DEF Work, n, L
  <2> QED
    BY <1>1, <2>2, <2>3, <2>4 DEF c
<1>9. NextCompletion(v, Load(v)).time_end = e
  BY <1>2 DEF NextCompletion
<1> HIDE DEF m, n, Work, L, H, c, e, u
<1>10. Total(H) = Total(L) - L[v] + H[v] /\ Total(L) \in Int
  <2>1. L \in Seq(Int) /\ H \in Seq(Int) /\ Len(H) = Len(L) /\ Len(L) = m
    BY <1>4, <1>7
  <2>2. v \in 1..Len(L) /\ \A w \in 1..Len(L) : w # v => H[w] = L[w]
    BY <1>1, <1>6, <2>1
  <2>3. Total(H) = Total(L) - L[v] + H[v]
    BY <2>1, <2>2, TotalChanged
  <2> QED
    BY <2>1, <2>3, TotalType
<1>11. m * L[v] <= Total(L)
  BY <1>1, <1>4, <1>6, TotalAtLeast
<1>12. L[v] \in Int /\ L[v] = Load(v)
  BY <1>1, <1>4
<1>13. Total(L) <= Work[n - 1] + (n - 1) * u /\ (n - 1) * u \in Int
  <2>1. \A x, y, k \in Nat : x <= y => k * x <= k * y /\ k * y \in Int /\ k * x \in Int
    OBVIOUS
  <2>2. RoundedUp \in Nat /\ RoundedUp <= u /\ n - 1 \in Nat
    BY <1>1, GivenRounding DEF u
  <2>3. (n - 1) * RoundedUp <= (n - 1) * u /\ (n - 1) * u \in Int /\ (n - 1) * RoundedUp \in Int
    BY <1>5, <2>1, <2>2
  <2> QED
    BY <1>8, <1>10, <2>3
<1>14. n * u = (n - 1) * u + u /\ n * u \in Int
  BY <1>1, <1>5
<1>15. Total(H) <= Work[n] + n * u
  BY <1>3, <1>5, <1>6, <1>8, <1>10, <1>12, <1>13, <1>14
<1>16. m * e <= Work[n] + (m - 1) * c + (n + m - 1) * u
  <2>1. m * e <= m * (L[v] + c + u)
    <3>1. \A x, y \in Int, k \in Nat : x <= y => k * x <= k * y
      OBVIOUS
    <3>2. e <= L[v] + c + u /\ L[v] + c + u \in Int /\ m \in Nat
      BY <1>1, <1>3, <1>5, <1>12
    <3> QED
      BY <3>1, <3>2, <1>5
  <2>2. /\ m * (L[v] + c + u) = m * L[v] + m * c + m * u
        /\ (m - 1) * c = m * c - c
    BY <1>1, <1>3, <1>5, <1>12
  <2>3. (n + m - 1) * u = (n - 1) * u + m * u
    BY <1>1, <1>5
  <2>4. /\ m * L[v] \in Int /\ m * c \in Int /\ m * e \in Int /\ m * u \in Int
        /\ m * (L[v] + c + u) \in Int /\ (m - 1) * c \in Int
    BY <1>1, <1>3, <1>5, <1>12
  <2> QED
    BY <2>1, <2>2, <2>3, <2>4, <1>3, <1>8, <1>10, <1>11, <1>13
<1> QED
  BY <1>9, <1>15, <1>16 DEF m, n, Work, H, c, u

LEMMA StepGraham ==
    TypeOK /\ QueueInv /\ TimeInv /\ LoadsInv /\ GrahamInv /\ [Next]_vars => GrahamInv'
<1>1. [Next]_vars => UNCHANGED <<procs, tasks>>
  BY DEF Next, Step, Terminated, Seed, SeedingOver, Process, Return, vars
<1> SUFFICES ASSUME TypeOK, QueueInv, TimeInv, LoadsInv, GrahamInv, [Next]_vars,
                    IdenticalProcs, NonNegativeDurations
             PROVE  GrahamInv'
  BY <1>1, ArgumentsKept DEF GrahamInv, RoundingInv, WorkGiven, GrahamBound
<1>2. UNCHANGED <<procs, tasks, Costs>>
  BY <1>1, ArgumentsKept
<1>3. CASE UNCHANGED <<procs, tasks, Started, task_iterator>>
  <2>1. \A w : Load(w)' = Load(w)
    BY <1>3 DEF Load
  <2>2. [w \in DOMAIN procs |-> Load(w)]' = [w \in DOMAIN procs |-> Load(w)]
    BY <1>3, <2>1
  <2>3. Excesses' = Excesses /\ RoundedUp' = RoundedUp
    BY <1>2, <1>3 DEF Excesses, RoundedUp
  <2> QED
    BY <2>2, <2>3, <1>2, <1>3 DEF GrahamInv, RoundingInv, WorkGiven, GrahamBound
<1>4. ASSUME NEW v \in DOMAIN procs, GivenTo(v)
      PROVE  GrahamInv'
  <2> DEFINE m == Len(procs)
             n == task_iterator
             Work == PartialSums(Costs)
             new == NextCompletion(v, Load(v))
             u == RoundedUp'
  <2>1. /\ Total([w \in DOMAIN procs |-> Load(w)']) <= Work[n] + n * u
        /\ m * new.time_end <= Work[n] + (m - 1) * Costs[n] + (n + m - 1) * u
    BY <1>4, GivenGraham DEF LoadsInv, GrahamInv
  <2>2. task_iterator' - 1 = n /\ Started' = Started \cup {new}
    BY <1>4 DEF GivenTo, TypeOK
  <2>3. [w \in DOMAIN procs |-> Load(w)]' = [w \in DOMAIN procs |-> Load(w)']
    BY <1>2
  <2>4. WorkGiven'
    BY <1>2, <2>1, <2>2, <2>3 DEF WorkGiven
  <2>5. new.task = n
    BY DEF NextCompletion
  <2>6. RoundingInv' /\ RoundedUp \in Nat /\ u \in Nat /\ RoundedUp <= u
    BY <1>4, GivenRounding DEF LoadsInv, GrahamInv
  <2>7. ASSUME NEW r \in Started'
        PROVE  m * r.time_end <= Work[r.task] + (m - 1) * Costs[r.task] + (r.task + m - 1) * u
    <3>1. CASE r \in Started
      <4>1. m * r.time_end
              <= Work[r.task] + (m - 1) * Costs[r.task] + (r.task + m - 1) * RoundedUp
        BY <3>1 DEF GrahamInv, GrahamBound
      <4>2. /\ r.task \in 1..Len(tasks) /\ m \in Nat \ {0} /\ r.time_end \in Int
            /\ Work[r.task] \in Int /\ Costs[r.task] \in Int
        <5>1. r.task \in 1..Len(tasks) /\ m \in Nat \ {0}
          BY <1>4, <3>1, StartedBefore DEF TypeOK
        <5>2. Costs \in Seq(Int) /\ Len(Costs) = Len(tasks)
          BY <1>4, CostsType
        <5>3. Work[r.task] \in Int
          BY <5>1, <5>2, PartialSumsStep
        <5>4. r.time_end \in Int
          BY <3>1, StartedType, DoubleInt DEF Completion
        <5> QED
          BY <5>1, <5>2, <5>3, <5>4
      <4>3. r.task + m - 1 \in Nat
        BY <4>2
      <4>4. \A x, y, k \in Nat : x <= y => k * x <= k * y /\ k * y \in Int /\ k * x \in Int
        OBVIOUS
      <4>5. /\ (r.task + m - 1) * RoundedUp <= (r.task + m - 1) * u
            /\ (r.task + m - 1) * RoundedUp \in Int /\ (r.task + m - 1) * u \in Int
        BY <2>6, <4>3, <4>4
      <4>6. m * r.time_end \in Int /\ (m - 1) * Costs[r.task] \in Int
        BY <4>2
      <4> HIDE DEF m, Work, u
      <4> QED
        BY <4>1, <4>2, <4>5, <4>6
    <3>2. CASE r = new
      BY <3>2, <2>1, <2>5
    <3> QED
      BY <3>1, <3>2, <2>2
  <2>8. GrahamBound'
    BY <1>2, <2>7 DEF GrahamBound
  <2> QED
    BY <2>4, <2>6, <2>8 DEF GrahamInv
<1> QED
  BY <1>3, <1>4, GivenOrNot DEF LoadsInv

\* On any number of equal processors and for any rounding of double, the event loop is
\* within Graham's bound at every moment, but for the roundings it has made.
THEOREM GrahamBoundHolds == Spec => []GrahamBound
<1>1. Spec => [](TypeOK /\ QueueInv /\ TimeInv /\ LoadsInv)
  BY LoadInvariance
<1>2. GrahamInv => GrahamBound
  BY DEF GrahamInv
<1> QED
  BY <1>1, <1>2, InitGraham, StepGraham, PTL DEF Spec
-------------------------------------------------------------------------------
(***************************************************************************)
(* Every behaviour of the event loop is one of the parallel worker pool of *)
(* WorkerPool: seeding is Start, an iteration of the event loop Complete,  *)
(* everything else stutters.                                               *)
(***************************************************************************)
CostOf == [w \in DOMAIN procs |-> [t \in DOMAIN tasks |-> Duration(procs[w], tasks[t])]]
RunningOn(w) == {r \in p_queue : r.worker_index = w}
PoolRunning == [w \in DOMAIN procs |-> RunningOn(w)]
PoolNow == IF processed_tasks = <<>> THEN 0
           ELSE processed_tasks[Len(processed_tasks)].time_end

(***************************************************************************)
(* The pool's costs are a matrix of doubles.                               *)
(***************************************************************************)
LEMMA CostType == TypeOK => CostOf \in Seq([1..Len(tasks) -> Double])
<1> SUFFICES ASSUME TypeOK
             PROVE  CostOf \in Seq([1..Len(tasks) -> Double])
  OBVIOUS
<1>1. /\ DOMAIN procs = 1..Len(procs) /\ Len(procs) \in Nat
      /\ DOMAIN tasks = 1..Len(tasks)
  BY DEF TypeOK
<1>2. \A w \in DOMAIN procs : \A t \in DOMAIN tasks :
          Duration(procs[w], tasks[t]) \in Double
  <2> SUFFICES ASSUME NEW w \in DOMAIN procs, NEW t \in DOMAIN tasks
               PROVE  Duration(procs[w], tasks[t]) \in Double
    OBVIOUS
  <2>1. procs[w] \in Mips /\ tasks[t] \in SimpleTask
    BY DEF TypeOK
  <2> QED
    BY <2>1, DurationType
<1>3. CostOf \in [1..Len(procs) -> [1..Len(tasks) -> Double]]
  BY <1>1, <1>2 DEF CostOf
<1> QED
  BY <1>1, <1>3

\* The loop starts as the pool does: at time 0, every worker idle.
LEMMA PoolInit == Init => Pool!Init
<1> SUFFICES ASSUME Init
             PROVE  Pool!Init
  OBVIOUS
<1>1. TypeOK
  BY InitType
<1>2. CostOf \in Seq([1..Len(tasks) -> Double]) /\ Len(tasks) \in Nat
  BY <1>1, CostType DEF TypeOK
<1>3. /\ processed_tasks = <<>> /\ p_queue = {} /\ task_iterator = 1
      /\ Processed = {}
  BY DEF Init, Processed
<1> QED
  BY <1>2, <1>3 DEF Pool!Init, Pool!Workers, CostOf

(***************************************************************************)
(* The job a worker takes in the loop is the one it takes in the pool.     *)
(***************************************************************************)
LEMMA SameJob ==
    ASSUME TypeOK, TasksRemain, NEW w \in DOMAIN procs, NEW t
    PROVE  NextCompletion(w, t) = Pool!JobAt(w, t)
<1>1. task_iterator \in DOMAIN tasks /\ (task_iterator - 1) + 1 = task_iterator
  BY DEF TypeOK, TasksRemain
<1> QED
  BY <1>1 DEF NextCompletion, Pool!JobAt

\* The task iterator is short of end() exactly when a task waits in the pool.
LEMMA SameWaiting == TypeOK => (Pool!Waiting <=> TasksRemain)
  BY DEF TypeOK, Pool!Waiting, TasksRemain

\* The seeding loop gives the next task to an idle worker at time 0.
LEMMA SeedIsStart ==
    TypeOK /\ QueueInv /\ Seed => \E w \in DOMAIN procs : Pool!Start(w)
<1> SUFFICES ASSUME TypeOK, QueueInv, Seed
             PROVE  \E w \in DOMAIN procs : Pool!Start(w)
  OBVIOUS
<1> DEFINE new == NextCompletion(i, 0)
<1>1. /\ i \in DOMAIN procs
      /\ TasksRemain
      /\ p_queue' = p_queue \cup {new}
      /\ Processed = {} /\ Processed' = {}
  BY SeedEffect DEF QueueInv
<1>2. /\ processed_tasks = <<>> /\ processed_tasks' = <<>>
      /\ UNCHANGED <<procs, tasks>>
      /\ task_iterator' - 1 = (task_iterator - 1) + 1
  BY DEF QueueInv, Seeding, Seed, TypeOK
<1>3. new.worker_index = i /\ new = Pool!JobAt(i, 0)
  BY <1>1, SameJob DEF NextCompletion
<1>4. RunningOn(i) = {}
  <2>1. \A r \in p_queue : r.worker_index # i
    BY DEF QueueInv, Seeding, Seed, TypeOK
  <2> QED
    BY <2>1 DEF RunningOn
<1> HIDE DEF new
<1>5. PoolRunning' = [PoolRunning EXCEPT ![i] = {new}]
  <2>1. \A w \in DOMAIN procs : RunningOn(w)' = IF w = i THEN {new} ELSE RunningOn(w)
    BY <1>1, <1>3, <1>4 DEF RunningOn
  <2> QED
    BY <2>1, <1>1, <1>2 DEF PoolRunning
<1>6. PoolNow = 0 /\ PoolNow' = 0
  BY <1>2 DEF PoolNow
<1>7. CostOf' = CostOf
  BY <1>2 DEF CostOf
<1>8. PICK w \in DOMAIN procs : w = i
  BY <1>1
<1>9. Pool!Start(w)
  BY <1>1, <1>2, <1>3, <1>4, <1>5, <1>6, <1>7, <1>8, SameWaiting
     DEF Pool!Start, Pool!Idle, PoolRunning, PoolNow, RunningOn, CostOf
<1> QED
  BY <1>9

(***************************************************************************)
(* The popped completion is the job of the pool that ends first; that no   *)
(* worker idles while a task waits is Busy.                                *)
(***************************************************************************)
LEMMA ProcessIsComplete ==
    TypeOK /\ QueueInv /\ Process => \E w \in DOMAIN procs : Pool!Complete(w)
<1> SUFFICES ASSUME TypeOK, QueueInv, Process
             PROVE  \E w \in DOMAIN procs : Pool!Complete(w)
  OBVIOUS
<1>1. PICK tk \in p_queue :
          /\ tk \in Completion
          /\ IsTop(tk)
          /\ p_queue' = (p_queue \ {tk}) \cup Refill(tk)
          /\ processed_tasks' = Append(processed_tasks, tk)
          /\ Processed' = Processed \cup {tk}
  BY ProcessEffect
<1> DEFINE w == tk.worker_index
<1>2. w \in DOMAIN procs
  BY <1>1 DEF Completion
<1>3. RunningOn(w) = {tk}
  BY <1>1 DEF RunningOn, QueueInv, OneJobPerWorker
<1>4. TasksRemain => \A v \in DOMAIN procs : RunningOn(v) # {}
  <2>1. pc # "seed"
    BY DEF Process
  <2> QED
    BY <2>1 DEF QueueInv, Busy, RunningOn
<1>5. \A v \in DOMAIN procs : \A other \in RunningOn(v) : tk.time_end <= other.time_end
  <2>1. \A r \in p_queue : r.time_end \in Int
    BY DoubleInt DEF TypeOK, Completion
  <2> QED
    BY <2>1, <1>1 DEF RunningOn, IsTop, LaterFirst
<1>6. PoolNow' = tk.time_end
  <2>1. /\ processed_tasks' # <<>>
        /\ processed_tasks'[Len(processed_tasks')] = tk
    BY <1>1 DEF TypeOK
  <2> QED
    BY <2>1 DEF PoolNow
<1>7. UNCHANGED <<procs, tasks>> /\ CostOf' = CostOf
  BY DEF Process, CostOf
<1>8. Refill(tk) = IF TasksRemain THEN {Pool!JobAt(w, tk.time_end)} ELSE {}
  BY <1>2, SameJob DEF Refill
<1>9. \A r \in Refill(tk) : r.worker_index = w
  BY DEF Refill, NextCompletion
<1>10. PoolRunning' = [PoolRunning EXCEPT ![w] = Refill(tk)]
  <2>1. \A v \in DOMAIN procs : RunningOn(v)' = IF v = w THEN Refill(tk) ELSE RunningOn(v)
    <3> SUFFICES ASSUME NEW v \in DOMAIN procs
                 PROVE  RunningOn(v)' = IF v = w THEN Refill(tk) ELSE RunningOn(v)
      OBVIOUS
    <3>1. CASE v = w
      BY <3>1, <1>1, <1>3, <1>9 DEF RunningOn
    <3>2. CASE v # w
      BY <3>2, <1>1, <1>9 DEF RunningOn
    <3> QED
      BY <3>1, <3>2
  <2> QED
    BY <2>1, <1>2, <1>7 DEF PoolRunning
<1>11. task_iterator' - 1 = IF TasksRemain THEN (task_iterator - 1) + 1 ELSE task_iterator - 1
  BY DEF Process, AdvanceIterator, TypeOK
<1> HIDE DEF w
<1>12. Pool!Complete(w)
  BY <1>1, <1>2, <1>3, <1>4, <1>5, <1>6, <1>7, <1>8, <1>10, <1>11, SameWaiting
     DEF Pool!Complete, Pool!Idle, Pool!Workers, PoolRunning, PoolNow, RunningOn, CostOf
<1> QED
  BY <1>2, <1>12

\* Leaving a loop changes nothing in the pool.
LEMMA StepRefines == TypeOK /\ QueueInv /\ [Next]_vars => [Pool!Next]_(Pool!vars)
<1> SUFFICES ASSUME TypeOK, QueueInv, [Next]_vars
             PROVE  [Pool!Next]_(Pool!vars)
  OBVIOUS
<1>1. CASE Seed
  BY <1>1, SeedIsStart DEF Pool!Next, Pool!Workers
<1>2. CASE Process
  BY <1>2, ProcessIsComplete DEF Pool!Next, Pool!Workers
<1>3. CASE UNCHANGED <<procs, tasks, p_queue, processed_tasks, task_iterator>>
  BY <1>3 DEF Pool!vars, Processed
<1> QED
  BY <1>1, <1>2, <1>3 DEF Next, Step, SeedingOver, Return, Terminated, vars

(***************************************************************************)
(* The event loop of TaskProcessorWithTransfer::operator() is a pool of    *)
(* workers that run in parallel and take the tasks in order, for every     *)
(* vector of processors and of tasks and every tie in the queue.           *)
(***************************************************************************)
THEOREM RefinesPool == Spec => Pool!Spec
<1>1. Init => Pool!Init
  BY PoolInit
<1>2. TypeOK /\ QueueInv /\ [Next]_vars => [Pool!Next]_(Pool!vars)
  BY StepRefines
<1> QED
  BY <1>1, <1>2, TypeCorrect, QueueInvariant, PTL DEF Spec, Pool!Spec
===============================================================================
