---------------------------- MODULE SimulateProofs -----------------------------
(***************************************************************************)
(* Proofs about simulate(), for any processors, tasks and rounding, from   *)
(* the invariant of the loop it calls.                                     *)
(***************************************************************************)
EXTENDS Simulate, TaskProcessorProofs, FiniteSetTheorems

LoopInv == TypeOK /\ QueueInv /\ TimeInv

(***************************************************************************)
(* Arguments: what the caller passes, and what survives the sort.  Fresh:  *)
(* nothing has run before the vectors are sorted.  Sorted: they stay so.   *)
(***************************************************************************)
ArgumentsOK ==
    /\ args \in Arguments
    /\ phase \in {"sort", "process", "collect", "done"}
    /\ \A k \in DOMAIN tasks : tasks[k].userid \in Users

Fresh ==
    phase = "sort" =>
        /\ p_queue = {} /\ processed_tasks = <<>>
        /\ i = 1 /\ task_iterator = 1 /\ pc = "seed"

Sorted ==
    phase # "sort" =>
        \A j, k \in DOMAIN tasks : j < k => ~TaskBefore(tasks[k], tasks[j])

(***************************************************************************)
(* Scan: the reverse scan has seen the completions after curr.  A user it  *)
(* knows has the time of its last completion, one it does not know has no  *)
(* completion there.  When it is over, that is so of all completions.      *)
(***************************************************************************)
UserAt(k) == tasks[processed_tasks[k].task].userid

LastOf(u, k) ==
    /\ UserAt(k) = u
    /\ \A l \in DOMAIN processed_tasks : UserAt(l) = u => l <= k

Scan ==
    /\ curr \in Nat /\ curr <= Len(processed_tasks)
    /\ idx \subseteq Users
    /\ times \in [Users -> Double]
    /\ phase \in {"sort", "process"} => idx = {} /\ curr = 0 /\ times = [u \in Users |-> 0]
    /\ phase \in {"collect", "done"} =>
          \A u \in Users :
              /\ u \in idx => \E k \in DOMAIN processed_tasks :
                                  LastOf(u, k) /\ times[u] = processed_tasks[k].time_end
              /\ u \notin idx => /\ times[u] = 0
                                 /\ \A k \in DOMAIN processed_tasks :
                                       k > curr => UserAt(k) # u
    /\ phase = "done" => curr = 0 \/ idx = Users

SimInv == LoopInv /\ ArgumentsOK /\ Fresh /\ Sorted /\ Scan
-------------------------------------------------------------------------------
\* A rearranged vector has the length and the elements of the one before.
LEMMA RearrangedElements ==
    ASSUME NEW A, NEW s \in Seq(A), NEW t \in Rearrangements(s)
    PROVE  /\ t \in Seq(A)
           /\ DOMAIN t = DOMAIN s
           /\ \A k \in DOMAIN t : \E j \in DOMAIN s : t[k] = s[j]
<1>1. t \in [DOMAIN s -> {s[k] : k \in DOMAIN s}]
  BY DEF Rearrangements
<1>2. {s[k] : k \in DOMAIN s} \subseteq A
  OBVIOUS
<1>3. Len(s) \in Nat /\ DOMAIN s = 1..Len(s)
  OBVIOUS
<1>4. t \in [1..Len(s) -> A]
  BY <1>1, <1>2, <1>3
<1> QED
  BY <1>1, <1>3, <1>4

\* The fields of the tasks in a vector.
LEMMA TaskFields ==
    ASSUME NEW ts \in Seq(SimpleTask), NEW k \in DOMAIN ts
    PROVE  ts[k].userid \in Nat /\ ts[k].complexity \in Nat
<1>1. ts[k] \in SimpleTask
  OBVIOUS
<1> QED
  BY <1>1 DEF SimpleTask

\* simulate() starts with sound arguments and has seen no one.
LEMMA InitSimInv == SimInit => SimInv
<1> SUFFICES ASSUME SimInit PROVE SimInv
  OBVIOUS
<1>1. LoopInv
  BY InitType, InitQueueInv, InitTimeInv DEF SimInit, LoopInv
<1>2. args \in Arguments /\ args.n_user_hint \in Nat
  BY ArgumentsAssumption DEF SimInit, Arguments
<1>3. \A k \in DOMAIN tasks : tasks[k].userid \in Users
  <2>1. tasks \in Seq(SimpleTask)
    BY <1>1 DEF LoopInv, TypeOK
  <2>2. \A k \in DOMAIN tasks : tasks[k].userid \in Nat
    BY <2>1, TaskFields
  <2>3. \A k \in DOMAIN tasks : tasks[k].userid < args.n_user_hint
    BY UsersAssumption DEF SimInit, Init
  <2> QED
    BY <2>2, <2>3, <1>2 DEF Users
<1>4. processed_tasks = <<>> /\ p_queue = {} /\ i = 1 /\ task_iterator = 1 /\ pc = "seed"
  BY DEF SimInit, Init
<1>5. times \in [Users -> Double]
  BY DoubleInt DEF SimInit
<1> QED
  BY <1>1, <1>2, <1>3, <1>4, <1>5 DEF SimInit, SimInv, ArgumentsOK, Fresh, Sorted, Scan

(***************************************************************************)
(* One lemma per action.                                                   *)
(***************************************************************************)
\* The sort rearranges two vectors nothing has been made of yet.
LEMMA SortSimInv == SimInv /\ Sort => SimInv'
<1> SUFFICES ASSUME SimInv, Sort PROVE SimInv'
  OBVIOUS
<1>1. /\ p_queue = {} /\ processed_tasks = <<>>
      /\ i = 1 /\ task_iterator = 1 /\ pc = "seed"
  BY DEF SimInv, Fresh, Sort
<1>2. /\ UNCHANGED <<p_queue, processed_tasks, i, task_iterator, pc, args, curr, idx, times>>
      /\ phase = "sort" /\ phase' = "process"
  BY DEF Sort
<1>3. /\ tasks \in Seq(SimpleTask) /\ procs \in Seq(Mips)
      /\ tasks' \in Rearrangements(tasks) /\ procs' \in Rearrangements(procs)
  BY DEF Sort, SortedTasks, SortedProcs, SimInv, LoopInv, TypeOK
<1>4. tasks' \in Seq(SimpleTask) /\ procs' \in Seq(Mips)
  BY <1>3, RearrangedElements
<1>5. Started' = {} /\ Processed' = {}
  BY <1>1, <1>2 DEF Started, Processed
<1>6. LoopInv'
  <2>1. TypeOK'
    BY <1>1, <1>2, <1>4 DEF TypeOK
  <2>2. QueueInv'
    BY <1>1, <1>2, <1>5 DEF QueueInv, Once, OneJobPerWorker, Seeding, Busy, QueueDrained
  <2>3. TimeInv'
    BY <1>1, <1>2, <1>5 DEF TimeInv, Clock, FinishOrder, BackToBack, StartsInListOrder,
                            NoIdleWhileWaiting
  <2> QED
    BY <2>1, <2>2, <2>3 DEF LoopInv
<1>7. ArgumentsOK'
  <2>1. \A k \in DOMAIN tasks' : \E j \in DOMAIN tasks : tasks'[k] = tasks[j]
    BY <1>3, RearrangedElements
  <2> QED
    BY <1>2, <2>1 DEF SimInv, ArgumentsOK, Users
<1>8. Sorted'
  BY <1>2 DEF Sort, SortedTasks, Sorted, TaskBefore
<1>9. Scan'
  BY <1>2, <1>1 DEF SimInv, Scan, Users
<1> QED
  BY <1>2, <1>6, <1>7, <1>8, <1>9 DEF SimInv, Fresh

\* The event loop touches neither vector.
LEMMA RunSimInv == SimInv /\ RunProcessor => SimInv'
<1> SUFFICES ASSUME SimInv, RunProcessor PROVE SimInv'
  OBVIOUS
<1>1. /\ phase = "process"
      /\ UNCHANGED <<args, phase, curr, idx, times>>
      /\ Step
  BY DEF RunProcessor, sim_vars
<1>2. UNCHANGED <<tasks, procs>>
  BY <1>1 DEF Step, Seed, SeedingOver, Process, Return
<1>3. LoopInv'
  BY <1>1, StepType, StepQueueInv, StepTimeInv DEF SimInv, LoopInv, Next
<1>4. ArgumentsOK' /\ Sorted' /\ Fresh'
  BY <1>1, <1>2 DEF SimInv, ArgumentsOK, Users, Sorted, TaskBefore, Fresh
<1>5. Len(processed_tasks') \in Nat
  BY <1>3 DEF LoopInv, TypeOK
<1>6. Scan'
  BY <1>1, <1>5 DEF SimInv, Scan, Users
<1> QED
  BY <1>3, <1>4, <1>6 DEF SimInv

\* The scan does not touch what the loop has made.
LEMMA LoopUntouched ==
    ASSUME LoopInv, UNCHANGED vars
    PROVE  LoopInv'
BY StepType, StepQueueInv, StepTimeInv DEF LoopInv

\* At first the scan has seen nothing.
LEMMA ReturnedSimInv == SimInv /\ ProcessorReturned => SimInv'
<1> SUFFICES ASSUME SimInv, ProcessorReturned PROVE SimInv'
  OBVIOUS
<1>1. UNCHANGED <<tasks, procs, processed_tasks, args, idx, times>> /\ UNCHANGED vars
  BY DEF ProcessorReturned, vars
<1>2. /\ phase = "process" /\ phase' = "collect"
      /\ curr' = Len(processed_tasks)
  BY DEF ProcessorReturned
<1>3. processed_tasks \in Seq(Completion)
  BY DEF SimInv, LoopInv, TypeOK
<1>4. LoopInv'
  BY <1>1, LoopUntouched DEF SimInv
<1>5. ArgumentsOK' /\ Sorted' /\ Fresh'
  BY <1>1, <1>2 DEF SimInv, ArgumentsOK, Users, Sorted, TaskBefore, Fresh
<1>6. Len(processed_tasks) \in Nat /\ \A k \in DOMAIN processed_tasks : k <= Len(processed_tasks)
  BY <1>3
<1>7. Scan'
  BY <1>1, <1>2, <1>6 DEF SimInv, Scan, Users
<1> QED
  BY <1>4, <1>5, <1>7 DEF SimInv

\* The scan ends when there is nothing left to see.
LEMMA OverSimInv == SimInv /\ CollectOver => SimInv'
<1> SUFFICES ASSUME SimInv, CollectOver PROVE SimInv'
  OBVIOUS
<1>1. /\ UNCHANGED <<tasks, procs, processed_tasks, args, curr, idx, times>>
      /\ UNCHANGED vars
  BY DEF CollectOver, vars
<1>2. phase = "collect" /\ phase' = "done" /\ curr = 0
  BY DEF CollectOver
<1>3. LoopInv'
  BY <1>1, LoopUntouched DEF SimInv
<1>4. ArgumentsOK' /\ Sorted' /\ Fresh'
  BY <1>1, <1>2 DEF SimInv, ArgumentsOK, Users, Sorted, TaskBefore, Fresh
<1>5. Scan'
  BY <1>1, <1>2 DEF SimInv, Scan, Users, LastOf, UserAt
<1> QED
  BY <1>3, <1>4, <1>5 DEF SimInv

\* A set of as many users as there are is all of them.
LEMMA AllUsers ==
    ASSUME args \in Arguments, NEW seen \in SUBSET Users, Cardinality(seen) = args.n_user_hint
    PROVE  seen = Users
<1>1. args.n_user_hint \in Nat
  BY DEF Arguments
<1> DEFINE n == args.n_user_hint - 1
<1>2. IsFiniteSet(0..n) /\ Cardinality(0..n) = IF 0 > n THEN 0 ELSE n - 0 + 1
  <2>1. n \in Int
    BY <1>1
  <2> HIDE DEF n
  <2> QED
    BY <2>1, FS_Interval
<1>3. Users = 0..n /\ (0 > n => args.n_user_hint = 0) /\ (~(0 > n) => n - 0 + 1 = args.n_user_hint)
  BY <1>1 DEF Users
<1>4. IsFiniteSet(Users) /\ Cardinality(Users) = args.n_user_hint
  BY <1>2, <1>3
<1> QED
  BY <1>4, FS_Subset

\* One completion further to the front: it is the last one of a user not seen so
\* far, and no news of one who was.
LEMMA CollectSimInv == SimInv /\ Collect => SimInv'
<1> SUFFICES ASSUME SimInv, Collect PROVE SimInv'
  OBVIOUS
<1> DEFINE user == UserAt(curr)
           seen == idx \cup {user}
<1>1. /\ UNCHANGED <<tasks, procs, processed_tasks, args>>
      /\ UNCHANGED vars
      /\ phase = "collect" /\ curr > 0 /\ curr' = curr - 1
  BY DEF Collect, vars
<1>2. processed_tasks \in Seq(Completion) /\ tasks \in Seq(SimpleTask)
  BY DEF SimInv, LoopInv, TypeOK
<1>3. curr \in DOMAIN processed_tasks
  BY <1>1, <1>2 DEF SimInv, Scan
<1>4. processed_tasks[curr] \in Completion
  BY <1>2, <1>3
<1>5. user \in Users /\ processed_tasks[curr].time_end \in Double
  BY <1>4 DEF Completion, UserAt, SimInv, ArgumentsOK
<1>6. LoopInv'
  BY <1>1, LoopUntouched DEF SimInv
<1>7. Users' = Users /\ \A k : UserAt(k)' = UserAt(k)
  BY <1>1 DEF Users, UserAt
<1>8. CASE FirstSight(user)
  <2>1. /\ idx' = seen
        /\ times' = [times EXCEPT ![user] = processed_tasks[curr].time_end]
        /\ phase' = IF Cardinality(seen) = args.n_user_hint THEN "done" ELSE phase
        /\ user \notin idx
    BY <1>8 DEF Collect, FirstSight, UserAt
  <2>2. phase' \in {"collect", "done"} /\ (phase' = "done" => seen = Users)
    BY <1>1, <1>5, <2>1, AllUsers DEF SimInv, ArgumentsOK, Scan
  <2>3. LastOf(user, curr)
    <3>1. \A k \in DOMAIN processed_tasks : k > curr => UserAt(k) # user
      BY <1>1, <1>5, <2>1 DEF SimInv, Scan
    <3> QED
      BY <3>1, <1>2, <1>3 DEF LastOf
  <2>4. ASSUME NEW u \in Users
        PROVE  /\ u \in seen =>
                     \E k \in DOMAIN processed_tasks :
                         LastOf(u, k) /\ times'[u] = processed_tasks[k].time_end
               /\ u \notin seen =>
                     /\ times'[u] = 0
                     /\ \A k \in DOMAIN processed_tasks : k > curr - 1 => UserAt(k) # u
    <3>1. CASE u = user
      BY <3>1, <2>1, <2>3, <1>3, <1>5 DEF SimInv, Scan
    <3>2. CASE u # user
      <4>1. times'[u] = times[u]
        BY <3>2, <2>1 DEF SimInv, Scan
      <4>2. u \in seen <=> u \in idx
        BY <3>2
      <4>3. u \notin idx =>
              \A k \in DOMAIN processed_tasks : k > curr - 1 => UserAt(k) # u
        BY <3>2, <1>1, <1>2, <1>3 DEF SimInv, Scan
      <4> QED
        BY <4>1, <4>2, <4>3, <1>1 DEF SimInv, Scan
    <3> QED
      BY <3>1, <3>2
  <2>5. Scan'
    <3>1. \A u, k : LastOf(u, k)' <=> LastOf(u, k)
      BY <1>1, <1>7 DEF LastOf
    <3>2. /\ curr' \in Nat /\ curr' <= Len(processed_tasks')
          /\ idx' \subseteq Users'
          /\ times' \in [Users' -> Double]
          /\ phase' \notin {"sort", "process"}
      BY <1>1, <1>2, <1>5, <1>7, <2>1, <2>2 DEF SimInv, Scan
    <3> QED
      BY <1>1, <1>7, <2>1, <2>2, <2>4, <3>1, <3>2 DEF Scan
  <2> QED
    BY <1>1, <1>6, <1>7, <2>2, <2>5 DEF SimInv, ArgumentsOK, Sorted, TaskBefore, Fresh
<1>9. CASE ~FirstSight(user)
  <2>1. UNCHANGED <<idx, times, phase>> /\ user \in idx
    BY <1>9 DEF Collect, FirstSight, UserAt
  <2>2. \A u \in Users : u \notin idx =>
            \A k \in DOMAIN processed_tasks : k > curr - 1 => UserAt(k) # u
    BY <1>1, <1>2, <1>3, <2>1 DEF SimInv, Scan
  <2>3. Scan'
    BY <1>1, <1>2, <1>3, <1>7, <2>1, <2>2 DEF SimInv, Scan, LastOf
  <2> QED
    BY <1>1, <1>6, <1>7, <2>1, <2>3 DEF SimInv, ArgumentsOK, Sorted, TaskBefore, Fresh
<1> QED
  BY <1>8, <1>9

LEMMA SimInvariance == SimSpec => []SimInv
<1>1. SimInv /\ [SimNext]_all_vars => SimInv'
  <2> SUFFICES ASSUME SimInv, [SimNext]_all_vars PROVE SimInv'
    OBVIOUS
  <2>1. CASE UNCHANGED all_vars
    <3>1. /\ UNCHANGED vars
          /\ UNCHANGED <<tasks, processed_tasks, p_queue, i, task_iterator, pc>>
          /\ UNCHANGED <<args, phase, curr, idx, times>>
      BY <2>1 DEF all_vars, sim_vars, vars
    <3>2. LoopInv'
      BY <3>1, LoopUntouched DEF SimInv
    <3> QED
      BY <3>1, <3>2 DEF SimInv, ArgumentsOK, Users, Sorted, TaskBefore, Fresh, Scan, LastOf,
                        UserAt
  <2> QED
    BY <2>1, SortSimInv, RunSimInv, ReturnedSimInv, CollectSimInv, OverSimInv
    DEF SimNext, SimStep, SimTerminated
<1> QED
  BY <1>1, InitSimInv, PTL DEF SimSpec
-------------------------------------------------------------------------------
(***************************************************************************)
(* Types, and that the reverse iterator and the user ids stay in range.    *)
(***************************************************************************)
THEOREM SimTypeCorrect == SimSpec => []SimTypeOK
<1>1. SimInv => SimTypeOK
  BY DEF SimInv, LoopInv, ArgumentsOK, Scan, SimTypeOK, TypeOK
<1> QED
  BY <1>1, SimInvariance, PTL

\* The scan meets the last completion of a user first, and the last in the vector
\* is the last in time.
LEMMA ScanFindsTimes == SimInv => TimesAreFinishTimes
<1> SUFFICES ASSUME SimInv, phase = "done", NonNegativeDurations, NEW u \in Users
             PROVE  IF Of(u) = {} THEN times[u] = 0
                    ELSE /\ \E r \in Of(u) : times[u] = r.time_end
                         /\ \A r \in Of(u) : r.time_end <= times[u]
  BY DEF TimesAreFinishTimes
<1>1. \A r \in Of(u) : \E l \in DOMAIN processed_tasks :
          r = processed_tasks[l] /\ UserAt(l) = u
  BY DEF Of, Processed, UserAt
<1>2. processed_tasks \in Seq(Completion)
  BY DEF SimInv, LoopInv, TypeOK
<1>3. CASE u \in idx
  <2>1. PICK k \in DOMAIN processed_tasks :
            LastOf(u, k) /\ times[u] = processed_tasks[k].time_end
    BY <1>3 DEF SimInv, Scan
  <2>2. processed_tasks[k] \in Of(u)
    BY <2>1 DEF LastOf, UserAt, Of, Processed
  <2>3. \A l \in DOMAIN processed_tasks :
            UserAt(l) = u => processed_tasks[l].time_end <= processed_tasks[k].time_end
    <3> SUFFICES ASSUME NEW l \in DOMAIN processed_tasks, UserAt(l) = u
                 PROVE  processed_tasks[l].time_end <= processed_tasks[k].time_end
      OBVIOUS
    <3>1. l <= k
      BY <2>1 DEF LastOf
    <3>2. CASE l < k
      BY <3>2 DEF SimInv, LoopInv, TimeInv, FinishOrder
    <3>3. CASE l = k
      <4>1. processed_tasks[k].time_end \in Int
        <5>1. processed_tasks[k] \in Completion
          BY <1>2
        <5> QED
          BY <5>1, DoubleInt DEF Completion
      <4> QED
        BY <3>3, <4>1
    <3> QED
      BY <3>1, <3>2, <3>3, <1>2
  <2> QED
    BY <1>1, <2>1, <2>2, <2>3
<1>4. CASE u \notin idx
  <2>1. curr = 0 /\ times[u] = 0
    BY <1>4 DEF SimInv, Scan
  <2>2. \A k \in DOMAIN processed_tasks : UserAt(k) # u
    BY <1>4, <2>1, <1>2 DEF SimInv, Scan
  <2> QED
    BY <1>1, <2>1, <2>2
<1> QED
  BY <1>3, <1>4

(***************************************************************************)
(* What the reverse scan returns is the finish time of every user.         *)
(***************************************************************************)
THEOREM TimesAreFinishTimesHolds == SimSpec => []TimesAreFinishTimes
  BY ScanFindsTimes, SimInvariance, PTL

\* Of two tasks that have started, the preferred one is earlier in the vector.
LEMMA PreferredFirst ==
    ASSUME SimInv, NEW r \in Started, NEW s \in Started,
           TaskBefore(tasks[r.task], tasks[s.task])
    PROVE  /\ phase # "sort"
           /\ r.task \in Nat /\ s.task \in Nat /\ 1 <= r.task /\ r.task < s.task
<1>1. phase # "sort"
  BY DEF SimInv, Fresh, Started, Processed
<1>2. r \in Completion /\ s \in Completion
  BY StartedType DEF SimInv, LoopInv
<1>3. /\ r.task \in DOMAIN tasks /\ s.task \in DOMAIN tasks
      /\ r.task \in Nat /\ s.task \in Nat /\ 1 <= r.task
  BY <1>2 DEF Completion, SimInv, LoopInv, TypeOK
<1>4. r.task # s.task
  <2>1. tasks[r.task].complexity \in Nat
    BY <1>3, TaskFields DEF SimInv, LoopInv, TypeOK
  <2> QED
    BY <2>1 DEF TaskBefore
<1>5. ~(s.task < r.task)
  BY <1>1, <1>3 DEF SimInv, Sorted
<1>6. r.task < s.task
  BY <1>3, <1>4, <1>5
<1> QED
  BY <1>1, <1>3, <1>6

(***************************************************************************)
(* The sort decides who is served first: the loop starts the tasks in the  *)
(* order of the vector, and no later one precedes an earlier one.          *)
(***************************************************************************)
THEOREM PriorityServedHolds == SimSpec => []PriorityServed
<1>1. SimInv => PriorityServed
  <2> SUFFICES ASSUME SimInv, NonNegativeDurations, NEW r \in Started, NEW s \in Started,
                      TaskBefore(tasks[r.task], tasks[s.task])
               PROVE  r.time_start <= s.time_start
    BY DEF PriorityServed
  <2>1. r.task < s.task
    BY PreferredFirst
  <2> QED
    BY <2>1 DEF SimInv, LoopInv, TimeInv, StartsInListOrder
<1> QED
  BY <1>1, SimInvariance, PTL

(***************************************************************************)
(* The vectors that completions refer to are left alone once there is one. *)
(***************************************************************************)
THEOREM PointersStayValidHolds == SimSpec => PointersStayValid
<1>1. SimInv /\ [SimNext]_all_vars => (Started # {} => UNCHANGED <<tasks, procs>>)
  <2> SUFFICES ASSUME SimInv, [SimNext]_all_vars, Started # {}
               PROVE  UNCHANGED <<tasks, procs>>
    OBVIOUS
  <2>1. phase # "sort"
    BY DEF SimInv, Fresh, Started, Processed
  <2>2. CASE RunProcessor
    BY <2>2 DEF RunProcessor, Step, Seed, SeedingOver, Process, Return
  <2> QED
    BY <2>1, <2>2 DEF SimNext, SimStep, SimTerminated, Sort, ProcessorReturned, Collect,
                      CollectOver, all_vars, vars
<1> QED
  BY <1>1, SimInvariance, PTL DEF SimSpec, PointersStayValid
-------------------------------------------------------------------------------
(***************************************************************************)
(* FirstWave: the first tasks went to the workers of the same number, and  *)
(* the processors are in the order asked for.                              *)
(***************************************************************************)
FirstWave ==
    /\ pc = "seed" => task_iterator = i
    /\ pc # "seed" => task_iterator > Len(procs) \/ ~TasksRemain
    /\ \A r \in Started : r.task <= Len(procs) => r.worker_index = r.task
    /\ phase # "sort" => \A j, k \in DOMAIN procs : j < k => ~ProcBefore(procs[k], procs[j])

\* A refill is of a task behind the first wave.
LEMMA RunFirstWave == SimInv /\ FirstWave /\ RunProcessor => FirstWave'
<1> SUFFICES ASSUME SimInv, FirstWave, RunProcessor PROVE FirstWave'
  OBVIOUS
<1>1. /\ TypeOK /\ QueueInv
      /\ task_iterator \in Nat /\ i \in Nat /\ Len(procs) \in Nat /\ Len(tasks) \in Nat
  BY DEF SimInv, LoopInv, TypeOK
<1>2. Step /\ UNCHANGED <<phase, args, procs, tasks>>
  BY DEF RunProcessor, sim_vars, Step, Seed, SeedingOver, Process, Return
<1>3. CASE Seed
  <2>1. Started' = Started \cup {NextCompletion(i, 0)}
    BY <1>1, <1>3, SeedEffect DEF QueueInv
  <2>2. /\ NextCompletion(i, 0).task = task_iterator /\ NextCompletion(i, 0).worker_index = i
        /\ pc = "seed" /\ pc' = "seed" /\ task_iterator' = task_iterator + 1 /\ i' = i + 1
    BY <1>3 DEF Seed, NextCompletion
  <2> QED
    BY <1>1, <1>2, <2>1, <2>2 DEF FirstWave, ProcBefore
<1>4. CASE Process
  <2>1. PICK tk \in p_queue : Started' = Started \cup Refill(tk)
    BY <1>1, <1>4, ProcessEffect
  <2>2. /\ pc = "drain" /\ pc' = "drain"
        /\ task_iterator' = IF TasksRemain THEN task_iterator + 1 ELSE task_iterator
    BY <1>4 DEF Process, AdvanceIterator
  <2>3. \A r \in Refill(tk) : ~(r.task <= Len(procs))
    BY <1>1, <2>2 DEF Refill, NextCompletion, FirstWave, TasksRemain
  <2> QED
    BY <1>1, <1>2, <2>1, <2>2, <2>3 DEF FirstWave, ProcBefore, TasksRemain
<1>5. CASE SeedingOver \/ Return
  <2>1. UNCHANGED <<p_queue, processed_tasks, i, task_iterator>>
    BY <1>5 DEF SeedingOver, Return
  <2>2. Started' = Started
    BY <2>1 DEF Started, Processed
  <2> QED
    BY <1>1, <1>2, <1>5, <2>1, <2>2
    DEF FirstWave, ProcBefore, TasksRemain, SeedingOver, Return
<1> QED
  BY <1>2, <1>3, <1>4, <1>5 DEF Step

LEMMA FirstWaveStep == SimInv /\ FirstWave /\ [SimNext]_all_vars => FirstWave'
<1> SUFFICES ASSUME SimInv, FirstWave, [SimNext]_all_vars PROVE FirstWave'
  OBVIOUS
<1>1. CASE Sort
  <2>1. /\ p_queue' = {} /\ processed_tasks' = <<>>
        /\ i' = 1 /\ task_iterator' = 1 /\ pc' = "seed" /\ UNCHANGED args
        /\ procs' \in SortedProcs
    BY <1>1 DEF Sort, SimInv, Fresh
  <2>2. Started' = {}
    BY <2>1 DEF Started, Processed
  <2> QED
    BY <2>1, <2>2 DEF FirstWave, SortedProcs, ProcBefore
<1>2. CASE ProcessorReturned \/ Collect \/ CollectOver \/ UNCHANGED all_vars
  <2>1. /\ UNCHANGED <<procs, tasks, p_queue, processed_tasks, i, task_iterator, pc, args>>
        /\ phase' = "sort" => phase = "sort"
        /\ phase = "sort" => phase' = "sort"
    BY <1>2 DEF ProcessorReturned, Collect, CollectOver, all_vars, sim_vars, vars
  <2> QED
    BY <2>1 DEF FirstWave, Started, Processed, ProcBefore, TasksRemain
<1> QED
  BY <1>1, <1>2, RunFirstWave DEF SimNext, SimStep, SimTerminated

(***************************************************************************)
(* In the first wave the preferred tasks meet the preferred processors.    *)
(***************************************************************************)
THEOREM FirstWaveByRankHolds == SimSpec => []FirstWaveByRank
<1>1. SimInit => FirstWave
  BY DEF SimInit, Init, FirstWave, Started, Processed
<1>2. SimInv /\ FirstWave => FirstWaveByRank
  <2> SUFFICES ASSUME SimInv, FirstWave, NEW r \in Started, NEW s \in Started,
                      r.task <= Len(procs), s.task <= Len(procs),
                      TaskBefore(tasks[r.task], tasks[s.task])
               PROVE  ~ProcBefore(procs[s.worker_index], procs[r.worker_index])
    BY DEF FirstWaveByRank
  <2>1. /\ phase # "sort" /\ r.task < s.task
        /\ r.task \in Nat /\ s.task \in Nat /\ 1 <= r.task
    BY PreferredFirst
  <2>2. r.worker_index = r.task /\ s.worker_index = s.task
    BY DEF FirstWave
  <2>3. r.task \in DOMAIN procs /\ s.task \in DOMAIN procs
    BY <2>1 DEF SimInv, LoopInv, TypeOK
  <2> QED
    BY <2>1, <2>2, <2>3 DEF FirstWave
<1> QED
  BY <1>1, <1>2, FirstWaveStep, SimInvariance, PTL DEF SimSpec
-------------------------------------------------------------------------------
(***************************************************************************)
(* Work takes time: whatever is done, at so much per unit of time and      *)
(* worker, is no more than all workers do until the last of it ends.  Of   *)
(* each worker, look at its last task among the first n that are work at   *)
(* all: what is done is no more than the workers do until these ends.      *)
(***************************************************************************)
DoneBy(W, rate, n, ends) ==
    /\ ends \in [DOMAIN procs -> Int]
    /\ \A w \in DOMAIN procs :
          \/ ends[w] = 0
          \/ \E r \in Processed : /\ r.worker_index = w /\ r.task <= n
                                  /\ W[r.task] > 0 /\ ends[w] = r.time_end
    /\ PartialSums(W)[n] <= Total([w \in DOMAIN procs |-> rate[w] * ends[w]])

\* A worker starts a task when it has ended all its earlier ones.
LEMMA EndsBefore ==
    ASSUME LoopInv, NonNegativeDurations, NEW r \in Processed, r.time_start < r.time_end,
           NEW s \in Processed, s.worker_index = r.worker_index, s.task < r.task
    PROVE  s.time_end <= r.time_start
<1>1. r \in Started /\ s \in Started /\ r \in Completion /\ s \in Completion
  BY StartedType DEF Started, LoopInv
<1>2. /\ r.time_start \in Int /\ r.time_end \in Int /\ s.time_start \in Int
      /\ s.time_end \in Int /\ r.task \in Nat /\ s.task \in Nat
  <2>1. DOMAIN tasks \subseteq Nat
    BY DEF LoopInv, TypeOK
  <2> QED
    BY <1>1, <2>1, DoubleInt DEF Completion
<1>3. s.time_start <= r.time_start
  BY <1>1 DEF LoopInv, TimeInv, StartsInListOrder
<1>4. r # s
  BY <1>2
<1>5. r.time_end <= s.time_start \/ s.time_end <= r.time_start
  BY <1>1, <1>4 DEF LoopInv, TimeInv, BackToBack
<1> QED
  BY <1>2, <1>3, <1>5

LEMMA NextIsDone ==
    ASSUME LoopInv, NonNegativeDurations,
           NEW W \in Seq(Int), Len(W) = Len(tasks),
           NEW rate \in [DOMAIN procs -> Nat],
           NEW n \in 0..(Len(tasks) - 1), NEW ends, DoneBy(W, rate, n, ends),
           NEW r \in Processed, r.task = n + 1,
           W[n + 1] > 0 => W[n + 1] <= rate[r.worker_index] * (r.time_end - r.time_start)
    PROVE  \E new : DoneBy(W, rate, n + 1, new)
<1> DEFINE P == PartialSums(W)
           Done(e) == [w \in DOMAIN procs |-> rate[w] * e[w]]
<1>1. /\ Len(tasks) \in Nat /\ n \in Nat /\ n + 1 \in 1..Len(W)
      /\ Len(procs) \in Nat /\ DOMAIN procs = 1..Len(procs)
  BY DEF LoopInv, TypeOK
<1>2. /\ P[n + 1] = P[n] + W[n + 1] /\ P[n] \in Int /\ W[n + 1] \in Int
  <2>1. /\ P \in [0..Len(W) -> Int]
        /\ \A k \in 1..Len(W) : P[k] = P[k - 1] + W[k]
    BY PartialSumsStep
  <2>2. n \in 0..Len(W) /\ (n + 1) - 1 = n
    BY <1>1
  <2> HIDE DEF P
  <2>3. P[n + 1] = P[n] + W[n + 1]
    BY <1>1, <2>1, <2>2
  <2>4. P[n] \in Int
    BY <2>1, <2>2
  <2>5. \A k \in 1..Len(W) : W[k] \in Int
    OBVIOUS
  <2> QED
    BY <1>1, <2>3, <2>4, <2>5
<1>3. /\ ends \in [DOMAIN procs -> Int] /\ P[n] <= Total(Done(ends))
      /\ \A w \in DOMAIN procs :
            \/ ends[w] = 0
            \/ \E s \in Processed : /\ s.worker_index = w /\ s.task <= n
                                    /\ W[s.task] > 0 /\ ends[w] = s.time_end
  BY DEF DoneBy
<1>4. \A e \in [DOMAIN procs -> Int] :
          /\ Done(e) \in Seq(Int) /\ Len(Done(e)) = Len(procs)
          /\ \A w \in DOMAIN procs : Done(e)[w] = rate[w] * e[w]
  <2> SUFFICES ASSUME NEW e \in [DOMAIN procs -> Int]
               PROVE  Done(e) \in [DOMAIN procs -> Int]
    BY <1>1
  <2>1. \A x \in Nat, y \in Int : x * y \in Int
    OBVIOUS
  <2> QED
    BY <2>1
<1>5. Total(Done(ends)) \in Int
  BY <1>3, <1>4, TotalType
<1>6. \A s \in Processed : s \in Completion /\ s.task \in Nat
  <2>1. Processed \subseteq Completion
    BY StartedType DEF LoopInv
  <2> QED
    BY <1>1, <2>1 DEF Completion, LoopInv, TypeOK
<1> HIDE DEF P
<1>7. CASE ~(W[n + 1] > 0)
  <2>1. P[n + 1] <= Total(Done(ends))
    BY <1>2, <1>3, <1>5, <1>7
  <2>2. \A s \in Processed : s.task <= n => s.task <= n + 1
    BY <1>1, <1>6
  <2>3. DoneBy(W, rate, n + 1, ends)
    BY <1>3, <2>1, <2>2 DEF DoneBy, P
  <2> QED
    BY <2>3
<1>8. CASE W[n + 1] > 0
  <2> DEFINE v == r.worker_index
             a == r.time_start
             b == r.time_end
             new == [ends EXCEPT ![v] = b]
  <2>1. /\ v \in DOMAIN procs /\ a \in Int /\ b \in Int /\ rate[v] \in Nat
        /\ ends[v] \in Int
    BY <1>3, <1>6, DoubleInt DEF Completion
  <2>2. W[n + 1] <= rate[v] * (b - a)
    BY <1>8
  <2>3. 0 <= a /\ a < b
    <3>1. r \in Started /\ 0 <= a /\ a <= b
      BY DEF Started, LoopInv, TimeInv, Clock
    <3>2. ASSUME a = b PROVE FALSE
      <4>1. rate[v] * (b - a) = 0
        <5>1. b - a = 0
          BY <2>1, <3>2
        <5>2. \A k \in Nat : k * 0 = 0
          OBVIOUS
        <5> QED
          BY <2>1, <5>1, <5>2
      <4> QED
        BY <1>2, <1>8, <2>2, <4>1
    <3> QED
      BY <2>1, <3>1, <3>2
  <2>4. ends[v] <= a
    <3>1. CASE ends[v] = 0
      BY <2>3, <3>1
    <3>2. ASSUME NEW s \in Processed, s.worker_index = v, s.task <= n, ends[v] = s.time_end
          PROVE  ends[v] <= a
      <4>1. s.task < r.task
        BY <1>1, <1>6, <3>2
      <4> QED
        BY <2>3, <3>2, <4>1, EndsBefore
    <3> QED
      BY <1>3, <2>1, <3>1, <3>2
  <2>5. /\ new \in [DOMAIN procs -> Int] /\ new[v] = b
        /\ \A w \in DOMAIN procs : w # v => new[w] = ends[w]
    BY <1>3, <2>1
  <2> HIDE DEF new, v, a, b
  <2>6. Total(Done(new)) = Total(Done(ends)) - rate[v] * ends[v] + rate[v] * b
    <3> DEFINE x == Done(ends)
               y == Done(new)
    <3>1. /\ x \in Seq(Int) /\ y \in Seq(Int) /\ Len(x) = Len(y) /\ v \in 1..Len(x)
          /\ \A w \in 1..Len(x) : x[w] = rate[w] * ends[w] /\ y[w] = rate[w] * new[w]
      BY <1>1, <1>3, <1>4, <2>1, <2>5
    <3> HIDE DEF x, y
    <3>2. \A w \in 1..Len(x) : w # v => y[w] = x[w]
      <4>1. \A w \in 1..Len(x) : w \in DOMAIN procs
        BY <1>1, <1>3, <1>4 DEF x
      <4> QED
        BY <2>5, <3>1, <4>1
    <3>3. Total(y) = Total(x) - x[v] + y[v]
      BY <3>1, <3>2, TotalChanged
    <3> QED
      BY <2>5, <3>1, <3>3 DEF x, y
  <2>7. rate[v] * (b - a) <= rate[v] * b - rate[v] * ends[v]
    <3>1. \A k \in Nat, x, y, z \in Int : x <= y => k * (z - y) <= k * z - k * x
      <4> SUFFICES ASSUME NEW k \in Nat, NEW x \in Int, NEW y \in Int, NEW z \in Int, x <= y
                   PROVE  k * (z - y) <= k * z - k * x
        OBVIOUS
      <4>1. y - x \in Nat
        OBVIOUS
      <4>2. k * (y - x) >= 0
        BY <4>1
      <4>3. k * (z - y) = k * z - k * y /\ k * (y - x) = k * y - k * x
        OBVIOUS
      <4>4. k * x \in Int /\ k * y \in Int /\ k * z \in Int
        OBVIOUS
      <4> QED
        BY <4>2, <4>3, <4>4
    <3> QED
      BY <2>1, <2>4, <3>1
  <2>8. rate[v] * (b - a) \in Int /\ rate[v] * b \in Int /\ rate[v] * ends[v] \in Int
    BY <2>1
  <2>9. P[n + 1] <= Total(Done(new))
    <3> DEFINE x == rate[v] * (b - a)
               y == rate[v] * b
               z == rate[v] * ends[v]
               old == Total(Done(ends))
    <3>1. /\ x \in Int /\ y \in Int /\ z \in Int /\ old \in Int
          /\ W[n + 1] <= x /\ x <= y - z /\ P[n] <= old
          /\ Total(Done(new)) = old - z + y
      BY <1>3, <1>5, <2>2, <2>6, <2>7, <2>8
    <3> HIDE DEF x, y, z, old
    <3> QED
      BY <1>2, <3>1
  <2>10. \A w \in DOMAIN procs :
            \/ new[w] = 0
            \/ \E s \in Processed : /\ s.worker_index = w /\ s.task <= n + 1
                                    /\ W[s.task] > 0 /\ new[w] = s.time_end
    <3> SUFFICES ASSUME NEW w \in DOMAIN procs
                 PROVE  \/ new[w] = 0
                        \/ \E s \in Processed : /\ s.worker_index = w /\ s.task <= n + 1
                                                /\ W[s.task] > 0 /\ new[w] = s.time_end
      OBVIOUS
    <3>1. CASE w = v
      <4>1. /\ r.worker_index = w /\ r.task <= n + 1 /\ W[r.task] > 0
            /\ new[w] = r.time_end
        BY <1>1, <1>8, <2>5, <3>1 DEF v, b
      <4> QED
        BY <4>1
    <3>2. CASE w # v
      <4>1. new[w] = ends[w]
        BY <2>5, <3>2
      <4>2. \A s \in Processed : s.task <= n => s.task <= n + 1
        BY <1>1, <1>6
      <4> QED
        BY <1>3, <4>1, <4>2
    <3> QED
      BY <3>1, <3>2
  <2>11. DoneBy(W, rate, n + 1, new)
    BY <2>5, <2>9, <2>10 DEF DoneBy, P
  <2> QED
    BY <2>11
<1> QED
  BY <1>7, <1>8

LEMMA WorkTakesTime ==
    ASSUME LoopInv, NonNegativeDurations, {r.task : r \in Processed} = DOMAIN tasks,
           NEW W \in Seq(Int), Len(W) = Len(tasks),
           NEW rate \in [DOMAIN procs -> Nat], NEW end \in Nat,
           \A r \in Processed : W[r.task] > 0 =>
               /\ W[r.task] <= rate[r.worker_index] * (r.time_end - r.time_start)
               /\ r.time_end <= end
    PROVE  Total(W) <= Total(rate) * end
<1> DEFINE N == Len(tasks)
           P == PartialSums(W)
           Done(e) == [w \in DOMAIN procs |-> rate[w] * e[w]]
<1>1. /\ N \in Nat /\ DOMAIN tasks = 1..N
      /\ Len(procs) \in Nat /\ DOMAIN procs = 1..Len(procs)
  BY DEF LoopInv, TypeOK
<1>2. rate \in Seq(Int) /\ Len(rate) = Len(procs)
  <2>1. rate \in [1..Len(procs) -> Int]
    BY <1>1
  <2> QED
    BY <1>1, <2>1
<1>3. \A e \in [DOMAIN procs -> Int] :
          /\ Done(e) \in Seq(Int) /\ Len(Done(e)) = Len(procs)
          /\ \A w \in 1..Len(procs) : Done(e)[w] = rate[w] * e[w]
  <2> SUFFICES ASSUME NEW e \in [DOMAIN procs -> Int]
               PROVE  Done(e) \in [DOMAIN procs -> Int]
    BY <1>1
  <2>1. \A x \in Nat, y \in Int : x * y \in Int
    OBVIOUS
  <2> QED
    BY <2>1
<1> DEFINE A == {n \in Nat : n <= N => \E e : DoneBy(W, rate, n, e)}
<1>4. 0 \in A
  <2> DEFINE e == [w \in DOMAIN procs |-> 0]
  <2>1. e \in [DOMAIN procs -> Int] /\ \A w \in DOMAIN procs : e[w] = 0
    OBVIOUS
  <2> HIDE DEF e
  <2>2. /\ Done(e) \in Seq(Int) /\ Len(Done(e)) = Len(procs)
        /\ \A w \in 1..Len(procs) : Done(e)[w] = rate[w] * e[w]
    BY <1>3, <2>1
  <2>3. \A w \in 1..Len(Done(e)) : Done(e)[w] = 0
    <3>1. \A x \in Nat : x * 0 = 0
      OBVIOUS
    <3>2. \A w \in 1..Len(procs) : rate[w] \in Nat /\ e[w] = 0
      BY <1>1, <2>1
    <3> QED
      BY <2>2, <3>1, <3>2
  <2> DEFINE list == Done(e)
  <2>4. list \in Seq(Int) /\ Len(list) \in Nat /\ \A w \in 1..Len(list) : list[w] = 0
    BY <1>1, <2>2, <2>3
  <2> HIDE DEF list
  <2>5. Total(list) = 0
    <3>1. Total(list) = Len(list) * 0
      BY <2>4, TotalConstant
    <3> QED
      BY <2>4, <3>1
  <2>6. P[0] = 0
    BY PartialSumsStep
  <2>7. DoneBy(W, rate, 0, e)
    BY <2>1, <2>5, <2>6 DEF DoneBy, list
  <2> QED
    BY <2>7
<1>5. ASSUME NEW n \in Nat, n \in A
      PROVE  n + 1 \in A
  <2> SUFFICES ASSUME n + 1 <= N
               PROVE  \E e : DoneBy(W, rate, n + 1, e)
    OBVIOUS
  <2>1. n <= N /\ n \in 0..(N - 1) /\ n + 1 \in DOMAIN tasks
    BY <1>1
  <2>2. PICK e : DoneBy(W, rate, n, e)
    BY <1>5, <2>1
  <2>3. PICK r \in Processed : r.task = n + 1
    BY <2>1
  <2>4. W[n + 1] > 0 => W[n + 1] <= rate[r.worker_index] * (r.time_end - r.time_start)
    BY <2>3
  <2> QED
    BY <2>1, <2>2, <2>3, <2>4, NextIsDone
<1> HIDE DEF A
<1>6. \A n \in Nat : n \in A
  BY <1>4, <1>5, Induction
<1>7. PICK e : DoneBy(W, rate, N, e)
  BY <1>1, <1>6 DEF A
<1>8. /\ e \in [DOMAIN procs -> Int] /\ Total(W) <= Total(Done(e))
      /\ \A w \in DOMAIN procs : e[w] <= end
  <2>1. /\ e \in [DOMAIN procs -> Int] /\ P[N] <= Total(Done(e))
        /\ \A w \in DOMAIN procs :
              \/ e[w] = 0
              \/ \E r \in Processed : W[r.task] > 0 /\ e[w] = r.time_end
    BY <1>7 DEF DoneBy
  <2>2. ASSUME NEW w \in DOMAIN procs
        PROVE  e[w] <= end
    <3>1. CASE e[w] = 0
      BY <3>1
    <3>2. ASSUME NEW r \in Processed, W[r.task] > 0, e[w] = r.time_end
          PROVE  e[w] <= end
      BY <3>2
    <3> QED
      BY <2>1, <3>1, <3>2
  <2> QED
    BY <2>1, <2>2 DEF Total
<1> DEFINE most == [w \in 1..Len(procs) |-> end * rate[w]]
<1>9. /\ most \in Seq(Int) /\ Len(most) = Len(procs)
      /\ \A w \in 1..Len(procs) : most[w] = end * rate[w]
  <2>1. \A w \in 1..Len(procs) : end * rate[w] \in Int
    <3>1. \A x, y \in Nat : x * y \in Int
      OBVIOUS
    <3> QED
      BY <1>1, <3>1
  <2> QED
    BY <1>1, <2>1
<1> DEFINE done == Done(e)
<1>10. /\ done \in Seq(Int) /\ Len(done) = Len(procs)
       /\ \A w \in 1..Len(procs) : done[w] = rate[w] * e[w]
  BY <1>3, <1>8
<1>11. Total(W) <= Total(done)
  BY <1>8
<1> HIDE DEF most, done
<1>12. \A w \in 1..Len(done) : done[w] <= most[w]
  <2>1. \A x \in Nat, y, z \in Int : y <= z => x * y <= z * x
    <3> SUFFICES ASSUME NEW x \in Nat, NEW y \in Int, NEW z \in Int, y <= z
                 PROVE  x * y <= z * x
      OBVIOUS
    <3>1. z - y \in Nat
      OBVIOUS
    <3>2. x * (z - y) >= 0
      BY <3>1
    <3>3. x * (z - y) = x * z - x * y /\ x * z = z * x /\ x * z \in Int /\ x * y \in Int
      OBVIOUS
    <3> QED
      BY <3>2, <3>3
  <2>2. \A w \in 1..Len(procs) : rate[w] \in Nat /\ e[w] \in Int /\ e[w] <= end
    BY <1>1, <1>8
  <2>3. ASSUME NEW w \in 1..Len(procs)
        PROVE  done[w] <= most[w]
    <3>1. rate[w] * e[w] <= end * rate[w]
      BY <2>1, <2>2
    <3> QED
      BY <1>9, <1>10, <3>1, Zenon
  <2> QED
    BY <1>10, <2>3
<1>13. Total(done) <= Total(most)
  BY <1>9, <1>10, <1>12, TotalMonotone
<1>14. Total(most) = Total(rate) * end
  <2>1. /\ most \in Seq(Int) /\ rate \in Seq(Int) /\ Len(most) = Len(rate) /\ end \in Int
        /\ \A w \in 1..Len(rate) : most[w] = end * rate[w]
    BY <1>2, <1>9
  <2>2. Total(most) = end * Total(rate)
    BY <2>1, TotalScaled
  <2>3. Total(rate) \in Int
    BY <1>2, TotalType
  <2>4. \A x, y \in Int : x * y = y * x
    OBVIOUS
  <2> QED
    BY <2>1, <2>2, <2>3, <2>4, Zenon
<1>15. Total(W) \in Int /\ Total(done) \in Int /\ Total(most) \in Int
  BY <1>9, <1>10, TotalType
<1> QED
  BY <1>11, <1>13, <1>14, <1>15
===============================================================================
