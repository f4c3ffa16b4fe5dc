------------------------ MODULE TaskProcessorHeapProofs ------------------------
(***************************************************************************)
(* Proofs about TaskProcessorHeap: the queue stays a heap of at most one   *)
(* completion per worker, and the loop on the heap implements the loop on  *)
(* the set.                                                                *)
(***************************************************************************)
EXTENDS TaskProcessorHeap, TLAPS

\* Loop!Completion, without the variables in it.
Job == [time_start : Double, time_end : Double, worker_index : Nat, task : Nat]

\* What is proved of the queue alone holds of the queue of the loop.
Facts == INSTANCE PriorityQueueProofs WITH
    comparator <- later_first, Element <- Job, MaxSize <- 0,
    container  <- p_queue, result <- <<>>

LEMMA SameQueue ==
    ASSUME NEW s
    PROVE  /\ Queue!IsHeap(s) <=> Facts!IsHeap(s)
           /\ \A e : Queue!Emplaced(s, e) = Facts!Emplaced(s, e)
           /\ Queue!AfterPop(s) = Facts!AfterPop(s)
  BY DEF Queue!IsHeap, Facts!IsHeap, Queue!Emplaced, Facts!Emplaced, Queue!AfterPop,
         Facts!AfterPop, Queue!PushHeap, Facts!PushHeap, Queue!PopHeap, Facts!PopHeap,
         Queue!Arrangements, Facts!Arrangements, Queue!S!Front, Facts!S!Front,
         Queue!Bijection, Facts!Bijection, Queue!Injection, Facts!Injection,
         Queue!Surjection, Facts!Surjection, Queue!IsInjective, Facts!IsInjective

LEMMA SameRange == ASSUME NEW s PROVE Fn!Range(s) = Facts!Range(s)
  BY DEF Fn!Range, Facts!Range

(***************************************************************************)
(* Completions are ordered by finish times, which are numbers.             *)
(***************************************************************************)
LEMMA JobsOrdered ==
    /\ Facts!StrictWeakOrder(Job)
    /\ \A a \in Job : ~later_first(a, a)
    /\ \A a, b, c \in Job : later_first(a, c) => later_first(a, b) \/ later_first(b, c)
<1>1. \A a \in Job : a.time_end \in Int
  BY NumbersAssumption DEF Job
<1> QED
  BY <1>1 DEF Facts!StrictWeakOrder, later_first, Loop!LaterFirst

\* At most one entry of the queue per worker, and of none from worker w on.
DistinctWorkers(q) ==
    \A k, l \in DOMAIN q : q[k].worker_index = q[l].worker_index => k = l

HeapTypeOK ==
    /\ procs \in Seq(Loop!Mips)
    /\ tasks \in Seq(Loop!SimpleTask)
    /\ p_queue \in Seq(Job)
    /\ \A k \in DOMAIN p_queue : p_queue[k].worker_index \in DOMAIN procs
    /\ processed_tasks \in Seq(Job)
    /\ i \in 1..(Len(procs) + 1)
    /\ task_iterator \in 1..(Len(tasks) + 1)
    /\ pc \in {"seed", "drain", "done"}

(***************************************************************************)
(* The inductive invariant.  While the queue is seeded its length is the   *)
(* number of workers seeded, and the next one is not yet in it.            *)
(***************************************************************************)
Seeding ==
    pc = "seed" =>
        /\ Len(p_queue) = i - 1
        /\ \A k \in DOMAIN p_queue : p_queue[k].worker_index < i

HeapInv == HeapTypeOK /\ QueueIsHeap /\ Seeding

(***************************************************************************)
(* The completion of the next task, whoever takes it.                      *)
(***************************************************************************)
LEMMA NextJobType ==
    ASSUME HeapTypeOK, Loop!TasksRemain, NEW w \in DOMAIN procs, NEW t \in Double
    PROVE  /\ Loop!NextCompletion(w, t) \in Job
           /\ Loop!NextCompletion(w, t).worker_index = w
<1>1. procs[w] \in Double /\ task_iterator \in DOMAIN tasks /\ w \in Nat
  BY DEF HeapTypeOK, Loop!TasksRemain, Loop!Mips
<1>2. tasks[task_iterator] \in Loop!SimpleTask
  BY <1>1 DEF HeapTypeOK
<1>3. /\ tasks[task_iterator].complexity \in Double
      /\ tasks[task_iterator].bits_to_transfer \in Double
  BY <1>2 DEF Loop!SimpleTask
<1>4. Loop!TransferTime(tasks[task_iterator].bits_to_transfer) \in Double
  BY <1>3, NumbersAssumption DEF Loop!TransferTime
<1>5. Loop!Duration(procs[w], tasks[task_iterator]) \in Double
  BY <1>1, <1>3, <1>4, NumbersAssumption DEF Loop!Duration, Loop!TimeToComplete
<1>6. Plus(t, Loop!Duration(procs[w], tasks[task_iterator])) \in Double
  BY <1>5, NumbersAssumption
<1>7. task_iterator \in Nat
  BY DEF HeapTypeOK
<1> QED
  BY <1>1, <1>6, <1>7 DEF Loop!NextCompletion, Job

(***************************************************************************)
(* What the two operations of the queue do, given what the loop keeps.     *)
(***************************************************************************)
LEMMA EmplaceJob ==
    ASSUME NEW q \in Seq(Job), Queue!IsHeap(q), DistinctWorkers(q),
           NEW e \in Job, \A k \in DOMAIN q : q[k].worker_index # e.worker_index,
           NEW t \in Queue!Emplaced(q, e)
    PROVE  /\ t \in Seq(Job) /\ Len(t) = Len(q) + 1
           /\ Queue!IsHeap(t) /\ DistinctWorkers(t)
           /\ Fn!Range(t) = Fn!Range(q) \cup {e}
<1>1. t \in Facts!Emplaced(q, e) /\ Facts!IsHeap(q)
  BY SameQueue
<1>2. /\ t \in Facts!Arrangements(Append(q, e))
      /\ t \in Seq(Job) /\ Len(t) = Len(q) + 1
      /\ Facts!IsHeap(t)
      /\ Facts!Range(t) = Facts!Range(q) \cup {e}
  BY <1>1, JobsOrdered, Facts!EmplacedIsHeap
<1> DEFINE longer == Append(q, e)
<1>3. DistinctWorkers(longer)
  BY DEF DistinctWorkers
<1>4. longer \in Seq(Job) /\ t \in Facts!Arrangements(longer)
  BY <1>2
<1> HIDE DEF longer
<1>5. ASSUME NEW k \in DOMAIN t, NEW l \in DOMAIN t, k # l
      PROVE  t[k].worker_index # t[l].worker_index
  <2>1. \E m, n \in DOMAIN longer : m # n /\ t[k] = longer[m] /\ t[l] = longer[n]
    BY <1>4, <1>5, JobsOrdered, Facts!ArrangementDistinct
  <2> QED
    BY <1>3, <2>1 DEF DistinctWorkers
<1> QED
  BY <1>2, <1>5, SameQueue, SameRange DEF DistinctWorkers

LEMMA PopJob ==
    ASSUME NEW q \in Seq(Job), Queue!IsHeap(q), DistinctWorkers(q), q # <<>>,
           NEW p \in Queue!AfterPop(q)
    PROVE  /\ p.value \in Job /\ p.value \in Fn!Range(q)
           /\ p.rest \in Seq(Job) /\ Len(p.rest) = Len(q) - 1
           /\ Queue!IsHeap(p.rest) /\ DistinctWorkers(p.rest)
           /\ Fn!Range(p.rest) = Fn!Range(q) \ {p.value}
           /\ \A k \in DOMAIN p.rest :
                 p.rest[k].worker_index # p.value.worker_index
           /\ \A other \in Fn!Range(q) : ~later_first(p.value, other)
<1>1. p \in Facts!AfterPop(q) /\ Facts!IsHeap(q)
  BY SameQueue
<1>2. PICK t \in Facts!Arrangements(q) :
          /\ p = [rest |-> Facts!S!Front(t), value |-> t[Len(t)]]
          /\ t \in Seq(Job) /\ Len(t) = Len(q) /\ t # <<>>
          /\ p.value = q[1] /\ Facts!IsHeap(p.rest)
  BY <1>1, JobsOrdered, Facts!PoppedIsFront
<1>3. p.rest = Facts!S!Front(t) /\ p.value = t[Len(t)]
  BY <1>2
<1>4. /\ p.rest \in Seq(Job) /\ Len(p.rest) = Len(t) - 1
      /\ DOMAIN p.rest = 1..(Len(t) - 1)
      /\ \A k \in 1..(Len(t) - 1) : p.rest[k] = t[k]
      /\ Len(t) \in Nat \ {0} /\ DOMAIN t = 1..Len(t)
  BY <1>2, <1>3, JobsOrdered, Facts!FrontOf
<1>5. ASSUME NEW k \in DOMAIN t, NEW l \in DOMAIN t, k # l
      PROVE  t[k].worker_index # t[l].worker_index
  <2>1. \E m, n \in DOMAIN q : m # n /\ t[k] = q[m] /\ t[l] = q[n]
    BY <1>5, JobsOrdered, Facts!ArrangementDistinct
  <2> QED
    BY <2>1 DEF DistinctWorkers
<1>6. Facts!Range(p.rest) = Facts!Range(q) \ {p.value}
  <2>1. \A k, l \in DOMAIN q : q[k] = q[l] => k = l
    BY DEF DistinctWorkers
  <2> QED
    BY <1>1, <2>1, JobsOrdered, Facts!PopRange
<1>7. p.value \in Job /\ p.value \in Fn!Range(q)
  <2>1. 1 \in DOMAIN q /\ q[1] \in Job
    OBVIOUS
  <2> QED
    BY <1>2, <2>1 DEF Fn!Range
<1>8. DistinctWorkers(p.rest)
  <2>1. ASSUME NEW k \in DOMAIN p.rest, NEW l \in DOMAIN p.rest, k # l
        PROVE  p.rest[k].worker_index # p.rest[l].worker_index
    <3>1. k \in 1..(Len(t) - 1) /\ l \in 1..(Len(t) - 1)
      BY <1>4
    <3>2. p.rest[k] = t[k] /\ p.rest[l] = t[l]
      BY <1>4, <3>1
    <3>3. \A n \in Nat : 1..(n - 1) \subseteq 1..n
      OBVIOUS
    <3>4. 1..(Len(t) - 1) \subseteq DOMAIN t
      BY <1>4, <3>3
    <3> QED
      BY <1>5, <2>1, <3>1, <3>2, <3>4
  <2> QED
    BY <2>1 DEF DistinctWorkers
<1>9. \A k \in DOMAIN p.rest : p.rest[k].worker_index # p.value.worker_index
  <2> SUFFICES ASSUME NEW k \in DOMAIN p.rest
               PROVE  p.rest[k].worker_index # p.value.worker_index
    OBVIOUS
  <2>1. k \in 1..(Len(t) - 1)
    BY <1>4
  <2>2. \A n \in Nat \ {0} : \A m \in 1..(n - 1) : m \in 1..n /\ n \in 1..n /\ m # n
    OBVIOUS
  <2>3. k \in DOMAIN t /\ Len(t) \in DOMAIN t /\ k # Len(t)
    BY <1>4, <2>1, <2>2
  <2>4. t[k].worker_index # t[Len(t)].worker_index
    BY <1>5, <2>3
  <2>5. p.rest[k] = t[k]
    BY <1>4, <2>1
  <2> QED
    BY <1>3, <2>4, <2>5, Zenon
<1>10. ASSUME NEW other \in Fn!Range(q)
       PROVE  ~later_first(p.value, other)
  <2>1. PICK k \in DOMAIN q : other = q[k]
    BY DEF Fn!Range
  <2> QED
    BY <1>1, <1>2, <2>1, JobsOrdered, Facts!FrontIsFirst
<1> QED
  BY <1>2, <1>4, <1>6, <1>7, <1>8, <1>9, <1>10, SameQueue, SameRange

(***************************************************************************)
(* The queue is the same to every caller: Init and Next keep the           *)
(* invariant, and each step is one of the loop on the set.                 *)
(***************************************************************************)
LEMMA HeapInit == Init => HeapInv
  BY NumbersAssumption
  DEF Init, HeapInv, HeapTypeOK, QueueIsHeap, Seeding, Queue!IsHeap

LEMMA QueueHeld ==
    ASSUME HeapInv
    PROVE  /\ p_queue \in Seq(Job) /\ Queue!IsHeap(p_queue) /\ DistinctWorkers(p_queue)
           /\ Len(p_queue) \in Nat /\ Len(procs) \in Nat /\ Len(p_queue) <= Len(procs)
           /\ DOMAIN p_queue = 1..Len(p_queue) /\ DOMAIN procs = 1..Len(procs)
  BY DEF HeapInv, HeapTypeOK, QueueIsHeap, DistinctWorkers

LEMMA SeedStep ==
    ASSUME HeapInv, Seed
    PROVE  HeapInv' /\ Loop!Seed
<1> DEFINE e == Loop!NextCompletion(i, 0)
<1>1. /\ i \in DOMAIN procs /\ Loop!TasksRemain /\ pc = "seed"
      /\ p_queue' \in Queue!Emplaced(p_queue, e)
      /\ task_iterator' = task_iterator + 1 /\ i' = i + 1
      /\ UNCHANGED <<procs, tasks, processed_tasks, pc>>
  BY DEF Seed, HeapInv, HeapTypeOK
<1>2. e \in Job /\ e.worker_index = i
  BY <1>1, NextJobType, NumbersAssumption DEF HeapInv
<1> HIDE DEF e
<1>3. /\ \A k \in DOMAIN p_queue : p_queue[k].worker_index < i
      /\ Len(p_queue) = i - 1 /\ i \in Nat
  BY <1>1 DEF HeapInv, HeapTypeOK, Seeding
<1>4. \A k \in DOMAIN p_queue : p_queue[k].worker_index \in DOMAIN procs
  BY DEF HeapInv, HeapTypeOK
<1>5. \A k \in DOMAIN p_queue : p_queue[k].worker_index # e.worker_index
  BY <1>2, <1>3, <1>4, QueueHeld
<1>6. /\ p_queue' \in Seq(Job) /\ Len(p_queue') = Len(p_queue) + 1
      /\ Queue!IsHeap(p_queue') /\ DistinctWorkers(p_queue')
      /\ Fn!Range(p_queue') = Fn!Range(p_queue) \cup {e}
  BY <1>1, <1>2, <1>5, QueueHeld, EmplaceJob
<1>7. ASSUME NEW k \in DOMAIN p_queue'
      PROVE  p_queue'[k].worker_index \in DOMAIN procs /\ p_queue'[k].worker_index < i + 1
  <2>1. p_queue'[k] \in Fn!Range(p_queue')
    BY DEF Fn!Range
  <2>2. p_queue'[k] = e \/ \E l \in DOMAIN p_queue : p_queue'[k] = p_queue[l]
    BY <1>6, <2>1 DEF Fn!Range
  <2> QED
    BY <1>1, <1>2, <1>3, <1>4, <2>2, QueueHeld
<1>8. HeapTypeOK'
  BY <1>1, <1>6, <1>7 DEF HeapInv, HeapTypeOK, Loop!TasksRemain
<1>9. QueueIsHeap'
  BY <1>1, <1>3, <1>6, QueueHeld DEF QueueIsHeap, DistinctWorkers, Queue!IsHeap
<1>10. Seeding'
  BY <1>1, <1>3, <1>6, <1>7 DEF Seeding
<1>11. Loop!Seed
  BY <1>1, <1>6, QueueHeld DEF Loop!Seed, e
<1> QED
  BY <1>8, <1>9, <1>10, <1>11 DEF HeapInv

LEMMA SeedingOverStep ==
    ASSUME HeapInv, SeedingOver
    PROVE  HeapInv' /\ Loop!SeedingOver
  BY DEF SeedingOver, HeapInv, HeapTypeOK, QueueIsHeap, Seeding, Queue!IsHeap,
         Loop!SeedingOver, Loop!TasksRemain

LEMMA ProcessStep ==
    ASSUME HeapInv, Process
    PROVE  HeapInv' /\ Loop!Process
<1>1. /\ pc = "drain" /\ p_queue # <<>>
      /\ Loop!AdvanceIterator
      /\ UNCHANGED <<procs, tasks, i, pc>>
  BY DEF Process
<1>2. PICK p \in Queue!AfterPop(p_queue) :
          /\ p_queue' \in Refilled(p.rest, p.value)
          /\ processed_tasks' = Append(processed_tasks, p.value)
  BY DEF Process
<1> DEFINE tk == p.value
           rest == p.rest
           e == Loop!NextCompletion(tk.worker_index, tk.time_end)
<1>3. /\ tk \in Job /\ tk \in Fn!Range(p_queue)
      /\ rest \in Seq(Job) /\ Len(rest) = Len(p_queue) - 1
      /\ Queue!IsHeap(rest) /\ DistinctWorkers(rest)
      /\ Fn!Range(rest) = Fn!Range(p_queue) \ {tk}
      /\ \A k \in DOMAIN rest : rest[k].worker_index # tk.worker_index
      /\ \A other \in Fn!Range(p_queue) : ~later_first(tk, other)
  BY <1>1, QueueHeld, PopJob
<1>4. p_queue' \in Refilled(rest, tk) /\ processed_tasks' = Append(processed_tasks, tk)
  BY <1>2
<1> HIDE DEF tk, rest
<1>5. \A r \in Fn!Range(p_queue) : r.worker_index \in DOMAIN procs
  BY DEF HeapInv, HeapTypeOK, Fn!Range
<1>6. Loop!TasksRemain => e \in Job /\ e.worker_index = tk.worker_index
  <2>1. tk.worker_index \in DOMAIN procs /\ tk.time_end \in Double
    BY <1>3, <1>5 DEF Job
  <2> QED
    BY <2>1, NextJobType DEF HeapInv
<1> HIDE DEF e
<1>7. /\ p_queue' \in Seq(Job)
      /\ Queue!IsHeap(p_queue') /\ DistinctWorkers(p_queue')
      /\ Len(p_queue') <= Len(p_queue)
      /\ Fn!Range(p_queue') = (Fn!Range(p_queue) \ {tk})
                                \cup (IF Loop!TasksRemain THEN {e} ELSE {})
  <2>1. CASE Loop!TasksRemain
    <3>1. p_queue' \in Queue!Emplaced(rest, e)
      BY <1>4, <2>1 DEF Refilled, e
    <3>2. \A k \in DOMAIN rest : rest[k].worker_index # e.worker_index
      BY <1>3, <1>6, <2>1
    <3>3. /\ p_queue' \in Seq(Job) /\ Len(p_queue') = Len(rest) + 1
          /\ Queue!IsHeap(p_queue') /\ DistinctWorkers(p_queue')
          /\ Fn!Range(p_queue') = Fn!Range(rest) \cup {e}
      BY <1>3, <1>6, <2>1, <3>1, <3>2, EmplaceJob
    <3> QED
      BY <1>3, <2>1, <3>3, QueueHeld
  <2>2. CASE ~Loop!TasksRemain
    <3>1. p_queue' = rest
      BY <1>4, <2>2 DEF Refilled
    <3> QED
      BY <1>3, <2>2, <3>1, QueueHeld
  <2> QED
    BY <2>1, <2>2
<1>8. \A k \in DOMAIN p_queue' : p_queue'[k].worker_index \in DOMAIN procs
  <2> SUFFICES ASSUME NEW k \in DOMAIN p_queue'
               PROVE  p_queue'[k].worker_index \in DOMAIN procs
    OBVIOUS
  <2>1. p_queue'[k] \in Fn!Range(p_queue')
    BY DEF Fn!Range
  <2>2. p_queue'[k] \in Fn!Range(p_queue) \/ (Loop!TasksRemain /\ p_queue'[k] = e)
    BY <1>7, <2>1
  <2>3. tk.worker_index \in DOMAIN procs
    BY <1>3, <1>5
  <2> QED
    BY <1>5, <1>6, <2>2, <2>3
<1>9. processed_tasks' \in Seq(Job)
  BY <1>3, <1>4 DEF HeapInv, HeapTypeOK
<1>10. task_iterator' \in 1..(Len(tasks) + 1)
  BY <1>1 DEF Loop!AdvanceIterator, Loop!TasksRemain, HeapInv, HeapTypeOK
<1>11. HeapTypeOK'
  BY <1>1, <1>7, <1>8, <1>9, <1>10 DEF HeapInv, HeapTypeOK
<1>12. Len(p_queue') <= Len(procs')
  BY <1>1, <1>7, QueueHeld
<1>13. QueueIsHeap'
  BY <1>7, <1>12 DEF QueueIsHeap, DistinctWorkers, Queue!IsHeap
<1>14. Seeding'
  BY <1>1 DEF Seeding
<1>15. Loop!Process
  <2>1. Loop!IsTop(tk)
    BY <1>3 DEF Loop!IsTop, later_first
  <2>2. Fn!Range(p_queue') = (Fn!Range(p_queue) \ {tk}) \cup Loop!Refill(tk)
    BY <1>7 DEF Loop!Refill, e
  <2> QED
    BY <1>1, <1>3, <1>4, <2>1, <2>2 DEF Loop!Process
<1> QED
  BY <1>11, <1>13, <1>14, <1>15 DEF HeapInv

LEMMA EmptyQueue ==
    ASSUME NEW q \in Seq(Job)
    PROVE  q = <<>> <=> Fn!Range(q) = {}
<1>1. q = <<>> => DOMAIN q = {}
  OBVIOUS
<1>2. q # <<>> => 1 \in DOMAIN q
  OBVIOUS
<1> QED
  BY <1>1, <1>2 DEF Fn!Range

LEMMA ReturnStep ==
    ASSUME HeapInv, Return
    PROVE  HeapInv' /\ Loop!Return
<1>1. Fn!Range(p_queue) = {}
  BY QueueHeld, EmptyQueue DEF Return
<1> QED
  BY <1>1 DEF Return, HeapInv, HeapTypeOK, QueueIsHeap, Seeding, Queue!IsHeap, Loop!Return

LEMMA HeapStep == HeapInv /\ [Next]_vars => HeapInv' /\ [Loop!Next]_(Loop!vars)
<1> SUFFICES ASSUME HeapInv, [Next]_vars
             PROVE  HeapInv' /\ [Loop!Next]_(Loop!vars)
  OBVIOUS
<1>1. CASE Seed
  BY <1>1, SeedStep DEF Loop!Next, Loop!Step
<1>2. CASE SeedingOver
  BY <1>2, SeedingOverStep DEF Loop!Next, Loop!Step
<1>3. CASE Process
  BY <1>3, ProcessStep DEF Loop!Next, Loop!Step
<1>4. CASE Return
  BY <1>4, ReturnStep DEF Loop!Next, Loop!Step
<1>5. CASE UNCHANGED vars
  <2>1. HeapInv'
    BY <1>5 DEF vars, HeapInv, HeapTypeOK, QueueIsHeap, Seeding, Queue!IsHeap
  <2> QED
    BY <1>5, <2>1 DEF vars, Loop!vars
<1> QED
  BY <1>1, <1>2, <1>3, <1>4, <1>5 DEF Next, Step, Terminated

LEMMA LoopInit == Init => Loop!Init
  BY DEF Init, Loop!Init, Fn!Range

\* The vector is a heap of at most one running completion per processor, which
\* is what the library's pop_heap and push_heap ask for and the loop never checks.
THEOREM QueueStaysHeap == Spec => []QueueIsHeap
<1>1. Init => HeapInv
  BY HeapInit
<1>2. HeapInv /\ [Next]_vars => HeapInv'
  BY HeapStep
<1>3. HeapInv => QueueIsHeap
  BY DEF HeapInv
<1> QED
  BY <1>1, <1>2, <1>3, PTL DEF Spec

\* Whatever heap the library makes of the vector, the loop does what TaskProcessor
\* says with a set: what is proved of the loop on the set holds for the program's
\* queue.  This is ImplementsLoop without its fairness.
THEOREM HeapImplementsLoop == Spec => Loop!Spec
<1>1. Init => HeapInv /\ Loop!Init
  BY HeapInit, LoopInit
<1>2. HeapInv /\ [Next]_vars => HeapInv' /\ [Loop!Next]_(Loop!vars)
  BY HeapStep
<1> QED
  BY <1>1, <1>2, PTL DEF Spec, Loop!Spec
===============================================================================
