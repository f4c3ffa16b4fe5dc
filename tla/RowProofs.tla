------------------------------- MODULE RowProofs -------------------------------
(***************************************************************************)
(* Proofs about a row of the sweep: create_tasks keeps what simulate()     *)
(* takes on trust, the simulations of a row are those Driver counts, and   *)
(* they agree.                                                             *)
(***************************************************************************)
EXTENDS Row, SimulateProofs

Facts == INSTANCE MatMulProofs WITH MaxSize <- SizeMod - 1

\* What MatMulTasks assumes of its constants.
LEMMA FactsApply ==
    /\ SizeBits \in Nat /\ UserIdBits \in Nat /\ BitsPerNumber \in Nat \ {0}
    /\ Facts!SizeMod \in Nat \ {0} /\ Facts!UserIdMod \in Nat \ {0}
    /\ SizeMod - 1 \in Facts!Size /\ JobInputs \subseteq Facts!Job
<1>1. Facts!SizeMod = SizeMod /\ Facts!UserIdMod = UserIdMod
  BY DEF Facts!SizeMod, Facts!UserIdMod, SizeMod, UserIdMod
<1>2. SizeMod - 1 \in 0..(SizeMod - 1)
  BY WidthsAssumption
<1>3. Facts!Job = Job
  BY <1>1 DEF Facts!Job, Job, Facts!Size, Size
<1> QED
  BY <1>1, <1>2, <1>3, WidthsAssumption, RowAssumption DEF Facts!Size

LEMMA FlattenedIsSeq ==
    ASSUME NEW E, NEW seqs \in Seq(Seq(E))
    PROVE  S!FlattenSeq(seqs) \in Seq(E)
<1>1. Facts!S!FlattenSeq(seqs) = S!FlattenSeq(seqs)
  BY Zenon DEF Facts!S!FlattenSeq, S!FlattenSeq
<1>2. Facts!S!FlattenSeq(seqs) \in Seq(E)
  BY FactsApply, Facts!FlattenType
<1> QED
  BY <1>1, <1>2, Zenon

(***************************************************************************)
(* The arithmetic of size_t, and the divisions by a slice size.            *)
(***************************************************************************)
LEMMA WrapNatural == \A n \in Int : Wrap(n) \in Nat
  BY WidthsAssumption DEF Wrap

LEMMA WrapZero == Wrap(0) = 0
<1>1. \A m \in Nat \ {0} : 0 % m = 0
  OBVIOUS
<1> QED
  BY <1>1, WidthsAssumption DEF Wrap

LEMMA Divided ==
    ASSUME NEW p \in Nat, NEW s \in Nat \ {0}
    PROVE  /\ NFull(p, s) \in Nat /\ Partial(p, s) \in Nat
           /\ Partial(p, s) < s /\ Partial(p, s) <= p
           /\ p = 0 => NFull(p, s) = 0 /\ Partial(p, s) = 0
           /\ p < s => NFull(p, s) = 0
<1>1. p \div s \in Nat /\ (p < s => p \div s = 0)
  OBVIOUS
<1>2. p % s \in 0..(s - 1)
  OBVIOUS
<1>3. p = 0 => p \div s = 0
  OBVIOUS
<1>4. p = 0 => p % s = 0
  OBVIOUS
<1>5. p % s <= p
  <2>1. CASE p < s
    <3>1. p % s = p
      BY <2>1
    <3> QED
      BY <3>1
  <2>2. CASE ~(p < s)
    BY <1>2, <2>2
  <2> QED
    BY <2>1, <2>2
<1> QED
  BY <1>1, <1>2, <1>3, <1>4, <1>5 DEF NFull, Partial

(***************************************************************************)
(* The runs create_tasks makes for n players: tasks whose numbers are not  *)
(* negative, of one of the players.  Only an empty run may differ: that of *)
(* a product of order 0.                                                   *)
(***************************************************************************)
GoodRun(n) ==
    {run \in [count : Nat, task : [complexity : Int, bits_to_transfer : Nat, userid : Nat]] :
        /\ run.task.userid < n
        /\ run.count > 0 => run.task.complexity >= 0}

\* The runs among them that are of the tasks in E.
RunsOf(n, E) == {run \in GoodRun(n) : run.count > 0 => run.task \in E}

\* The tasks of one slice size: a full block, an edge block, the corner.
BlockTasks(p, s, user) ==
    LET r == Partial(p, s)
        Block(x, y) == Create(Complexity(x, p, y), user)
    IN  (IF s <= p THEN {Block(s, s)} ELSE {})
          \cup (IF r > 0 /\ s <= p THEN {Block(r, s)} ELSE {})
          \cup (IF r > 0 THEN {Block(r, r)} ELSE {})

JobTasks(jb) ==
    UNION {BlockTasks(jb.problem_size, jb.slice_sizes[k], UserOf(k)) :
              k \in DOMAIN jb.slice_sizes}

LEMMA RunIsGood ==
    ASSUME NEW x \in Nat, NEW p \in Nat, NEW y \in Nat, NEW c \in Nat,
           NEW n \in Nat, NEW user \in Nat, user < n, c = 0 \/ p > 0
    PROVE  Run(c, Complexity(x, p, y), user) \in GoodRun(n)
<1> DEFINE f == Complexity(x, p, y).flops
           b == Wrap(BitsPerNumber * Complexity(x, p, y).numbers)
<1>1. x * y \in Int /\ x * p + p * y + x * y \in Int
  OBVIOUS
<1>2. Wrap(x * y) \in Nat /\ Wrap(x * p + p * y + x * y) \in Nat
  BY <1>1, WrapNatural
<1>3. f = Wrap(x * y) * (2 * p - 1) /\ Complexity(x, p, y).numbers \in Nat
  BY <1>2 DEF Complexity
<1>4. BitsPerNumber * Complexity(x, p, y).numbers \in Int
  BY <1>3, WidthsAssumption
<1>5. b \in Nat
  BY <1>4, WrapNatural
<1>6. f \in Int /\ (p > 0 => f >= 0)
  <2>1. \A k, w \in Nat : k * w >= 0
    OBVIOUS
  <2>2. p > 0 => 2 * p - 1 \in Nat
    OBVIOUS
  <2>3. 2 * p - 1 \in Int
    OBVIOUS
  <2>4. f \in Int
    BY <1>2, <1>3, <2>3
  <2>5. p > 0 => f >= 0
    BY <1>2, <1>3, <2>1, <2>2
  <2> QED
    BY <2>4, <2>5
<1>7. Wrap(c) \in Nat /\ (c = 0 => ~(Wrap(c) > 0))
  BY WrapNatural, WrapZero
<1>8. Run(c, Complexity(x, p, y), user)
        = [count |-> Wrap(c),
           task  |-> [complexity |-> f, bits_to_transfer |-> b, userid |-> user]]
  BY DEF Run, Create
<1> HIDE DEF f, b
<1> QED
  BY <1>5, <1>6, <1>7, <1>8 DEF GoodRun

LEMMA RunHas ==
    \A c, x, user : Run(c, x, user).task = Create(x, user) /\ Run(c, x, user).count = Wrap(c)
  BY DEF Run

LEMMA BlocksAreGood ==
    ASSUME NEW p \in Nat, NEW s \in Nat \ {0}, NEW n \in Nat, NEW user \in Nat, user < n
    PROVE  Blocks(p, s, user) \in Seq(RunsOf(n, BlockTasks(p, s, user)))
<1> DEFINE q == NFull(p, s)
           r == Partial(p, s)
           edge == Complexity(r, p, s)
           full_run == Run(q * q, Complexity(s, p, s), user)
           edge_run == Run(2 * q, edge, user)
           corner_run == Run(1, Complexity(r, p, r), user)
           E == RunsOf(n, BlockTasks(p, s, user))
<1>1. q \in Nat /\ r \in Nat /\ (p = 0 => q = 0 /\ r = 0) /\ (q = 0 \/ s <= p)
  BY Divided
<1>2. Blocks(p, s, user)
        = <<full_run>> \o (IF r # 0 /\ edge.flops # 0 THEN <<edge_run, corner_run>> ELSE <<>>)
  BY DEF Blocks
<1>3. /\ s <= p => Create(Complexity(s, p, s), user) \in BlockTasks(p, s, user)
      /\ r > 0 /\ s <= p => Create(edge, user) \in BlockTasks(p, s, user)
      /\ r > 0 => Create(Complexity(r, p, r), user) \in BlockTasks(p, s, user)
  BY DEF BlockTasks
<1> HIDE DEF q, r
<1>4. /\ q * q \in Nat /\ 2 * q \in Nat /\ (p = 0 => q * q = 0 /\ 2 * q = 0)
      /\ q = 0 => q * q = 0 /\ 2 * q = 0
  BY <1>1
<1>5. full_run \in E
  <2>1. /\ full_run \in GoodRun(n) /\ full_run.task = Create(Complexity(s, p, s), user)
        /\ q * q = 0 => full_run.count = 0
    <3>1. full_run \in GoodRun(n)
      <4>1. q * q \in Nat /\ (q * q = 0 \/ p > 0) /\ s \in Nat
        BY <1>4
      <4> HIDE DEF full_run
      <4> QED
        BY <4>1, RunIsGood DEF full_run
    <3> QED
      BY <3>1, RunHas, WrapZero
  <2> HIDE DEF full_run
  <2> QED
    BY <1>1, <1>3, <1>4, <2>1 DEF RunsOf
<1>6. r # 0 => edge_run \in E /\ corner_run \in E
  <2> SUFFICES ASSUME r # 0 PROVE edge_run \in E /\ corner_run \in E
    OBVIOUS
  <2>1. p > 0 /\ r > 0
    BY <1>1
  <2>2. /\ edge_run \in GoodRun(n) /\ edge_run.task = Create(edge, user)
        /\ 2 * q = 0 => edge_run.count = 0
    <3>1. edge_run \in GoodRun(n)
      BY <1>1, <1>4, <2>1, RunIsGood
    <3> QED
      BY <3>1, RunHas, WrapZero
  <2>3. corner_run \in GoodRun(n) /\ corner_run.task = Create(Complexity(r, p, r), user)
    BY <1>1, <2>1, RunIsGood, RunHas
  <2> HIDE DEF edge_run, corner_run, edge
  <2> QED
    BY <1>1, <1>3, <1>4, <2>1, <2>2, <2>3 DEF RunsOf
<1> HIDE DEF full_run, edge_run, corner_run, edge, E
<1>7. CASE r # 0 /\ edge.flops # 0
  <2>1. <<full_run>> \in Seq(E) /\ <<edge_run, corner_run>> \in Seq(E)
    BY <1>5, <1>6, <1>7
  <2>2. <<full_run>> \o <<edge_run, corner_run>> \in Seq(E)
    BY <2>1
  <2> QED
    BY <1>2, <1>7, <2>2 DEF E
<1>8. CASE ~(r # 0 /\ edge.flops # 0)
  <2>1. <<full_run>> \in Seq(E) /\ <<>> \in Seq(E)
    BY <1>5
  <2>2. <<full_run>> \o <<>> \in Seq(E)
    BY <2>1
  <2> QED
    BY <1>2, <1>8, <2>2 DEF E
<1> QED
  BY <1>7, <1>8

LEMMA UserInRange ==
    ASSUME NEW n \in Nat, NEW k \in 1..n
    PROVE  UserOf(k) \in Nat /\ UserOf(k) < n
<1>1. \A x \in Nat, m \in Nat \ {0} : x % m \in Nat /\ x % m <= x
  <2> SUFFICES ASSUME NEW x \in Nat, NEW m \in Nat \ {0}
               PROVE  x % m \in Nat /\ x % m <= x
    OBVIOUS
  <2>1. x % m \in 0..(m - 1)
    OBVIOUS
  <2>2. CASE x < m
    <3>1. x % m = x
      BY <2>2
    <3> QED
      BY <3>1
  <2>3. CASE ~(x < m)
    BY <2>1, <2>3
  <2> QED
    BY <2>2, <2>3
<1>2. k - 1 \in Nat /\ k - 1 < n
  OBVIOUS
<1>3. (k - 1) % UserIdMod \in Nat /\ (k - 1) % UserIdMod <= k - 1
  BY <1>1, <1>2, WidthsAssumption
<1> QED
  BY <1>2, <1>3 DEF UserOf

LEMMA InsertedIsGood ==
    ASSUME NEW jb \in JobInputs
    PROVE  Inserted(jb) \in Seq(RunsOf(Len(jb.slice_sizes), JobTasks(jb)))
<1> DEFINE p == jb.problem_size
           sizes == jb.slice_sizes
           N == Len(sizes)
           seqs == [k \in DOMAIN sizes |-> Blocks(p, sizes[k], UserOf(k))]
<1>1. Size \subseteq Nat
  BY WidthsAssumption DEF Size
<1>2. p \in Nat /\ sizes \in Seq(Nat) /\ \A k \in DOMAIN sizes : sizes[k] > 0
  <2>1. jb \in Job
    BY RowAssumption
  <2>2. p \in Size /\ sizes \in Seq(Size)
    BY <2>1 DEF Job
  <2>3. \A A, B : A \subseteq B => Seq(A) \subseteq Seq(B)
    OBVIOUS
  <2> QED
    BY <1>1, <2>2, <2>3, RowAssumption
<1>3. N \in Nat /\ DOMAIN sizes = 1..N /\ \A k \in 1..N : sizes[k] \in Nat \ {0}
  BY <1>2
<1>4. \A k \in 1..N : Blocks(p, sizes[k], UserOf(k)) \in Seq(RunsOf(N, JobTasks(jb)))
  <2> SUFFICES ASSUME NEW k \in 1..N
               PROVE  Blocks(p, sizes[k], UserOf(k)) \in Seq(RunsOf(N, JobTasks(jb)))
    OBVIOUS
  <2>1. UserOf(k) \in Nat /\ UserOf(k) < N
    BY <1>3, UserInRange
  <2>2. sizes[k] \in Nat \ {0}
    BY <1>3
  <2>3. BlockTasks(p, sizes[k], UserOf(k)) \subseteq JobTasks(jb)
    BY <1>3 DEF JobTasks
  <2> HIDE DEF p, sizes, N
  <2>4. Blocks(p, sizes[k], UserOf(k)) \in Seq(RunsOf(N, BlockTasks(p, sizes[k], UserOf(k))))
    BY <1>2, <1>3, <2>1, <2>2, BlocksAreGood
  <2>5. RunsOf(N, BlockTasks(p, sizes[k], UserOf(k))) \subseteq RunsOf(N, JobTasks(jb))
    BY <2>3 DEF RunsOf
  <2>6. \A A, B : A \subseteq B => Seq(A) \subseteq Seq(B)
    OBVIOUS
  <2> QED
    BY <2>4, <2>5, <2>6
<1>5. seqs \in [1..N -> Seq(RunsOf(N, JobTasks(jb)))]
  BY <1>3, <1>4
<1>6. seqs \in Seq(Seq(RunsOf(N, JobTasks(jb))))
  BY <1>3, <1>5
<1>7. Inserted(jb) = S!FlattenSeq(seqs)
  BY DEF Inserted
<1> HIDE DEF seqs
<1> QED
  BY <1>6, <1>7, FlattenedIsSeq

(***************************************************************************)
(* What create_tasks returns for n slice sizes: tasks of n players.        *)
(***************************************************************************)
TaskOf(n) == {task \in SimpleTask : task.userid < n}

LEMMA CreatedTasks ==
    ASSUME NEW jb \in JobInputs
    PROVE  /\ Expanded(Inserted(jb)) \in Seq(TaskOf(Len(jb.slice_sizes)))
           /\ Expanded(Inserted(jb)) \in Seq(JobTasks(jb))
<1> DEFINE n == Len(jb.slice_sizes)
           T == TaskOf(n) \cap JobTasks(jb)
           rs == Inserted(jb)
           seqs == [k \in DOMAIN rs |-> [m \in 1..rs[k].count |-> rs[k].task]]
<1>1. rs \in Seq(RunsOf(n, JobTasks(jb)))
  BY InsertedIsGood
<1>2. Expanded(rs) = S!FlattenSeq(seqs)
  BY DEF Expanded
<1>3. \A k \in DOMAIN rs : rs[k].count > 0 =>
          rs[k].task.complexity \in Double /\ rs[k].task.bits_to_transfer \in Double
  BY ExactAssumption
<1> HIDE DEF n, rs
<1>4. /\ Len(rs) \in Nat /\ DOMAIN rs = 1..Len(rs)
      /\ \A k \in 1..Len(rs) : rs[k] \in RunsOf(n, JobTasks(jb))
  BY <1>1
<1>5. ASSUME NEW k \in 1..Len(rs)
      PROVE  [m \in 1..rs[k].count |-> rs[k].task] \in Seq(T)
  <2>1. rs[k] \in GoodRun(n) /\ (rs[k].count > 0 => rs[k].task \in JobTasks(jb))
    BY <1>4 DEF RunsOf
  <2>2. rs[k].count \in Nat
    BY <2>1 DEF GoodRun
  <2>3. ASSUME rs[k].count > 0
        PROVE  rs[k].task \in T
    <3>1. rs[k].task.complexity \in Double /\ rs[k].task.bits_to_transfer \in Double
      BY <1>3, <1>4, <2>3
    <3>2. /\ rs[k].task \in [complexity : Int, bits_to_transfer : Nat, userid : Nat]
          /\ rs[k].task.complexity \in Int /\ rs[k].task.complexity >= 0
          /\ rs[k].task.userid < n
      BY <2>1, <2>3 DEF GoodRun
    <3>3. rs[k].task \in SimpleTask
      <4>1. \A x \in Int : x >= 0 => x \in Nat
        OBVIOUS
      <4> QED
        BY <3>1, <3>2, <4>1 DEF SimpleTask
    <3> QED
      BY <2>1, <2>3, <3>2, <3>3 DEF TaskOf
  <2>4. CASE rs[k].count > 0
    <3>1. [m \in 1..rs[k].count |-> rs[k].task] \in [1..rs[k].count -> T]
      BY <2>3, <2>4
    <3> QED
      BY <2>2, <3>1
  <2>5. CASE ~(rs[k].count > 0)
    <3>1. [m \in 1..rs[k].count |-> rs[k].task] \in [1..rs[k].count -> T]
      <4>1. 1..rs[k].count = {}
        BY <2>2, <2>5
      <4> QED
        BY <4>1
    <3> QED
      BY <2>2, <3>1
  <2> QED
    BY <2>4, <2>5
<1> HIDE DEF T
<1>6. seqs \in [1..Len(rs) -> Seq(T)]
  BY <1>4, <1>5
<1>7. seqs \in Seq(Seq(T))
  BY <1>4, <1>6
<1> HIDE DEF seqs
<1>8. S!FlattenSeq(seqs) \in Seq(T)
  BY <1>7, FlattenedIsSeq
<1>9. \A A, B : A \subseteq B => Seq(A) \subseteq Seq(B)
  OBVIOUS
<1>10. T \subseteq TaskOf(n) /\ T \subseteq JobTasks(jb)
  BY DEF T
<1> QED
  BY <1>2, <1>8, <1>9, <1>10 DEF n, rs
-------------------------------------------------------------------------------
(***************************************************************************)
(* RowInv: simulate()'s invariant, with the tasks of one player per slice  *)
(* size, and how many results there are while a simulation is to come.     *)
(***************************************************************************)
RowArguments ==
    /\ job \in JobInputs
    /\ args.n_user_hint = Len(job.slice_sizes)
    /\ row_pc \in {"create", "simulate", "done"}
    /\ results \in Seq([Users -> Double])

ToCome ==
    row_pc # "done" /\ results # <<>> =>
        args.n_user_hint > 1 /\ Len(results) < RandomizeCount

RowInv == SimInv /\ RowArguments /\ ToCome

LEMMA InitRowInv == RowInit => RowInv
<1> SUFFICES ASSUME RowInit PROVE RowInv
  OBVIOUS
<1>1. SimInv
  BY InitSimInv DEF RowInit
<1>2. results = <<>> /\ <<>> \in Seq([Users -> Double])
  BY DEF RowInit
<1> QED
  BY <1>1, <1>2 DEF RowInit, RowInv, RowArguments, ToCome

\* simulate() finds fresh locals, and tasks its result has room for.
LEMMA CreateRowInv == RowInv /\ CreateTasks => RowInv'
<1> SUFFICES ASSUME RowInv, CreateTasks PROVE RowInv'
  OBVIOUS
<1>1. /\ UNCHANGED <<procs, args, job, results>>
      /\ row_pc = "create" /\ row_pc' = "simulate"
      /\ p_queue' = {} /\ processed_tasks' = <<>> /\ i' = 1 /\ task_iterator' = 1
      /\ pc' = "seed" /\ phase' = "sort" /\ curr' = 0 /\ idx' = {}
      /\ times' = [u \in Users |-> 0]
      /\ tasks' = Expanded(Inserted(job))
  BY DEF CreateTasks
<1>2. /\ job \in JobInputs /\ args.n_user_hint = Len(job.slice_sizes)
      /\ args \in Arguments /\ procs \in Seq(Mips)
  BY DEF RowInv, RowArguments, SimInv, LoopInv, TypeOK, ArgumentsOK
<1>3. tasks' \in Seq(TaskOf(args.n_user_hint))
  BY <1>1, <1>2, CreatedTasks
<1>4. /\ tasks' \in Seq(SimpleTask)
      /\ \A k \in DOMAIN tasks' : tasks'[k] \in TaskOf(args.n_user_hint)
  <2>1. \A A, B : A \subseteq B => Seq(A) \subseteq Seq(B)
    OBVIOUS
  <2>2. TaskOf(args.n_user_hint) \subseteq SimpleTask
    BY DEF TaskOf
  <2>3. \A A : \A s \in Seq(A) : \A k \in DOMAIN s : s[k] \in A
    OBVIOUS
  <2> QED
    BY <1>3, <2>1, <2>2, <2>3
<1>5. Users' = Users /\ \A k \in DOMAIN tasks' : tasks'[k].userid \in Users'
  <2>1. args.n_user_hint \in Nat
    BY <1>2 DEF Arguments
  <2>2. \A k \in DOMAIN tasks' :
            tasks'[k].userid \in Nat /\ tasks'[k].userid < args.n_user_hint
    BY <1>4 DEF TaskOf, SimpleTask
  <2> QED
    BY <1>1, <2>1, <2>2 DEF Users
<1>6. LoopInv'
  <2>1. Started' = {} /\ Processed' = {}
    BY <1>1 DEF Started, Processed
  <2>2. TypeOK'
    BY <1>1, <1>2, <1>4 DEF TypeOK
  <2>3. QueueInv'
    BY <1>1, <2>1 DEF QueueInv, Once, OneJobPerWorker, Seeding, Busy, QueueDrained
  <2>4. TimeInv'
    BY <1>1, <2>1 DEF TimeInv, Clock, FinishOrder, BackToBack, StartsInListOrder,
                      NoIdleWhileWaiting
  <2> QED
    BY <2>2, <2>3, <2>4 DEF LoopInv
<1>7. times' \in [Users' -> Double]
  BY <1>1, <1>5, DoubleInt
<1>8. ArgumentsOK' /\ Fresh' /\ Sorted'
  BY <1>1, <1>2, <1>5 DEF ArgumentsOK, Fresh, Sorted
<1>9. Scan'
  BY <1>1, <1>5, <1>7 DEF Scan
<1>10. RowArguments' /\ ToCome'
  BY <1>1, <1>5 DEF RowInv, RowArguments, ToCome
<1> QED
  BY <1>6, <1>8, <1>9, <1>10 DEF SimInv, RowInv

LEMMA ArgsUnchanged == SimStep => UNCHANGED args
  BY DEF SimStep, Sort, RunProcessor, sim_vars, ProcessorReturned, Collect, CollectOver

LEMMA RunRowInv == RowInv /\ RunSimulate => RowInv'
<1> SUFFICES ASSUME RowInv, RunSimulate PROVE RowInv'
  OBVIOUS
<1>1. SimStep /\ UNCHANGED <<job, row_pc, results, args>>
  BY ArgsUnchanged DEF RunSimulate, row_vars
<1>2. SimInv'
  BY <1>1, SortSimInv, RunSimInv, ReturnedSimInv, CollectSimInv, OverSimInv
  DEF RowInv, SimStep
<1> QED
  BY <1>1, <1>2 DEF RowInv, RowArguments, ToCome, Users

\* Nothing of simulate() changes outside of its steps.
LEMMA SimUntouched == SimInv /\ UNCHANGED all_vars => SimInv'
<1> SUFFICES ASSUME SimInv, UNCHANGED all_vars PROVE SimInv'
  OBVIOUS
<1>1. /\ UNCHANGED vars
      /\ UNCHANGED <<tasks, processed_tasks, p_queue, i, task_iterator, pc>>
      /\ UNCHANGED <<args, phase, curr, idx, times>>
  BY DEF all_vars, sim_vars, vars
<1>2. LoopInv'
  BY <1>1, LoopUntouched DEF SimInv
<1> QED
  BY <1>1, <1>2 DEF SimInv, ArgumentsOK, Users, Sorted, TaskBefore, Fresh, Scan, LastOf, UserAt

LEMMA TakeRowInv == RowInv /\ TakeTimes => RowInv'
<1> SUFFICES ASSUME RowInv, TakeTimes PROVE RowInv'
  OBVIOUS
<1>1. /\ UNCHANGED all_vars /\ UNCHANGED <<args, job>>
      /\ results' = Append(results, times)
      /\ row_pc' = IF RunsRemain THEN "create" ELSE "done"
  BY DEF TakeTimes, all_vars, sim_vars
<1>2. SimInv'
  BY <1>1, SimUntouched DEF RowInv
<1>3. times \in [Users -> Double] /\ results \in Seq([Users -> Double]) /\ Users' = Users
  BY <1>1 DEF RowInv, SimInv, Scan, RowArguments, Users
<1>4. results' \in Seq([Users -> Double]) /\ Len(results') = Len(results) + 1
  BY <1>1, <1>3
<1>5. RowArguments'
  BY <1>1, <1>3, <1>4 DEF RowInv, RowArguments
<1>6. ToCome'
  BY <1>1, <1>4 DEF ToCome, RunsRemain
<1> QED
  BY <1>2, <1>5, <1>6 DEF RowInv

LEMMA RowInvariance == RowSpec => []RowInv
<1>1. RowInv /\ [RowNext]_<<all_vars, row_vars>> => RowInv'
  <2> SUFFICES ASSUME RowInv, [RowNext]_<<all_vars, row_vars>> PROVE RowInv'
    OBVIOUS
  <2>1. CASE UNCHANGED <<all_vars, row_vars>>
    <3>1. UNCHANGED all_vars /\ UNCHANGED <<args, job, row_pc, results>>
      BY <2>1 DEF all_vars, sim_vars, row_vars
    <3>2. SimInv'
      BY <3>1, SimUntouched DEF RowInv
    <3> QED
      BY <3>1, <3>2 DEF RowInv, RowArguments, ToCome, Users
  <2> QED
    BY <2>1, CreateRowInv, RunRowInv, TakeRowInv DEF RowNext, RowStep, RowOver
<1> QED
  BY <1>1, InitRowInv, PTL DEF RowSpec

(***************************************************************************)
(* Types.  SimTypeOK has what simulate() never checks: every user id of a  *)
(* task is one its result has room for.                                    *)
(***************************************************************************)
THEOREM RowTypeCorrect == RowSpec => []RowTypeOK
<1>1. RowInv => RowTypeOK
  BY DEF RowInv, RowArguments, SimInv, LoopInv, ArgumentsOK, Scan, RowTypeOK, SimTypeOK, TypeOK
<1> QED
  BY <1>1, RowInvariance, PTL
-------------------------------------------------------------------------------
\* The slice sizes of a row have no zero among them.
LEMMA NoZeroInRow == RowInv => ~Sweep!RowHasZero
<1> SUFFICES ASSUME RowInv PROVE ~Sweep!RowHasZero
  OBVIOUS
<1> DEFINE sizes == job.slice_sizes
<1>1. sizes \in Seq(Size) /\ Len(sizes) \in Nat /\ sizes # <<>>
  BY RowAssumption DEF RowInv, RowArguments, Job
<1>2. 1 \in DOMAIN sizes /\ Len(sizes) \in DOMAIN sizes
  BY <1>1
<1>3. \A k \in DOMAIN sizes : sizes[k] # 0
  <2>1. \A k \in DOMAIN sizes : sizes[k] > 0 /\ sizes[k] \in Size
    BY <1>1, RowAssumption DEF RowInv, RowArguments
  <2>2. \A x \in Size : x > 0 => x # 0
    BY WidthsAssumption DEF Size
  <2> QED
    BY <2>1, <2>2
<1>4. sizes[1] # 0 /\ sizes[Len(sizes)] # 0
  BY <1>2, <1>3
<1> HIDE DEF sizes
<1>5. \/ Sweep!Row(1, Len(sizes)) = <<sizes[1]>>
      \/ Sweep!Row(1, Len(sizes)) = <<sizes[1], sizes[Len(sizes)]>>
  BY DEF Sweep!Row, Sweep!Single, Sweep!f_s, sizes
<1>6. \A x, y : x # 0 /\ y # 0 => /\ ~\E k \in DOMAIN <<x>> : <<x>>[k] = 0
                                  /\ ~\E k \in DOMAIN <<x, y>> : <<x, y>>[k] = 0
  OBVIOUS
<1> QED
  BY <1>4, <1>5, <1>6 DEF Sweep!RowHasZero, sizes

(***************************************************************************)
(* What Driver counts as a simulation is a call of create_tasks and one of *)
(* simulate(): taking the times is FirstRun or NextRun, nothing else shows.*)
(***************************************************************************)
THEOREM RowImplementsSweep == RowSpec => ImplementsSweep
<1>1. RowInv /\ RowInv' /\ [RowNext]_<<all_vars, row_vars>>
        => [Sweep!FirstRun \/ Sweep!NextRun]_(Sweep!vars)
  <2> SUFFICES ASSUME RowInv, RowInv', [RowNext]_<<all_vars, row_vars>>
               PROVE  [Sweep!FirstRun \/ Sweep!NextRun]_(Sweep!vars)
    OBVIOUS
  <2>1. CASE UNCHANGED <<args, job, results>>
    BY <2>1 DEF Sweep!vars, Sweep!inputs, Sweep!sweep_vars, Sweep!output
  <2>2. CASE TakeTimes
    <3>1. /\ UNCHANGED <<args, job>> /\ row_pc = "simulate"
          /\ results' = Append(results, times)
      BY <2>2 DEF TakeTimes, all_vars, sim_vars
    <3>2. results \in Seq([Users -> Double])
      BY DEF RowInv, RowArguments
    <3>3. results' # <<>> /\ Len(results') = Len(results) + 1
      BY <3>1, <3>2
    <3>4. CASE results = <<>>
      <4>1. Sweep!FirstRun
        BY <3>1, <3>3, <3>4, NoZeroInRow
        DEF Sweep!FirstRun, Sweep!FirstSum, Sweep!LogBlock, Sweep!inputs, Sweep!output
      <4> QED
        BY <4>1
    <3>5. CASE results # <<>>
      <4>1. args.n_user_hint > 1 /\ Len(results) < RandomizeCount
        BY <3>1, <3>5 DEF RowInv, ToCome
      <4>2. args.n_user_hint # 1
        BY <4>1
      <4>3. Sweep!NextRun
        BY <3>1, <3>3, <3>5, <4>1, <4>2
        DEF Sweep!NextRun, Sweep!RunsRemain, Sweep!Single, Sweep!inputs, Sweep!output
      <4> QED
        BY <4>3
    <3> QED
      BY <3>4, <3>5
  <2>3. CreateTasks \/ RunSimulate \/ RowOver \/ UNCHANGED <<all_vars, row_vars>>
          => UNCHANGED <<args, job, results>>
    BY ArgsUnchanged DEF CreateTasks, RunSimulate, RowOver, all_vars, sim_vars, row_vars
  <2> QED
    BY <2>1, <2>2, <2>3 DEF RowNext, RowStep
<1> QED
  BY <1>1, RowInvariance, PTL DEF RowSpec, ImplementsSweep
-------------------------------------------------------------------------------
(***************************************************************************)
(* The simulations of a row agree, first part: there is but one way to     *)
(* sort tasks of which no two different ones tie.                          *)
(***************************************************************************)
InOrder(s) == \A j, k \in DOMAIN s : j < k => ~TaskBefore(s[k], s[j])

TieFree(s) == \A j, k \in DOMAIN s : s[j].complexity = s[k].complexity => s[j] = s[k]

\* The positions of a value in a vector are finite in number.
LEMMA PositionsFinite ==
    ASSUME NEW E, NEW s \in Seq(E), NEW x
    PROVE  /\ IsFiniteSet(Positions(s, x)) /\ Cardinality(Positions(s, x)) \in Nat
           /\ Cardinality(Positions(s, x)) = 0 <=> Positions(s, x) = {}
<1>1. DOMAIN s = 1..Len(s) /\ Len(s) \in Nat
  OBVIOUS
<1>2. IsFiniteSet(1..Len(s)) /\ Positions(s, x) \in SUBSET (1..Len(s))
  BY <1>1, FS_Interval DEF Positions
<1>3. IsFiniteSet(Positions(s, x))
  BY <1>2, FS_Subset
<1> QED
  BY <1>3, FS_EmptySet, FS_CardinalityType

\* A rearrangement takes every element from somewhere in the vector.
LEMMA RearrangedBy ==
    ASSUME NEW E, NEW s \in Seq(E), NEW t \in Rearrangements(s)
    PROVE  \E f : Permutes(f, Len(s)) /\ \A k \in 1..Len(s) : t[k] = s[f[k]]
<1> DEFINE N == Len(s)
           Pairs(x) == Bijection(Positions(t, x), Positions(s, x))
           g(x) == CHOOSE b : b \in Pairs(x)
           f == [k \in 1..N |-> g(t[k])[k]]
<1>1. /\ t \in Seq(E) /\ DOMAIN s = 1..N /\ DOMAIN t = 1..N
      /\ \A k \in 1..N : \E j \in 1..N : t[k] = s[j]
  <2>1. DOMAIN s = 1..N
    BY LengthOf
  <2>2. /\ t \in Seq(E) /\ DOMAIN t = DOMAIN s
        /\ \A k \in DOMAIN t : \E j \in DOMAIN s : t[k] = s[j]
    BY RearrangedElements
  <2> QED
    BY <2>1, <2>2
<1>2. ASSUME NEW j \in 1..N
      PROVE  g(s[j]) \in Pairs(s[j])
  <2>1. Cardinality(Positions(t, s[j])) = Cardinality(Positions(s, s[j]))
    BY <1>1 DEF Rearrangements
  <2>2. IsFiniteSet(Positions(t, s[j])) /\ IsFiniteSet(Positions(s, s[j]))
    BY <1>1, PositionsFinite
  <2>3. Pairs(s[j]) # {}
    BY <2>1, <2>2, FS_SameCardinalityBij DEF ExistsBijection
  <2> HIDE DEF Pairs
  <2> QED
    BY <2>3
<1>3. \A k \in 1..N : f[k] = g(t[k])[k]
  OBVIOUS
<1> HIDE DEF f, g
<1>4. ASSUME NEW x, NEW j \in 1..N, x = s[j]
      PROVE  /\ \A k \in Positions(t, x) : g(x)[k] \in Positions(s, x)
             /\ \A k, l \in Positions(t, x) : g(x)[k] = g(x)[l] => k = l
             /\ \A m \in Positions(s, x) : \E k \in Positions(t, x) : g(x)[k] = m
  <2>1. g(x) \in Bijection(Positions(t, x), Positions(s, x))
    BY <1>2, <1>4
  <2> DEFINE b == g(x)
             from == Positions(t, x)
             into == Positions(s, x)
  <2> HIDE DEF b, from, into
  <2>2. b \in Bijection(from, into)
    BY <2>1 DEF b, from, into
  <2>3. /\ \A k \in from : b[k] \in into
        /\ \A k, l \in from : b[k] = b[l] => k = l
        /\ \A m \in into : \E k \in from : b[k] = m
    BY <2>2 DEF Bijection, Injection, Surjection, IsInjective
  <2> QED
    BY <2>3 DEF b, from, into
<1>5. ASSUME NEW k \in 1..N
      PROVE  k \in Positions(t, t[k]) /\ f[k] \in 1..N /\ s[f[k]] = t[k]
  <2>1. PICK j \in 1..N : t[k] = s[j]
    BY <1>1
  <2>2. k \in Positions(t, t[k])
    BY <1>1 DEF Positions
  <2>3. f[k] \in Positions(s, t[k])
    BY <1>3, <1>4, <2>1, <2>2
  <2> QED
    BY <1>1, <2>2, <2>3 DEF Positions
<1>6. ASSUME NEW j \in 1..N, NEW k \in 1..N, f[j] = f[k]
      PROVE  j = k
  <2>1. t[j] = t[k]
    BY <1>5, <1>6
  <2>2. PICK l \in 1..N : t[k] = s[l]
    BY <1>1
  <2>3. j \in Positions(t, t[k]) /\ k \in Positions(t, t[k])
    BY <1>5, <2>1
  <2>4. g(t[k])[j] = g(t[k])[k]
    BY <1>3, <1>6, <2>1
  <2> QED
    BY <1>4, <2>2, <2>3, <2>4
<1>7. ASSUME NEW m \in 1..N
      PROVE  \E k \in 1..N : f[k] = m
  <2>1. m \in Positions(s, s[m])
    BY <1>1 DEF Positions
  <2>2. PICK k \in Positions(t, s[m]) : g(s[m])[k] = m
    BY <1>4, <2>1
  <2>3. k \in 1..N /\ t[k] = s[m]
    BY <1>1, <2>2 DEF Positions
  <2> QED
    BY <1>3, <2>2, <2>3
<1>8. f \in [1..N -> 1..N]
  BY <1>5 DEF f
<1>9. Permutes(f, N)
  BY <1>6, <1>7, <1>8 DEF Permutes
<1> QED
  BY <1>5, <1>9

\* What each element of a list is worth.
Worth(s, W) == [k \in DOMAIN s |-> W[s[k]]]

\* A sum over the elements does not depend on their order.
LEMMA RearrangedTotal ==
    ASSUME NEW E, NEW s \in Seq(E), NEW t \in Rearrangements(s), NEW W \in [E -> Int]
    PROVE  /\ Worth(t, W) \in Seq(Int) /\ Len(Worth(t, W)) = Len(t)
           /\ Total(Worth(t, W)) = Total(Worth(s, W))
<1> DEFINE N == Len(s)
           ws == Worth(s, W)
           wt == Worth(t, W)
<1>1. t \in Seq(E) /\ DOMAIN s = 1..N /\ DOMAIN t = 1..N /\ Len(t) = N /\ N \in Nat
  BY RearrangedElements
<1>2. /\ ws \in Seq(Int) /\ Len(ws) = N /\ \A k \in 1..N : ws[k] = W[s[k]]
      /\ wt \in Seq(Int) /\ Len(wt) = N /\ \A k \in 1..N : wt[k] = W[t[k]]
  <2>1. ws = [k \in 1..N |-> W[s[k]]] /\ wt = [k \in 1..N |-> W[t[k]]]
    BY <1>1 DEF Worth
  <2>2. \A k \in 1..N : W[s[k]] \in Int /\ W[t[k]] \in Int
    BY <1>1
  <2> HIDE DEF ws, wt, N
  <2>3. ws \in [1..N -> Int] /\ wt \in [1..N -> Int]
    BY <2>1, <2>2
  <2> QED
    BY <1>1, <2>1, <2>3
<1>3. PICK f : Permutes(f, N) /\ \A k \in 1..N : t[k] = s[f[k]]
  BY RearrangedBy
<1>4. \A k \in 1..N : f[k] \in 1..N
  BY <1>3 DEF Permutes
<1> HIDE DEF ws, wt
<1>5. \A k \in 1..N : wt[k] = ws[f[k]]
  <2> SUFFICES ASSUME NEW k \in 1..N
               PROVE  wt[k] = ws[f[k]]
    OBVIOUS
  <2>1. f[k] \in 1..N /\ t[k] = s[f[k]]
    BY <1>3, <1>4
  <2>2. wt[k] = W[t[k]] /\ ws[f[k]] = W[s[f[k]]]
    BY <1>2, <2>1, Zenon
  <2> QED
    BY <2>1, <2>2, Zenon
<1>6. Total(wt) = Total(ws)
  BY <1>1, <1>2, <1>3, <1>5, TotalPermuted
<1> QED
  BY <1>1, <1>2, <1>6, Zenon DEF ws, wt

\* Where two arrangements part, neither has the task that comes first: the other one
\* would have it nowhere else.
LEMMA NeitherIsFirst ==
    ASSUME NEW s \in Seq(SimpleTask), NEW t \in Seq(SimpleTask), DOMAIN s = DOMAIN t,
           args \in Arguments, InOrder(t), NEW n \in DOMAIN s,
           \A m \in DOMAIN s : m < n => s[m] = t[m],
           Cardinality(Positions(s, s[n])) = Cardinality(Positions(t, s[n]))
    PROVE  ~TaskBefore(s[n], t[n])
<1> SUFFICES ASSUME TaskBefore(s[n], t[n]) PROVE FALSE
  OBVIOUS
<1> DEFINE x == s[n]
           P == Positions(s, x)
           R == Positions(t, x)
<1>1. DOMAIN s = 1..Len(s) /\ Len(s) \in Nat /\ n \in Nat
  OBVIOUS
<1>2. ASSUME NEW m \in R
      PROVE  m \in P \ {n}
  <2>1. m \in DOMAIN t /\ t[m] = x /\ m \in Nat
    BY <1>1 DEF Positions
  <2>2. m # n
    <3>1. x.complexity \in Nat
      BY TaskFields
    <3> QED
      BY <2>1, <3>1 DEF TaskBefore
  <2>3. ~(n < m)
    BY <2>1 DEF InOrder
  <2>4. m < n
    BY <1>1, <2>1, <2>2, <2>3
  <2> QED
    BY <2>1, <2>2, <2>4 DEF Positions
<1>3. n \in P
  BY DEF Positions
<1>4. IsFiniteSet(P) /\ Cardinality(P) \in Nat /\ Cardinality(R) = Cardinality(P)
  BY PositionsFinite
<1> HIDE DEF P, R, x
<1>5. IsFiniteSet(P \ {n}) /\ Cardinality(P \ {n}) = Cardinality(P) - 1
  BY <1>3, <1>4, FS_RemoveElement
<1>6. R \in SUBSET (P \ {n})
  BY <1>2
<1>7. Cardinality(R) <= Cardinality(P \ {n})
  BY <1>5, <1>6, FS_Subset
<1> QED
  BY <1>4, <1>5, <1>7

LEMMA OneArrangement ==
    ASSUME NEW ts \in Seq(SimpleTask), args \in Arguments, TieFree(ts),
           NEW s \in Rearrangements(ts), InOrder(s),
           NEW t \in Rearrangements(ts), InOrder(t)
    PROVE  s = t
<1>1. /\ s \in Seq(SimpleTask) /\ t \in Seq(SimpleTask)
      /\ DOMAIN s = DOMAIN ts /\ DOMAIN t = DOMAIN ts
      /\ \A k \in DOMAIN ts : \E j \in DOMAIN ts : s[k] = ts[j]
      /\ \A k \in DOMAIN ts : \E j \in DOMAIN ts : t[k] = ts[j]
  BY RearrangedElements
<1>2. \A j \in DOMAIN ts :
         Cardinality(Positions(s, ts[j])) = Cardinality(Positions(t, ts[j]))
  BY DEF Rearrangements
<1> DEFINE A == {n \in DOMAIN ts : s[n] # t[n]}
<1>3. A \in SUBSET Nat
  OBVIOUS
<1>4. SUFFICES ASSUME A # {} PROVE FALSE
  BY <1>1
<1>5. PICK n \in A : \A m \in A : n <= m
  BY <1>3, <1>4, LeastNumber
<1>6. n \in DOMAIN ts /\ s[n] # t[n] /\ \A m \in DOMAIN ts : m < n => s[m] = t[m]
  BY <1>5
<1>7. ~TaskBefore(s[n], t[n]) /\ ~TaskBefore(t[n], s[n])
  <2>1. PICK j \in DOMAIN ts : s[n] = ts[j]
    BY <1>1, <1>6
  <2>2. PICK k \in DOMAIN ts : t[n] = ts[k]
    BY <1>1, <1>6
  <2>3. /\ Cardinality(Positions(s, s[n])) = Cardinality(Positions(t, s[n]))
        /\ Cardinality(Positions(t, t[n])) = Cardinality(Positions(s, t[n]))
    BY <1>2, <2>1, <2>2
  <2>4. ~TaskBefore(s[n], t[n])
    BY <1>1, <1>6, <2>3, NeitherIsFirst
  <2>5. ~TaskBefore(t[n], s[n])
    BY <1>1, <1>6, <2>3, NeitherIsFirst
  <2> QED
    BY <2>4, <2>5
<1>8. s[n].complexity # t[n].complexity
  <2>1. PICK j \in DOMAIN ts : s[n] = ts[j]
    BY <1>1, <1>6
  <2>2. PICK k \in DOMAIN ts : t[n] = ts[k]
    BY <1>1, <1>6
  <2> QED
    BY <1>6, <2>1, <2>2 DEF TieFree
<1>9. s[n].complexity \in Nat /\ t[n].complexity \in Nat
  BY <1>1, <1>6, TaskFields
<1> QED
  BY <1>7, <1>8, <1>9 DEF TaskBefore, Arguments

\* Equal processors can be sorted any way.
LEMMA EqualProcsStay ==
    ASSUME NEW s \in Seq(Mips), NEW t \in Rearrangements(s),
           \A v, w \in DOMAIN t : t[v] = t[w]
    PROVE  t = s
<1>1. /\ t \in Seq(Mips) /\ DOMAIN t = DOMAIN s
  BY RearrangedElements
<1>2. ASSUME NEW k \in DOMAIN s
      PROVE  t[k] = s[k]
  <2>1. Cardinality(Positions(t, s[k])) = Cardinality(Positions(s, s[k]))
    BY DEF Rearrangements
  <2>2. Positions(s, s[k]) # {}
    BY DEF Positions
  <2>3. Positions(t, s[k]) # {}
    BY <1>1, <2>1, <2>2, PositionsFinite
  <2> QED
    BY <1>1, <2>3 DEF Positions
<1> QED
  BY <1>1, <1>2
-------------------------------------------------------------------------------
(***************************************************************************)
(* Second part: on equal processors the times are a function of the        *)
(* sorted tasks.  Each task starts at the least load of the reference,     *)
(* whatever the queue does with ties, and a user's time is that of its     *)
(* last task.                                                              *)
(***************************************************************************)
EndsAreCosts ==
    \A r \in Started :
        r.time_end = Plus(r.time_start, Duration(procs[r.worker_index], tasks[r.task]))

ReferenceInv ==
    /\ LoadsInv /\ TiesDoNotMatter /\ EndsAreCosts
    /\ phase \in {"collect", "done"} => pc = "done"

LEMMA FreshLoadsNext ==
    (TypeOK /\ Started = {} /\ task_iterator = 1)' => (LoadsInv /\ TiesDoNotMatter)'
  BY FreshLoads, PTL

\* Nothing has started, and simulate() is at its first statements.
LEMMA FreshReference ==
    ASSUME TypeOK', p_queue' = {}, processed_tasks' = <<>>, task_iterator' = 1,
           phase' \in {"sort", "process"}
    PROVE  ReferenceInv'
<1>1. Started' = {}
  BY DEF Started, Processed
<1>2. LoadsInv' /\ TiesDoNotMatter'
  BY <1>1, FreshLoadsNext
<1> QED
  BY <1>1, <1>2 DEF ReferenceInv, EndsAreCosts

LEMMA RunReference == SimInv /\ ReferenceInv /\ RunProcessor => ReferenceInv'
<1> SUFFICES ASSUME SimInv, ReferenceInv, RunProcessor PROVE ReferenceInv'
  OBVIOUS
<1>1. Step /\ phase = "process" /\ phase' = "process"
  BY DEF RunProcessor, sim_vars
<1>2. TypeOK /\ QueueInv /\ TimeInv
  BY DEF SimInv, LoopInv
<1>3. LoadsInv' /\ TiesDoNotMatter'
  BY <1>1, <1>2, StepLoads, StepTies DEF ReferenceInv, Next
<1>4. UNCHANGED <<procs, tasks>>
  BY <1>1 DEF Step, Seed, SeedingOver, Process, Return
<1>5. \A r \in Started' : \/ r \in Started
                          \/ \E w, t : r = NextCompletion(w, t)
  <2>1. CASE Seed
    BY <2>1, <1>2, SeedEffect DEF QueueInv
  <2>2. CASE Process
    BY <2>2, <1>2, ProcessEffect DEF Refill
  <2>3. CASE SeedingOver \/ Return
    BY <2>3 DEF SeedingOver, Return, Started, Processed
  <2> QED
    BY <1>1, <2>1, <2>2, <2>3 DEF Step
<1>6. \A w, t : LET new == NextCompletion(w, t)
                IN  new.time_end
                      = Plus(new.time_start, Duration(procs[new.worker_index], tasks[new.task]))
  BY DEF NextCompletion
<1> QED
  BY <1>1, <1>3, <1>4, <1>5, <1>6 DEF ReferenceInv, EndsAreCosts

\* The loop and what it has made are left alone.
LEMMA ReferenceKept ==
    ASSUME SimInv, ReferenceInv, UNCHANGED vars,
           phase' \in {"collect", "done"} => phase \in {"collect", "done"} \/ pc = "done"
    PROVE  ReferenceInv'
<1>1. LoadsInv' /\ TiesDoNotMatter'
  BY StepLoads, StepTies DEF ReferenceInv, SimInv, LoopInv
<1>2. UNCHANGED <<procs, tasks, p_queue, processed_tasks, pc>>
  BY DEF vars
<1> QED
  BY <1>1, <1>2 DEF ReferenceInv, EndsAreCosts, Started, Processed

LEMMA SimReference == SimInv /\ SimInv' /\ ReferenceInv /\ SimStep => ReferenceInv'
<1> SUFFICES ASSUME SimInv, SimInv', ReferenceInv, SimStep PROVE ReferenceInv'
  OBVIOUS
<1>1. CASE Sort
  <2>1. /\ phase' = "process" /\ p_queue' = {} /\ processed_tasks' = <<>>
        /\ task_iterator' = 1
    BY <1>1 DEF Sort, SimInv, Fresh
  <2>2. TypeOK'
    BY DEF SimInv, LoopInv
  <2> QED
    BY <2>1, <2>2, FreshReference
<1>2. CASE ProcessorReturned
  BY <1>2, ReferenceKept DEF ProcessorReturned
<1>3. CASE Collect
  <2>1. UNCHANGED vars /\ phase = "collect"
    BY <1>3 DEF Collect
  <2> QED
    BY <2>1, ReferenceKept
<1>4. CASE CollectOver
  BY <1>4, ReferenceKept DEF CollectOver
<1> QED
  BY <1>1, <1>2, <1>3, <1>4, RunReference DEF SimStep

(***************************************************************************)
(* The times as a function of processors and tasks.                        *)
(***************************************************************************)
CostsOf(ps, ts) == [t \in DOMAIN ts |-> Duration(ps[1], ts[t])]

\* The time of the reference at which it is done with the n-th task.
EndsAt(ps, ts, n, y) ==
    LET load == LoadsAfter(DOMAIN ps, CostsOf(ps, ts))[n - 1]
    IN  \E x : /\ \E w \in DOMAIN ps : x = load[w]
               /\ \A w \in DOMAIN ps : x <= load[w]
               /\ y = Plus(x, CostsOf(ps, ts)[n])

OwnTasks(ts, u) == {n \in DOMAIN ts : ts[n].userid = u}

ReferenceTimes(ps, ts, tm) ==
    \A u \in Users :
        IF OwnTasks(ts, u) = {} \/ ps = <<>> THEN tm[u] = 0
        ELSE /\ \E n \in OwnTasks(ts, u) : EndsAt(ps, ts, n, tm[u])
             /\ \A n \in OwnTasks(ts, u) : \A y : EndsAt(ps, ts, n, y) => y <= tm[u]

LEMMA OneReference ==
    ASSUME NEW ps, NEW ts, NEW tm \in [Users -> Double], NEW tn \in [Users -> Double],
           ReferenceTimes(ps, ts, tm), ReferenceTimes(ps, ts, tn)
    PROVE  tm = tn
<1> SUFFICES ASSUME NEW u \in Users PROVE tm[u] = tn[u]
  OBVIOUS
<1>1. tm[u] \in Int /\ tn[u] \in Int
  BY DoubleInt
<1>2. CASE OwnTasks(ts, u) = {} \/ ps = <<>>
  BY <1>2 DEF ReferenceTimes
<1>3. CASE ~(OwnTasks(ts, u) = {} \/ ps = <<>>)
  <2>1. tm[u] <= tn[u] /\ tn[u] <= tm[u]
    BY <1>3 DEF ReferenceTimes
  <2> QED
    BY <1>1, <2>1
<1> QED
  BY <1>2, <1>3

\* What simulate() returns.
LEMMA ReturnedTimes ==
    ASSUME SimInv, ReferenceInv, phase = "done", IdenticalProcs, NonNegativeDurations
    PROVE  ReferenceTimes(procs, tasks, times)
<1> DEFINE G == LoadsAfter(DOMAIN procs, CostsOf(procs, tasks))
           C == CostsOf(procs, tasks)
<1>1. TypeOK /\ QueueInv /\ pc = "done"
  BY DEF SimInv, LoopInv, ReferenceInv
<1>2. C = Costs /\ G = GreedyLoads
  BY DEF CostsOf, Costs, GreedyLoads
<1>3. G \in [0..Len(tasks) -> [DOMAIN procs -> Double]]
  BY <1>1, <1>2, GreedyStep
<1>4. /\ DOMAIN tasks = 1..Len(tasks) /\ Len(tasks) \in Nat
      /\ DOMAIN procs = 1..Len(procs) /\ Len(procs) \in Nat
  BY <1>1 DEF TypeOK
<1> HIDE DEF G, C
<1>5. ASSUME NEW r \in Processed
      PROVE  /\ r.task \in DOMAIN tasks /\ r.worker_index \in DOMAIN procs
             /\ r.time_end = Plus(r.time_start, C[r.task])
             /\ \E w \in DOMAIN procs : r.time_start = G[r.task - 1][w]
             /\ \A w \in DOMAIN procs : r.time_start <= G[r.task - 1][w]
  <2>1. r \in Started /\ r \in Completion
    BY <1>1, StartedType DEF Started
  <2>2. r.task \in DOMAIN tasks /\ r.worker_index \in DOMAIN procs
    BY <2>1 DEF Completion
  <2>3. procs[r.worker_index] = procs[1]
    BY <1>4, <2>2 DEF IdenticalProcs
  <2>4. r.time_end = Plus(r.time_start, Duration(procs[1], tasks[r.task]))
    BY <2>1, <2>3 DEF ReferenceInv, EndsAreCosts
  <2>5. C[r.task] = Duration(procs[1], tasks[r.task])
    BY <2>2 DEF C, CostsOf
  <2>6. /\ \E w \in DOMAIN procs : r.time_start = G[r.task - 1][w]
        /\ \A w \in DOMAIN procs : r.time_start <= G[r.task - 1][w]
    BY <2>1, <1>2 DEF ReferenceInv, TiesDoNotMatter
  <2> QED
    BY <2>2, <2>4, <2>5, <2>6
<1>6. \A n, y : EndsAt(procs, tasks, n, y) <=>
                  \E x : /\ \E w \in DOMAIN procs : x = G[n - 1][w]
                         /\ \A w \in DOMAIN procs : x <= G[n - 1][w]
                         /\ y = Plus(x, C[n])
  BY DEF EndsAt, G, C
<1>7. ASSUME NEW r \in Processed
      PROVE  /\ EndsAt(procs, tasks, r.task, r.time_end)
             /\ \A y : EndsAt(procs, tasks, r.task, y) => y = r.time_end
  <2>1. EndsAt(procs, tasks, r.task, r.time_end)
    BY <1>5, <1>6
  <2>2. ASSUME NEW x, \E w \in DOMAIN procs : x = G[r.task - 1][w],
               \A w \in DOMAIN procs : x <= G[r.task - 1][w]
        PROVE  x = r.time_start
    <3>1. r.task - 1 \in 0..Len(tasks)
      BY <1>4, <1>5
    <3>2. \A w \in DOMAIN procs : G[r.task - 1][w] \in Int
      BY <1>3, <3>1, DoubleInt
    <3> QED
      BY <1>5, <2>2, <3>2
  <2> QED
    BY <1>5, <1>6, <2>1, <2>2
<1>8. Len(procs) > 0 => \A n \in DOMAIN tasks : \E r \in Processed : r.task = n
  BY <1>1, OnceFollows DEF EachTaskOnce
<1> SUFFICES ASSUME NEW u \in Users
             PROVE  IF OwnTasks(tasks, u) = {} \/ procs = <<>> THEN times[u] = 0
                    ELSE /\ \E n \in OwnTasks(tasks, u) : EndsAt(procs, tasks, n, times[u])
                         /\ \A n \in OwnTasks(tasks, u) : \A y :
                               EndsAt(procs, tasks, n, y) => y <= times[u]
  BY DEF ReferenceTimes
<1>9. IF Of(u) = {} THEN times[u] = 0
      ELSE /\ \E r \in Of(u) : times[u] = r.time_end
           /\ \A r \in Of(u) : r.time_end <= times[u]
  BY ScanFindsTimes DEF TimesAreFinishTimes
<1>10. \A r \in Processed : r \in Of(u) <=> r.task \in OwnTasks(tasks, u)
  BY <1>5 DEF Of, OwnTasks
<1>11. Of(u) \subseteq Processed /\ OwnTasks(tasks, u) \subseteq DOMAIN tasks
  BY DEF Of, OwnTasks
<1>12. CASE OwnTasks(tasks, u) = {} \/ procs = <<>>
  <2>1. Of(u) = {}
    BY <1>4, <1>5, <1>10, <1>11, <1>12
  <2> QED
    BY <1>9, <1>12, <2>1
<1>13. CASE ~(OwnTasks(tasks, u) = {} \/ procs = <<>>)
  <2>1. Len(procs) > 0
    BY <1>1, <1>4, <1>13 DEF TypeOK
  <2>2. \A n \in OwnTasks(tasks, u) : \E r \in Of(u) : r.task = n
    BY <1>8, <1>10, <1>11, <2>1
  <2>3. Of(u) # {}
    BY <1>13, <2>2
  <2>4. PICK r \in Of(u) : times[u] = r.time_end
    BY <1>9, <2>3
  <2>5. r.task \in OwnTasks(tasks, u) /\ EndsAt(procs, tasks, r.task, times[u])
    <3>1. r \in Processed
      BY <1>11
    <3>2. r.task \in OwnTasks(tasks, u)
      BY <1>10, <3>1
    <3>3. EndsAt(procs, tasks, r.task, r.time_end)
      BY <1>7, <3>1
    <3> QED
      BY <2>4, <3>2, <3>3, Zenon
  <2>6. \A n \in OwnTasks(tasks, u) : \A y : EndsAt(procs, tasks, n, y) => y <= times[u]
    <3> SUFFICES ASSUME NEW n \in OwnTasks(tasks, u), NEW y, EndsAt(procs, tasks, n, y)
                 PROVE  y <= times[u]
      OBVIOUS
    <3>1. PICK q \in Of(u) : q.task = n
      BY <2>2
    <3>2. q \in Processed
      BY <1>11
    <3>3. y = q.time_end
      BY <1>7, <3>1, <3>2
    <3> QED
      BY <1>9, <2>3, <3>3
  <2> QED
    BY <1>13, <2>5, <2>6
<1> QED
  BY <1>12, <1>13
-------------------------------------------------------------------------------
(***************************************************************************)
(* Third part: the tasks of a row are those create_tasks made, and all     *)
(* results are the times of the one way to sort them.                      *)
(***************************************************************************)
Created == Expanded(Inserted(job))

Arranged ==
    /\ row_pc = "simulate" /\ phase = "sort" => tasks = Created
    /\ row_pc # "create" \/ results # <<>> => tasks \in Rearrangements(Created)
    /\ row_pc = "create" /\ results = <<>> => phase = "sort"
    /\ row_pc # "simulate" /\ results # <<>> => phase = "done"

Agreed ==
    TieFree(Created) /\ IdenticalProcs /\ NonNegativeDurations /\ results # <<>> =>
        \E s \in Rearrangements(Created) :
            /\ InOrder(s)
            /\ \A k \in DOMAIN results : ReferenceTimes(procs, s, results[k])

AgreeInv == RowInv /\ ReferenceInv /\ Arranged /\ Agreed

LEMMA CreatedType == RowInv => Created \in Seq(SimpleTask)
<1> SUFFICES ASSUME RowInv PROVE Created \in Seq(SimpleTask)
  OBVIOUS
<1>1. Created \in Seq(TaskOf(Len(job.slice_sizes)))
  BY CreatedTasks DEF Created, RowInv, RowArguments
<1>2. \A A, B : A \subseteq B => Seq(A) \subseteq Seq(B)
  OBVIOUS
<1>3. TaskOf(Len(job.slice_sizes)) \subseteq SimpleTask
  BY DEF TaskOf
<1> QED
  BY <1>1, <1>2, <1>3

\* A vector is one of its own arrangements.
LEMMA OwnArrangement == ASSUME NEW E, NEW s \in Seq(E) PROVE s \in Rearrangements(s)
<1>1. s \in [DOMAIN s -> {s[k] : k \in DOMAIN s}]
  OBVIOUS
<1> QED
  BY <1>1 DEF Rearrangements

\* As long as there is no further result, and the processors are not rearranged but
\* where this does not show.
LEMMA AgreedKept ==
    ASSUME Agreed, UNCHANGED <<args, job, results>>, IdenticalProcs' => procs' = procs
    PROVE  Agreed'
<1>1. Created' = Created /\ Users' = Users
  BY DEF Created, Users
<1> SUFFICES ASSUME TieFree(Created'), IdenticalProcs', NonNegativeDurations', results' # <<>>
             PROVE  \E s \in Rearrangements(Created') :
                        /\ InOrder(s)'
                        /\ \A k \in DOMAIN results' : ReferenceTimes(procs, s, results[k])'
  BY DEF Agreed
<1>2. procs' = procs
  OBVIOUS
<1>3. TieFree(Created) /\ IdenticalProcs /\ NonNegativeDurations /\ results # <<>>
  BY <1>1, <1>2 DEF IdenticalProcs, NonNegativeDurations
<1>4. PICK s \in Rearrangements(Created) :
          InOrder(s) /\ \A k \in DOMAIN results : ReferenceTimes(procs, s, results[k])
  BY <1>3 DEF Agreed
<1>5. InOrder(s)'
  BY <1>4 DEF InOrder, TaskBefore
<1>6. \A k \in DOMAIN results' : ReferenceTimes(procs, s, results[k])'
  BY <1>1, <1>2, <1>4 DEF ReferenceTimes
<1> QED
  BY <1>1, <1>5, <1>6

LEMMA InitAgree == RowInit => AgreeInv
<1> SUFFICES ASSUME RowInit PROVE AgreeInv
  OBVIOUS
<1>1. RowInv
  BY InitRowInv
<1>2. TypeOK /\ Started = {} /\ task_iterator = 1 /\ phase = "sort"
  BY InitType DEF RowInit, SimInit, Init, Started, Processed
<1>3. ReferenceInv
  BY <1>2, FreshLoads DEF ReferenceInv, EndsAreCosts
<1> QED
  BY <1>1, <1>2, <1>3 DEF RowInit, AgreeInv, Arranged, Agreed

LEMMA CreateAgree == AgreeInv /\ RowInv' /\ CreateTasks => AgreeInv'
<1> SUFFICES ASSUME AgreeInv, RowInv', CreateTasks PROVE AgreeInv'
  OBVIOUS
<1>1. /\ UNCHANGED <<procs, args, job, results>>
      /\ row_pc' = "simulate" /\ phase' = "sort"
      /\ p_queue' = {} /\ processed_tasks' = <<>> /\ task_iterator' = 1
      /\ tasks' = Created
  BY DEF CreateTasks, Created
<1>2. Created' = Created /\ Created \in Rearrangements(Created)
  BY <1>1, CreatedType, OwnArrangement DEF AgreeInv, Created
<1>3. TypeOK'
  BY DEF RowInv, SimInv, LoopInv
<1>4. ReferenceInv'
  BY <1>1, <1>3, FreshReference
<1>5. Arranged'
  BY <1>1, <1>2 DEF Arranged
<1>6. Agreed'
  BY <1>1, AgreedKept DEF AgreeInv
<1> QED
  BY <1>4, <1>5, <1>6 DEF AgreeInv

\* Nothing but the sort rearranges the tasks or the processors.
LEMMA OrderKept == SimStep => Sort \/ UNCHANGED <<procs, tasks>>
  BY DEF SimStep, RunProcessor, Step, Seed, SeedingOver, Process, Return, ProcessorReturned,
         Collect, CollectOver, vars

LEMMA RunAgree == AgreeInv /\ RowInv' /\ RunSimulate => AgreeInv'
<1> SUFFICES ASSUME AgreeInv, RowInv', RunSimulate PROVE AgreeInv'
  OBVIOUS
<1>1. /\ SimStep /\ UNCHANGED <<args, job, results, row_pc>>
      /\ row_pc = "simulate" /\ SimInv /\ SimInv'
  BY ArgsUnchanged DEF RunSimulate, row_vars, AgreeInv, RowInv
<1>2. Created' = Created /\ Users' = Users
  BY <1>1 DEF Created, Users
<1>3. ReferenceInv'
  BY <1>1, SimReference DEF AgreeInv
<1>4. phase' # "sort"
  BY <1>1 DEF SimStep, Sort, RunProcessor, sim_vars, ProcessorReturned, Collect, CollectOver
<1>5. tasks' \in Rearrangements(Created)
  <2>1. CASE Sort
    BY <2>1, <1>1 DEF Sort, SortedTasks, AgreeInv, Arranged
  <2>2. CASE UNCHANGED <<procs, tasks>>
    BY <2>2, <1>1 DEF AgreeInv, Arranged
  <2> QED
    BY <1>1, <2>1, <2>2, OrderKept
<1>6. Arranged'
  BY <1>1, <1>2, <1>4, <1>5 DEF Arranged
<1>7. IdenticalProcs' => procs' = procs
  <2>1. CASE Sort
    <3>1. procs \in Seq(Mips) /\ procs' \in Rearrangements(procs)
      BY <2>1, <1>1 DEF Sort, SortedProcs, SimInv, LoopInv, TypeOK
    <3> QED
      BY <3>1, EqualProcsStay DEF IdenticalProcs
  <2> QED
    BY <2>1, <1>1, OrderKept
<1>8. Agreed'
  BY <1>1, <1>7, AgreedKept DEF AgreeInv
<1> QED
  BY <1>3, <1>6, <1>8 DEF AgreeInv

LEMMA TakeAgree == AgreeInv /\ RowInv' /\ TakeTimes => AgreeInv'
<1> SUFFICES ASSUME AgreeInv, RowInv', TakeTimes PROVE AgreeInv'
  OBVIOUS
<1>1. /\ UNCHANGED vars /\ UNCHANGED <<procs, tasks, args, phase, times, job>>
      /\ row_pc = "simulate" /\ phase = "done"
      /\ results' = Append(results, times)
      /\ SimInv /\ RowInv
  BY DEF TakeTimes, all_vars, sim_vars, vars, AgreeInv, RowInv
<1>2. Created' = Created /\ Users' = Users
  BY <1>1 DEF Created, Users
<1>3. ReferenceInv'
  BY <1>1, ReferenceKept DEF AgreeInv
<1>4. tasks \in Rearrangements(Created) /\ InOrder(tasks)
  BY <1>1 DEF AgreeInv, Arranged, SimInv, Sorted, InOrder
<1>5. Arranged'
  BY <1>1, <1>2, <1>4 DEF Arranged
<1>6. results \in Seq([Users -> Double])
  BY <1>1 DEF RowInv, RowArguments
<1>7. Agreed'
  <2> SUFFICES ASSUME TieFree(Created), IdenticalProcs, NonNegativeDurations
               PROVE  \A k \in DOMAIN results' : ReferenceTimes(procs, tasks, results'[k])
    <3>1. /\ TieFree(Created') => TieFree(Created)
          /\ IdenticalProcs' => IdenticalProcs
          /\ NonNegativeDurations' => NonNegativeDurations
      BY <1>1, <1>2 DEF IdenticalProcs, NonNegativeDurations
    <3>2. tasks \in Rearrangements(Created') /\ InOrder(tasks)'
      BY <1>1, <1>2, <1>4 DEF InOrder, TaskBefore
    <3>3. \A k : ReferenceTimes(procs, tasks, results'[k])
                   => ReferenceTimes(procs, tasks, results[k])'
      BY <1>1, <1>2 DEF ReferenceTimes
    <3> QED
      BY <1>1, <3>1, <3>2, <3>3 DEF Agreed
  <2>1. ReferenceTimes(procs, tasks, times)
    BY <1>1, ReturnedTimes DEF AgreeInv
  <2>2. ASSUME NEW k \in DOMAIN results
        PROVE  ReferenceTimes(procs, tasks, results[k])
    <3>1. results # <<>>
      BY <1>6, <2>2
    <3>2. PICK s \in Rearrangements(Created) :
              InOrder(s) /\ \A j \in DOMAIN results : ReferenceTimes(procs, s, results[j])
      BY <3>1 DEF AgreeInv, Agreed
    <3>3. s = tasks
      BY <1>1, <1>4, <3>2, CreatedType, OneArrangement DEF SimInv, ArgumentsOK
    <3> QED
      BY <2>2, <3>2, <3>3
  <2>3. \A k \in DOMAIN results' : \/ k \in DOMAIN results /\ results'[k] = results[k]
                                   \/ results'[k] = times
    BY <1>1, <1>6
  <2> QED
    BY <2>1, <2>2, <2>3
<1> QED
  BY <1>3, <1>5, <1>7 DEF AgreeInv

LEMMA AgreeInvariance == RowSpec => []AgreeInv
<1>1. AgreeInv /\ RowInv' /\ [RowNext]_<<all_vars, row_vars>> => AgreeInv'
  <2> SUFFICES ASSUME AgreeInv, RowInv', [RowNext]_<<all_vars, row_vars>> PROVE AgreeInv'
    OBVIOUS
  <2>1. CASE UNCHANGED <<all_vars, row_vars>>
    <3>1. /\ UNCHANGED vars /\ UNCHANGED <<procs, tasks>>
          /\ UNCHANGED <<args, phase, times, job, row_pc, results>>
      BY <2>1 DEF all_vars, sim_vars, row_vars, vars
    <3>2. ReferenceInv'
      BY <3>1, ReferenceKept DEF AgreeInv, RowInv
    <3>3. Arranged'
      BY <3>1 DEF AgreeInv, Arranged, Created
    <3>4. Agreed'
      BY <3>1, AgreedKept DEF AgreeInv
    <3> QED
      BY <3>2, <3>3, <3>4 DEF AgreeInv
  <2> QED
    BY <2>1, CreateAgree, RunAgree, TakeAgree DEF RowNext, RowStep, RowOver
<1> QED
  BY <1>1, InitAgree, RowInvariance, PTL DEF RowSpec

(***************************************************************************)
(* Blocks of one slice size differ in weight: this is what lets NoTies,    *)
(* which is about different players, exclude ties of any two tasks.        *)
(***************************************************************************)
LEMMA Products ==
    ASSUME NEW x \in Nat, NEW y \in Nat, NEW z \in Nat, x < y
    PROVE  /\ x * z <= y * z /\ z * x <= z * y
           /\ z > 0 => x * z < y * z /\ z * x < z * y
<1>1. PICK d \in Nat : y = x + d /\ d > 0
  <2>1. y - x \in Nat /\ y = x + (y - x) /\ y - x > 0
    OBVIOUS
  <2> QED
    BY <2>1
<1>2. y * z = x * z + d * z /\ z * y = z * x + z * d
  BY <1>1
<1>3. d * z \in Nat /\ z * d \in Nat /\ x * z \in Nat /\ z * x \in Nat
  OBVIOUS
<1>4. z > 0 => d * z > 0 /\ z * d > 0
  BY <1>1
<1> QED
  BY <1>2, <1>3, <1>4

LEMMA SmallUnwrapped ==
    ASSUME NEW p \in Nat, p * p < SizeMod, NEW x \in 0..p, NEW y \in 0..p
    PROVE  Wrap(x * y) = x * y
<1>1. SizeMod \in Nat
  BY WidthsAssumption
<1>2. x * y <= p * y /\ p * y <= p * p
  BY Products
<1>3. x * y \in Nat /\ p * y \in Nat /\ p * p \in Nat
  OBVIOUS
<1>4. x * y < SizeMod
  BY <1>1, <1>2, <1>3
<1>5. \A k, m \in Nat : k < m => k % m = k
  OBVIOUS
<1> QED
  BY <1>1, <1>3, <1>4, <1>5 DEF Wrap

LEMMA BlocksDiffer ==
    ASSUME NEW p \in Nat, NEW s \in Nat \ {0}, NEW user, p * p < SizeMod,
           NEW a \in BlockTasks(p, s, user), NEW b \in BlockTasks(p, s, user),
           a.complexity = b.complexity
    PROVE  a = b
<1> DEFINE r == Partial(p, s)
           m == 2 * p - 1
           Block(x, y) == Create(Complexity(x, p, y), user)
<1>1. r \in Nat /\ r < s /\ r <= p
  BY Divided
<1>2. \A t \in BlockTasks(p, s, user) : \/ t = Block(s, s) /\ s <= p
                                        \/ t = Block(r, s) /\ s <= p /\ r > 0
                                        \/ t = Block(r, r) /\ r > 0
  BY DEF BlockTasks
<1>3. \A x, y : Block(x, y).complexity = Wrap(x * y) * m
  BY DEF Create, Complexity
<1> HIDE DEF r, Block
<1>4. m \in Nat /\ m > 0
  <2>1. p > 0
    BY <1>1, <1>2
  <2> QED
    BY <2>1
<1> HIDE DEF m
<1>5. /\ s <= p => Wrap(s * s) = s * s
      /\ s <= p => Wrap(r * s) = r * s
      /\ Wrap(r * r) = r * r
  BY <1>1, SmallUnwrapped
<1>6. s * s \in Nat /\ r * s \in Nat /\ r * r \in Nat /\ r * s < s * s
  BY <1>1, Products
<1>7. r > 0 => r * r < r * s
  BY <1>1, Products
<1>8. /\ (r * s) * m < (s * s) * m
      /\ r > 0 => (r * r) * m < (r * s) * m
  BY <1>4, <1>6, <1>7, Products
<1>9. (r * r) * m \in Nat /\ (r * s) * m \in Nat /\ (s * s) * m \in Nat
  BY <1>4, <1>6
<1>10. /\ s <= p => Block(s, s).complexity = (s * s) * m
       /\ s <= p => Block(r, s).complexity = (r * s) * m
       /\ Block(r, r).complexity = (r * r) * m
  BY <1>3, <1>5
<1> DEFINE X == (s * s) * m
           Y == (r * s) * m
           Z == (r * r) * m
<1>11. X \in Nat /\ Y \in Nat /\ Z \in Nat /\ Y < X /\ (r > 0 => Z < Y)
  BY <1>8, <1>9
<1>12. /\ s <= p => Block(s, s).complexity = X
       /\ s <= p => Block(r, s).complexity = Y
       /\ Block(r, r).complexity = Z
  BY <1>10
<1> HIDE DEF X, Y, Z
<1> QED
  BY <1>2, <1>11, <1>12

\* Where every player has its own id.
LEMMA UserIsOwn ==
    ASSUME NEW n \in Nat, n <= UserIdMod, NEW k \in 1..n
    PROVE  UserOf(k) = k - 1
<1>1. UserIdMod \in Nat
  BY WidthsAssumption
<1>2. k - 1 \in Nat /\ k - 1 < UserIdMod
  BY <1>1
<1>3. \A x, m \in Nat : x < m => x % m = x
  OBVIOUS
<1>4. (k - 1) % UserIdMod = k - 1
  BY <1>1, <1>2, <1>3
<1> QED
  BY <1>4 DEF UserOf

\* Then tasks of one player are of one slice size.
LEMMA OwnSlice ==
    ASSUME NEW n \in Nat, n <= UserIdMod, NEW k \in 1..n, NEW l \in 1..n, UserOf(k) = UserOf(l)
    PROVE  k = l
<1>1. UserOf(k) = k - 1 /\ UserOf(l) = l - 1
  BY UserIsOwn
<1>2. k - 1 = l - 1
  BY <1>1, Zenon
<1> QED
  BY <1>2

LEMMA TiesAreOfPlayers ==
    ASSUME RowInv, Arranged, Representable, NoTies, results # <<>>
    PROVE  TieFree(Created)
<1> DEFINE p == job.problem_size
           sizes == job.slice_sizes
           N == Len(sizes)
<1>1. /\ p \in Nat /\ N \in Nat /\ DOMAIN sizes = 1..N /\ \A k \in 1..N : sizes[k] \in Nat \ {0}
      /\ job \in JobInputs
  <2>1. job \in JobInputs /\ job \in Job /\ \A k \in DOMAIN sizes : sizes[k] > 0
    BY RowAssumption DEF RowInv, RowArguments
  <2>2. p \in Size /\ sizes \in Seq(Size)
    BY <2>1 DEF Job
  <2>3. \A x \in Size : x \in Nat
    BY WidthsAssumption DEF Size
  <2> QED
    BY <2>1, <2>2, <2>3
<1>2. Created \in Seq(JobTasks(job)) /\ Created \in Seq(SimpleTask)
  BY <1>1, CreatedTasks, CreatedType DEF Created
<1>3. \A j \in DOMAIN Created : \E k \in 1..N :
          /\ Created[j] \in BlockTasks(p, sizes[k], UserOf(k))
          /\ Created[j].userid = UserOf(k)
  <2> SUFFICES ASSUME NEW j \in DOMAIN Created
               PROVE  \E k \in 1..N : /\ Created[j] \in BlockTasks(p, sizes[k], UserOf(k))
                                      /\ Created[j].userid = UserOf(k)
    OBVIOUS
  <2>1. Created[j] \in JobTasks(job)
    BY <1>2
  <2>2. PICK k \in 1..N : Created[j] \in BlockTasks(p, sizes[k], UserOf(k))
    BY <1>1, <2>1 DEF JobTasks
  <2>3. Created[j].userid = UserOf(k)
    BY <2>2 DEF BlockTasks, Create
  <2> QED
    BY <2>2, <2>3
\* Ties among the created tasks are ties among the sorted ones.
<1>4. ASSUME NEW j \in DOMAIN Created
      PROVE  \E n \in DOMAIN tasks : tasks[n] = Created[j]
  <2>1. tasks \in Rearrangements(Created)
    BY DEF Arranged
  <2>2. tasks \in Seq(SimpleTask)
    BY <1>2, <2>1, RearrangedElements
  <2>3. Cardinality(Positions(tasks, Created[j])) = Cardinality(Positions(Created, Created[j]))
    BY <2>1 DEF Rearrangements
  <2>4. Positions(Created, Created[j]) # {}
    BY DEF Positions
  <2>5. Positions(tasks, Created[j]) # {}
    BY <1>2, <2>2, <2>3, <2>4, PositionsFinite
  <2> QED
    BY <2>5 DEF Positions
<1> SUFFICES ASSUME NEW j \in DOMAIN Created, NEW k \in DOMAIN Created,
                    Created[j].complexity = Created[k].complexity
             PROVE  Created[j] = Created[k]
  BY DEF TieFree
<1>5. Created[j].userid = Created[k].userid
  <2>1. PICK n \in DOMAIN tasks : tasks[n] = Created[j]
    BY <1>4
  <2>2. PICK o \in DOMAIN tasks : tasks[o] = Created[k]
    BY <1>4
  <2> QED
    BY <2>1, <2>2 DEF NoTies
<1>6. PICK x \in 1..N : /\ Created[j] \in BlockTasks(p, sizes[x], UserOf(x))
                        /\ Created[j].userid = UserOf(x)
  BY <1>3
<1>7. PICK y \in 1..N : /\ Created[k] \in BlockTasks(p, sizes[y], UserOf(y))
                        /\ Created[k].userid = UserOf(y)
  BY <1>3
<1>8. p * p < SizeMod /\ N <= UserIdMod
  BY DEF Representable, PlayersHaveIds
<1>9. x = y
  BY <1>1, <1>5, <1>6, <1>7, <1>8, OwnSlice
<1> QED
  BY <1>1, <1>6, <1>7, <1>8, <1>9, BlocksDiffer

(***************************************************************************)
(* All simulations of a row agree but for ties: no shuffle, sort or queue  *)
(* has a say in the times.                                                 *)
(***************************************************************************)
THEOREM RunsAgreeHolds == RowSpec => []RunsAgree
<1>1. AgreeInv => RunsAgree
  <2> SUFFICES ASSUME AgreeInv, Representable, NoTies, IdenticalProcs, NonNegativeDurations,
                      NEW j \in DOMAIN results, NEW k \in DOMAIN results
               PROVE  results[j] = results[k]
    BY DEF RunsAgree, IdenticalProcs
  <2>1. results \in Seq([Users -> Double]) /\ results # <<>>
    BY DEF AgreeInv, RowInv, RowArguments
  <2>2. TieFree(Created)
    BY <2>1, TiesAreOfPlayers DEF AgreeInv
  <2>3. PICK s \in Rearrangements(Created) :
            \A l \in DOMAIN results : ReferenceTimes(procs, s, results[l])
    BY <2>1, <2>2 DEF AgreeInv, Agreed
  <2>4. results[j] \in [Users -> Double] /\ results[k] \in [Users -> Double]
    BY <2>1
  <2> QED
    BY <2>3, <2>4, OneReference
<1> QED
  BY <1>1, AgreeInvariance, PTL
-------------------------------------------------------------------------------
(***************************************************************************)
(* What the work of a row takes.  Price is a price of a task of a user in  *)
(* U, at a for a flop, b for a bit and c for the task; Prices has what the *)
(* products of these users come to.  It is the same: create_tasks loses    *)
(* no block, nor does the sort.                                            *)
(***************************************************************************)
Price(U, a, b, c) ==
    [task \in SimpleTask |->
        IF task.userid \in U THEN a * task.complexity + b * task.bits_to_transfer + c ELSE 0]

PriceOf(s, a, b, c) ==
    LET p == job.problem_size
    IN  a * ProductFlops(p) + b * ProductBits(p, s)
          + c * (BlocksPerSide(p, s) * BlocksPerSide(p, s))

Prices(U, a, b, c) ==
    [k \in DOMAIN job.slice_sizes |->
        IF UserOf(k) \in U THEN PriceOf(job.slice_sizes[k], a, b, c) ELSE 0]

LEMMA SameOperators ==
    /\ \A s : Facts!Total(s) = Total(s)
    /\ \A k : Facts!UserOf(k) = UserOf(k)
    /\ \A p, s : /\ Facts!Fits(p, s) <=> Fits(p, s)
                 /\ Facts!BlocksPerSide(p, s) = BlocksPerSide(p, s)
                 /\ Facts!ProductFlops(p) = ProductFlops(p)
                 /\ Facts!ProductBits(p, s) = ProductBits(p, s)
    /\ \A jb : Facts!Expanded(Facts!Inserted(jb)) = Expanded(Inserted(jb))
<1>1. Facts!SizeMod = SizeMod /\ Facts!UserIdMod = UserIdMod
  BY DEF Facts!SizeMod, Facts!UserIdMod, SizeMod, UserIdMod
<1>2. \A s : Facts!Total(s) = Total(s)
  BY Zenon DEF Facts!Total, Total, Facts!PartialSums, PartialSums
<1>3. \A n : Facts!Wrap(n) = Wrap(n)
  BY <1>1 DEF Facts!Wrap, Wrap
<1>4. \A p, s : Facts!NFull(p, s) = NFull(p, s) /\ Facts!Partial(p, s) = Partial(p, s)
  BY DEF Facts!NFull, NFull, Facts!Partial, Partial
<1>5. \A k : Facts!UserOf(k) = UserOf(k)
  BY <1>1 DEF Facts!UserOf, UserOf
<1>6. \A p, s : /\ Facts!Fits(p, s) <=> Fits(p, s)
                /\ Facts!BlocksPerSide(p, s) = BlocksPerSide(p, s)
                /\ Facts!ProductFlops(p) = ProductFlops(p)
                /\ Facts!ProductBits(p, s) = ProductBits(p, s)
  BY <1>1, <1>4 DEF Facts!Fits, Fits, Facts!BlocksPerSide, BlocksPerSide,
     Facts!ProductFlops, ProductFlops, Facts!ProductBits, ProductBits
<1>7. \A m, n, kk : Facts!Complexity(m, n, kk) = Complexity(m, n, kk)
  BY <1>3 DEF Facts!Complexity, Complexity
<1>8. \A n, x, user : Facts!Run(n, x, user) = Run(n, x, user)
  BY <1>3 DEF Facts!Run, Run, Facts!Create, Create
<1>9. \A p, s, user : Facts!Blocks(p, s, user) = Blocks(p, s, user)
  BY <1>4, <1>7, <1>8 DEF Facts!Blocks, Blocks
<1>10. \A seqs : Facts!S!FlattenSeq(seqs) = S!FlattenSeq(seqs)
  BY Zenon DEF Facts!S!FlattenSeq, S!FlattenSeq
<1>11. \A jb : Facts!Inserted(jb) = Inserted(jb)
  BY <1>5, <1>9, <1>10 DEF Facts!Inserted, Inserted
<1>12. \A rs : Facts!Expanded(rs) = Expanded(rs)
  BY <1>10 DEF Facts!Expanded, Expanded
<1> QED
  BY <1>2, <1>5, <1>6, <1>11, <1>12

LEMMA CreatedPrice ==
    ASSUME RowInv, NothingWraps, NEW U, NEW a \in Int, NEW b \in Int, NEW c \in Int
    PROVE  LET W == Price(U, a, b, c)
           IN  /\ W \in [SimpleTask -> Int] /\ Prices(U, a, b, c) \in Seq(Int)
               /\ Total([k \in DOMAIN Created |-> W[Created[k]]]) = Total(Prices(U, a, b, c))
<1> DEFINE W == Price(U, a, b, c)
           V == Facts!TaskPrice(U, a, b, c)
<1>1. job \in JobInputs /\ job \in Job /\ \A k \in DOMAIN job.slice_sizes : job.slice_sizes[k] # 0
  <2>1. job \in JobInputs /\ job \in Job /\ \A k \in DOMAIN job.slice_sizes : job.slice_sizes[k] > 0
    BY RowAssumption DEF RowInv, RowArguments
  <2> QED
    BY <2>1
<1>2. job \in Facts!Job /\ Facts!NoSliceIsZero(job)
  BY <1>1, FactsApply DEF Facts!NoSliceIsZero
<1>3. \A k \in DOMAIN job.slice_sizes : Facts!Fits(job.problem_size, job.slice_sizes[k])
  BY SameOperators DEF NothingWraps
<1>4. /\ Facts!JobPrices(job, U, a, b, c) \in Seq(Int)
      /\ Facts!Total(Facts!Weights(Facts!Expanded(Facts!Inserted(job)), V))
           = Facts!Total(Facts!JobPrices(job, U, a, b, c))
  BY <1>2, <1>3, FactsApply, Facts!JobPrice
<1>5. Facts!JobPrices(job, U, a, b, c) = Prices(U, a, b, c)
  BY SameOperators DEF Facts!JobPrices, Prices, PriceOf
<1>6. SimpleTask \subseteq Facts!TaskType
  BY DoubleInt DEF SimpleTask, Facts!TaskType
<1>7. \A x \in SimpleTask : V[x] = W[x]
  BY <1>6 DEF Facts!TaskPrice, Price
<1>8. W \in [SimpleTask -> Int]
  <2>1. ASSUME NEW x \in SimpleTask
        PROVE  a * x.complexity + b * x.bits_to_transfer + c \in Int
    <3>1. x.complexity \in Int /\ x.bits_to_transfer \in Int
      BY DEF SimpleTask
    <3> QED
      BY <3>1
  <2> QED
    BY <2>1 DEF Price
<1>9. Created \in Seq(SimpleTask)
  BY CreatedType
<1> HIDE DEF W, V
<1>10. Facts!Weights(Created, V) = [k \in DOMAIN Created |-> W[Created[k]]]
  <2>1. \A k \in DOMAIN Created : Created[k] \in SimpleTask
    BY <1>9
  <2> QED
    BY <1>7, <2>1 DEF Facts!Weights
<1>11. Facts!Expanded(Facts!Inserted(job)) = Created
  BY SameOperators DEF Created
<1>12. Total([k \in DOMAIN Created |-> W[Created[k]]]) = Total(Prices(U, a, b, c))
  BY <1>4, <1>5, <1>10, <1>11, SameOperators
<1> QED
  BY <1>4, <1>5, <1>8, <1>12 DEF W

\* simulate() has these tasks, in some order.
LEMMA ScheduledPrice ==
    ASSUME AgreeInv, phase = "done", NothingWraps, NEW U, NEW a \in Int, NEW b \in Int, NEW c \in Int
    PROVE  LET w == [k \in DOMAIN tasks |-> Price(U, a, b, c)[tasks[k]]]
           IN  /\ w \in Seq(Int) /\ Len(w) = Len(tasks)
               /\ Prices(U, a, b, c) \in Seq(Int)
               /\ Total(w) = Total(Prices(U, a, b, c))
<1>1. RowInv /\ tasks \in Rearrangements(Created)
  BY DEF AgreeInv, Arranged
<1>2. Created \in Seq(SimpleTask)
  BY <1>1, CreatedType
<1> DEFINE W == Price(U, a, b, c)
<1>3. /\ W \in [SimpleTask -> Int] /\ Prices(U, a, b, c) \in Seq(Int)
      /\ Total([k \in DOMAIN Created |-> W[Created[k]]]) = Total(Prices(U, a, b, c))
  BY <1>1, CreatedPrice
<1> HIDE DEF W
<1>4. /\ Worth(tasks, W) \in Seq(Int) /\ Len(Worth(tasks, W)) = Len(tasks)
      /\ Total(Worth(tasks, W)) = Total(Worth(Created, W))
  <2>1. W \in [SimpleTask -> Int] /\ tasks \in Rearrangements(Created)
    BY <1>1, <1>3
  <2> QED
    BY <1>2, <2>1, RearrangedTotal, Zenon
<1> QED
  BY <1>3, <1>4, Zenon DEF W, Worth

LEMMA Scaled == \A k \in Nat, x, y \in Int : x <= y => k * x <= k * y
<1> SUFFICES ASSUME NEW k \in Nat, NEW x \in Int, NEW y \in Int, x <= y PROVE k * x <= k * y
  OBVIOUS
<1>1. PICK d \in Nat : y = x + d
  <2>1. y - x \in Nat /\ y = x + (y - x)
    OBVIOUS
  <2> QED
    BY <2>1
<1>2. k * y = k * x + k * d
  BY <1>1
<1>3. k * d \in Nat /\ k * x \in Int
  OBVIOUS
<1> QED
  BY <1>2, <1>3

\* All of a task is done in the time its worker has for it.
LEMMA TaskTakesTime ==
    ASSUME NEW band \in Nat, NEW setup \in Nat, NEW one \in Nat, NEW least \in Nat, NEW mips \in Nat,
           least <= mips, NEW work \in Nat, NEW bits \in Nat,
           NEW computed \in Int, NEW sent \in Int, NEW time \in Int,
           work * one <= mips * computed, bits * one <= band * sent,
           computed + sent + setup <= time
    PROVE  (band * one) * work + (least * one) * bits + (least * band) * setup
             <= (band * mips) * time
<1> DEFINE x == (band * mips) * computed
           y == (band * mips) * sent
           z == (band * mips) * setup
           X == (band * one) * work
           Y == (least * one) * bits
           Z == (least * band) * setup
           T == (band * mips) * time
<1>1. x \in Int /\ y \in Int /\ z \in Int /\ X \in Int /\ Y \in Int /\ Z \in Int /\ T \in Int
  OBVIOUS
<1>2. X <= x
  <2>1. x = band * (mips * computed) /\ X = band * (work * one)
    OBVIOUS
  <2>2. mips * computed \in Int /\ work * one \in Int
    OBVIOUS
  <2> QED
    BY <2>1, <2>2, Scaled
<1>3. Y <= y
  <2>1. y = mips * (band * sent) /\ Y = (bits * one) * least
    OBVIOUS
  <2>2. band * sent \in Int /\ bits * one \in Nat
    OBVIOUS
  <2>3. mips * (bits * one) <= mips * (band * sent)
    BY <2>2, Scaled
  <2>4. (bits * one) * least <= (bits * one) * mips
    BY <2>2, Scaled
  <2>5. (bits * one) * mips = mips * (bits * one)
    OBVIOUS
  <2>6. mips * (bits * one) \in Int
    OBVIOUS
  <2> HIDE DEF x, y, z, X, Y, Z, T
  <2> QED
    BY <1>1, <2>1, <2>3, <2>4, <2>5, <2>6
<1>4. Z <= z
  <2>1. z = (band * setup) * mips /\ Z = (band * setup) * least
    OBVIOUS
  <2>2. band * setup \in Nat
    OBVIOUS
  <2> QED
    BY <2>1, <2>2, Scaled
<1>5. x + y + z <= T
  <2>1. x + y + z = (band * mips) * (computed + sent + setup)
    OBVIOUS
  <2>2. band * mips \in Nat /\ computed + sent + setup \in Int
    OBVIOUS
  <2> QED
    BY <2>1, <2>2, Scaled
<1> HIDE DEF x, y, z, X, Y, Z, T
<1>6. X + Y + Z <= T
  BY <1>1, <1>2, <1>3, <1>4, <1>5
<1> QED
  BY <1>6 DEF X, Y, Z, T

\* The player's work is the price of its product.
LEMMA WorkIsPrice ==
    ASSUME RowInv, NEW mips \in Nat, Bandwidth \in Nat, ConnectionSetup \in Nat,
           NEW k \in DOMAIN job.slice_sizes
    PROVE  PlayersWork(job.slice_sizes[k], mips)
             = PriceOf(job.slice_sizes[k], Bandwidth * One, mips * One,
                       mips * Bandwidth * ConnectionSetup)
<1> DEFINE p == job.problem_size
           s == job.slice_sizes[k]
           F == ProductFlops(p)
           T == ProductBits(p, s)
           n == BlocksPerSide(p, s) * BlocksPerSide(p, s)
<1>1. p \in Nat /\ s \in Nat \ {0}
  <2>1. job \in Job /\ \A l \in DOMAIN job.slice_sizes : job.slice_sizes[l] > 0
    BY RowAssumption DEF RowInv, RowArguments
  <2>2. p \in Size /\ job.slice_sizes \in Seq(Size)
    BY <2>1 DEF Job
  <2>3. \A x \in Size : x \in Nat
    BY WidthsAssumption DEF Size
  <2> QED
    BY <2>1, <2>2, <2>3
<1>2. One \in Nat /\ BitsPerNumber \in Nat
  BY RowAssumption, WidthsAssumption
<1> HIDE DEF p, s
<1>3. BlocksPerSide(p, s) \in Nat
  <2>1. NFull(p, s) \in Nat
    BY <1>1, Divided
  <2> QED
    BY <2>1 DEF BlocksPerSide
<1>4. F \in Int /\ T \in Int /\ n \in Int
  BY <1>1, <1>2, <1>3 DEF ProductFlops, ProductBits
<1> HIDE DEF F, T, n
<1>5. Bandwidth * One * F + mips * (One * T + Bandwidth * ConnectionSetup * n)
        = (Bandwidth * One) * F + (mips * One) * T + (mips * Bandwidth * ConnectionSetup) * n
  <2>1. mips * (One * T + Bandwidth * ConnectionSetup * n)
          = mips * (One * T) + mips * (Bandwidth * ConnectionSetup * n)
    BY <1>2, <1>4
  <2>2. mips * (One * T) = (mips * One) * T
    BY <1>2, <1>4
  <2>3. mips * (Bandwidth * ConnectionSetup * n) = (mips * Bandwidth * ConnectionSetup) * n
    BY <1>2, <1>4
  <2> DEFINE A == Bandwidth * One * F
             B == (mips * One) * T
             C == (mips * Bandwidth * ConnectionSetup) * n
  <2>4. A \in Int /\ B \in Int /\ C \in Int
    BY <1>2, <1>4
  <2>5. mips * (One * T + Bandwidth * ConnectionSetup * n) = B + C
    BY <2>1, <2>2, <2>3, Zenon
  <2>6. Bandwidth * One * F = A
    OBVIOUS
  <2> HIDE DEF A, B, C
  <2>7. A + (B + C) = A + B + C
    BY <2>4
  <2> QED
    BY <2>5, <2>6, <2>7, Zenon DEF A, B, C
<1> QED
  BY <1>5 DEF PlayersWork, PriceOf, p, s, F, T, n

\* What the theorems below have in common.  (The times of the return are defined.)
LEMMA ReturnedState ==
    ASSUME AgreeInv, phase = "done", NonNegativeDurations
    PROVE  /\ Bandwidth \in Nat /\ ConnectionSetup \in Nat /\ One \in Nat
           /\ procs \in [DOMAIN procs -> Nat]
           /\ Len(procs) > 0 => {r.task : r \in Processed} = DOMAIN tasks
           /\ \A r \in Processed : /\ r \in Started /\ r \in Completion
                                   /\ 0 <= r.time_start /\ r.time_start <= r.time_end
           /\ \A u \in Users : times[u] \in Nat /\ \A r \in Of(u) : r.time_end <= times[u]
<1>1. TypeOK /\ QueueInv /\ Clock /\ pc = "done" /\ SimInv
  BY DEF AgreeInv, RowInv, SimInv, LoopInv, TimeInv, ReferenceInv
<1>2. Bandwidth \in Nat /\ ConnectionSetup \in Nat /\ One \in Nat
  <2>1. Bandwidth \in Int /\ ConnectionSetup \in Int
    BY InputsAssumption, DoubleInt
  <2> QED
    BY <2>1, RowAssumption DEF NonNegativeDurations
<1>3. procs \in [DOMAIN procs -> Nat]
  <2>1. procs \in [DOMAIN procs -> Int]
    BY <1>1, DoubleInt DEF TypeOK, Mips
  <2>2. \A w \in DOMAIN procs : procs[w] \in Int /\ procs[w] >= 0
    BY <2>1 DEF NonNegativeDurations
  <2> QED
    BY <2>1, <2>2
<1>4. Len(procs) > 0 => {r.task : r \in Processed} = DOMAIN tasks
  BY <1>1, OnceFollows DEF EachTaskOnce
<1>5. \A r \in Processed : /\ r \in Started /\ r \in Completion
                           /\ 0 <= r.time_start /\ r.time_start <= r.time_end
  BY <1>1, StartedType DEF Clock, Started
<1>6. ASSUME NEW u \in Users
      PROVE  times[u] \in Nat /\ \A r \in Of(u) : r.time_end <= times[u]
  <2>1. IF Of(u) = {} THEN times[u] = 0
        ELSE /\ \E r \in Of(u) : times[u] = r.time_end
             /\ \A r \in Of(u) : r.time_end <= times[u]
    BY <1>1, ScanFindsTimes DEF TimesAreFinishTimes
  <2>2. \A r \in Of(u) : r.time_end \in Nat
    <3>1. \A r \in Of(u) : r \in Processed
      BY DEF Of
    <3>2. \A r \in Of(u) : /\ r.time_end \in Int /\ r.time_start \in Int
                           /\ 0 <= r.time_start /\ r.time_start <= r.time_end
      BY <1>5, <3>1, DoubleInt DEF Completion
    <3> QED
      BY <3>2
  <2> QED
    BY <2>1, <2>2
<1> QED
  BY <1>2, <1>3, <1>4, <1>5, <1>6

\* The numbers a task's end comes from.
LEMMA Reckoned ==
    ASSUME NEW r \in Started, r.worker_index \in DOMAIN procs, r.task \in DOMAIN tasks
    PROVE  LET mips == procs[r.worker_index]
               work == tasks[r.task].complexity
               bits == tasks[r.task].bits_to_transfer
               computed == TimeToComplete(mips, work)
               sent == Per(bits, Bandwidth)
           IN  /\ <<work * One, mips * computed>> \in Reckonings
               /\ <<bits * One, Bandwidth * sent>> \in Reckonings
               /\ <<sent + ConnectionSetup, TransferTime(bits)>> \in Reckonings
               /\ <<computed + TransferTime(bits), Duration(mips, tasks[r.task])>> \in Reckonings
               /\ <<r.time_start + Duration(mips, tasks[r.task]), r.time_end>> \in Reckonings
<1> DEFINE Quotients(w, t) ==
        LET work == tasks[t].complexity
            bits == tasks[t].bits_to_transfer
            computed == TimeToComplete(procs[w], work)
            sent == Per(bits, Bandwidth)
        IN  {<<work * One, procs[w] * computed>>,
             <<bits * One, Bandwidth * sent>>,
             <<sent + ConnectionSetup, TransferTime(bits)>>,
             <<computed + TransferTime(bits), Duration(procs[w], tasks[t])>>}
           Ends == {<<q.time_start + Duration(procs[q.worker_index], tasks[q.task]), q.time_end>> :
                        q \in Started}
<1>1. Reckonings
        = (UNION {Quotients(w, t) : w \in DOMAIN procs, t \in DOMAIN tasks}) \cup Ends
  BY DEF Reckonings
<1>2. <<r.time_start + Duration(procs[r.worker_index], tasks[r.task]), r.time_end>> \in Ends
  OBVIOUS
<1> HIDE DEF Quotients, Ends
<1>3. Quotients(r.worker_index, r.task) \subseteq Reckonings /\ Ends \subseteq Reckonings
  <2> DEFINE All == {Quotients(w, t) : w \in DOMAIN procs, t \in DOMAIN tasks}
  <2>1. Quotients(r.worker_index, r.task) \in All
    OBVIOUS
  <2>2. Reckonings = (UNION All) \cup Ends
    BY <1>1
  <2> HIDE DEF All
  <2> QED
    BY <2>1, <2>2
<1> QED
  BY <1>2, <1>3 DEF Quotients

LEMMA PairsOf ==
    \A x, y : <<x, y>> \in Reckonings =>
        (NothingRoundedDown => x <= y) /\ (AllExact => x = y)
<1>1. \A x, y : <<x, y>>[1] = x /\ <<x, y>>[2] = y
  OBVIOUS
<1> QED
  BY <1>1 DEF NothingRoundedDown, AllExact

\* The rates at which the processors earn the price of a task.
LEMMA RateTotal ==
    ASSUME NEW n \in Nat, NEW s \in [1..n -> Nat], NEW band \in Nat
    PROVE  /\ [v \in DOMAIN s |-> band * s[v]] \in [DOMAIN s -> Nat]
           /\ Total([v \in DOMAIN s |-> band * s[v]]) = band * Total(s)
<1> DEFINE rate == [v \in DOMAIN s |-> band * s[v]]
<1>1. DOMAIN s = 1..n /\ s \in Seq(Int) /\ Len(s) = n
  OBVIOUS
<1>2. ASSUME NEW v \in 1..n
      PROVE  rate[v] \in Nat /\ rate[v] = band * s[v]
  <2>1. s[v] \in Nat /\ rate[v] = band * s[v]
    OBVIOUS
  <2>2. \A x \in Nat : band * x \in Nat
    OBVIOUS
  <2> QED
    BY <2>1, <2>2
<1>3. rate \in [1..n -> Nat]
  BY <1>1, <1>2
<1>4. rate \in Seq(Int) /\ Len(rate) = n
  BY <1>3
<1>5. \A v \in 1..Len(s) : rate[v] = band * s[v]
  BY <1>1, <1>2
<1> HIDE DEF rate
<1>6. Total(rate) = band * Total(s)
  <2>1. s \in Seq(Int) /\ rate \in Seq(Int) /\ Len(rate) = Len(s) /\ band \in Int
    BY <1>1, <1>4
  <2> QED
    BY <1>5, <2>1, TotalScaled
<1> QED
  BY <1>1, <1>3, <1>6 DEF rate

\* Of one player's price there is its own product's.
LEMMA OwnPrice ==
    ASSUME AgreeInv, PlayersHaveIds, NEW a \in Int, NEW b \in Int, NEW c \in Int, NEW u \in Users,
           Prices({u}, a, b, c) \in Seq(Int)
    PROVE  /\ u + 1 \in DOMAIN job.slice_sizes
           /\ Total(Prices({u}, a, b, c)) = PriceOf(job.slice_sizes[u + 1], a, b, c)
<1> DEFINE N == Len(job.slice_sizes)
           P == Prices({u}, a, b, c)
<1>1. N \in Nat /\ DOMAIN job.slice_sizes = 1..N /\ u + 1 \in 1..N /\ u \in Nat
  <2>1. job \in Job /\ args.n_user_hint = N
    BY RowAssumption DEF AgreeInv, RowInv, RowArguments
  <2>2. N \in Nat /\ DOMAIN job.slice_sizes = 1..N
    BY <2>1 DEF Job
  <2> QED
    BY <2>1, <2>2 DEF Users
<1>2. \A k \in 1..N : UserOf(k) = k - 1
  BY <1>1, UserIsOwn DEF PlayersHaveIds
<1>3. \A k \in 1..N : P[k] = IF UserOf(k) \in {u} THEN PriceOf(job.slice_sizes[k], a, b, c) ELSE 0
  BY <1>1 DEF Prices
<1>4. Len(P) = N
  BY <1>1 DEF Prices
<1> HIDE DEF P, N
<1>5. \A k \in 1..N : k # u + 1 => P[k] = 0
  <2>1. \A k \in 1..N : k # u + 1 => k - 1 # u
    BY <1>1
  <2> QED
    BY <1>2, <1>3, <2>1
<1>6. (u + 1) - 1 = u
  BY <1>1
<1>7. P[u + 1] = PriceOf(job.slice_sizes[u + 1], a, b, c)
  BY <1>1, <1>2, <1>3, <1>6
<1>8. Total(P) = P[u + 1]
  BY <1>1, <1>4, <1>5, TotalOnly DEF P
<1> QED
  BY <1>1, <1>7, <1>8 DEF P

(***************************************************************************)
(* No player is done before the processors can have done its product.      *)
(***************************************************************************)
THEOREM ProductIsPaidForHolds == RowSpec => []ProductIsPaidFor
<1>1. AgreeInv => ProductIsPaidFor
  <2> SUFFICES ASSUME AgreeInv, phase = "done", NonNegativeDurations, PlayersHaveIds,
                      NothingWraps, NothingRoundedDown,
                      NEW u \in Users, NEW w \in DOMAIN procs,
                      \A v \in DOMAIN procs : procs[w] <= procs[v]
               PROVE  PlayersWork(job.slice_sizes[u + 1], procs[w])
                        <= Bandwidth * Total(procs) * times[u]
    BY DEF ProductIsPaidFor
  <2> DEFINE a == Bandwidth * One
             b == procs[w] * One
             c == procs[w] * Bandwidth * ConnectionSetup
             W == [k \in DOMAIN tasks |-> Price({u}, a, b, c)[tasks[k]]]
             rate == [v \in DOMAIN procs |-> Bandwidth * procs[v]]
  <2>1. /\ Bandwidth \in Nat /\ ConnectionSetup \in Nat /\ One \in Nat
        /\ procs \in [DOMAIN procs -> Nat] /\ procs[w] \in Nat
        /\ Len(procs) > 0 => {r.task : r \in Processed} = DOMAIN tasks
        /\ \A r \in Processed : r \in Started /\ r \in Completion
        /\ times[u] \in Nat /\ \A r \in Of(u) : r.time_end <= times[u]
    BY ReturnedState
  <2>2. TypeOK /\ LoopInv
    BY DEF AgreeInv, RowInv, SimInv, LoopInv
  <2>3. DOMAIN procs = 1..Len(procs) /\ Len(procs) \in Nat /\ Len(procs) > 0
    BY <2>2 DEF TypeOK
  <2>4. a \in Int /\ b \in Int /\ c \in Int
    BY <2>1
  <2> HIDE DEF a, b, c
  <2>5. /\ W \in Seq(Int) /\ Len(W) = Len(tasks)
        /\ Prices({u}, a, b, c) \in Seq(Int) /\ Total(W) = Total(Prices({u}, a, b, c))
    BY <2>4, ScheduledPrice
  <2>6. /\ u + 1 \in DOMAIN job.slice_sizes
        /\ Total(Prices({u}, a, b, c)) = PriceOf(job.slice_sizes[u + 1], a, b, c)
    BY <2>4, <2>5, OwnPrice
  <2>7. PlayersWork(job.slice_sizes[u + 1], procs[w])
          = PriceOf(job.slice_sizes[u + 1], a, b, c)
    BY <2>1, <2>6, WorkIsPrice DEF AgreeInv, a, b, c
  <2>8. rate \in [DOMAIN procs -> Nat] /\ Total(rate) = Bandwidth * Total(procs)
    BY <2>1, <2>3, RateTotal
  <2>9. ASSUME NEW r \in Processed, W[r.task] > 0
        PROVE  /\ W[r.task] <= rate[r.worker_index] * (r.time_end - r.time_start)
               /\ r.time_end <= times[u]
    <3> DEFINE t == r.task
               v == r.worker_index
               work == tasks[t].complexity
               bits == tasks[t].bits_to_transfer
               computed == TimeToComplete(procs[v], work)
               sent == Per(bits, Bandwidth)
               transfer == TransferTime(bits)
               takes == Duration(procs[v], tasks[t])
    <3>1. t \in DOMAIN tasks /\ v \in DOMAIN procs /\ r.time_start \in Int /\ r.time_end \in Int
      BY <2>1, DoubleInt DEF Completion
    <3>2. tasks[t] \in SimpleTask
      BY <2>2, <3>1 DEF TypeOK
    <3>3. work \in Nat /\ bits \in Nat /\ work \in Double /\ bits \in Double
      BY <3>2 DEF SimpleTask
    <3>4. W[t] = IF tasks[t].userid \in {u} THEN a * work + b * bits + c ELSE 0
      BY <3>1, <3>2 DEF Price
    <3>5. tasks[t].userid = u
      BY <2>9, <3>4
    <3>6. r \in Of(u)
      BY <3>5 DEF Of
    <3>7. procs[v] \in Nat /\ procs[w] <= procs[v] /\ procs[v] \in Double
      BY <2>1, <2>2, <3>1 DEF TypeOK, Mips
    <3>8. computed \in Int /\ sent \in Int /\ transfer \in Int /\ takes \in Int
      <4>1. computed \in Double /\ sent \in Double
        BY <3>3, <3>7, DoubleAssumption, InputsAssumption DEF TimeToComplete
      <4>2. transfer \in Double
        BY <4>1, DoubleAssumption, InputsAssumption DEF TransferTime
      <4>3. takes \in Double
        BY <3>2, <3>7, DurationType DEF Mips
      <4> QED
        BY <4>1, <4>2, <4>3, DoubleInt
    <3>9. /\ work * One <= procs[v] * computed
          /\ bits * One <= Bandwidth * sent
          /\ sent + ConnectionSetup <= transfer
          /\ computed + transfer <= takes
          /\ r.time_start + takes <= r.time_end
      BY <2>1, <3>1, Reckoned, PairsOf
    <3>11. rate[v] = Bandwidth * procs[v]
      BY <3>1
    <3> HIDE DEF work, bits, computed, sent, transfer, takes, rate, W
    <3>12. computed + sent + ConnectionSetup <= r.time_end - r.time_start
      <4>1. /\ computed \in Int /\ sent \in Int /\ transfer \in Int /\ takes \in Int
            /\ ConnectionSetup \in Int /\ r.time_start \in Int /\ r.time_end \in Int
        BY <2>1, <3>1, <3>8
      <4>2. /\ sent + ConnectionSetup <= transfer
            /\ computed + transfer <= takes
            /\ r.time_start + takes <= r.time_end
        BY <3>9, Zenon
      <4>3. \A x, y, z, d, e, k, l \in Int :
                y + z <= d /\ x + d <= e /\ k + e <= l => x + y + z <= l - k
        OBVIOUS
      <4> QED
        BY <4>1, <4>2, <4>3
    <3>13. r.time_end - r.time_start \in Int
      BY <3>1
    <3>14. (Bandwidth * One) * work + (procs[w] * One) * bits
               + (procs[w] * Bandwidth) * ConnectionSetup
             <= (Bandwidth * procs[v]) * (r.time_end - r.time_start)
      BY <2>1, <3>3, <3>7, <3>8, <3>9, <3>12, <3>13, TaskTakesTime
    <3>15. W[t] = (Bandwidth * One) * work + (procs[w] * One) * bits
                    + (procs[w] * Bandwidth) * ConnectionSetup
      BY <3>4, <3>5 DEF a, b, c
    <3>16. W[t] <= rate[v] * (r.time_end - r.time_start)
      BY <3>11, <3>14, <3>15, Zenon
    <3> QED
      BY <2>1, <3>6, <3>16
  <2> HIDE DEF W, rate
  <2>10. Total(W) <= Total(rate) * times[u]
    BY <2>1, <2>2, <2>3, <2>5, <2>8, <2>9, WorkTakesTime
  <2> QED
    BY <2>5, <2>6, <2>7, <2>8, <2>10, Zenon
<1> QED
  BY <1>1, AgreeInvariance, PTL
-------------------------------------------------------------------------------
(***************************************************************************)
(* One processor: it does one task after the other, and the reference of   *)
(* ListSchedule, which it follows as there are no other processors, has    *)
(* but one load.                                                           *)
(***************************************************************************)
AloneAfter(n) == GreedyLoads[n][1]

LEMMA OneAfterTheOther ==
    ASSUME AgreeInv, phase = "done", NonNegativeDurations, Len(procs) = 1, NEW r \in Processed
    PROVE  /\ r.task \in 1..Len(tasks) /\ r.worker_index = 1
           /\ r.time_start = AloneAfter(r.task - 1) /\ r.time_end = AloneAfter(r.task)
<1> DEFINE t == r.task
           before == GreedyLoads[t - 1]
<1>1. /\ TypeOK /\ DOMAIN procs = {1} /\ DOMAIN tasks = 1..Len(tasks) /\ Len(tasks) \in Nat
  <2>1. TypeOK
    BY DEF AgreeInv, RowInv, SimInv, LoopInv
  <2>2. procs \in Seq(Mips) /\ tasks \in Seq(SimpleTask)
    BY <2>1 DEF TypeOK
  <2>3. DOMAIN procs = 1..1
    BY <2>2
  <2> QED
    BY <2>1, <2>2, <2>3
<1>2. r \in Started /\ r \in Completion
  BY ReturnedState
<1>3. t \in 1..Len(tasks) /\ r.worker_index = 1
  BY <1>1, <1>2 DEF Completion
<1>4. IdenticalProcs
  BY <1>1 DEF IdenticalProcs
<1>5. r.time_start = before[1]
  BY <1>1, <1>2, <1>4 DEF AgreeInv, ReferenceInv, TiesDoNotMatter
<1>6. r.time_end = Plus(before[1], Costs[t])
  <2>1. Costs[t] = Duration(procs[1], tasks[t])
    BY <1>1, <1>3 DEF Costs
  <2> QED
    BY <1>2, <1>3, <1>5, <2>1 DEF AgreeInv, ReferenceInv, EndsAreCosts
<1>7. before \in [{1} -> Double] /\ GreedyLoads[t] = Give(before, Costs[t])
  <2>1. t - 1 \in 0..Len(tasks)
    BY <1>1, <1>3
  <2> QED
    BY <1>1, <1>3, <2>1, GreedyStep
<1> HIDE DEF t, before
<1>8. GreedyLoads[t][1] = Plus(before[1], Costs[t])
  <2> DEFINE w == CHOOSE v \in DOMAIN before : \A u \in DOMAIN before : before[v] <= before[u]
  <2>1. before[1] \in Int /\ DOMAIN before = {1}
    BY <1>7, DoubleInt
  <2>2. \E v \in DOMAIN before : \A u \in DOMAIN before : before[v] <= before[u]
    BY <2>1
  <2>3. w = 1
    BY <2>1, <2>2
  <2>4. GreedyLoads[t] = [before EXCEPT ![w] = Plus(before[w], Costs[t])]
    BY <1>7 DEF Give
  <2> HIDE DEF w
  <2> QED
    BY <2>1, <2>3, <2>4
<1> QED
  BY <1>3, <1>5, <1>6, <1>8 DEF AloneAfter, t, before

\* A product of three factors, regrouped.
LEMMA Regrouped ==
    ASSUME NEW p \in Int, NEW q \in Int, NEW x \in Int
    PROVE  (p * q) * x = p * (x * q) /\ (p * q) * x = p * (q * x)
OBVIOUS

\* The parts of a task's time, each at the same rate.
LEMMA RateDistributes ==
    ASSUME NEW rate \in Nat, NEW x \in Int, NEW y \in Int, NEW z \in Int
    PROVE  rate * (x + y + z) = rate * x + rate * y + rate * z
OBVIOUS

\* So far as it has come, the one processor has done the tasks it has had.
LEMMA AloneDone ==
    ASSUME AgreeInv, phase = "done", NonNegativeDurations, Len(procs) = 1,
           NEW W \in Seq(Int), Len(W) = Len(tasks), NEW rate \in Nat,
           \A r \in Processed : W[r.task] = rate * (r.time_end - r.time_start)
    PROVE  \A n \in 0..Len(tasks) : rate * AloneAfter(n) = PartialSums(W)[n]
<1> DEFINE N == Len(tasks)
           P == PartialSums(W)
           L(n) == AloneAfter(n)
<1>1. /\ N \in Nat /\ P[0] = 0
      /\ \A n \in 1..N : P[n] = P[n - 1] + W[n] /\ P[n - 1] \in Int
  <2>1. Len(W) \in Nat /\ P[0] = 0 /\ P \in [0..Len(W) -> Int]
        /\ \A n \in 1..Len(W) : P[n] = P[n - 1] + W[n]
    BY PartialSumsStep
  <2>2. \A n \in 1..N : n \in 1..Len(W) /\ n - 1 \in 0..Len(W)
    BY <2>1
  <2> HIDE DEF P
  <2> QED
    BY <2>1, <2>2
<1>2. TypeOK /\ 1 \in DOMAIN procs /\ DOMAIN tasks = 1..N
  <2>1. TypeOK
    BY DEF AgreeInv, RowInv, SimInv, LoopInv
  <2> QED
    BY <2>1 DEF TypeOK
<1>3. L(0) = 0 /\ \A n \in 0..N : L(n) \in Int
  BY <1>2, GreedyStep, DoubleInt DEF AloneAfter
<1>4. {r.task : r \in Processed} = 1..N
  BY <1>2, ReturnedState
<1> HIDE DEF P, N, L
<1> DEFINE A == {n \in Nat : n <= N => rate * L(n) = P[n]}
<1>5. 0 \in A
  BY <1>1, <1>3
<1>6. ASSUME NEW n \in Nat, n \in A
      PROVE  n + 1 \in A
  <2>1. SUFFICES ASSUME n + 1 <= N
                 PROVE  rate * L(n + 1) = P[n + 1]
    OBVIOUS
  <2>2. n + 1 \in 1..N /\ (n + 1) - 1 = n /\ n \in 0..N /\ n + 1 \in 0..N
    BY <1>1, <2>1
  <2>3. PICK r \in Processed : r.task = n + 1
    BY <1>4, <2>2
  <2>4. r.time_start = L(n) /\ r.time_end = L(n + 1)
    BY <2>2, <2>3, OneAfterTheOther DEF L
  <2>5. W[n + 1] = rate * (L(n + 1) - L(n))
    BY <2>3, <2>4
  <2>6. P[n + 1] = P[n] + W[n + 1] /\ P[n] = rate * L(n)
    BY <1>1, <1>6, <2>2
  <2>7. L(n) \in Int /\ L(n + 1) \in Int
    BY <1>3, <2>2
  <2>8. \A x, y \in Int : rate * x + rate * (y - x) = rate * y
    OBVIOUS
  <2>9. P[n + 1] = rate * L(n) + rate * (L(n + 1) - L(n))
    BY <2>5, <2>6, Zenon
  <2> QED
    BY <2>7, <2>8, <2>9, Zenon
<1> HIDE DEF A
<1>7. \A n \in Nat : n \in A
  BY <1>5, <1>6, Induction
<1>8. \A n \in 0..N : rate * L(n) = P[n]
  BY <1>1, <1>7 DEF A
<1> QED
  BY <1>8 DEF N, P, L

\* The work of all players.
LEMMA AllPrices ==
    ASSUME RowInv, NEW mips \in Nat, Bandwidth \in Nat, ConnectionSetup \in Nat
    PROVE  [k \in DOMAIN job.slice_sizes |-> PlayersWork(job.slice_sizes[k], mips)]
             = Prices(Nat, Bandwidth * One, mips * One, mips * Bandwidth * ConnectionSetup)
<1>1. DOMAIN job.slice_sizes = 1..Len(job.slice_sizes) /\ Len(job.slice_sizes) \in Nat
  <2>1. job \in Job
    BY RowAssumption DEF RowInv, RowArguments
  <2> QED
    BY <2>1 DEF Job
<1>2. \A k \in DOMAIN job.slice_sizes : UserOf(k) \in Nat
  BY <1>1, UserInRange
<1>3. \A k \in DOMAIN job.slice_sizes :
          PlayersWork(job.slice_sizes[k], mips)
            = PriceOf(job.slice_sizes[k], Bandwidth * One, mips * One,
                      mips * Bandwidth * ConnectionSetup)
  BY WorkIsPrice
<1> QED
  BY <1>2, <1>3 DEF Prices

(***************************************************************************)
(* One processor does all the work there is, and nothing else: it never    *)
(* waits, and the last player's time is the time of its last task.         *)
(***************************************************************************)
THEOREM OneProcessorDoesItAllHolds == RowSpec => []OneProcessorDoesItAll
<1>1. AgreeInv => OneProcessorDoesItAll
  <2> DEFINE all == Total([k \in DOMAIN job.slice_sizes |->
                              PlayersWork(job.slice_sizes[k], procs[1])])
             rate == Bandwidth * procs[1]
             a == Bandwidth * One
             b == procs[1] * One
             c == procs[1] * Bandwidth * ConnectionSetup
             W == [k \in DOMAIN tasks |-> Price(Nat, a, b, c)[tasks[k]]]
             P == PartialSums(W)
             N == Len(tasks)
  <2> SUFFICES ASSUME AgreeInv, phase = "done", Len(procs) = 1, NonNegativeDurations,
                      NothingWraps, AllExact
               PROVE  /\ \A u \in Users : rate * times[u] <= all
                      /\ \E u \in Users : rate * times[u] = all
    BY DEF OneProcessorDoesItAll
  <2>1. /\ Bandwidth \in Nat /\ ConnectionSetup \in Nat /\ One \in Nat
        /\ procs \in [DOMAIN procs -> Nat]
        /\ {r.task : r \in Processed} = DOMAIN tasks
        /\ \A r \in Processed : r \in Started /\ r \in Completion
        /\ \A u \in Users : times[u] \in Nat /\ \A r \in Of(u) : r.time_end <= times[u]
    BY ReturnedState
  <2>2. TypeOK /\ RowInv /\ ArgumentsOK /\ TimesAreFinishTimes
    BY ScanFindsTimes DEF AgreeInv, RowInv, SimInv, LoopInv
  <2>3. 1 \in DOMAIN procs /\ N \in Nat /\ DOMAIN tasks = 1..N
    BY <2>2 DEF TypeOK
  <2>4. procs[1] \in Nat /\ procs[1] \in Double
    <3>1. procs[1] \in Nat
      BY <2>1, <2>3
    <3>2. procs \in Seq(Double)
      BY <2>2 DEF TypeOK, Mips
    <3>3. procs[1] \in Double
      BY <2>3, <3>2
    <3> QED
      BY <3>1, <3>3
  <2>5. a \in Int /\ b \in Int /\ c \in Int /\ rate \in Nat
    BY <2>1, <2>4
  <2>6. all = Total(Prices(Nat, a, b, c))
    BY <2>1, <2>2, <2>4, AllPrices
  <2> HIDE DEF a, b, c, all
  <2>7. W \in Seq(Int) /\ Len(W) = N /\ Total(W) = all
    <3>1. AgreeInv /\ phase = "done" /\ NothingWraps
      OBVIOUS
    <3>2. W \in Seq(Int) /\ Len(W) = N /\ Total(W) = Total(Prices(Nat, a, b, c))
      BY <2>5, <3>1, ScheduledPrice, Zenon
    <3> QED
      BY <2>6, <3>2, Zenon
  <2>8. ASSUME NEW r \in Processed
        PROVE  /\ W[r.task] = rate * (r.time_end - r.time_start) /\ 0 <= W[r.task]
               /\ r.task \in 1..N /\ r.time_end = AloneAfter(r.task)
    <3> DEFINE t == r.task
               work == tasks[t].complexity
               bits == tasks[t].bits_to_transfer
               computed == TimeToComplete(procs[1], work)
               sent == Per(bits, Bandwidth)
               transfer == TransferTime(bits)
               takes == Duration(procs[1], tasks[t])
               time == r.time_end - r.time_start
    <3>1. t \in 1..N /\ r.worker_index = 1 /\ r.time_end = AloneAfter(t)
      BY OneAfterTheOther
    <3>2. r.time_start \in Int /\ r.time_end \in Int
      BY <2>1, DoubleInt DEF Completion
    <3>3. tasks[t] \in SimpleTask
      BY <2>2, <2>3, <3>1 DEF TypeOK
    <3>4. work \in Nat /\ bits \in Nat /\ work \in Double /\ bits \in Double
          /\ tasks[t].userid \in Nat
      BY <3>3 DEF SimpleTask
    <3>5. W[t] = a * work + b * bits + c
      BY <2>3, <3>1, <3>3, <3>4 DEF Price
    <3>6. computed \in Int /\ sent \in Int /\ transfer \in Int /\ takes \in Int
      <4>1. computed \in Double /\ sent \in Double
        BY <2>4, <3>4, DoubleAssumption, InputsAssumption DEF TimeToComplete
      <4>2. transfer \in Double
        BY <4>1, DoubleAssumption, InputsAssumption DEF TransferTime
      <4>3. takes \in Double
        BY <2>4, <3>3, DurationType DEF Mips
      <4> QED
        BY <4>1, <4>2, <4>3, DoubleInt
    <3>7. /\ work * One = procs[1] * computed
          /\ bits * One = Bandwidth * sent
          /\ sent + ConnectionSetup = transfer
          /\ computed + transfer = takes
          /\ r.time_start + takes = r.time_end
      BY <2>1, <2>3, <3>1, Reckoned, PairsOf
    <3> HIDE DEF work, bits, computed, sent, transfer, takes, rate, W
    <3>8. computed + sent + ConnectionSetup = time /\ time \in Int
      BY <2>1, <3>2, <3>6, <3>7
    <3> HIDE DEF time
    <3>9. /\ work * One = procs[1] * computed
          /\ bits * One = Bandwidth * sent
      BY <3>7
    <3>10. /\ (Bandwidth * One) * work + (procs[1] * One) * bits
                  + (procs[1] * Bandwidth) * ConnectionSetup
                = (Bandwidth * procs[1]) * time
           /\ 0 <= (Bandwidth * One) * work + (procs[1] * One) * bits
                     + (procs[1] * Bandwidth) * ConnectionSetup
      <4>1. /\ Bandwidth \in Nat /\ ConnectionSetup \in Nat /\ One \in Nat /\ procs[1] \in Nat
            /\ work \in Nat /\ bits \in Nat /\ computed \in Int /\ sent \in Int /\ time \in Int
        BY <2>1, <2>4, <3>4, <3>6, <3>8
      <4>2. computed + sent + ConnectionSetup = time
        BY <3>8
      <4> DEFINE mips == procs[1]
      <4> HIDE DEF mips
      <4>3. mips \in Nat /\ work * One = mips * computed
        BY <3>9, <4>1 DEF mips
      <4>4. bits * One = Bandwidth * sent /\ Bandwidth * mips = mips * Bandwidth
        BY <3>9, <4>1, <4>3
      <4>5. (Bandwidth * One) * work = (Bandwidth * mips) * computed
        <5>1. Bandwidth \in Nat /\ One \in Nat /\ work \in Nat /\ computed \in Int
          BY <4>1
        <5>2. (Bandwidth * One) * work = Bandwidth * (work * One)
          BY <5>1, Regrouped
        <5>3. (Bandwidth * mips) * computed = Bandwidth * (mips * computed)
          BY <4>3, <5>1, Regrouped
        <5> QED
          BY <4>3, <5>2, <5>3, Zenon
      <4>6. (mips * One) * bits = (Bandwidth * mips) * sent
        <5>1. Bandwidth \in Nat /\ One \in Nat /\ bits \in Nat /\ sent \in Int
          BY <4>1
        <5>2. (mips * One) * bits = mips * (bits * One)
          BY <4>3, <5>1, Regrouped
        <5>3. (mips * Bandwidth) * sent = mips * (Bandwidth * sent)
          BY <4>3, <5>1, Regrouped
        <5> QED
          BY <4>4, <5>2, <5>3, Zenon
      <4>7. (Bandwidth * mips) * time
              = (Bandwidth * mips) * computed + (Bandwidth * mips) * sent
                  + (Bandwidth * mips) * ConnectionSetup
        <5>1. Bandwidth * mips \in Nat /\ ConnectionSetup \in Int
              /\ computed \in Int /\ sent \in Int
          BY <4>1, <4>3
        <5>2. (Bandwidth * mips) * (computed + sent + ConnectionSetup)
                = (Bandwidth * mips) * computed + (Bandwidth * mips) * sent
                    + (Bandwidth * mips) * ConnectionSetup
          BY <5>1, RateDistributes, Zenon
        <5> QED
          BY <4>2, <5>2, Zenon
      <4>8. (Bandwidth * One) * work + (mips * One) * bits + (mips * Bandwidth) * ConnectionSetup
              = (Bandwidth * mips) * time
        BY <4>4, <4>5, <4>6, <4>7, Zenon
      <4>9. 0 <= (Bandwidth * One) * work + (mips * One) * bits
                   + (mips * Bandwidth) * ConnectionSetup
        <5> DEFINE X == (Bandwidth * One) * work
                   Y == (mips * One) * bits
                   Z == (mips * Bandwidth) * ConnectionSetup
        <5>1. X \in Nat /\ Y \in Nat /\ Z \in Nat
          BY <4>1, <4>3
        <5> HIDE DEF X, Y, Z
        <5>2. 0 <= X + Y + Z
          BY <5>1
        <5> QED
          BY <5>2 DEF X, Y, Z
      <4> QED
        BY <4>8, <4>9 DEF mips
    <3>11. W[t] = (Bandwidth * One) * work + (procs[1] * One) * bits
                    + (procs[1] * Bandwidth) * ConnectionSetup
      BY <3>5 DEF a, b, c
    <3>12. W[t] = rate * (r.time_end - r.time_start) /\ 0 <= W[t]
      BY <3>10, <3>11, Zenon DEF rate, time
    <3> QED
      BY <3>1, <3>12
  <2> HIDE DEF W, rate
  <2>9. \A n \in 0..N : rate * AloneAfter(n) = P[n]
    BY <2>5, <2>7, <2>8, AloneDone
  <2>10. \A n \in 0..N : P[n] <= all
    <3>1. \A n \in 1..N : 0 <= W[n]
      BY <2>1, <2>3, <2>8
    <3> QED
      BY <2>7, <3>1, TotalOfBeginning
  <2>11. P[0] = 0 /\ P[N] = all /\ all \in Int
    <3>1. P[0] = 0
      BY <2>7, PartialSumsStep
    <3> QED
      BY <2>7, <3>1, TotalType DEF Total
  <2> HIDE DEF P
  <2>12. ASSUME NEW u \in Users
         PROVE  rate * times[u] <= all
    <3>1. IF Of(u) = {} THEN times[u] = 0 ELSE \E r \in Of(u) : times[u] = r.time_end
      BY <2>2 DEF TimesAreFinishTimes
    <3>2. CASE Of(u) = {}
      <4>1. rate * times[u] = 0
        BY <2>5, <3>1, <3>2
      <4>2. 0 <= all
        BY <2>3, <2>10, <2>11
      <4> QED
        BY <4>1, <4>2
    <3>3. CASE Of(u) # {}
      <4>1. PICK r \in Of(u) : times[u] = r.time_end
        BY <3>1, <3>3
      <4>2. r \in Processed
        BY DEF Of
      <4>3. r.task \in 0..N /\ times[u] = AloneAfter(r.task)
        BY <2>3, <2>8, <4>1, <4>2
      <4>4. rate * times[u] = P[r.task]
        BY <2>9, <4>3
      <4> QED
        BY <2>10, <4>3, <4>4
    <3> QED
      BY <3>2, <3>3
  <2>13. \E u \in Users : all <= rate * times[u]
    <3>1. CASE N = 0
      <4>1. 0 \in Users
        <5>1. job \in Job /\ job.slice_sizes # <<>> /\ args.n_user_hint = Len(job.slice_sizes)
          BY <2>2, RowAssumption DEF RowInv, RowArguments
        <5>2. Len(job.slice_sizes) \in Nat /\ Len(job.slice_sizes) # 0
          BY <5>1 DEF Job
        <5> QED
          BY <5>1, <5>2 DEF Users
      <4>2. times[0] \in Nat
        BY <2>1, <4>1
      <4>3. rate * times[0] \in Nat
        BY <2>5, <4>2
      <4>4. all = 0
        BY <2>11, <3>1
      <4> QED
        BY <4>1, <4>3, <4>4
    <3>2. CASE N > 0
      <4>1. N \in DOMAIN tasks /\ N \in 0..N
        BY <2>3, <3>2
      <4>2. PICK r \in Processed : r.task = N
        BY <2>1, <4>1
      <4> DEFINE u == tasks[N].userid
      <4>3. u \in Users
        BY <2>2, <4>1 DEF ArgumentsOK
      <4>4. r \in Of(u)
        BY <4>2 DEF Of
      <4>5. r.time_end <= times[u] /\ r.time_end \in Int /\ times[u] \in Nat
        BY <2>1, <4>3, <4>4, DoubleInt DEF Completion
      <4>6. rate * r.time_end = all
        BY <2>8, <2>9, <2>11, <4>1, <4>2
      <4>7. rate * r.time_end <= rate * times[u]
        BY <2>5, <4>5, Scaled
      <4> QED
        BY <4>3, <4>6, <4>7
    <3> QED
      BY <2>3, <3>1, <3>2
  <2>14. PICK u \in Users : all <= rate * times[u]
    BY <2>13
  <2>15. rate * times[u] \in Int
    BY <2>1, <2>5
  <2>16. rate * times[u] = all
    BY <2>11, <2>12, <2>14, <2>15
  <2> QED
    BY <2>12, <2>16
<1> QED
  BY <1>1, AgreeInvariance, PTL
===============================================================================
