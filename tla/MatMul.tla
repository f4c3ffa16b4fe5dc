-------------------------------- MODULE MatMul --------------------------------
(***************************************************************************)
(* smpp::mmsim: a square matrix product of order problem_size is cut into  *)
(* blocks of slice_size, one task per block of the result; create_tasks    *)
(* does so for every slice size of a list, one user each.  Equal tasks     *)
(* that are inserted together are kept as a run.                           *)
(*                                                                         *)
(* size_t arithmetic wraps at 2^SizeBits and user ids at 2^UserIdBits (64  *)
(* and 8 in the program).  Complexities are doubles in the code and exact  *)
(* integers here.                                                          *)
(***************************************************************************)
EXTENDS Sums

CONSTANTS
    SizeBits,        \* width of size_t
    UserIdBits,      \* width of userid_type
    BitsPerNumber    \* 8*sizeof(double)

SizeMod == 2^SizeBits
UserIdMod == 2^UserIdBits
Size == 0..(SizeMod - 1)
Job == [problem_size : Size, slice_sizes : Seq(Size)]

\* That powers of two are positive is no restriction: the provers know no powers.
ASSUME WidthsAssumption ==
    /\ SizeBits \in Nat /\ UserIdBits \in Nat
    /\ SizeMod \in Nat \ {0} /\ UserIdMod \in Nat \ {0}
    /\ BitsPerNumber \in Nat \ {0}

S == INSTANCE SequencesExt
-------------------------------------------------------------------------------
Wrap(n) == n % SizeMod
NFull(p, s) == p \div s
Partial(p, s) == p % s

\* Faulty variant of NumberOfTasks: the corner block is forgotten.
NumberOfTasksNoCorner(p, s) ==
    IF Partial(p, s) # 0 THEN Wrap(NFull(p, s) * (NFull(p, s) + 2))
    ELSE Wrap(NFull(p, s) * NFull(p, s))

NumberOfTasks(p, s) ==
    IF Partial(p, s) # 0 THEN Wrap(NFull(p, s) * (NFull(p, s) + 2) + 1)
    ELSE Wrap(NFull(p, s) * NFull(p, s))

\* calculate_number_of_tasks of a list: the capacity reserved for the result.  The
\* sum wraps as it grows, which is the same as wrapping in the end.
Reserved(job) ==
    Wrap(Total([k \in DOMAIN job.slice_sizes |->
                   NumberOfTasks(job.problem_size, job.slice_sizes[k])]))

\* Faulty variant of Complexity: only one of the two factors is transferred.
ComplexityOneFactor(m, n, kk) ==
    [flops |-> Wrap(m * kk) * (2 * n - 1), numbers |-> Wrap(m * n + m * kk)]

\* calculate_complexity: an m x n matrix by an n x kk one.  The product m*k and
\* the count of numbers are size_t, the rest is double.
Complexity(m, n, kk) ==
    [flops |-> Wrap(m * kk) * (2 * n - 1), numbers |-> Wrap(m * n + n * kk + m * kk)]

\* SimpleTask::create
Create(c, user) ==
    [complexity       |-> c.flops,
     bits_to_transfer |-> Wrap(BitsPerNumber * c.numbers),
     userid           |-> user]

Run(n, c, user) == [count |-> Wrap(n), task |-> Create(c, user)]

\* Faulty variant of Blocks: the edge blocks are inserted on one side only.
BlocksOneEdge(p, s, user) ==
    LET n == NFull(p, s)
        r == Partial(p, s)
        edge == Complexity(r, p, s)
    IN  <<Run(n * n, Complexity(s, p, s), user)>> \o
        (IF r # 0 /\ edge.flops # 0
         THEN <<Run(n, edge, user), Run(1, Complexity(r, p, r), user)>> ELSE <<>>)

\* The tasks of one slice size: the full blocks, the blocks on the two edges
\* and the corner.  That there are edges is read off the edge's complexity.
Blocks(p, s, user) ==
    LET n == NFull(p, s)
        r == Partial(p, s)
        edge == Complexity(r, p, s)
    IN  <<Run(n * n, Complexity(s, p, s), user)>> \o
        (IF r # 0 /\ edge.flops # 0
         THEN <<Run(2 * n, edge, user), Run(1, Complexity(r, p, r), user)>> ELSE <<>>)

\* The user of the k-th slice size; the faulty variant counts from 1.
UserFromOne(k) == k
UserOf(k) == (k - 1) % UserIdMod

\* What the loop of create_tasks inserts, as runs, and how many tasks these are.
Inserted(job) ==
    S!FlattenSeq([k \in DOMAIN job.slice_sizes |->
                     Blocks(job.problem_size, job.slice_sizes[k], UserOf(k))])

TaskCount(runs) == Total([k \in DOMAIN runs |-> runs[k].count])

\* The vector, task by task.
Expanded(runs) ==
    S!FlattenSeq([k \in DOMAIN runs |-> [n \in 1..runs[k].count |-> runs[k].task]])
-------------------------------------------------------------------------------
\* Nothing wraps while the tasks of this slice size are made.
Fits(p, s) ==
    LET blocks == NFull(p, s) + 1
    IN  /\ blocks * blocks < SizeMod
        /\ BitsPerNumber * (2 * p * s + s * s) < SizeMod

BlocksPerSide(p, s) == IF Partial(p, s) = 0 THEN NFull(p, s) ELSE NFull(p, s) + 1

\* What a product of order p takes, and what has to be sent for it when it is cut
\* into blocks of s: each factor once per block row or column, the result once.
ProductFlops(p) == p * p * (2 * p - 1)
ProductBits(p, s) == BitsPerNumber * (2 * p * p * BlocksPerSide(p, s) + p * p)
===============================================================================
