---------------------------- MODULE MCMatMulTasks -----------------------------
(***************************************************************************)
(* An instance of MatMulTasks for TLC, with 10-bit sizes and 2-bit users.  *)
(***************************************************************************)
EXTENDS MatMulTasks

\* With 10 bits, order 96 in slices of 64 makes edge blocks of 32*64 = 0 mod 2^10.
MCProblemSizes == 0..10 \cup {96}
MCSlices == {0, 1, 2, 3, 4, 5, 7, 64}

MCJobInputs ==
    [problem_size : MCProblemSizes,
     slice_sizes : UNION {[1..n -> MCSlices] : n \in 1..3}]
===============================================================================
