--------------------------------- MODULE Sums ---------------------------------
(***************************************************************************)
(* Sums of lists of numbers: the capacity create_tasks reserves, and what  *)
(* properties say about work and traffic.  Recursive functions, so that    *)
(* the provers can be told of them.                                        *)
(***************************************************************************)
EXTENDS Integers, Sequences

\* The sums of the beginnings of a list, and its sum.
PartialSums(s) ==
    LET sum[n \in 0..Len(s)] == IF n = 0 THEN 0 ELSE sum[n - 1] + s[n]
    IN  sum
Total(s) == PartialSums(s)[Len(s)]
===============================================================================
