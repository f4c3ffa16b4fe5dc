------------------------------ MODULE MiniDouble ------------------------------
(***************************************************************************)
(* The double arithmetic of the program in the small, for TLC.  Numbers    *)
(* are multiples of 1/Ticks up to Exact, only multiples of Grain beyond    *)
(* it, and infinite at Infinity.  There is no NaN and no negative zero.    *)
(***************************************************************************)
EXTENDS Integers

CONSTANTS
    Ticks,      \* the unit: Ticks to 1
    Exact,      \* the mantissa is exhausted
    Grain,      \* the distance of the numbers from there on
    Infinity,
    Low         \* nothing is below -Low

Round(x) ==
    CASE x < -Low -> -Low
      [] x >= -Low /\ x <= Exact -> x
      [] x > Exact /\ x < Infinity -> ((x + (Grain \div 2)) \div Grain) * Grain
      [] x >= Infinity -> Infinity

MiniDoubles == {Round(x) : x \in -Low..Infinity}

\* Tables of sums and of quotients.  A quotient is cut off to a multiple of the
\* unit; division by 0 gives infinity.
Numbers == -Low..Infinity
Sums ==
    [x \in Numbers |-> [y \in Numbers |->
        IF Infinity \in {x, y} THEN Infinity ELSE Round(x + y)]]
Quotients ==
    [x \in Numbers |-> [y \in Numbers |->
        CASE y = 0 -> Infinity
          [] y > 0 -> Round((x * Ticks) \div y)
          [] y < 0 -> Round(-((x * Ticks) \div (-y)))]]

RoundedSum(x, y) == Sums[x][y]
RoundedQuotient(x, y) == Quotients[x][y]
===============================================================================
