-------------------------------- MODULE MCDriver --------------------------------
(***************************************************************************)
(* Instances of Driver for TLC.                                            *)
(***************************************************************************)
EXTENDS Driver

CONSTANTS
    MaxRandomize,    \* bound of randomize_count
    SliceLists       \* the values of --slices in the sweep

Default ==
    [request |-> "sweep", slices |-> <<1, 2>>, fix_first |-> 0, randomize_count |-> 1,
     single_player |-> FALSE, sim_log |-> FALSE, output_opens |-> TRUE, log_opens |-> TRUE]

\* Every way to get past the options, or not.
Startups ==
    {[Default EXCEPT !.request = r, !.output_opens = o, !.sim_log = g] :
        r \in {"sweep", "help", "unknown_option", "missing_option", "bad_priority"},
        o \in BOOLEAN, g \in BOOLEAN}

\* Sweeps over short lists of slice sizes, which may repeat or be 0, and over short
\* ranges, which may be empty or malformed; the longest has four rows.
Sweeps ==
    {opt \in {[Default EXCEPT !.slices = l, !.fix_first = f, !.randomize_count = r,
                              !.single_player = s, !.sim_log = g, !.log_opens = h] :
                 l \in SliceLists, f \in {0, 2}, r \in 0..MaxRandomize, s \in BOOLEAN,
                 g \in BOOLEAN, h \in BOOLEAN} :
        Len(opt.slices) <= 3 \/ opt.single_player \/ opt.fix_first # 0}

MCSweepInputs == Startups \cup Sweeps
MCSliceLists == {<<1>>, <<1, 2>>, <<2, 2>>, <<1, 0>>, <<1, 2, 1, 3>>,
                 <<1, 3, 1>>, <<1, 1, 1>>, <<1, 2, 0>>, <<3, 1, 1>>}

\* Every range of slice sizes, single player.
MCRangeInputs ==
    {[Default EXCEPT !.slices = l, !.single_player = TRUE, !.randomize_count = 2,
                     !.output_opens = o] : l \in [1..3 -> Size], o \in BOOLEAN}
===============================================================================
