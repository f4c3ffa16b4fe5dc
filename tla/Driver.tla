-------------------------------- MODULE Driver ---------------------------------
(***************************************************************************)
(* main(): reads the options, expands the slice sizes, and writes one row  *)
(* to the output file for every slice size (single player) or pair of      *)
(* slice sizes, each the mean of randomize_count simulations.  Here these  *)
(* are only counted; Row has what they compute, and implements the steps   *)
(* this module takes for them.                                             *)
(*                                                                         *)
(* A file is the sequence of pieces written to its stream, the first       *)
(* `synced` of which have been flushed; an incomplete piece does not count.*)
(* Every line of the log is flushed.                                       *)
(***************************************************************************)
EXTENDS Integers, Sequences, FiniteSets

CONSTANTS
    SizeBits,      \* width of size_t
    MaxSize,       \* max_size() of the slice vector: more throws length_error
    OptionInputs   \* the command lines: records of type Options

SizeMod == 2^SizeBits
Size == 0..(SizeMod - 1)
Wrap(n) == n % SizeMod

Options ==
    [request : {"sweep", "help", "unknown_option", "missing_option", "bad_priority"},
     slices : Seq(Size), fix_first : Size, randomize_count : Nat,
     single_player : BOOLEAN, sim_log : BOOLEAN,
     output_opens : BOOLEAN, log_opens : BOOLEAN]   \* the files can be created

ASSUME DriverAssumption ==
    /\ SizeBits \in Nat /\ MaxSize \in 1..(SizeMod - 1)
    /\ OptionInputs \subseteq Options
    \* multitoken options have a value
    /\ \A opt \in OptionInputs : opt.slices # <<>>

VARIABLES
    opts,      \* the options
    pc,        \* what main() does next, or how the process ended
    slices,    \* the slice sizes of the sweep
    i,         \* the counter of the loop that expands them
    a, b,      \* the positions of the sweep's two loops
    runs,      \* the number of simulations times_array is the sum of
    file,      \* the output file
    synced,    \* how much of it has been flushed
    good,      \* the stream has not failed
    log,       \* the log file: a block for every row that is logged
    log_good   \* the stream of the log is open and has not failed

inputs == <<opts, slices, i>>
output == <<file, synced, good>>
logging == <<log, log_good>>
sweep_vars == <<a, b, runs, logging, output>>
vars == <<pc, inputs, sweep_vars>>

Ended == {"returned", "caught", "crashed", "killed"}
-------------------------------------------------------------------------------
\* Both files may hold the results of an earlier call.
Init ==
    /\ opts \in OptionInputs
    /\ pc = "options"
    /\ slices = <<>> /\ i = 0
    /\ a = 1 /\ b = 1 /\ runs = 0
    /\ file = <<[kind |-> "earlier"]>> /\ synced = 1 /\ good = TRUE
    /\ log = <<[kind |-> "earlier"]>> /\ log_good = FALSE

\* Faulty variant of Flushed: the row stays in the stream.
FlushedNever == UNCHANGED synced

\* operator<< does nothing on a stream that has failed.
Put(piece) == file' = IF good THEN Append(file, piece) ELSE file
Flushed == synced' = Len(file')

\* What is in the stream and not in the file is written in part, or lost.
LoseBuffer == \E n \in synced..Len(file) : file' = SubSeq(file, 1, n)
Die == LoseBuffer /\ Flushed /\ UNCHANGED good

\* --help is answered before required options are asked for.
ReadOptions ==
    /\ pc = "options"
    /\ pc' = CASE opts.request = "sweep" -> "slices"
               [] opts.request = "help" -> "returned"
               [] OTHER -> "caught"
    /\ UNCHANGED <<inputs, sweep_vars>>

IsRange == Len(opts.slices) = 3
slice_start == opts.slices[1]
slice_end == opts.slices[2]
slice_step == opts.slices[3]
Reservation == Wrap(slice_end - slice_start + 1) \div slice_step

TakeSlices ==
    /\ pc = "slices"
    /\ ~IsRange
    /\ slices' = opts.slices
    /\ pc' = "log"
    /\ UNCHANGED <<opts, i, sweep_vars>>

\* slices.reserve(...): a step of 0 divides by zero, a range that wraps may
\* exceed what a vector can hold.
ReserveSlices ==
    /\ pc = "slices"
    /\ IsRange
    /\ \/ slice_step = 0 /\ pc' = "crashed"
       \/ slice_step # 0 /\ Reservation > MaxSize /\ pc' = "caught"
       \/ slice_step # 0 /\ Reservation <= MaxSize /\ pc' = "expand"
    /\ i' = slice_start
    /\ UNCHANGED <<opts, slices, sweep_vars>>

\* Faulty variants of InRange and NextSlice: the loop takes its bound as well;
\* its counter is wider than a slice size.
InRangeInclusive == i <= slice_end
NextSliceWide == i + slice_step
InRange == i < slice_end
NextSlice == Wrap(i + slice_step)

\* i += slice_step wraps: the vector then grows until an allocation throws, or
\* until i happens to land beyond slice_end.
ExpandSlice ==
    /\ pc = "expand"
    /\ InRange
    /\ \/ /\ Len(slices) < MaxSize
          /\ slices' = Append(slices, i)
          /\ i' = NextSlice
          /\ UNCHANGED pc
       \/ /\ Len(slices) = MaxSize
          /\ pc' = "caught"
          /\ UNCHANGED <<slices, i>>
    /\ UNCHANGED <<opts, sweep_vars>>

ExpandOver ==
    /\ pc = "expand"
    /\ ~InRange
    /\ pc' = "log"
    /\ UNCHANGED <<inputs, sweep_vars>>

LogOpens == opts.sim_log /\ opts.log_opens

\* The log is opened, and emptied, before the output; that it opens is not checked.
OpenLog ==
    /\ pc = "log"
    /\ pc' = "open"
    /\ log' = IF LogOpens THEN <<>> ELSE log
    /\ log_good' = LogOpens
    /\ UNCHANGED <<inputs, a, b, runs, output>>

\* Faulty variants of OpenFile: it tries again until the file opens; it has
\* emptied the file when it gives up.
OpenFileRetry ==
    /\ pc = "open"
    /\ opts.output_opens
    /\ pc' = "header"
    /\ file' = <<>> /\ synced' = 0
    /\ UNCHANGED <<inputs, a, b, runs, logging, good>>
OpenFileTooEarly ==
    /\ pc = "open"
    /\ pc' = IF opts.output_opens THEN "header" ELSE "caught"
    /\ file' = <<>> /\ synced' = 0
    /\ UNCHANGED <<inputs, a, b, runs, logging, good>>

\* What the file held is gone.
OpenFile ==
    /\ pc = "open"
    /\ \/ opts.output_opens /\ pc' = "header" /\ file' = <<>> /\ synced' = 0
       \/ ~opts.output_opens /\ pc' = "caught" /\ UNCHANGED <<file, synced>>
    /\ UNCHANGED <<inputs, a, b, runs, logging, good>>

\* The first line of the header, the parameters, is flushed.  write_to_stream reads
\* *begin unasked and goes on until it meets end: of an empty vector it reads on
\* until the process faults.
WriteHeader ==
    /\ pc = "header"
    /\ \/ slices # <<>> /\ pc' = "row" /\ Put([kind |-> "header"]) /\ Flushed /\ UNCHANGED good
       \/ slices = <<>> /\ pc' = "crashed" /\ Put([kind |-> "parameters"]) /\ Flushed
                        /\ UNCHANGED good
    /\ UNCHANGED <<inputs, a, b, runs, logging>>

Single == opts.single_player
f_s == IF opts.fix_first = 0 THEN slices ELSE <<opts.fix_first>>
FirstSlices == IF Single THEN slices ELSE f_s
SecondSlices == IF Single THEN <<0>> ELSE slices
Row(m, n) == IF Single THEN <<slices[m]>> ELSE <<f_s[m], slices[n]>>
RowHasZero == \E n \in DOMAIN Row(a, b) : Row(a, b)[n] = 0

\* The slice sizes are written before anything is computed.
BeginRow ==
    /\ pc = "row"
    /\ a <= Len(FirstSlices)
    /\ Put([kind |-> "prefix", row |-> Row(a, b)])
    /\ pc' = "first"
    /\ UNCHANGED <<inputs, a, b, runs, logging, synced, good>>

\* main() returns and closes its stream.
SweepOver ==
    /\ pc = "row"
    /\ a > Len(FirstSlices)
    /\ pc' = "returned"
    /\ UNCHANGED <<inputs, a, b, runs, logging, file, good>>
    /\ Flushed

\* Faulty variants of LogBlock and FirstSum: single player rows are not logged;
\* times_array keeps the sum of the row before.
LogBlockOfPairs ==
    IF opts.sim_log /\ log_good /\ ~Single
    THEN Append(log, [kind |-> "block", row |-> Row(a, b)]) ELSE log
FirstSumOnTop == runs + 1

LogBlock ==
    IF opts.sim_log /\ log_good
    THEN Append(log, [kind |-> "block", row |-> Row(a, b)]) ELSE log
FirstSum == 1

\* Only the first simulation of a row is logged.
FirstRun ==
    /\ pc = "first"
    /\ ~RowHasZero
    /\ runs' = FirstSum
    /\ log' = LogBlock
    /\ pc' = "average"
    /\ UNCHANGED <<inputs, a, b, log_good, output>>

RunsRemain == ~Single /\ runs < opts.randomize_count

NextRun ==
    /\ pc = "average"
    /\ RunsRemain
    /\ runs' = runs + 1
    /\ UNCHANGED <<pc, inputs, a, b, logging, output>>

\* create_tasks divides by the slice size, which ends the process; it and simulate
\* allocate, and std::random_device may fail, which ends in a handler.
RunFails ==
    /\ \/ pc = "first" /\ RowHasZero /\ pc' = "crashed" /\ Die
       \/ /\ pc = "first" \/ (pc = "average" /\ RunsRemain)
          /\ pc' = "caught"
          /\ UNCHANGED <<file, good>>
          /\ Flushed
    /\ UNCHANGED <<inputs, a, b, runs, logging>>

Divisor == IF Single \/ opts.randomize_count = 0 THEN 1 ELSE opts.randomize_count

\* Faulty variant of AdvanceRow: the last slice size of the inner loop is left out.
AdvanceEarly ==
    IF b + 1 < Len(SecondSlices) THEN a' = a /\ b' = b + 1 ELSE a' = a + 1 /\ b' = 1
AdvanceRow ==
    IF b < Len(SecondSlices) THEN a' = a /\ b' = b + 1 ELSE a' = a + 1 /\ b' = 1

WriteTimes ==
    /\ pc = "average"
    /\ ~RunsRemain
    /\ Put([kind |-> "times", row |-> Row(a, b), runs |-> runs, divisor |-> Divisor])
    /\ Flushed
    /\ AdvanceRow
    /\ pc' = "row"
    /\ UNCHANGED <<inputs, runs, logging, good>>

\* The disk is full, say.  main() never looks at the state of its stream.
WriteError ==
    /\ pc \in {"header", "row", "first", "average"}
    /\ good
    /\ good' = FALSE
    /\ LoseBuffer
    /\ UNCHANGED <<pc, inputs, a, b, runs, logging, synced>>

\* The block of a row does not get into the log, or only in part.  main() never looks
\* at the state of this stream either.
LogWriteError ==
    /\ pc = "first"
    /\ log_good
    /\ log_good' = FALSE
    /\ UNCHANGED <<pc, inputs, a, b, runs, log, output>>

\* The user or the system ends the process.
Killed ==
    /\ pc \notin Ended
    /\ pc' = "killed"
    /\ Die
    /\ UNCHANGED <<inputs, a, b, runs, logging>>

Over == pc \in Ended /\ UNCHANGED vars

Step == \/ ReadOptions \/ TakeSlices \/ ReserveSlices \/ ExpandSlice \/ ExpandOver
        \/ OpenLog \/ OpenFile \/ WriteHeader \/ BeginRow \/ SweepOver \/ FirstRun \/ NextRun
        \/ RunFails \/ WriteTimes
Next == Step \/ WriteError \/ LogWriteError \/ Killed \/ Over

Spec == Init /\ [][Next]_vars
FairSpec == Spec /\ WF_vars(Step)
-------------------------------------------------------------------------------
Piece ==
    [kind : {"earlier", "parameters", "header"}] \cup [kind : {"prefix"}, row : Seq(Size)] \cup
    [kind : {"times"}, row : Seq(Size), runs : Nat, divisor : Nat \ {0}]

Block == [kind : {"earlier"}] \cup [kind : {"block"}, row : Seq(Size)]

\* The types of the variables.
TypeOK ==
    /\ opts \in Options
    /\ pc \in Ended \cup {"options", "slices", "expand", "log", "open", "header",
                         "row", "first", "average"}
    /\ slices \in Seq(Size) /\ i \in Size
    /\ a \in 1..(Len(FirstSlices) + 1) /\ b \in 1..(Len(SecondSlices) + 1) /\ runs \in Nat
    /\ file \in Seq(Piece) /\ synced \in 0..Len(file) /\ good \in BOOLEAN
    /\ log \in Seq(Block) /\ log_good \in BOOLEAN

RowAt(n) ==
    Row((n - 1) \div Len(SecondSlices) + 1, ((n - 1) % Len(SecondSlices)) + 1)
Kept == file = <<[kind |-> "earlier"]>>

\* The n-th piece of the file is what a sweep in order has there.
InPlace(n) ==
    \/ n = 1 /\ file[n].kind = IF slices = <<>> THEN "parameters" ELSE "header"
    \/ n > 1 /\ n % 2 = 0 /\ file[n] = [kind |-> "prefix", row |-> RowAt(n \div 2)]
    \/ n > 1 /\ n % 2 = 1 /\ file[n].kind = "times" /\ file[n].row = RowAt(n \div 2)

\* Whenever and however the process ends, if the file is not the earlier one it
\* holds the sweep in order, up to some row, of which at most the last lacks its
\* times; a sweep that returns has left out no pair of slice sizes, unless a write
\* failed, after which nothing more gets into the file.  Of an empty range of slice
\* sizes the file has the line of the parameters, and never a row.
FileIsTheSweep ==
    /\ Kept \/ \A n \in DOMAIN file : InPlace(n)
    /\ pc = "returned" /\ good =>
          Kept \/ Len(file) = 1 + 2 * Len(FirstSlices) * Len(SecondSlices)

\* What main() objects to before it simulates anything: an option, a range that is
\* malformed, too long or not expanded yet, an output that cannot be opened.
RangeRefused == IsRange /\ (slice_step = 0 \/ Reservation > MaxSize \/ InRange)
Refused == opts.request # "sweep" \/ ~opts.output_opens \/ RangeRefused

\* main() opens the output, and so empties it, after all of these checks: whatever is
\* refused, and however the process then ends, the results of the call before are still
\* there.  (A simulation that throws, and an empty range, come later and cost them; the
\* log of the call before is emptied by then even if the output cannot be opened.)
EarlierResultsKept == Refused => Kept

CompleteRows == {n \in DOMAIN file : file[n].kind = "times"}

\* A row that has been written is not lost, whatever happens to the process or to
\* later writes.
RowsSurvive == [][CompleteRows \subseteq CompleteRows']_vars

LogKept == log = <<[kind |-> "earlier"]>>
RowsDone == (a - 1) * Len(SecondSlices) + b - 1

\* The log is the earlier one or is about the rows of the sweep from the first on, in
\* order and with none left out, and never more than one ahead of the rows that are
\* done.  As long as none of its writes has failed it has all of these rows.
LogFollowsSweep ==
    /\ \/ LogKept
       \/ /\ \A n \in DOMAIN log : log[n] = [kind |-> "block", row |-> RowAt(n)]
          /\ Len(log) <= RowsDone + 1
    /\ log_good => ~LogKept /\ Len(log) - RowsDone \in {0, 1}

RunsAsked == IF Single \/ opts.randomize_count = 0 THEN 1 ELSE opts.randomize_count

\* What is written as the times of a row is the mean of simulations of that row
\* alone, of as many as were asked for, and of one if none was.
MeanOfRuns ==
    \A n \in CompleteRows : file[n].runs = RunsAsked /\ file[n].divisor = RunsAsked

SlicesKnown == pc \in {"log", "open", "header", "row", "first", "average"} /\ IsRange

\* The slice sizes of a sweep start at the minimum and go up in steps until the
\* next one would be the maximum or more, unless the counter wraps on the way.
SweepIsProgression ==
    SlicesKnown /\ slice_end + slice_step <= SizeMod =>
        /\ \A n \in DOMAIN slices : slices[n] = slice_start + (n - 1) * slice_step
        /\ \A n \in DOMAIN slices : slices[n] < slice_end
        /\ slice_start + Len(slices) * slice_step >= slice_end

\* The help text calls the parameters "(min slice, max slice, step)": a maximum
\* that the steps reach should be swept.  The loop stops short of it.
MaxSliceIsSwept ==
    SlicesKnown /\ 0 < slice_start /\ slice_start < slice_end
              /\ (slice_end - slice_start) % slice_step = 0 =>
        \E n \in DOMAIN slices : slices[n] = slice_end

\* The process ends: even a range whose counter wraps around for ever fills the
\* vector of slice sizes and throws.
Ends == <>(pc \in Ended)
===============================================================================
