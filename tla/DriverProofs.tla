----------------------------- MODULE DriverProofs ------------------------------
(***************************************************************************)
(* Proofs about main(), for any command line and any width of size_t.      *)
(***************************************************************************)
EXTENDS Driver, SequenceTheorems, TLAPS

Sweeping == {"row", "first", "average"}
Early == {"options", "slices", "expand", "log", "open"}

(***************************************************************************)
(* Place: where the loops of the sweep are.                                *)
(***************************************************************************)
Place ==
    /\ pc \in {"options", "slices"} => slices = <<>>
    /\ pc = "expand" => IsRange
    /\ pc \in Early \cup {"header"} => a = 1 /\ b = 1
    /\ pc \in Sweeping => slices # <<>> /\ b <= Len(SecondSlices)
    /\ pc \in Sweeping /\ a > Len(FirstSlices) => b = 1
    /\ pc \in {"first", "average"} => a <= Len(FirstSlices)

\* The constants.
LEMMA Width == SizeMod \in Nat /\ SizeMod > 1 /\ 0 \in Size
BY DriverAssumption DEF SizeMod, Size

\* The two lists of slice sizes are lists, one of at least one element.
LEMMA Lists ==
    ASSUME opts \in Options, slices \in Seq(Size)
    PROVE  /\ FirstSlices \in Seq(Size) /\ SecondSlices \in Seq(Size)
           /\ Len(FirstSlices) \in Nat /\ Len(SecondSlices) \in Nat
           /\ \A m \in DOMAIN FirstSlices, n \in DOMAIN SecondSlices : Row(m, n) \in Seq(Size)
<1>1. opts.fix_first \in Size
  BY DEF Options
<1> QED
  BY <1>1, Width DEF FirstSlices, SecondSlices, f_s, Row

\* Arithmetic of size_t stays in range.
LEMMA WrapInSize == \A n \in Int : Wrap(n) \in Size
BY Width DEF Wrap, Size

\* The three values of a range.
LEMMA RangeType ==
    ASSUME opts \in Options, IsRange
    PROVE  slice_start \in Size /\ slice_end \in Size /\ slice_step \in Size
<1>1. opts.slices \in Seq(Size) /\ Len(opts.slices) = 3
  BY DEF Options, IsRange
<1> QED
  BY <1>1 DEF slice_start, slice_end, slice_step

LEMMA InitPlace == Init => TypeOK /\ Place
<1> SUFFICES ASSUME Init PROVE TypeOK /\ Place
  OBVIOUS
<1>1. opts \in Options /\ slices = <<>> /\ slices \in Seq(Size)
  BY DriverAssumption DEF Init
<1>2. Len(FirstSlices) \in Nat /\ Len(SecondSlices) \in Nat
  BY <1>1, Lists
<1>3. [kind |-> "earlier"] \in Piece
  BY DEF Piece
<1>4. file \in Seq(Piece) /\ Len(file) = 1
  BY <1>3 DEF Init
<1>5. log \in Seq(Block)
  <2>1. [kind |-> "earlier"] \in Block
    BY DEF Block
  <2> QED
    BY <2>1 DEF Init
<1>6. TypeOK
  <2>1. i \in Size /\ a \in 1..(Len(FirstSlices) + 1) /\ b \in 1..(Len(SecondSlices) + 1)
    BY <1>2, Width DEF Init
  <2>2. runs \in Nat /\ synced \in 0..Len(file)
    BY <1>4 DEF Init
  <2>3. good \in BOOLEAN /\ log_good \in BOOLEAN
    BY DEF Init
  <2> QED
    BY <1>1, <1>4, <1>5, <2>1, <2>2, <2>3 DEF Init, TypeOK
<1>7. Place
  BY <1>1 DEF Init, Place, Early, Sweeping
<1> QED
  BY <1>6, <1>7

\* What is left of a file is a file.
LEMMA BufferLost ==
    ASSUME file \in Seq(Piece), synced \in 0..Len(file), LoseBuffer
    PROVE  /\ file' \in Seq(Piece)
           /\ Len(file') \in synced..Len(file)
           /\ \A n \in DOMAIN file' : n \in DOMAIN file /\ file'[n] = file[n]
<1>1. PICK n \in synced..Len(file) : file' = SubSeq(file, 1, n)
  BY DEF LoseBuffer
<1> QED
  BY <1>1

\* A piece goes to the end of the file, if the stream has not failed.
LEMMA PieceWritten ==
    ASSUME file \in Seq(Piece), NEW piece \in Piece, Put(piece)
    PROVE  /\ file' \in Seq(Piece)
           /\ good => Len(file') = Len(file) + 1 /\ file'[Len(file) + 1] = piece
           /\ ~good => file' = file
           /\ \A n \in 1..Len(file) : file'[n] = file[n]
<1>1. CASE file' = Append(file, piece) /\ good
  BY <1>1
<1>2. CASE file' = file /\ ~good
  BY <1>2
<1> QED
  BY <1>1, <1>2 DEF Put

\* The actions that change neither the file nor a position.
LEMMA QuietPlace ==
    ASSUME TypeOK, Place, ReadOptions \/ TakeSlices \/ ReserveSlices \/ ExpandSlice \/ ExpandOver
    PROVE  TypeOK' /\ Place'
<1>1. /\ UNCHANGED <<opts, a, b, runs, log, log_good, file, synced, good>>
      /\ pc \in {"options", "slices", "expand"}
      /\ pc' \in {"slices", "expand", "log", "returned", "caught", "crashed"}
      /\ pc' = "slices" => UNCHANGED slices /\ slices = <<>>
      /\ pc' = "expand" => IsRange
  BY DEF ReadOptions, TakeSlices, ReserveSlices, ExpandSlice, ExpandOver, sweep_vars, inputs,
         output, logging, TypeOK, Place
<1>2. slices' \in Seq(Size) /\ i' \in Size
  <2>1. CASE ReadOptions \/ ExpandOver
    BY <2>1 DEF ReadOptions, ExpandOver, inputs, TypeOK
  <2>2. CASE TakeSlices
    BY <2>2 DEF TakeSlices, TypeOK, Options
  <2>3. CASE ReserveSlices
    BY <2>3, RangeType DEF ReserveSlices, TypeOK
  <2>4. CASE ExpandSlice
    <3>1. opts.slices \in Seq(Size) /\ i \in Int /\ Size \subseteq Int
      BY Width DEF TypeOK, Options, Size
    <3>2. CASE Len(slices) = MaxSize /\ UNCHANGED <<slices, i>>
      BY <3>2 DEF TypeOK
    <3>3. CASE slices' = Append(slices, i) /\ i' = NextSlice
      <4>1. IsRange
        BY <2>4 DEF ExpandSlice, Place
      <4>2. slice_step \in Int
        BY <4>1, <3>1, RangeType DEF TypeOK
      <4>3. i' \in Size
        BY <3>1, <3>3, <4>2, WrapInSize DEF NextSlice
      <4>4. slices' \in Seq(Size)
        BY <3>3 DEF TypeOK
      <4> QED
        BY <4>3, <4>4
    <3> QED
      BY <2>4, <3>2, <3>3 DEF ExpandSlice
  <2> QED
    BY <2>1, <2>2, <2>3, <2>4
<1>3. Len(FirstSlices') \in Nat /\ Len(SecondSlices') \in Nat
  BY <1>1, <1>2, Lists DEF TypeOK, FirstSlices, SecondSlices, f_s, Single
<1>4. a = 1 /\ b = 1
  BY <1>1 DEF Place, Early
<1>5. TypeOK'
  BY <1>1, <1>2, <1>3, <1>4 DEF TypeOK, Ended
<1> QED
  BY <1>1, <1>4, <1>5 DEF Place, Ended, Early, Sweeping, IsRange

\* The loops are at a row.
LEMMA RowType ==
    ASSUME TypeOK, Place, pc \in Sweeping, a <= Len(FirstSlices)
    PROVE  Row(a, b) \in Seq(Size)
<1>1. FirstSlices \in Seq(Size) /\ SecondSlices \in Seq(Size)
  BY Lists DEF TypeOK
<1>2. b <= Len(SecondSlices) /\ a >= 1 /\ b >= 1 /\ a \in Int /\ b \in Int
  BY <1>1 DEF Place, TypeOK
<1>3. a \in DOMAIN FirstSlices /\ b \in DOMAIN SecondSlices
  BY <1>1, <1>2
<1> QED
  BY <1>3, Lists DEF TypeOK

\* A position in the sweep's two loops: that of a row, or the one after the last.
LEMMA AdvancePlace ==
    ASSUME TypeOK, Place, AdvanceRow, UNCHANGED <<opts, slices>>, pc = "average"
    PROVE  /\ a' \in 1..(Len(FirstSlices) + 1) /\ b' \in 1..Len(SecondSlices)
           /\ a' > Len(FirstSlices) => b' = 1
<1>1. Len(FirstSlices) \in Nat /\ Len(SecondSlices) \in Nat
  BY Lists DEF TypeOK
<1>2. a <= Len(FirstSlices) /\ b <= Len(SecondSlices)
  BY DEF Place, Sweeping
<1> QED
  BY <1>1, <1>2 DEF AdvanceRow, TypeOK

\* The actions from the opening of the file on.
LEMMA SweepPlace ==
    ASSUME TypeOK, Place,
           \/ OpenLog \/ OpenFile \/ WriteHeader \/ BeginRow \/ SweepOver \/ FirstRun \/ NextRun
           \/ RunFails \/ WriteTimes \/ WriteError \/ LogWriteError \/ Killed
    PROVE  TypeOK' /\ Place'
<1>1. UNCHANGED <<opts, slices, i>>
  BY DEF OpenLog, OpenFile, WriteHeader, BeginRow, SweepOver, FirstRun, NextRun, RunFails,
         WriteTimes, WriteError, LogWriteError, Killed, inputs
<1>2. /\ Len(FirstSlices) \in Nat /\ Len(SecondSlices) \in Nat
      /\ FirstSlices' = FirstSlices /\ SecondSlices' = SecondSlices
      /\ slices # <<>> => Len(slices) >= 1 /\ Len(SecondSlices) >= 1
  BY <1>1, Lists DEF TypeOK, FirstSlices, SecondSlices, f_s, Single
<1>3. pc \in Sweeping /\ a <= Len(FirstSlices) => Row(a, b) \in Seq(Size)
  BY RowType
<1>4. good' \in BOOLEAN /\ log_good' \in BOOLEAN
  <2>1. LogOpens \in BOOLEAN
    BY DEF LogOpens, TypeOK, Options
  <2> QED
    BY <2>1 DEF OpenLog, OpenFile, WriteHeader, BeginRow, SweepOver, FirstRun, NextRun, RunFails,
                WriteTimes, WriteError, LogWriteError, Killed, Die, output, logging, TypeOK
<1>5. file' \in Seq(Piece) /\ synced' \in 0..Len(file')
  <2>1. CASE OpenFile
    <3>1. CASE file' = <<>> /\ synced' = 0
      <4>1. <<>> \in Seq(Piece) /\ Len(<<>>) = 0
        OBVIOUS
      <4> QED
        BY <3>1, <4>1
    <3>2. CASE UNCHANGED <<file, synced>>
      BY <3>2 DEF TypeOK
    <3> QED
      BY <2>1, <3>1, <3>2 DEF OpenFile
  <2>2. CASE WriteHeader
    <3>1. CASE Put([kind |-> "header"]) /\ Flushed /\ UNCHANGED good
      <4>1. [kind |-> "header"] \in Piece
        BY DEF Piece
      <4> QED
        BY <3>1, <4>1, PieceWritten DEF TypeOK, Flushed
    <3>2. CASE Put([kind |-> "parameters"]) /\ Flushed /\ UNCHANGED good
      <4>1. [kind |-> "parameters"] \in Piece
        BY DEF Piece
      <4> QED
        BY <3>2, <4>1, PieceWritten DEF TypeOK, Flushed
    <3> QED
      BY <2>2, <3>1, <3>2 DEF WriteHeader
  <2>3. CASE BeginRow
    <3>1. [kind |-> "prefix", row |-> Row(a, b)] \in Piece
      BY <2>3, <1>3 DEF BeginRow, Sweeping, Piece
    <3> QED
      BY <2>3, <3>1, PieceWritten DEF BeginRow, TypeOK
  <2>4. CASE SweepOver
    BY <2>4 DEF SweepOver, Flushed, TypeOK
  <2>5. CASE FirstRun \/ NextRun \/ OpenLog \/ LogWriteError
    BY <2>5 DEF FirstRun, NextRun, OpenLog, LogWriteError, output, TypeOK
  <2>6. CASE RunFails
    <3>1. CASE Die
      BY <3>1, BufferLost DEF Die, Flushed, TypeOK
    <3>2. CASE Flushed /\ UNCHANGED <<file, good>>
      BY <3>2 DEF Flushed, TypeOK
    <3> QED
      BY <2>6, <3>1, <3>2 DEF RunFails
  <2>7. CASE WriteTimes
    <3>1. Divisor \in Nat \ {0} /\ runs \in Nat
      BY DEF Divisor, TypeOK, Options
    <3>2. [kind |-> "times", row |-> Row(a, b), runs |-> runs, divisor |-> Divisor] \in Piece
      BY <2>7, <1>3, <3>1 DEF WriteTimes, Place, Sweeping, Piece
    <3> QED
      BY <2>7, <3>2, PieceWritten DEF WriteTimes, Flushed, TypeOK
  <2>8. CASE WriteError
    BY <2>8, BufferLost DEF WriteError, TypeOK
  <2>9. CASE Killed
    BY <2>9, BufferLost DEF Killed, Die, Flushed, TypeOK
  <2> QED
    BY <2>1, <2>2, <2>3, <2>4, <2>5, <2>6, <2>7, <2>8, <2>9
<1>6. log' \in Seq(Block) /\ runs' \in Nat
  <2>1. CASE FirstRun
    <3>1. [kind |-> "block", row |-> Row(a, b)] \in Block
      BY <2>1, <1>3 DEF FirstRun, Place, Sweeping, Block
    <3> QED
      BY <2>1, <3>1 DEF FirstRun, FirstSum, LogBlock, TypeOK
  <2>2. CASE OpenLog
    BY <2>2 DEF OpenLog, TypeOK
  <2>3. CASE ~FirstRun /\ ~OpenLog
    BY <2>3 DEF OpenFile, WriteHeader, BeginRow, SweepOver, NextRun, RunFails, WriteTimes,
                WriteError, LogWriteError, Killed, logging, TypeOK
  <2> QED
    BY <2>1, <2>2, <2>3
<1>7. /\ a' \in 1..(Len(FirstSlices) + 1) /\ b' \in 1..(Len(SecondSlices) + 1)
      /\ pc' \in Ended \cup {"open", "header", "row", "first", "average"}
      /\ Place'
  <2>1. CASE WriteTimes
    BY <2>1, <1>1, <1>2, AdvancePlace
    DEF WriteTimes, Place, Early, Sweeping, Ended
  <2>2. CASE OpenLog \/ OpenFile \/ WriteHeader
    BY <2>2, <1>1, <1>2 DEF OpenLog, OpenFile, WriteHeader, Place, Early, Sweeping, Ended, TypeOK
  <2>3. CASE BeginRow \/ SweepOver \/ FirstRun \/ NextRun \/ RunFails
    BY <2>3, <1>1, <1>2 DEF BeginRow, SweepOver, FirstRun, NextRun, RunFails, Place, Early,
                            Sweeping, Ended, TypeOK, output
  <2>4. CASE WriteError \/ LogWriteError \/ Killed
    BY <2>4, <1>1, <1>2 DEF WriteError, LogWriteError, Killed, Place, Early, Sweeping, Ended, TypeOK
  <2> QED
    BY <2>1, <2>2, <2>3, <2>4
<1> QED
  BY <1>1, <1>2, <1>4, <1>5, <1>6, <1>7 DEF TypeOK

LEMMA PlaceStep == TypeOK /\ Place /\ [Next]_vars => TypeOK' /\ Place'
<1> SUFFICES ASSUME TypeOK, Place, [Next]_vars
             PROVE  TypeOK' /\ Place'
  OBVIOUS
<1>1. CASE UNCHANGED vars
  BY <1>1 DEF vars, inputs, sweep_vars, output, logging, TypeOK, Place, FirstSlices,
              SecondSlices, f_s, Single, IsRange
<1> QED
  BY <1>1, QuietPlace, SweepPlace DEF Next, Step, Over

(***************************************************************************)
(* The variables keep their types, and the two loops stay within the lists *)
(* of slice sizes.                                                         *)
(***************************************************************************)
THEOREM TypeCorrect == Spec => []TypeOK
  BY InitPlace, PlaceStep, PTL DEF Spec
-------------------------------------------------------------------------------
(***************************************************************************)
(* Rows that have been written are flushed, so what the process or a       *)
(* failing stream loses is at most the beginning of a row.                 *)
(***************************************************************************)
RowsFlushed == CompleteRows \subseteq 1..synced

Header == [kind |-> IF slices = <<>> THEN "parameters" ELSE "header"]
Prefix == [kind |-> "prefix", row |-> Row(a, b)]
Times == [kind |-> "times", row |-> Row(a, b), runs |-> runs, divisor |-> Divisor]

\* What becomes of the file in a step: nothing, it is emptied before the sweep
\* begins, a piece is added, or what has not been flushed is lost.
LEMMA FileEffect ==
    ASSUME TypeOK, Place, Next
    PROVE  \/ UNCHANGED file /\ synced' \in {synced, Len(file)}
           \/ pc = "open" /\ file' = <<>> /\ synced' = 0
           \/ WriteHeader /\ Put(Header) /\ Header \in Piece /\ Flushed
           \/ BeginRow /\ Put(Prefix) /\ Prefix \in Piece /\ UNCHANGED synced
           \/ WriteTimes /\ Put(Times) /\ Times \in Piece /\ Flushed
           \/ LoseBuffer /\ synced' \in {synced, Len(file')}
<1>1. CASE ReadOptions \/ TakeSlices \/ ReserveSlices \/ ExpandSlice \/ ExpandOver
  BY <1>1 DEF ReadOptions, TakeSlices, ReserveSlices, ExpandSlice, ExpandOver, sweep_vars, output
<1>2. CASE OpenFile \/ WriteHeader
  BY <1>2 DEF OpenFile, WriteHeader, Flushed, Put, Header, Piece
<1>3. CASE OpenLog \/ SweepOver \/ FirstRun \/ NextRun \/ RunFails
  BY <1>3 DEF OpenLog, SweepOver, FirstRun, NextRun, RunFails, Die, Flushed, output
<1>4. CASE WriteError \/ LogWriteError \/ Killed \/ Over
  BY <1>4 DEF WriteError, LogWriteError, Killed, Over, Die, Flushed, vars, sweep_vars, output
<1>5. CASE BeginRow
  <2>1. Row(a, b) \in Seq(Size)
    BY <1>5, RowType DEF BeginRow, Sweeping
  <2> QED
    BY <1>5, <2>1 DEF BeginRow, Prefix, Piece
<1>6. CASE WriteTimes
  <2>1. Row(a, b) \in Seq(Size)
    BY <1>6, RowType DEF WriteTimes, Place, Sweeping
  <2>2. Divisor \in Nat \ {0} /\ runs \in Nat
    BY DEF Divisor, TypeOK, Options
  <2> QED
    BY <1>6, <2>1, <2>2 DEF WriteTimes, Times, Piece
<1> QED
  BY <1>1, <1>2, <1>3, <1>4, <1>5, <1>6 DEF Next, Step

\* What the file holds until it is opened.
Untouched == pc \in Early => Kept /\ synced = 1

LEMMA UntouchedStep == TypeOK /\ Untouched /\ [Next]_vars => Untouched'
<1> SUFFICES ASSUME TypeOK, Untouched, [Next]_vars, pc' \in Early
             PROVE  Kept' /\ synced' = 1
  BY DEF Untouched
<1>1. UNCHANGED <<file, synced>> /\ pc \in Early
  <2>1. CASE ReadOptions \/ TakeSlices \/ ReserveSlices \/ ExpandSlice \/ ExpandOver
    BY <2>1 DEF ReadOptions, TakeSlices, ReserveSlices, ExpandSlice, ExpandOver, sweep_vars,
                output, Early
  <2>2. CASE OpenFile \/ WriteHeader \/ BeginRow \/ WriteTimes \/ SweepOver \/ FirstRun \/ NextRun
             \/ RunFails \/ WriteError \/ LogWriteError \/ Killed
    BY <2>2 DEF OpenFile, WriteHeader, BeginRow, WriteTimes, SweepOver, FirstRun, NextRun,
                RunFails, WriteError, LogWriteError, Killed, Early
  <2>3. CASE OpenLog \/ UNCHANGED vars
    BY <2>3 DEF OpenLog, vars, sweep_vars, output, Early
  <2> QED
    BY <2>1, <2>2, <2>3 DEF Next, Step, Over
<1> QED
  BY <1>1 DEF Untouched, Kept

\* No step takes a row out of the file, and every row is flushed when it is complete.
LEMMA RowsStep ==
    ASSUME TypeOK, Place, Untouched, RowsFlushed, [Next]_vars
    PROVE  RowsFlushed' /\ CompleteRows \subseteq CompleteRows'
<1> DEFINE last == Len(file) + 1
<1>1. /\ file \in Seq(Piece) /\ synced \in 0..Len(file)
      /\ DOMAIN file = 1..Len(file) /\ Len(file) \in Nat
      /\ TypeOK'
  BY PlaceStep DEF TypeOK
<1>2. file' \in Seq(Piece) /\ DOMAIN file' = 1..Len(file') /\ Len(file') \in Nat
  BY <1>1 DEF TypeOK
<1>3. CASE UNCHANGED file /\ synced' \in {synced, Len(file)}
  BY <1>1, <1>3 DEF RowsFlushed, CompleteRows
<1>4. CASE pc = "open" /\ file' = <<>> /\ synced' = 0
  <2>1. Kept
    BY <1>4 DEF Untouched, Early
  <2>2. CompleteRows = {} /\ CompleteRows' = {}
    BY <1>4, <2>1 DEF CompleteRows, Kept
  <2> QED
    BY <2>2 DEF RowsFlushed
<1>5. ASSUME NEW piece \in Piece, Put(piece), Flushed \/ (UNCHANGED synced /\ piece.kind # "times")
      PROVE  RowsFlushed' /\ CompleteRows \subseteq CompleteRows'
  <2>1. \A n \in 1..Len(file) : file'[n] = file[n]
    BY <1>1, <1>5, PieceWritten
  <2>2. \/ Len(file') = last /\ file'[last] = piece
        \/ file' = file
    BY <1>1, <1>5, PieceWritten
  <2> HIDE DEF last
  <2>3. CompleteRows \subseteq CompleteRows'
    <3>1. Len(file') >= Len(file)
      BY <1>1, <2>2 DEF last
    <3>2. \A n \in 1..Len(file) : n \in 1..Len(file')
      BY <1>1, <1>2, <3>1
    <3> QED
      BY <1>1, <1>2, <2>1, <3>2 DEF CompleteRows
  <2>4. CASE Flushed
    <3>1. synced' = Len(file')
      BY <2>4 DEF Flushed
    <3>2. CompleteRows' \subseteq 1..Len(file')
      <4>1. CompleteRows' \subseteq DOMAIN file'
        BY DEF CompleteRows
      <4> QED
        BY <4>1, <1>2
    <3> QED
      BY <2>3, <3>1, <3>2 DEF RowsFlushed
  <2>5. CASE UNCHANGED synced /\ piece.kind # "times"
    <3>1. \A n \in 1..Len(file') : n \in 1..Len(file) \/ file'[n] = piece
      <4>1. Len(file') \in {Len(file), last}
        BY <2>2
      <4>2. \A n \in 1..last : n \in 1..Len(file) \/ n = last
        BY <1>1 DEF last
      <4> QED
        BY <2>2, <4>1, <4>2
    <3>2. CompleteRows' \subseteq CompleteRows
      <4> SUFFICES ASSUME NEW n \in CompleteRows'
                   PROVE  n \in CompleteRows
        OBVIOUS
      <4>1. n \in DOMAIN file' /\ file'[n].kind = "times"
        BY DEF CompleteRows
      <4>2. n \in 1..Len(file)
        BY <1>2, <2>5, <3>1, <4>1
      <4> QED
        BY <1>1, <2>1, <4>1, <4>2 DEF CompleteRows
    <3> QED
      BY <2>3, <2>5, <3>2 DEF RowsFlushed
  <2> QED
    BY <1>5, <2>3, <2>4, <2>5
<1>6. CASE LoseBuffer /\ synced' \in {synced, Len(file')}
  <2>1. /\ Len(file') \in synced..Len(file)
        /\ \A n \in DOMAIN file' : n \in DOMAIN file /\ file'[n] = file[n]
    BY <1>1, <1>6, BufferLost
  <2> QED
    BY <1>1, <1>2, <1>6, <2>1 DEF RowsFlushed, CompleteRows
<1>7. CASE UNCHANGED vars
  BY <1>7, <1>3 DEF vars, sweep_vars, output
<1>8. CASE WriteHeader /\ Put(Header) /\ Header \in Piece /\ Flushed
  BY <1>5, <1>8
<1>9. CASE BeginRow /\ Put(Prefix) /\ Prefix \in Piece /\ UNCHANGED synced
  BY <1>5, <1>9 DEF Prefix
<1>10. CASE WriteTimes /\ Put(Times) /\ Times \in Piece /\ Flushed
  BY <1>5, <1>10
<1> QED
  BY <1>3, <1>4, <1>6, <1>7, <1>8, <1>9, <1>10, FileEffect

(***************************************************************************)
(* A row whose times have been written stays in the file, whatever becomes *)
(* of the process, its stream or the rows after it.                        *)
(***************************************************************************)
THEOREM RowsSurviveHolds == Spec => RowsSurvive
<1>1. Init => Untouched /\ RowsFlushed
  <2> SUFFICES ASSUME Init PROVE Untouched /\ RowsFlushed
    OBVIOUS
  <2>1. file = <<[kind |-> "earlier"]>> /\ synced = 1
    BY DEF Init
  <2> QED
    BY <2>1 DEF Untouched, RowsFlushed, Kept, CompleteRows
<1>2. TypeOK /\ Place /\ Untouched /\ RowsFlushed /\ [Next]_vars =>
          (TypeOK /\ Place /\ Untouched /\ RowsFlushed)'
  BY PlaceStep, UntouchedStep, RowsStep
<1>3. TypeOK /\ Place /\ Untouched /\ RowsFlushed /\ [Next]_vars =>
          CompleteRows \subseteq CompleteRows'
  BY RowsStep
<1> QED
  BY InitPlace, <1>1, <1>2, <1>3, PTL DEF Spec, RowsSurvive
-------------------------------------------------------------------------------
\* Where a piece of the file comes from.
LEMMA PieceOrigin ==
    ASSUME TypeOK, Place, [Next]_vars, NEW n \in DOMAIN file'
    PROVE  \/ n \in DOMAIN file /\ file'[n] = file[n]
           \/ good /\ n = Len(file) + 1 /\ WriteHeader /\ file'[n] = Header
           \/ good /\ n = Len(file) + 1 /\ BeginRow /\ file'[n] = Prefix
           \/ good /\ n = Len(file) + 1 /\ WriteTimes /\ file'[n] = Times
<1>1. /\ file \in Seq(Piece) /\ synced \in 0..Len(file)
      /\ DOMAIN file = 1..Len(file) /\ Len(file) \in Nat
  BY DEF TypeOK
<1>2. file' \in Seq(Piece) /\ DOMAIN file' = 1..Len(file') /\ Len(file') \in Nat
  BY PlaceStep DEF TypeOK
<1>3. CASE UNCHANGED file
  BY <1>3
<1>4. CASE file' = <<>>
  BY <1>4
<1>5. ASSUME NEW piece \in Piece, Put(piece)
      PROVE  \/ n \in DOMAIN file /\ file'[n] = file[n]
             \/ good /\ n = Len(file) + 1 /\ file'[n] = piece
  <2>1. \A k \in 1..Len(file) : file'[k] = file[k]
    BY <1>1, <1>5, PieceWritten
  <2>2. CASE good
    <3>1. Len(file') = Len(file) + 1 /\ file'[Len(file) + 1] = piece
      BY <1>1, <1>5, <2>2, PieceWritten
    <3>2. n \in 1..Len(file) \/ n = Len(file) + 1
      BY <1>1, <1>2, <3>1
    <3> QED
      BY <1>1, <2>1, <2>2, <3>1, <3>2
  <2>3. CASE ~good
    BY <1>1, <1>5, <2>3, PieceWritten
  <2> QED
    BY <2>2, <2>3
<1>6. CASE LoseBuffer
  BY <1>1, <1>6, BufferLost
<1>7. CASE UNCHANGED vars
  BY <1>7, <1>3 DEF vars, sweep_vars, output
<1> QED
  BY <1>3, <1>4, <1>5, <1>6, <1>7, FileEffect

\* main() keeps its options, and once it has opened its file the slice sizes.
LEMMA OptionsFixed ==
    ASSUME [Next]_vars
    PROVE  UNCHANGED opts /\ (pc \notin Early => UNCHANGED slices)
BY DEF Next, Step, ReadOptions, TakeSlices, ReserveSlices, ExpandSlice, ExpandOver, OpenLog,
       OpenFile, WriteHeader, BeginRow, SweepOver, FirstRun, NextRun, RunFails, WriteTimes,
       WriteError, LogWriteError, Killed, Over, vars, inputs, Early

\* How many simulations have been added up.
Counted == pc = "average" => runs >= 1 /\ runs <= RunsAsked

LEMMA CountedStep == TypeOK /\ Counted /\ [Next]_vars => Counted'
<1> SUFFICES ASSUME TypeOK, Counted, [Next]_vars, pc' = "average"
             PROVE  runs' >= 1 /\ runs' <= RunsAsked'
  BY DEF Counted
<1>1. opts.randomize_count \in Nat /\ runs \in Nat
  BY DEF TypeOK, Options
<1>2. UNCHANGED opts
  BY OptionsFixed
<1>3. RunsAsked' = RunsAsked /\ RunsAsked >= 1
  BY <1>1, <1>2 DEF RunsAsked, Single
<1>4. CASE FirstRun
  BY <1>1, <1>3, <1>4 DEF FirstRun, FirstSum, RunsAsked
<1>5. CASE NextRun
  <2>1. pc = "average" /\ ~Single /\ runs < opts.randomize_count /\ runs' = runs + 1
    BY <1>5 DEF NextRun, RunsRemain
  <2>2. RunsAsked = opts.randomize_count
    BY <1>1, <2>1 DEF RunsAsked
  <2> QED
    BY <1>1, <1>3, <2>1, <2>2
<1>6. CASE WriteError \/ LogWriteError \/ UNCHANGED vars
  BY <1>3, <1>6 DEF WriteError, LogWriteError, Counted, vars, sweep_vars
<1> QED
  BY <1>4, <1>5, <1>6
  DEF Next, Step, ReadOptions, TakeSlices, ReserveSlices, ExpandSlice, ExpandOver, OpenLog,
      OpenFile, WriteHeader, BeginRow, SweepOver, RunFails, WriteTimes, Killed, Over, Ended

(***************************************************************************)
(* The number of simulations added up for a row is the number it is        *)
(* divided by, and the number asked for.                                   *)
(***************************************************************************)
THEOREM MeanOfRunsHolds == Spec => []MeanOfRuns
<1> DEFINE Inv == TypeOK /\ Place /\ Counted /\ MeanOfRuns
<1>1. Init => Inv
  BY InitPlace DEF Init, Counted, MeanOfRuns, CompleteRows
<1>2. Inv /\ [Next]_vars => Inv'
  <2> SUFFICES ASSUME Inv, [Next]_vars
               PROVE  MeanOfRuns'
    BY PlaceStep, CountedStep
  <2>1. UNCHANGED opts
    BY OptionsFixed
  <2>2. RunsAsked' = RunsAsked
    BY <2>1 DEF RunsAsked, Single
  <2> SUFFICES ASSUME NEW n \in DOMAIN file', file'[n].kind = "times"
               PROVE  file'[n].runs = RunsAsked /\ file'[n].divisor = RunsAsked
    BY <2>2 DEF MeanOfRuns, CompleteRows
  <2>3. CASE n \in DOMAIN file /\ file'[n] = file[n]
    BY <2>3 DEF MeanOfRuns, CompleteRows
  <2>4. CASE WriteTimes /\ file'[n] = Times
    <3>1. runs >= 1 /\ runs <= RunsAsked /\ ~RunsRemain
      BY <2>4 DEF WriteTimes, Counted
    <3>2. opts.randomize_count \in Nat /\ runs \in Nat
      BY DEF TypeOK, Options
    <3>3. runs = RunsAsked /\ Divisor = RunsAsked
      BY <3>1, <3>2 DEF RunsRemain, RunsAsked, Divisor
    <3> QED
      BY <2>4, <3>3 DEF Times
  <2> QED
    BY <2>3, <2>4, PieceOrigin DEF Prefix, Header
<1> QED
  BY <1>1, <1>2, PTL DEF Spec
-------------------------------------------------------------------------------
(***************************************************************************)
(* The position of the loops, as a number of rows that have been done.     *)
(***************************************************************************)
Columns == Len(SecondSlices)
Done == (a - 1) * Columns + (b - 1)

LEMMA Quotient ==
    ASSUME NEW m \in Nat, NEW w \in Nat, NEW r \in Nat, r < w
    PROVE  /\ m * w + r \in Nat
           /\ (m * w + r) \div w = m
           /\ (m * w + r) % w = r
<1>1. m * w \in Nat
  OBVIOUS
<1> QED
  BY <1>1

LEMMA DoneIsNatural ==
    ASSUME TypeOK
    PROVE  Done \in Nat /\ Columns \in Nat /\ a \in Nat /\ b \in Nat /\ a >= 1 /\ b >= 1
<1>1. Columns \in Nat /\ Len(FirstSlices) \in Nat
  BY Lists DEF TypeOK, Columns
<1>2. a - 1 \in Nat /\ b - 1 \in Nat
  BY <1>1 DEF TypeOK, Columns
<1>3. \A x, y \in Nat : x * y \in Nat
  OBVIOUS
<1>4. (a - 1) * Columns \in Nat
  BY <1>1, <1>2, <1>3
<1>5. a \in Nat /\ b \in Nat /\ a >= 1 /\ b >= 1
  BY <1>1 DEF TypeOK, Columns
<1>6. Done \in Nat
  BY <1>2, <1>4 DEF Done
<1> QED
  BY <1>1, <1>5, <1>6

LEMMA RowOfPosition ==
    ASSUME TypeOK, b <= Columns
    PROVE  RowAt(Done + 1) = Row(a, b)
<1>1. /\ Columns \in Nat /\ a - 1 \in Nat /\ b - 1 \in Nat /\ b - 1 < Columns
      /\ Done \in Nat /\ Done = (a - 1) * Columns + (b - 1)
      /\ (a - 1) + 1 = a /\ (b - 1) + 1 = b
  BY DoneIsNatural DEF Done
<1>2. Done \div Columns = a - 1 /\ Done % Columns = b - 1
  BY <1>1, Quotient
<1>3. (Done + 1) - 1 = Done
  BY <1>1
<1> QED
  BY <1>1, <1>2, <1>3 DEF RowAt, Columns

LEMMA AdvanceOne ==
    ASSUME TypeOK, Place, AdvanceRow, UNCHANGED <<opts, slices>>, pc = "average"
    PROVE  Done' = Done + 1
<1>1. /\ Columns \in Nat /\ a \in Nat /\ b \in Nat /\ b <= Columns
      /\ Columns' = Columns
  BY DoneIsNatural DEF Place, Sweeping, Columns, SecondSlices, Single
<1>2. CASE a' = a /\ b' = b + 1
  <2>1. (a - 1) * Columns \in Int
    BY <1>1
  <2> QED
    BY <1>1, <1>2, <2>1 DEF Done
<1>3. CASE a' = a + 1 /\ b' = 1 /\ b = Columns
  <2>1. Done' = (a + 1 - 1) * Columns + (1 - 1)
    BY <1>1, <1>3 DEF Done
  <2>2. Done = (a - 1) * b + (b - 1) /\ Done' = a * b
    BY <1>1, <1>3, <2>1 DEF Done
  <2> QED
    BY <1>1, <2>2
<1> QED
  BY <1>1, <1>2, <1>3 DEF AdvanceRow, Columns

(***************************************************************************)
(* Written: how far the file is, as long as its stream has not failed.     *)
(***************************************************************************)
Written ==
    /\ pc \in {"header"} \cup Sweeping => \A n \in DOMAIN file : InPlace(n)
    /\ pc \in Ended => Kept \/ \A n \in DOMAIN file : InPlace(n)
    /\ pc = "header" => file = <<>>
    /\ good /\ pc = "row" => Len(file) = 1 + 2 * Done
    /\ good /\ pc \in {"first", "average"} => Len(file) = 2 + 2 * Done
    /\ good /\ pc = "returned" =>
          Kept \/ Len(file) = 1 + 2 * (Len(FirstSlices) * Len(SecondSlices))

\* Until the file is opened, nothing can happen to it.
LEMMA EarlyFile ==
    ASSUME TypeOK, Place, Untouched, [Next]_vars, pc \in Early
    PROVE  Kept' \/ (OpenFile /\ opts.output_opens /\ file' = <<>> /\ pc' = "header")
<1>1. file = <<[kind |-> "earlier"]>> /\ Len(file) = 1 /\ synced = 1
  BY DEF Untouched, Kept
<1>2. ASSUME LoseBuffer
      PROVE  UNCHANGED file
  <2>1. /\ file \in Seq(Piece) /\ file' \in Seq(Piece) /\ Len(file') = 1
        /\ \A n \in DOMAIN file' : file'[n] = file[n]
    BY <1>1, <1>2, BufferLost DEF TypeOK
  <2>2. Len(file') = Len(file) /\ \A n \in 1..Len(file') : file'[n] = file[n]
    BY <1>1, <2>1
  <2> QED
    BY <2>1, <2>2, SeqEqual
<1>3. CASE UNCHANGED file
  BY <1>1, <1>3 DEF Kept
<1>4. CASE UNCHANGED vars
  BY <1>3, <1>4 DEF vars, sweep_vars, output
<1>5. CASE OpenFile
  BY <1>3, <1>5 DEF OpenFile
<1>6. CASE Killed
  BY <1>2, <1>3, <1>6 DEF Killed, Die
<1>7. CASE ReadOptions \/ TakeSlices \/ ReserveSlices \/ ExpandSlice \/ ExpandOver \/ OpenLog
  BY <1>3, <1>7 DEF ReadOptions, TakeSlices, ReserveSlices, ExpandSlice, ExpandOver, OpenLog,
                    sweep_vars, output
<1> QED
  BY <1>4, <1>5, <1>6, <1>7 DEF Next, Step, Over, WriteHeader, BeginRow, SweepOver, FirstRun,
     NextRun, RunFails, WriteTimes, WriteError, LogWriteError, Early

\* Every piece of the file is one of the sweep, or the file is the earlier one.
LEMMA PiecesStep ==
    ASSUME TypeOK, Place, Untouched, Written, [Next]_vars
    PROVE  /\ pc' \in {"header"} \cup Sweeping => (\A n \in DOMAIN file : InPlace(n))'
           /\ pc' \in Ended => (Kept \/ \A n \in DOMAIN file : InPlace(n))'
<1>1. CASE pc \in Early
  <2>1. Kept' \/ DOMAIN file' = {}
    BY <1>1, EarlyFile
  <2>2. pc' \in {"header"} \cup Sweeping => file' = <<>>
    BY <1>1 DEF Next, Step, ReadOptions, TakeSlices, ReserveSlices, ExpandSlice, ExpandOver,
                OpenLog, OpenFile, WriteHeader, BeginRow, SweepOver, FirstRun, NextRun, RunFails,
                WriteTimes, WriteError, LogWriteError, Killed, Over, vars, Early, Sweeping
  <2> QED
    BY <2>1, <2>2
<1>2. CASE pc \in Ended
  <2>1. UNCHANGED vars
    BY <1>2 DEF Next, Step, ReadOptions, TakeSlices, ReserveSlices, ExpandSlice, ExpandOver,
                OpenLog, OpenFile, WriteHeader, BeginRow, SweepOver, FirstRun, NextRun, RunFails,
                WriteTimes, WriteError, LogWriteError, Killed, Over, Ended
  <2> QED
    BY <1>2, <2>1 DEF Written, vars, inputs, sweep_vars, output, Kept, InPlace, RowAt, Row, f_s,
                      Single, SecondSlices, Ended, Sweeping
<1>3. CASE pc \in {"header"} \cup Sweeping
  <2>1. UNCHANGED <<opts, slices>>
    BY <1>3, OptionsFixed DEF Sweeping, Early
  <2>2. \A k : RowAt(k)' = RowAt(k)
    BY <2>1 DEF RowAt, Row, f_s, Single, SecondSlices
  <2> SUFFICES ASSUME NEW n \in DOMAIN file'
               PROVE  InPlace(n)'
    OBVIOUS
  <2>3. CASE n \in DOMAIN file /\ file'[n] = file[n]
    BY <1>3, <2>1, <2>2, <2>3 DEF Written, InPlace
  <2>4. CASE n = Len(file) + 1 /\ WriteHeader /\ file'[n] = Header
    <3>1. n = 1
      BY <2>4 DEF WriteHeader, Written
    <3> QED
      BY <2>1, <2>4, <3>1 DEF InPlace, Header
  <2>5. Done \in Nat
    BY DoneIsNatural
  <2>6. CASE good /\ n = Len(file) + 1 /\ BeginRow /\ file'[n] = Prefix
    <3>1. n = 2 * (Done + 1) /\ RowAt(Done + 1) = Row(a, b)
      BY <2>5, <2>6, RowOfPosition DEF BeginRow, Written, Place, Sweeping, Columns
    <3>2. n > 1 /\ n % 2 = 0 /\ n \div 2 = Done + 1
      BY <2>5, <3>1
    <3> QED
      BY <2>2, <2>6, <3>1, <3>2 DEF InPlace, Prefix
  <2>7. CASE good /\ n = Len(file) + 1 /\ WriteTimes /\ file'[n] = Times
    <3>1. n = 2 * (Done + 1) + 1 /\ RowAt(Done + 1) = Row(a, b)
      BY <2>5, <2>7, RowOfPosition DEF WriteTimes, Written, Place, Sweeping, Columns
    <3>2. n > 1 /\ n % 2 = 1 /\ n \div 2 = Done + 1
      BY <2>5, <3>1
    <3> QED
      BY <2>2, <2>7, <3>1, <3>2 DEF InPlace, Times
  <2> QED
    BY <2>3, <2>4, <2>6, <2>7, PieceOrigin
<1> QED
  BY <1>1, <1>2, <1>3 DEF TypeOK, Early, Sweeping
\* A step between two states of the sweep, or out of it.
LEMMA LengthStep ==
    ASSUME TypeOK, Place, Untouched, Written, [Next]_vars
    PROVE  /\ pc' = "header" => file' = <<>>
           /\ good' /\ pc' = "row" => Len(file') = 1 + 2 * Done'
           /\ good' /\ pc' \in {"first", "average"} => Len(file') = 2 + 2 * Done'
           /\ good' /\ pc' = "returned" =>
                 Kept' \/ Len(file') = 1 + 2 * (Len(FirstSlices') * Len(SecondSlices'))
<1>1. /\ file \in Seq(Piece) /\ synced \in 0..Len(file) /\ Len(file) \in Nat
      /\ Done \in Nat /\ file' \in Seq(Piece)
  BY DoneIsNatural, PlaceStep DEF TypeOK
<1>2. pc \notin Early => Columns' = Columns
  BY OptionsFixed DEF Columns, SecondSlices, Single
<1>3. CASE UNCHANGED vars
  <2>1. /\ Done' = Done /\ FirstSlices' = FirstSlices /\ SecondSlices' = SecondSlices
        /\ UNCHANGED <<pc, good, file>>
    BY <1>3 DEF vars, inputs, sweep_vars, output, Done, Columns, FirstSlices, SecondSlices, f_s,
                Single
  <2> QED
    BY <2>1 DEF Written, Kept
<1>4. CASE WriteError
  <2>1. ~good' /\ UNCHANGED pc
    BY <1>4 DEF WriteError
  <2>2. pc = "header" => file' = <<>>
    BY <1>1, <1>4, BufferLost DEF WriteError, Written
  <2> QED
    BY <2>1, <2>2
<1>5. CASE OpenFile \/ OpenLog
  BY <1>5 DEF OpenFile, OpenLog
<1>6. CASE WriteHeader
  <2>1. pc = "header" /\ file = <<>> /\ a = 1 /\ b = 1 /\ Columns' = Columns
    BY <1>2, <1>6 DEF WriteHeader, Written, Place, Early
  <2>2. Columns \in Nat
    BY DoneIsNatural
  <2>3. Done' = 0
    BY <1>6, <2>1, <2>2 DEF WriteHeader, Done
  <2>4. [kind |-> "header"] \in Piece
    BY DEF Piece
  <2>5. CASE pc' = "row" /\ Put([kind |-> "header"]) /\ UNCHANGED good
    BY <1>1, <2>1, <2>3, <2>4, <2>5, PieceWritten
  <2>6. CASE pc' = "crashed"
    BY <2>6
  <2> QED
    BY <1>6, <2>5, <2>6 DEF WriteHeader
<1>7. CASE BeginRow
  <2>1. Put(Prefix) /\ pc = "row" /\ pc' = "first" /\ UNCHANGED <<a, b, good>>
    BY <1>7 DEF BeginRow, Prefix
  <2>2. Prefix \in Piece
    BY <1>7, RowType DEF BeginRow, Sweeping, Prefix, Piece
  <2>3. Done' = Done
    BY <1>2, <2>1 DEF Done, Early
  <2> QED
    BY <1>1, <2>1, <2>2, <2>3, PieceWritten DEF Written
<1>8. CASE FirstRun \/ NextRun \/ LogWriteError
  <2>1. /\ pc \in {"first", "average"} /\ pc' \in {"first", "average"}
        /\ UNCHANGED <<a, b, good, file>>
    BY <1>8 DEF FirstRun, NextRun, LogWriteError, output
  <2>2. Done' = Done
    BY <1>2, <2>1 DEF Done, Early
  <2> QED
    BY <2>1, <2>2 DEF Written
<1>9. CASE WriteTimes
  <2>1. /\ Put(Times) /\ pc = "average" /\ pc' = "row" /\ UNCHANGED <<opts, slices, good>>
        /\ AdvanceRow
    BY <1>9 DEF WriteTimes, Times, inputs
  <2>2. Times \in Piece
    <3>1. Row(a, b) \in Seq(Size)
      BY <2>1, RowType DEF Place, Sweeping
    <3>2. Divisor \in Nat \ {0} /\ runs \in Nat
      BY DEF Divisor, TypeOK, Options
    <3> QED
      BY <3>1, <3>2 DEF Times, Piece
  <2>3. Done' = Done + 1
    BY <2>1, AdvanceOne
  <2> QED
    BY <1>1, <2>1, <2>2, <2>3, PieceWritten DEF Written
<1>10. CASE SweepOver
  <2>1. /\ pc = "row" /\ pc' = "returned" /\ a > Len(FirstSlices)
        /\ UNCHANGED <<file, good, opts, slices>>
    BY <1>10 DEF SweepOver, inputs
  <2>2. Len(FirstSlices) \in Nat /\ Columns \in Nat
    BY Lists DEF TypeOK, Columns
  <2>3. a = Len(FirstSlices) + 1 /\ b = 1
    BY <2>1, <2>2 DEF TypeOK, Place, Sweeping
  <2>4. Done = Len(FirstSlices) * Columns
    BY <2>2, <2>3 DEF Done
  <2>5. FirstSlices' = FirstSlices /\ SecondSlices' = SecondSlices
    BY <2>1 DEF FirstSlices, SecondSlices, f_s, Single
  <2> QED
    BY <2>1, <2>4, <2>5 DEF Written, Columns
<1>11. CASE ReadOptions
  <2>1. Kept /\ UNCHANGED file /\ pc' \notin {"header", "row", "first", "average"}
    BY <1>11 DEF ReadOptions, Untouched, Early, sweep_vars, output
  <2> QED
    BY <2>1 DEF Kept
<1>12. CASE TakeSlices \/ ReserveSlices \/ ExpandSlice \/ ExpandOver \/ RunFails \/ Killed
  BY <1>12 DEF TakeSlices, ReserveSlices, ExpandSlice, ExpandOver, RunFails, Killed
<1> QED
  BY <1>3, <1>4, <1>5, <1>6, <1>7, <1>8, <1>9, <1>10, <1>11, <1>12 DEF Next, Step, Over

LEMMA WrittenStep == TypeOK /\ Place /\ Untouched /\ Written /\ [Next]_vars => Written'
BY LengthStep, PiecesStep DEF Written

LEMMA InitWritten == Init => Untouched /\ Written
BY DEF Init, Untouched, Written, Kept, Sweeping, Ended

(***************************************************************************)
(* However the process ends, the file is the earlier one or holds the      *)
(* sweep in order; it holds all of it when main() returns.                 *)
(***************************************************************************)
THEOREM FileIsTheSweepHolds == Spec => []FileIsTheSweep
<1> DEFINE Inv == TypeOK /\ Place /\ Untouched /\ Written
<1>1. Inv => FileIsTheSweep
  <2> SUFFICES ASSUME Inv PROVE FileIsTheSweep
    OBVIOUS
  <2>1. Kept \/ \A n \in DOMAIN file : InPlace(n)
    BY DEF TypeOK, Untouched, Written, Early, Sweeping
  <2>2. Len(FirstSlices) \in Nat /\ Len(SecondSlices) \in Nat
    BY Lists DEF TypeOK
  <2>3. 2 * (Len(FirstSlices) * Len(SecondSlices)) = 2 * Len(FirstSlices) * Len(SecondSlices)
    BY <2>2
  <2> QED
    BY <2>1, <2>3 DEF FileIsTheSweep, Written
<1>2. Inv /\ [Next]_vars => Inv'
  BY PlaceStep, UntouchedStep, WrittenStep
<1> QED
  BY InitPlace, InitWritten, <1>1, <1>2, PTL DEF Spec

(***************************************************************************)
(* Accepted: which checks have been passed where.                          *)
(***************************************************************************)
Accepted ==
    /\ pc \notin Ended \cup {"options"} => opts.request = "sweep"
    /\ pc = "expand" => slice_step # 0 /\ ~(Reservation > MaxSize)
    /\ pc \in {"log", "open", "header"} \cup Sweeping => ~RangeRefused
    /\ pc \in {"header"} \cup Sweeping => opts.output_opens
    /\ pc \in Ended => EarlierResultsKept

LEMMA AcceptedStep ==
    TypeOK /\ Place /\ Untouched /\ Accepted /\ [Next]_vars => Accepted'
<1> SUFFICES ASSUME TypeOK, Place, Untouched, Accepted, [Next]_vars
             PROVE  Accepted'
  OBVIOUS
<1>1. /\ UNCHANGED opts /\ IsRange' = IsRange
      /\ slice_step' = slice_step /\ Reservation' = Reservation
  BY OptionsFixed DEF IsRange, slice_start, slice_end, slice_step, Reservation
<1>2. UNCHANGED i => RangeRefused' = RangeRefused
  BY <1>1 DEF RangeRefused, InRange, slice_end
<1>3. CASE pc \in Early
  <2>1. /\ pc' \notin Ended \cup {"options"} => opts.request = "sweep"
        /\ pc' \in {"header"} \cup Sweeping => opts.output_opens
    BY <1>3 DEF Accepted, Next, Step, ReadOptions, TakeSlices, ReserveSlices, ExpandSlice,
                ExpandOver, OpenLog, OpenFile, WriteHeader, BeginRow, SweepOver, FirstRun, NextRun,
                RunFails, WriteTimes, WriteError, LogWriteError, Killed, Over, vars, Early,
                Sweeping, Ended
  <2>2. pc' = "expand" => slice_step # 0 /\ ~(Reservation > MaxSize)
    <3>1. CASE ReserveSlices
      <4>1. IsRange /\ (pc' = "expand" => slice_step # 0 /\ Reservation <= MaxSize)
        BY <3>1 DEF ReserveSlices
      <4>2. slice_start \in Int /\ slice_end \in Int /\ slice_step \in Nat /\ MaxSize \in Int
        BY <4>1, RangeType, Width, DriverAssumption DEF TypeOK, Size
      <4>3. slice_end - slice_start + 1 \in Int
        BY <4>2
      <4>4. Wrap(slice_end - slice_start + 1) \in Nat
        BY <4>3, WrapInSize, Width DEF Size
      <4>5. slice_step # 0 => Reservation \in Int
        BY <4>2, <4>4 DEF Reservation
      <4> QED
        BY <4>1, <4>2, <4>5
    <3>2. CASE pc = "expand"
      BY <3>2 DEF Accepted
    <3> QED
      BY <1>3, <3>1, <3>2
      DEF Next, Step, ReadOptions, TakeSlices, ExpandSlice, ExpandOver, OpenLog, OpenFile,
          WriteHeader, BeginRow, SweepOver, FirstRun, NextRun, RunFails, WriteTimes, WriteError,
          LogWriteError, Killed, Over, vars, Early, Ended
  <2>3. pc' \in {"log", "open", "header"} \cup Sweeping => ~RangeRefused'
    <3>1. CASE TakeSlices
      BY <1>1, <3>1 DEF TakeSlices, RangeRefused
    <3>2. CASE ExpandOver
      <4>1. ~RangeRefused /\ UNCHANGED i
        BY <3>2 DEF ExpandOver, RangeRefused, Accepted, inputs
      <4> QED
        BY <1>2, <4>1
    <3>3. CASE OpenLog \/ OpenFile \/ UNCHANGED vars
      <4>1. UNCHANGED i /\ (pc' \in {"log", "open", "header"} \cup Sweeping =>
                                pc \in {"log", "open", "header"} \cup Sweeping)
        BY <3>3 DEF OpenLog, OpenFile, vars, inputs
      <4> QED
        BY <1>2, <4>1 DEF Accepted
    <3> QED
      BY <1>3, <3>1, <3>2, <3>3
      DEF Next, Step, ReadOptions, ReserveSlices, ExpandSlice, WriteHeader, BeginRow, SweepOver,
          FirstRun, NextRun, RunFails, WriteTimes, WriteError, LogWriteError, Killed, Over, Early,
          Sweeping, Ended
  <2>4. pc' \in Ended => EarlierResultsKept'
    BY <1>3, EarlyFile DEF EarlierResultsKept, Ended
  <2> QED
    BY <1>1, <2>1, <2>2, <2>3, <2>4 DEF Accepted
<1>4. CASE pc \in Ended
  <2>1. UNCHANGED vars
    BY <1>4 DEF Next, Step, ReadOptions, TakeSlices, ReserveSlices, ExpandSlice, ExpandOver,
                OpenLog, OpenFile, WriteHeader, BeginRow, SweepOver, FirstRun, NextRun, RunFails,
                WriteTimes, WriteError, LogWriteError, Killed, Over, Ended
  <2>2. UNCHANGED <<pc, i, file>>
    BY <2>1 DEF vars, inputs, sweep_vars, output
  <2> QED
    BY <1>1, <1>2, <1>4, <2>2
    DEF Accepted, EarlierResultsKept, Refused, Kept, Ended, Sweeping
<1>5. CASE pc \in {"header"} \cup Sweeping
  <2>1. UNCHANGED i /\ pc' \in {"header"} \cup Sweeping \cup Ended
    BY <1>5 DEF Next, Step, ReadOptions, TakeSlices, ReserveSlices, ExpandSlice, ExpandOver,
                OpenLog, OpenFile, WriteHeader, BeginRow, SweepOver, FirstRun, NextRun, RunFails,
                WriteTimes, WriteError, LogWriteError, Killed, Over, vars, inputs, Ended, Sweeping
  <2>2. ~Refused
    BY <1>5 DEF Accepted, Refused, Ended, Sweeping
  <2>3. ~Refused'
    BY <1>1, <1>2, <2>1, <2>2 DEF Refused
  <2> QED
    BY <1>1, <2>1, <2>3 DEF Accepted, Refused, EarlierResultsKept, Sweeping, Ended
<1> QED
  BY <1>3, <1>4, <1>5 DEF TypeOK, Early, Sweeping

(***************************************************************************)
(* What main() refuses, and what dies or is killed before all checks are   *)
(* passed, leaves the results of the call before in the file.              *)
(***************************************************************************)
THEOREM EarlierResultsKeptHolds == Spec => []EarlierResultsKept
<1> DEFINE Inv == TypeOK /\ Place /\ Untouched /\ Accepted
<1>1. Init => Untouched /\ Accepted
  BY InitWritten DEF Init, Accepted, Sweeping, Ended
<1>2. Inv => EarlierResultsKept
  BY DEF TypeOK, Untouched, Accepted, EarlierResultsKept, Refused, Early, Sweeping, Ended
<1> QED
  BY InitPlace, PlaceStep, UntouchedStep, AcceptedStep, <1>1, <1>2, PTL DEF Spec
-------------------------------------------------------------------------------
(***************************************************************************)
(* Logged: how far the log is.                                             *)
(***************************************************************************)
BlockAt(n) == [kind |-> "block", row |-> RowAt(n)]
BlocksInOrder == \A n \in DOMAIN log : log[n] = BlockAt(n)
Logged ==
    /\ pc \in Early \ {"open"} => LogKept /\ ~log_good
    /\ pc \in {"open", "header"} => LogKept \/ log = <<>>
    /\ pc \in {"row", "first"} => LogKept \/ Len(log) <= Done
    /\ LogKept \/ (BlocksInOrder /\ Len(log) <= Done + 1)
    /\ log_good =>
          /\ opts.sim_log /\ ~LogKept
          /\ pc \in {"row", "first"} => Len(log) = Done
          /\ pc = "average" => Len(log) = Done + 1
          /\ Len(log) - Done \in {0, 1}

\* A block goes to the end of the log, if its stream is open and has not failed.
LEMMA BlockWritten ==
    ASSUME TypeOK, Place, Logged, FirstRun
    PROVE  /\ log_good => /\ Len(log') = Done + 1
                          /\ \A n \in DOMAIN log' : log'[n] = BlockAt(n)
           /\ ~log_good => log' = log
<1>1. pc = "first" /\ log' = LogBlock
  BY DEF FirstRun
<1>2. log \in Seq(Block) /\ Done \in Nat
  BY DoneIsNatural DEF TypeOK
<1>3. CASE log_good
  <2>1. log' = Append(log, [kind |-> "block", row |-> Row(a, b)]) /\ Len(log) = Done
    BY <1>1, <1>3 DEF LogBlock, Logged
  <2>2. BlockAt(Done + 1) = [kind |-> "block", row |-> Row(a, b)]
    BY <1>1, RowOfPosition DEF Place, Sweeping, Columns, BlockAt
  <2>3. BlockAt(Done + 1) \in Block
    BY <1>1, <2>2, RowType DEF Place, Sweeping, Block
  <2>4. /\ Len(log') = Done + 1 /\ log'[Done + 1] = BlockAt(Done + 1)
        /\ \A n \in 1..Done : log'[n] = log[n] /\ n \in DOMAIN log
        /\ DOMAIN log' = 1..(Done + 1)
    BY <1>2, <2>1, <2>2, <2>3
  <2>5. \A n \in 1..(Done + 1) : n \in 1..Done \/ n = Done + 1
    BY <1>2
  <2>6. BlocksInOrder
    BY <1>3 DEF Logged
  <2> QED
    BY <1>3, <2>4, <2>5, <2>6 DEF BlocksInOrder
<1>4. CASE ~log_good
  BY <1>1, <1>4 DEF LogBlock
<1> QED
  BY <1>3, <1>4

\* The arithmetic of positions.
LEMMA PositionIsNatural ==
    ASSUME NEW x \in Nat, NEW y \in Nat, NEW w \in Nat, x >= 1, y >= 1
    PROVE  /\ (x - 1) * w + (y - 1) \in Nat
           /\ (x - 1) * w + y - 1 = (x - 1) * w + (y - 1)
           /\ x = 1 /\ y = 1 => (x - 1) * w + (y - 1) = 0
<1>1. x - 1 \in Nat /\ y - 1 \in Nat
  OBVIOUS
<1>2. \A m, n \in Nat : m * n \in Nat
  OBVIOUS
<1>3. (x - 1) * w \in Nat
  BY <1>1, <1>2
<1>4. x = 1 => (x - 1) * w = 0
  OBVIOUS
<1> QED
  BY <1>1, <1>3, <1>4

\* After a step the position is that of a row too.
LEMMA DoneNext ==
    ASSUME TypeOK'
    PROVE  a' \in Nat /\ b' \in Nat /\ a' >= 1 /\ b' >= 1 /\ Columns' \in Nat /\ Done' \in Nat
<1>1. Len(slices') \in Nat /\ Len(<<0>>) = 1 /\ Len(<<opts'.fix_first>>) = 1
  BY DEF TypeOK
<1>2. Columns' \in Nat /\ Len(FirstSlices') \in Nat
  BY <1>1 DEF Columns, FirstSlices, SecondSlices, f_s
<1>3. a' \in Nat /\ b' \in Nat /\ a' >= 1 /\ b' >= 1
  <2>1. a' \in 1..(Len(FirstSlices') + 1) /\ b' \in 1..(Columns' + 1)
    BY DEF TypeOK, Columns
  <2> QED
    BY <1>2, <2>1
<1>4. Done' \in Nat
  BY <1>2, <1>3, PositionIsNatural DEF Done
<1> QED
  BY <1>2, <1>3, <1>4

\* What becomes of the log in a step: nothing, it is opened, its stream fails, or a block
\* is added.
LEMMA LogEffect ==
    ASSUME [Next]_vars
    PROVE  \/ OpenLog \/ FirstRun
           \/ LogWriteError
           \/ WriteTimes /\ UNCHANGED <<log, log_good>>
           \/ UNCHANGED <<log, log_good, a, b>>
BY DEF Next, Step, ReadOptions, TakeSlices, ReserveSlices, ExpandSlice, ExpandOver, OpenFile,
       WriteHeader, BeginRow, SweepOver, NextRun, RunFails, WriteTimes, WriteError, Killed, Over,
       vars, sweep_vars, logging

LEMMA LoggedStep == TypeOK /\ Place /\ Logged /\ [Next]_vars => Logged'
<1> SUFFICES ASSUME TypeOK, Place, Logged, [Next]_vars
             PROVE  Logged'
  OBVIOUS
<1>1. /\ UNCHANGED opts
      /\ pc \notin Early => Columns' = Columns /\ \A n : BlockAt(n)' = BlockAt(n)
  BY OptionsFixed DEF Columns, BlockAt, RowAt, Row, SecondSlices, f_s, Single
<1>2. /\ a' \in Nat /\ b' \in Nat /\ a' >= 1 /\ b' >= 1 /\ Columns' \in Nat
      /\ Done' \in Nat /\ Done \in Nat
  BY PlaceStep, DoneIsNatural, DoneNext
<1>3. log \in Seq(Block) /\ Len(log) \in Nat /\ log' \in Seq(Block) /\ Len(log') \in Nat
  BY PlaceStep DEF TypeOK
<1>4. CASE pc \in Early
  <2>1. \/ OpenLog
        \/ UNCHANGED <<log, log_good>> /\ (pc' \in {"open", "header"} => pc = "open")
    BY <1>4 DEF Next, Step, ReadOptions, TakeSlices, ReserveSlices, ExpandSlice, ExpandOver,
                OpenFile, WriteHeader, BeginRow, SweepOver, FirstRun, NextRun, RunFails, WriteTimes,
                WriteError, LogWriteError, Killed, Over, vars, sweep_vars, logging, Early, Ended
  <2>2. pc' \notin Sweeping
    BY <1>4 DEF Next, Step, ReadOptions, TakeSlices, ReserveSlices, ExpandSlice, ExpandOver,
                OpenLog, OpenFile, WriteHeader, BeginRow, SweepOver, FirstRun, NextRun, RunFails,
                WriteTimes, WriteError, LogWriteError, Killed, Over, vars, Early, Sweeping, Ended
  <2>3. CASE OpenLog
    <3>1. /\ pc' = "open" /\ log_good' = LogOpens
          /\ log' = IF LogOpens THEN <<>> ELSE log
          /\ LogKept /\ a' = 1 /\ b' = 1
      BY <1>4, <2>3 DEF OpenLog, Logged, Place, Early
    <3>2. Done' = 0
      BY <1>2, <3>1, PositionIsNatural DEF Done
    <3>3. CASE LogOpens
      BY <1>1, <3>1, <3>2, <3>3 DEF Logged, LogKept, LogOpens, BlocksInOrder, Early, Sweeping
    <3>4. CASE ~LogOpens
      BY <3>1, <3>4 DEF Logged, LogKept, LogOpens, Early, Sweeping
    <3> QED
      BY <3>3, <3>4
  <2>4. CASE UNCHANGED <<log, log_good>> /\ (pc' \in {"open", "header"} => pc = "open")
    <3>1. log_good => pc = "open" /\ log = <<>>
      BY <1>4, <2>4 DEF Logged, Early
    <3>2. LogKept' = LogKept /\ (LogKept \/ log = <<>>)
      BY <1>4, <2>4 DEF LogKept, Logged, Early
    <3>3. a' = 1 /\ b' = 1
      BY <1>4, <2>2, <2>4, LogEffect
      DEF Place, Early, OpenLog, FirstRun, LogWriteError, WriteTimes
    <3>4. Done' = 0
      BY <1>2, <3>3, PositionIsNatural DEF Done
    <3>5. pc' \in Early \ {"open"} => pc \in Early \ {"open"}
      BY <1>4 DEF Next, Step, ReadOptions, TakeSlices, ReserveSlices, ExpandSlice, ExpandOver,
                  OpenLog, OpenFile, WriteHeader, BeginRow, SweepOver, FirstRun, NextRun, RunFails,
                  WriteTimes, WriteError, LogWriteError, Killed, Over, vars, Early, Ended
    <3>6. log = <<>> => Len(log') = 0 /\ BlocksInOrder'
      BY <2>4 DEF BlocksInOrder
    <3> QED
      BY <1>1, <2>2, <2>4, <3>1, <3>2, <3>4, <3>5, <3>6 DEF Logged, Early, Sweeping
  <2> QED
    BY <2>1, <2>3, <2>4
<1>5. pc \notin Early => pc' \notin Early
  BY DEF Next, Step, ReadOptions, TakeSlices, ReserveSlices, ExpandSlice, ExpandOver, OpenLog,
         OpenFile, WriteHeader, BeginRow, SweepOver, FirstRun, NextRun, RunFails, WriteTimes,
         WriteError, LogWriteError, Killed, Over, vars, Early, Ended
<1>6. CASE FirstRun
  <2>1. pc = "first" /\ pc' = "average" /\ UNCHANGED <<a, b, log_good>>
    BY <1>6 DEF FirstRun
  <2>2. Done' = Done
    BY <1>1, <2>1 DEF Done, Early
  <2>3. CASE log_good
    <3>1. Len(log') = Done + 1 /\ \A n \in DOMAIN log' : log'[n] = BlockAt(n)
      BY <1>6, <2>3, BlockWritten
    <3>2. BlocksInOrder'
      BY <1>1, <2>1, <3>1 DEF BlocksInOrder, Early
    <3>3. ~LogKept'
      <4>1. 1 \in DOMAIN log' /\ log'[1].kind = "block"
        BY <1>2, <1>3, <3>1 DEF BlockAt
      <4> QED
        BY <4>1 DEF LogKept
    <3> QED
      BY <1>1, <1>2, <2>1, <2>2, <2>3, <3>1, <3>2, <3>3 DEF Logged, Early
  <2>4. CASE ~log_good
    <3>1. log' = log
      BY <1>6, <2>4, BlockWritten
    <3>2. BlocksInOrder' = BlocksInOrder /\ LogKept' = LogKept
      BY <1>1, <2>1, <3>1 DEF BlocksInOrder, LogKept, Early
    <3> QED
      BY <1>2, <2>1, <2>2, <2>4, <3>1, <3>2 DEF Logged, Early
  <2> QED
    BY <2>3, <2>4
<1>7. CASE pc \notin Early /\ UNCHANGED log
  <2>1. BlocksInOrder' = BlocksInOrder /\ LogKept' = LogKept
    BY <1>1, <1>7 DEF BlocksInOrder, LogKept
  <2>2. CASE LogWriteError
    <3>1. ~log_good' /\ UNCHANGED <<pc, a, b>>
      BY <2>2 DEF LogWriteError
    <3>2. Done' = Done
      BY <1>1, <1>7, <3>1 DEF Done
    <3> QED
      BY <1>7, <2>1, <3>1, <3>2 DEF Logged
  <2>3. CASE WriteTimes /\ UNCHANGED log_good
    <3>1. pc = "average" /\ pc' = "row" /\ AdvanceRow /\ UNCHANGED <<opts, slices>>
      BY <2>3 DEF WriteTimes, inputs
    <3>2. Done' = Done + 1
      BY <3>1, AdvanceOne
    <3> QED
      BY <1>1, <1>2, <1>3, <1>7, <2>1, <2>3, <3>1, <3>2 DEF Logged, Early
  <2>4. CASE UNCHANGED <<log_good, a, b>>
    <3>1. Done' = Done
      BY <1>1, <1>7, <2>4 DEF Done
    <3>2. CASE pc' = pc
      BY <1>1, <1>7, <2>1, <2>4, <3>1, <3>2 DEF Logged
    <3>3. CASE pc = "row" /\ pc' = "first"
      BY <1>1, <1>7, <2>1, <2>4, <3>1, <3>3 DEF Logged, Early
    <3>4. CASE pc = "header" /\ pc' = "row"
      <4>1. Done = 0
        BY <1>2, <2>4, <3>1, <3>4, PositionIsNatural DEF Done, Place
      <4>2. LogKept \/ Len(log) = 0
        BY <3>4 DEF Logged
      <4> QED
        BY <1>1, <1>7, <2>1, <2>4, <3>1, <3>4, <4>1, <4>2 DEF Logged, Early
    <3>5. CASE pc' \in Ended
      BY <1>1, <1>5, <1>7, <2>1, <2>4, <3>1, <3>5 DEF Logged, Ended
    <3>6. CASE FirstRun
      BY <1>6, <3>6
    <3>7. CASE WriteTimes
      BY <2>3, <2>4, <3>7
    <3> QED
      BY <1>7, <3>2, <3>3, <3>4, <3>5, <3>6, <3>7
      DEF Next, Step, ReadOptions, TakeSlices, ReserveSlices, ExpandSlice, ExpandOver, OpenLog,
          OpenFile, WriteHeader, BeginRow, SweepOver, NextRun, RunFails, WriteError, LogWriteError,
          Killed, Over, vars, Early, Ended
  <2>5. CASE OpenLog
    BY <1>7, <2>5 DEF OpenLog, Early
  <2> QED
    BY <1>6, <2>2, <2>3, <2>4, <2>5, LogEffect
<1> QED
  BY <1>4, <1>6, <1>7, LogEffect DEF OpenLog, LogWriteError, Early

(***************************************************************************)
(* The log is the earlier one or has the rows of the sweep in order, and   *)
(* keeps pace with it as long as no write of the log has failed.           *)
(***************************************************************************)
THEOREM LogFollowsSweepHolds == Spec => []LogFollowsSweep
<1>1. Init => Logged
  BY DEF Init, Logged, LogKept, Early, Sweeping
<1>2. TypeOK /\ Logged => LogFollowsSweep
  <2> SUFFICES ASSUME TypeOK, Logged PROVE LogFollowsSweep
    OBVIOUS
  <2>1. RowsDone = Done
    BY DoneIsNatural, PositionIsNatural DEF RowsDone, Done, Columns
  <2> QED
    BY <2>1 DEF Logged, LogFollowsSweep, BlocksInOrder, BlockAt
<1> QED
  BY InitPlace, PlaceStep, LoggedStep, <1>1, <1>2, PTL DEF Spec
-------------------------------------------------------------------------------
(***************************************************************************)
(* Expanded: how far the loop over the range of slice sizes is, when its   *)
(* counter cannot wrap.                                                    *)
(***************************************************************************)
NoWrap == slice_end + slice_step <= SizeMod
Steps ==
    \A n \in DOMAIN slices : slices[n] = slice_start + (n - 1) * slice_step /\ slices[n] < slice_end
Expanded ==
    IsRange /\ NoWrap =>
        /\ pc = "expand" => Steps /\ i = slice_start + Len(slices) * slice_step
        /\ SlicesKnown => Steps /\ slice_start + Len(slices) * slice_step >= slice_end

\* One more slice size.
LEMMA ExpandStep ==
    ASSUME TypeOK, Place, IsRange, NoWrap, Steps, ExpandSlice, UNCHANGED opts,
           pc' = "expand", i = slice_start + Len(slices) * slice_step
    PROVE  Steps' /\ i' = slice_start + Len(slices') * slice_step
<1>1. /\ slices' = Append(slices, i) /\ i' = NextSlice /\ i < slice_end
  BY DEF ExpandSlice, InRange
<1>2. /\ slice_start \in Nat /\ slice_end \in Nat /\ slice_step \in Nat /\ i \in Nat
      /\ SizeMod \in Nat
  BY RangeType, Width DEF TypeOK, Size
<1>3. slices \in Seq(Size) /\ i \in Size
  BY DEF TypeOK
<1>4. /\ Len(slices') = Len(slices) + 1 /\ DOMAIN slices' = 1..(Len(slices) + 1)
      /\ slices'[Len(slices) + 1] = i
      /\ \A n \in 1..Len(slices) : slices'[n] = slices[n]
      /\ DOMAIN slices = 1..Len(slices) /\ Len(slices) \in Nat
  BY <1>1, <1>3
<1>5. i' = i + slice_step
  <2>1. i + slice_step \in 0..(SizeMod - 1)
    BY <1>1, <1>2 DEF NoWrap
  <2>2. \A n \in 0..(SizeMod - 1) : n % SizeMod = n
    BY <1>2
  <2> QED
    BY <1>1, <2>1, <2>2 DEF NextSlice, Wrap
<1>6. (Len(slices) + 1) * slice_step = Len(slices) * slice_step + slice_step
  BY <1>2, <1>4
<1>7. i' = slice_start + Len(slices') * slice_step
  <2>1. Len(slices) * slice_step \in Int
    BY <1>2, <1>4
  <2> QED
    BY <1>2, <1>4, <1>5, <1>6, <2>1
<1>8. \A n \in 1..(Len(slices) + 1) :
          slices'[n] = slice_start + (n - 1) * slice_step /\ slices'[n] < slice_end
  <2> SUFFICES ASSUME NEW n \in 1..(Len(slices) + 1)
               PROVE  slices'[n] = slice_start + (n - 1) * slice_step /\ slices'[n] < slice_end
    OBVIOUS
  <2>1. CASE n \in 1..Len(slices)
    BY <1>4, <2>1 DEF Steps
  <2>2. CASE n = Len(slices) + 1
    <3>1. n - 1 = Len(slices)
      BY <1>4, <2>2
    <3> QED
      BY <1>1, <1>4, <2>2, <3>1
  <2> QED
    BY <1>4, <2>1, <2>2
<1> QED
  BY <1>4, <1>7, <1>8 DEF Steps, slice_start, slice_step, slice_end

LEMMA ExpandedStep == TypeOK /\ Place /\ Expanded /\ [Next]_vars => Expanded'
<1> SUFFICES ASSUME TypeOK, Place, Expanded, [Next]_vars, IsRange', NoWrap'
             PROVE  /\ pc' = "expand" =>
                          Steps' /\ i' = slice_start' + Len(slices') * slice_step'
                    /\ SlicesKnown' =>
                          Steps' /\ slice_start' + Len(slices') * slice_step' >= slice_end'
  BY DEF Expanded
<1>1. /\ IsRange /\ NoWrap /\ UNCHANGED opts
      /\ slice_start' = slice_start /\ slice_step' = slice_step /\ slice_end' = slice_end
  BY OptionsFixed DEF IsRange, NoWrap, slice_start, slice_step, slice_end
<1>2. slice_start \in Nat /\ slice_end \in Nat /\ slice_step \in Nat
  BY <1>1, RangeType, Width DEF TypeOK, Size
<1>3. CASE ReserveSlices
  <2>1. slices' = <<>> /\ i' = slice_start /\ pc' \in {"crashed", "caught", "expand"}
    BY <1>3 DEF ReserveSlices, Place
  <2>2. Len(slices') = 0 /\ slice_start + 0 * slice_step = slice_start
    BY <1>2, <2>1
  <2> QED
    BY <1>1, <2>1, <2>2 DEF Steps, SlicesKnown
<1>4. CASE ExpandSlice
  <2>1. pc = "expand" /\ pc' \in {"expand", "caught"}
    BY <1>4 DEF ExpandSlice
  <2> QED
    BY <1>1, <1>4, <2>1, ExpandStep DEF Expanded, SlicesKnown
<1>5. CASE ExpandOver
  <2>1. pc = "expand" /\ pc' = "log" /\ UNCHANGED <<slices, i>> /\ ~(i < slice_end)
    BY <1>5 DEF ExpandOver, InRange, inputs
  <2>2. i >= slice_end
    BY <1>2, <2>1, Width DEF TypeOK, Size
  <2> QED
    BY <1>1, <2>1, <2>2 DEF Expanded, Steps
<1>6. CASE ReadOptions \/ TakeSlices
  BY <1>1, <1>6 DEF ReadOptions, TakeSlices, SlicesKnown
<1>7. CASE UNCHANGED <<slices, i>> /\ (SlicesKnown' => SlicesKnown)
           /\ (pc' = "expand" => pc = "expand")
  BY <1>1, <1>7 DEF Expanded, Steps
<1>8. CASE OpenLog \/ OpenFile \/ WriteHeader \/ BeginRow \/ SweepOver \/ FirstRun \/ NextRun
           \/ RunFails \/ WriteTimes \/ WriteError \/ LogWriteError \/ Killed \/ UNCHANGED vars
  <2>1. UNCHANGED <<opts, slices, i>>
    BY <1>8 DEF OpenLog, OpenFile, WriteHeader, BeginRow, SweepOver, FirstRun, NextRun, RunFails,
                WriteTimes, WriteError, LogWriteError, Killed, vars, inputs
  <2>2. (SlicesKnown' => SlicesKnown) /\ (pc' = "expand" => pc = "expand")
    BY <1>1, <1>8 DEF OpenLog, OpenFile, WriteHeader, BeginRow, SweepOver, FirstRun, NextRun,
                      RunFails, WriteTimes, WriteError, LogWriteError, Killed, vars, SlicesKnown,
                      Ended
  <2> QED
    BY <1>7, <2>1, <2>2
<1> QED
  BY <1>3, <1>4, <1>5, <1>6, <1>8 DEF Next, Step, Over

(***************************************************************************)
(* A range that cannot wrap becomes the progression from its minimum that  *)
(* ends where the next step would reach its maximum.                       *)
(***************************************************************************)
THEOREM SweepIsProgressionHolds == Spec => []SweepIsProgression
<1>1. Init => Expanded
  BY DEF Init, Expanded, SlicesKnown
<1>2. Expanded => SweepIsProgression
  BY DEF Expanded, SweepIsProgression, SlicesKnown, Steps, NoWrap
<1> QED
  BY InitPlace, PlaceStep, ExpandedStep, <1>1, <1>2, PTL DEF Spec
===============================================================================
