---------------------------- MODULE MCTranslator ----------------------------
(***************************************************************************)
(* A source file in three states of editing and two GPUs: one with the      *)
(* ratio of the default parameters, 10000 GFLOP/s to 900 GB/s, and one     *)
(* slow enough for the intensity of the estimates.                         *)
(***************************************************************************)
EXTENDS Translator, TLC

CONSTANTS f, g

MCFns == {f, g}
MCRank == (f :> 1) @@ (g :> 2)
MCArrays == {"a", "b"}

Read(array, elements) ==
    [arrayName |-> array, isWrite |-> FALSE, elements |-> elements, always |-> TRUE]
Write(array, elements) == [Read(array, elements) EXCEPT !.isWrite = TRUE]
Perhaps(access) == [access EXCEPT !.always = FALSE]

\* b[i] = a[i]
Loop(line, column, verdict) ==
    [line |-> line, column |-> column, verdict |-> verdict, constant |-> TRUE, bound |-> 3,
     arrayAccesses |-> <<Read("a", 0..2), Write("b", 0..2)>>]

Short(loop) ==
    [loop EXCEPT !.bound = 1, !.arrayAccesses = <<Read("a", 0..0), Write("b", 0..0)>>]
Macro(loop) == [loop EXCEPT !.constant = FALSE]

\* b[i] = a[i + 1];  b[i] is written if ...;  b[i] = b[i]
Shifting(loop) == [loop EXCEPT !.arrayAccesses[1] = Read("a", 1..3)]
Partial(loop) == [loop EXCEPT !.arrayAccesses[2] = Perhaps(@)]
Update(loop) == [loop EXCEPT !.arrayAccesses[1] = Read("b", 0..2)]

\* Loops of all verdicts, one of them with a bound that is a macro.
Original ==
    (f :> <<Loop(1, 0, "PARALLEL_SAFE"), Loop(2, 0, "SERIAL_ONLY")>>) @@
    (g :> <<Macro(Loop(3, 0, "PARALLEL_SAFE")), Update(Loop(4, 0, "REDUCTION_CANDIDATE"))>>)

\* A line was inserted on top, and the short loop moved to where a long one was.
Shifted ==
    (f :> <<Short(Loop(1, 0, "PARALLEL_SAFE")), Shifting(Loop(2, 0, "PARALLEL_SAFE"))>>) @@
    (g :> <<Loop(3, 0, "UNKNOWN_CONSERVATIVE")>>)

\* Two loops of one function and one of the other on a line, which is the last
\* but one.
SameLine ==
    (f :> <<Loop(1, 0, "SERIAL_ONLY"), Short(Loop(1, 40, "PARALLEL_SAFE"))>>) @@
    (g :> <<Loop(1, 80, "PARALLEL_SAFE"), Partial(Loop(2, 0, "PARALLEL_SAFE"))>>)

MCSources ==
    {[loops |-> Original, length |-> 5], [loops |-> Shifted, length |-> 5],
     [loops |-> SameLine, length |-> 3]}

MCHardwares ==
    {[peakFlops |-> 100, peakBandwidth |-> 9, minGpuTrips |-> 2],
     [peakFlops |-> 1, peakBandwidth |-> 4, minGpuTrips |-> 2]}
=============================================================================
