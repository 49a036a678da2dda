-------------------------- MODULE ParallelismChecker --------------------------
(***************************************************************************)
(* ParallelismChecker::classify(): one loop nest is classified from its    *)
(* array accesses and from the summaries of the functions it calls.        *)
(*                                                                         *)
(* Beside the code stands a reference meaning of the loop: which element   *)
(* an access touches in which iteration, and which names a call writes.    *)
(* It is external to the program and serves only to judge the verdict.     *)
(*                                                                         *)
(* An index expression is a base and an offset: "i+1" is base i, offset 1. *)
(* Every text the affine pattern does not match ("i*2", "f(i)", "3") has a *)
(* base of its own that is no induction variable.                          *)
(***************************************************************************)
EXTENDS Integers, FiniteSets, Sequences

CONSTANTS
    Names,          \* names of arrays and variables
    Bases,          \* what stands in front of the offset in an index
    NoVar,          \* the empty induction variable name
    Offsets,
    CalleeNames,
    ReductionNames, \* callees whose name contains "accumulate" or "reduce"
    Loops,          \* the loop nests considered
    SummaryMaps,    \* the summaries_ maps considered
    \* reference meaning
    Trip,           \* iterations of the loop
    BaseValue,      \* value of a base that is not the induction variable
    Globals,        \* the names that are globals
    Writes          \* the names a callee writes, directly or not

Index == [base : Bases, offset : Offsets]
Access == [array : Names, index : Index, isWrite : BOOLEAN]

(***************************************************************************)
(* LoopNest and the parameters of its FunctionIR.  The accesses are a set: *)
(* a repeated access has the same offset as its twin.                      *)
(***************************************************************************)
LoopNest == [inductionVar : Bases \cup {NoVar}, accesses : SUBSET Access,
             calls : Seq(CalleeNames), params : SUBSET Names]

\* FunctionSummary; the checker never looks at ref.
Summary == [mod : SUBSET Names, ref : SUBSET Names, modifiesGlobals : BOOLEAN,
            isConservative : BOOLEAN, isPure : BOOLEAN]

\* unknownSummary_, what getSummary() answers for a name without an entry.
UnknownSummary == [mod |-> {}, ref |-> {}, modifiesGlobals |-> TRUE,
                   isConservative |-> TRUE, isPure |-> FALSE]

SummaryIn(summaries, callee) ==
    IF callee \in DOMAIN summaries THEN summaries[callee] ELSE UnknownSummary

\* Every name the callee writes is in its mod set, or is a global and the
\* summary says so, or the summary is marked as an approximation.
Covers(summary, callee) ==
    /\ summary.isPure => Writes[callee] = {}
    /\ \A v \in Writes[callee] :
          \/ v \in summary.mod
          \/ v \in Globals /\ summary.modifiesGlobals
          \/ summary.isConservative

ASSUME LoopsAreLoopNests == Loops \subseteq LoopNest
ASSUME BasesNamed == NoVar \notin Bases
ASSUME OffsetsAreIntegers == Offsets \subseteq Int
ASSUME TripCounts == Trip \in Nat /\ BaseValue \in [Bases -> Int]
ASSUME WritesTyped == Writes \in [CalleeNames -> SUBSET Names]
ASSUME SummaryMapsTyped ==
    \A summaries \in SummaryMaps :
        /\ DOMAIN summaries \subseteq CalleeNames
        /\ \A c \in DOMAIN summaries : summaries[c] \in Summary
\* A parameter hides a global of the same name in the loop's function.
ASSUME ParametersAreNotGlobals == \A loop \in Loops : loop.params \cap Globals = {}

VARIABLES
    loop, summaries,    \* arguments of classify(), not modified
    pc,                 \* "arrays", "calls", "combine" or "done"
    toScan,             \* arrays of byArray not scanned yet
    arrayUnknown,
    callIdx,            \* next call site
    callUnknown,
    verdict

vars == <<loop, summaries, pc, toScan, arrayUnknown, callIdx, callUnknown, verdict>>

Verdicts == {"PARALLEL_SAFE", "REDUCTION_CANDIDATE", "SERIAL_ONLY",
             "UNKNOWN_CONSERVATIVE"}

LoopArrays == {a.array : a \in loop.accesses}
Call == loop.calls[callIdx]
GetSummary(callee) == SummaryIn(summaries, callee)

Init ==
    /\ loop \in Loops
    /\ summaries \in SummaryMaps
    /\ pc = "arrays"
    /\ toScan = {a.array : a \in loop.accesses}
    /\ arrayUnknown = FALSE /\ callUnknown = FALSE
    /\ callIdx = 1
    /\ verdict = "none"

Classified(v) == pc' = "done" /\ verdict' = v

\* parseAffineIndex(): the offset counts only relative to the induction variable.
IsAffineWhateverBase(index) == loop.inductionVar # NoVar

IsAffine(index) == loop.inductionVar # NoVar /\ index.base = loop.inductionVar

AffineAccesses(array) ==
    {a \in loop.accesses : a.array = array /\ IsAffine(a.index)}

BothWritten(a, b) ==
    a.index.offset # b.index.offset /\ a.isWrite /\ b.isWrite

\* Two accesses to one array at different offsets, one of them a write.
Carried(a, b) ==
    a.index.offset # b.index.offset /\ (a.isWrite \/ b.isWrite)

HasCarriedDependence(array) ==
    \E a, b \in AffineAccesses(array) : Carried(a, b)

HasUnknownIndex(array) ==
    \E a \in loop.accesses : a.array = array /\ ~IsAffine(a.index)

(***************************************************************************)
(* checkArrayDependences(): the arrays in turn, in the order of their      *)
(* names.  The order shows only in the reason text and is left open.       *)
(***************************************************************************)
ArrayIsSerial(array) ==
    /\ pc = "arrays" /\ array \in toScan
    /\ HasCarriedDependence(array)
    /\ Classified("SERIAL_ONLY")
    /\ UNCHANGED <<loop, summaries, toScan, arrayUnknown, callIdx, callUnknown>>

ArrayIsClear(array) ==
    /\ pc = "arrays" /\ array \in toScan
    /\ ~HasCarriedDependence(array)
    /\ arrayUnknown' = (arrayUnknown \/ HasUnknownIndex(array))
    /\ toScan' = toScan \ {array}
    /\ UNCHANGED <<loop, summaries, pc, callIdx, callUnknown, verdict>>

ArraysScannedAtUnknown ==
    /\ pc = "arrays" /\ (toScan = {} \/ arrayUnknown)
    /\ pc' = "calls"
    /\ UNCHANGED <<loop, summaries, toScan, arrayUnknown, callIdx, callUnknown, verdict>>

ArraysScanned ==
    /\ pc = "arrays" /\ toScan = {}
    /\ pc' = "calls"
    /\ UNCHANGED <<loop, summaries, toScan, arrayUnknown, callIdx, callUnknown, verdict>>

(***************************************************************************)
(* checkCallSiteEffects(): the call sites in order.                        *)
(***************************************************************************)
TouchesNonParameter == ~(LoopArrays \subseteq loop.params)

InterferesThroughModSet(callee) ==
    ~GetSummary(callee).isPure /\ GetSummary(callee).mod \cap LoopArrays # {}

\* The callee writes an array of the loop, or a global when the loop touches
\* data that is not a parameter.
Interferes(callee) ==
    /\ ~GetSummary(callee).isPure
    /\ \/ GetSummary(callee).mod \cap LoopArrays # {}
       \/ GetSummary(callee).modifiesGlobals /\ TouchesNonParameter

IsApproximate(callee) ==
    ~GetSummary(callee).isPure /\ GetSummary(callee).isConservative

CallIsSerial ==
    /\ pc = "calls" /\ callIdx \in DOMAIN loop.calls
    /\ Interferes(Call)
    /\ Classified("SERIAL_ONLY")
    /\ UNCHANGED <<loop, summaries, toScan, arrayUnknown, callIdx, callUnknown>>

CallIsClearSkippingNext ==
    /\ pc = "calls" /\ callIdx \in DOMAIN loop.calls
    /\ ~Interferes(Call)
    /\ callUnknown' = (callUnknown \/ IsApproximate(Call))
    /\ callIdx' = callIdx + 2
    /\ UNCHANGED <<loop, summaries, pc, toScan, arrayUnknown, verdict>>

CallIsClear ==
    /\ pc = "calls" /\ callIdx \in DOMAIN loop.calls
    /\ ~Interferes(Call)
    /\ callUnknown' = (callUnknown \/ IsApproximate(Call))
    /\ callIdx' = callIdx + 1
    /\ UNCHANGED <<loop, summaries, pc, toScan, arrayUnknown, verdict>>

CallsScanned ==
    /\ pc = "calls" /\ callIdx \notin DOMAIN loop.calls
    /\ pc' = "combine"
    /\ UNCHANGED <<loop, summaries, toScan, arrayUnknown, callIdx, callUnknown, verdict>>

\* detectReduction(): a heuristic on the names of the callees.
LooksLikeReduction ==
    \E i \in DOMAIN loop.calls : loop.calls[i] \in ReductionNames

CombinedIgnoringCalls ==
    IF arrayUnknown THEN "UNKNOWN_CONSERVATIVE"
    ELSE IF LooksLikeReduction THEN "REDUCTION_CANDIDATE"
    ELSE "PARALLEL_SAFE"

\* The rest of classify(), once nothing definite was found.
Combined ==
    IF arrayUnknown \/ callUnknown THEN "UNKNOWN_CONSERVATIVE"
    ELSE IF LooksLikeReduction THEN "REDUCTION_CANDIDATE"
    ELSE "PARALLEL_SAFE"

Combine ==
    /\ pc = "combine"
    /\ Classified(Combined)
    /\ UNCHANGED <<loop, summaries, toScan, arrayUnknown, callIdx, callUnknown>>

Next ==
    \/ \E array \in Names : ArrayIsSerial(array) \/ ArrayIsClear(array)
    \/ ArraysScanned
    \/ CallIsSerial
    \/ CallIsClear
    \/ CallsScanned
    \/ Combine

Spec == Init /\ [][Next]_vars

-----------------------------------------------------------------------------
(* The reference meaning of the loop.                                      *)

Iterations == 0..(Trip - 1)

\* The element an access touches in iteration k.
Element(a, k) ==
    a.index.offset +
        IF a.index.base = loop.inductionVar THEN k ELSE BaseValue[a.index.base]

\* Accesses a in iteration k and b in iteration l cannot be reordered.
Conflict(a, k, b, l) ==
    /\ a.array = b.array /\ (a.isWrite \/ b.isWrite)
    /\ Element(a, k) = Element(b, l)

IterationsIndependent ==
    \A a, b \in loop.accesses : \A k, l \in Iterations :
        k # l => ~Conflict(a, k, b, l)

Calls == {loop.calls[i] : i \in DOMAIN loop.calls}

Transformable == verdict \in {"PARALLEL_SAFE", "REDUCTION_CANDIDATE"}

\* Types.
TypeOK ==
    /\ loop \in Loops /\ summaries \in SummaryMaps
    /\ pc \in {"arrays", "calls", "combine", "done"}
    /\ toScan \subseteq LoopArrays
    /\ arrayUnknown \in BOOLEAN /\ callUnknown \in BOOLEAN
    /\ callIdx \in 1..(Len(loop.calls) + 1)
    /\ verdict \in Verdicts \cup {"none"}
    /\ pc = "done" <=> verdict \in Verdicts

\* A loop that may be transformed has no two iterations whose array accesses
\* touch the same element with one of them writing, for the trip count of the
\* run and whatever the unrecognised index expressions evaluate to.
TransformableIsIndependent == Transformable => IterationsIndependent

\* In a loop that may be transformed no call writes an array the loop
\* subscripts, provided the summaries cover what the callees write.
TransformableCallsKeepOut ==
    Transformable /\ (\A c \in Calls : Covers(GetSummary(c), c)) =>
        \A c \in Calls : Writes[c] \cap LoopArrays = {}

\* A loop is refused as serial for a reason: two of its accesses do conflict
\* in iterations as far apart as their offsets, if there are that many, or a
\* callee's summary reports a write the loop can see.
SerialHasReason ==
    verdict = "SERIAL_ONLY" =>
        \/ \E a, b \in loop.accesses :
              LET d == a.index.offset - b.index.offset
              IN  /\ d > 0
                  /\ \A k \in Iterations :
                        k + d \in Iterations => Conflict(a, k, b, k + d)
        \/ \E c \in Calls : Interferes(c)

\* A definite finding anywhere in the loop wins over every inconclusive one:
\* the scan never stops early at an access or a call it cannot analyse.
DefiniteFindingWins ==
    pc = "done" =>
        (verdict = "SERIAL_ONLY" <=>
            \/ \E array \in LoopArrays : HasCarriedDependence(array)
            \/ \E c \in Calls : Interferes(c))

\* A callee without a summary, or with an approximate one, always keeps the
\* loop from being transformed, a reduction-like name notwithstanding.
UnresolvedIsRefused ==
    Transformable => \A c \in Calls :
        c \in DOMAIN summaries /\ (summaries[c].isConservative => summaries[c].isPure)

-----------------------------------------------------------------------------
(* What the documents say and the code does not do.                        *)

\* PRD.md, REQ-P2: "If any variable in the callee's mod-set overlaps with any
\* variable read by a different iteration of the loop, the loop is
\* SERIAL_ONLY."  An iteration also reads what its calls read; such a loop
\* should at least not be transformed.
WriteReadByCallsIsRefused ==
    Transformable =>
        \A c, d \in Calls : GetSummary(c).mod \cap GetSummary(d).ref = {}
=============================================================================
