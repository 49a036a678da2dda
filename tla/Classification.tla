---------------------------- MODULE Classification ----------------------------
(***************************************************************************)
(* From the program to the verdicts: InterproceduralAnalysis::analyze()    *)
(* and, once it returned, ParallelismChecker::classifyAll(), which takes   *)
(* the loop nests of all defined functions one after the other.  They meet *)
(* only in getSummary().                                                   *)
(*                                                                         *)
(* A verdict depends on its own nest only, so that the order of the nests  *)
(* is left open, and a nest may be any that agrees with what is known of   *)
(* its function.                                                           *)
(***************************************************************************)
EXTENDS InterproceduralAnalysis, Integers

CONSTANTS
    Bases, NoVar, Offsets,  \* indices, as in ParallelismChecker
    ReductionNames,
    Nests                   \* the loop nests considered

VARIABLES
    nest, step,             \* argument and progress of classify()
    toScan, arrayUnknown, callIdx, callUnknown, verdict

\* Accesses are of arrays, calls to any function of the call graph.  What a
\* loop means when it runs is not asked here.
Checker == INSTANCE ParallelismChecker WITH
    Names <- Vars, CalleeNames <- Functions, Loops <- Nests, loop <- nest, pc <- step,
    SummaryMaps <- UNION {[D -> Propagation!Summary] : D \in SUBSET Functions},
    Trip <- 0, BaseValue <- [base \in Bases |-> 0],
    Globals <- {}, Writes <- [callee \in Functions |-> {}]

ASSUME NestsAreLoopNests ==
    /\ NoVar \notin Bases /\ Offsets \subseteq Int
    /\ Nests \subseteq Checker!LoopNest
    /\ \A n \in Nests : n.calls \in Seq(Names)

analysis == vars
classification == <<nest, step, toScan, arrayUnknown, callIdx, callUnknown, verdict>>
allVars == <<analysis, classification>>

InitAll ==
    /\ Init
    /\ nest = <<>> /\ step = "none"
    /\ toScan = {} /\ arrayUnknown = FALSE /\ callUnknown = FALSE
    /\ callIdx = 1 /\ verdict = "none"

\* The nests that function f may have: its calls and its arrays are those of
\* its loops, and more.
NestsOf(f) ==
    {n \in Nests :
        /\ \A k \in DOMAIN n.calls : n.calls[k] \in ir[f].calls
        /\ \A a \in n.accesses : a.array \in IF a.isWrite THEN ir[f].mod ELSE ir[f].ref}

Analyze == Next /\ UNCHANGED classification

\* classify() is called for the next loop nest.
TakeNest ==
    /\ pc = "done" /\ step \in {"none", "done"}
    /\ \E f \in Defined : nest' \in NestsOf(f)
    /\ step' = "arrays"
    /\ toScan' = {a.array : a \in nest'.accesses}
    /\ arrayUnknown' = FALSE /\ callUnknown' = FALSE
    /\ callIdx' = 1 /\ verdict' = "none"
    /\ UNCHANGED analysis

Classify == Checker!Next /\ UNCHANGED analysis

NextAll == Analyze \/ TakeNest \/ Classify

SpecAll == InitAll /\ [][NextAll]_allVars

-----------------------------------------------------------------------------
\* From the program to the verdict: a loop that may be transformed calls, at
\* any distance, no function that is Unseen and, unless a phase failed, none
\* that writes in a loop an array this one subscripts.  Calls of whitelisted
\* names are exempt, as in the code.  (By the array's name: what a parameter
\* stands for is not known.)  After a failed phase Unseen is narrower, and
\* neither part says anything of writes that were not extracted.
TransformedCallsAreHarmless ==
    Checker!Transformable =>
        \A c \in Checker!Calls \ Whitelist :
            /\ CanCall(c) \cap Unseen = {}
            /\ ~failed => \A g \in CanCall(c) \cap Defined :
                              ir[g].mod \cap Checker!LoopArrays = {}
=============================================================================
