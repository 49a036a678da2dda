----------------------- MODULE InterproceduralAnalysis -----------------------
(***************************************************************************)
(* InterproceduralAnalysis::analyze(): from the program the Clang front    *)
(* end extracted, and the ROSE project rebuilt from it, to the summaries   *)
(* the rest of the compiler queries.                                       *)
(*                                                                         *)
(* There are two paths.  Without a usable project the summaries come from  *)
(* the extracted program alone.  With one, call graph and summaries come   *)
(* from ROSE, which knows every function under a qualified name ("::f");   *)
(* the edges of the extracted program are then added under plain names,    *)
(* and nothing connects the two name spaces.                               *)
(*                                                                         *)
(* Components are listed as in SccOrder, which TarjanScc implements; the   *)
(* fixpoint is the one of ModRefPropagation.                               *)
(***************************************************************************)
EXTENDS CallGraphs, SequencesExt

CONSTANTS
    Names,          \* function names as the program writes them
    Qualified,      \* the ROSE name of each
    Vars,           \* names of arrays
    Whitelist,      \* pureFunctions_
    Programs,       \* the ProgramIRs considered
    RoseRecords     \* the local summaries ROSE may compute for a function

VARIABLES
    ir,             \* the ProgramIR, not modified
    project,        \* "none", "broken" (no call graph to be had) or "built"
    failed,         \* computeLocalSummaries() threw
    callGraph, local, summaries, sccs, idx, changed, passes,
    pc              \* "start", "augment", "records", "seed", "order", then
                    \* that of the propagation

ASSUME NamesAreFunctions ==
    /\ Names \subseteq Functions
    /\ Qualified \in [Names -> Functions \ Names]

(***************************************************************************)
(* FunctionIR.  `mod' and `ref' are the arrays its loops write and read.   *)
(* What else a function writes, a scalar, or an array outside a loop, is   *)
(* not extracted.  `effects' says that it does so: it is of the program    *)
(* and not of its IR, and no action reads it.                              *)
(***************************************************************************)
FunctionIR == [defined : BOOLEAN, calls : SUBSET Names,
               mod : SUBSET Vars, ref : SUBSET Vars, effects : BOOLEAN]

ASSUME ProgramsTyped ==
    \A p \in Programs :
        /\ DOMAIN p \subseteq Names /\ p \in [DOMAIN p -> FunctionIR]
        \* without a body nothing was extracted
        /\ \A f \in DOMAIN p : ~p[f].defined =>
               p[f].calls = {} /\ p[f].mod = {} /\ p[f].ref = {}

Order == INSTANCE SccOrder
Propagation == INSTANCE ModRefPropagation WITH Seeds <- RoseRecords

ASSUME RecordsAreSummaries == RoseRecords \subseteq Propagation!Summary

given == <<ir, project>>
fixpoint == <<idx, changed, passes>>
vars == <<given, failed, callGraph, local, summaries, sccs, fixpoint, pc>>

Init ==
    /\ ir \in Programs
    /\ project \in {"none", "broken", "built"}
    /\ failed = FALSE
    /\ callGraph = <<>> /\ summaries = <<>> /\ local = <<>>
    /\ sccs = <<>> /\ idx = 1 /\ changed = TRUE /\ passes = 0
    /\ pc = "start"

Known == DOMAIN summaries
Defined == {f \in DOMAIN ir : ir[f].defined}

\* handleUnknownCallee().
Unknown(f) ==
    IF f \in Whitelist
    THEN [Propagation!NewSummary EXCEPT !.isPure = TRUE]
    ELSE [Propagation!NewSummary EXCEPT !.modifiesGlobals = TRUE,
                                        !.isConservative = TRUE]

\* The summary of a defined function by its extracted loops.
LoopSummary(f) ==
    [Propagation!NewSummary EXCEPT
        !.mod = ir[f].mod, !.ref = ir[f].ref,
        !.isPure = ir[f].mod \cup ir[f].ref = {}]

-----------------------------------------------------------------------------
(* analyzeFromIR().                                                        *)

\* Steps 1 and 2: the graph of the extracted calls, every callee a key too,
\* with a summary for every key.
AnalyzeFromIR ==
    /\ pc = "start" /\ project # "built"
    /\ LET keys == DOMAIN ir \cup UNION {ir[f].calls : f \in DOMAIN ir}
       IN  /\ callGraph' = [f \in keys |-> IF f \in DOMAIN ir THEN ir[f].calls ELSE {}]
           /\ summaries' = [f \in keys |->
                  IF f \in Defined THEN LoopSummary(f) ELSE Unknown(f)]
    /\ local' = summaries'
    /\ pc' = "order"
    /\ UNCHANGED <<given, failed, sccs, fixpoint>>

-----------------------------------------------------------------------------
(* The phases of analyze() on a project.                                   *)

\* buildCallGraph().  The rebuilt AST declares every function and contains
\* no call, so the graph has nodes and no edge.
BuildCallGraph ==
    /\ pc = "start" /\ project = "built"
    /\ callGraph' = [q \in {Qualified[f] : f \in DOMAIN ir} |-> {}]
    /\ pc' = "augment"
    /\ UNCHANGED <<given, failed, local, summaries, sccs, fixpoint>>

\* The extracted calls are added; a name that is only called gets no key.
Augment ==
    /\ pc = "augment"
    /\ callGraph' = [f \in DOMAIN callGraph \cup DOMAIN ir |->
           Callees(callGraph, f) \cup IF f \in DOMAIN ir THEN ir[f].calls ELSE {}]
    /\ pc' = "records"
    /\ UNCHANGED <<given, failed, local, summaries, sccs, fixpoint>>

\* One record for each function in D, whichever of the generator and the
\* traversal that replaces it computes them.
Recorded(D) == [{Qualified[f] : f \in D} -> RoseRecords]

\* Callers and callees without a record are swept up.
Sweep(records) ==
    [f \in DOMAIN records \cup Nodes(callGraph) |->
        IF f \in DOMAIN records THEN records[f] ELSE Unknown(f)]

ComputeLocalSummaries ==
    /\ pc = "records"
    /\ \E records \in Recorded(Defined) : summaries' = Sweep(records)
    /\ pc' = "seed"
    /\ UNCHANGED <<given, failed, callGraph, local, sccs, fixpoint>>

\* It throws: some records are in the map, nothing was swept, and analyze()
\* goes on with what there is.
ComputeLocalSummariesThrows ==
    /\ pc = "records"
    /\ \E D \in SUBSET Defined : summaries' \in Recorded(D)
    /\ failed' = TRUE
    /\ pc' = "seed"
    /\ UNCHANGED <<given, callGraph, local, sccs, fixpoint>>

SeedDefinedFirst ==
    /\ pc = "seed"
    /\ summaries' = [f \in Known \cup DOMAIN ir |->
           IF f \in Defined THEN Propagation!NewSummary
           ELSE IF f \in Known THEN summaries[f] ELSE Unknown(f)]
    /\ local' = summaries'
    /\ pc' = "order"
    /\ UNCHANGED <<given, failed, callGraph, sccs, fixpoint>>

\* Extracted functions still without an entry: unknown, or empty if defined.
Seed ==
    /\ pc = "seed"
    /\ summaries' = [f \in Known \cup DOMAIN ir |->
           IF f \in Known THEN summaries[f]
           ELSE IF f \in Defined THEN Propagation!NewSummary ELSE Unknown(f)]
    /\ local' = summaries'
    /\ pc' = "order"
    /\ UNCHANGED <<given, failed, callGraph, sccs, fixpoint>>

-----------------------------------------------------------------------------
(* propagateBottomUp(), of both paths.                                     *)

\* computeSCCs() lists one component.
ListScc ==
    /\ pc = "order"
    /\ Order!Next
    /\ UNCHANGED <<given, failed, local, summaries, fixpoint, pc>>

SccsListed ==
    /\ pc = "order" /\ Order!Listed = Sccs(callGraph)
    /\ pc' = "while"
    /\ UNCHANGED <<given, failed, callGraph, local, summaries, sccs, fixpoint>>

Propagate == Propagation!Next /\ UNCHANGED <<given, failed>>

Next ==
    \/ AnalyzeFromIR
    \/ BuildCallGraph
    \/ Augment
    \/ ComputeLocalSummaries
    \/ ComputeLocalSummariesThrows
    \/ Seed
    \/ ListScc
    \/ SccsListed
    \/ Propagate

Spec == Init /\ [][Next]_vars

UnknownSummary ==
    [Propagation!NewSummary EXCEPT !.modifiesGlobals = TRUE, !.isConservative = TRUE]

\* getSummary().
GetSummary(f) == IF f \in Known THEN summaries[f] ELSE UnknownSummary

-----------------------------------------------------------------------------
(* What the result means for the program.                                  *)

\* The calls of the program itself.
ProgramCalls == [f \in DOMAIN ir |-> ir[f].calls]

\* The plain names that a call chain from f leads to, f included.
CanCall(f) == {g \in Names : Reaches(ProgramCalls, f, g)}

\* Names the compiler knows nothing about.
Unresolved == Names \ (Defined \cup Whitelist)

\* Types.
TypeOK ==
    /\ ir \in Programs
    /\ project \in {"none", "broken", "built"} /\ failed \in BOOLEAN
    /\ DOMAIN callGraph \subseteq Functions
    /\ callGraph \in [DOMAIN callGraph -> SUBSET Functions]
    /\ Known \subseteq Functions /\ summaries \in [Known -> Propagation!Summary]
    /\ DOMAIN local \subseteq Known /\ local \in [DOMAIN local -> Propagation!Summary]
    /\ sccs \in Seq(SUBSET Functions)
    /\ idx \in 1..(Len(sccs) + 1)
    /\ changed \in BOOLEAN /\ passes \in 0..Propagation!PassBound
    /\ pc \in {"start", "augment", "records", "seed", "order",
               "while", "collapse", "push", "done"}

(***************************************************************************)
(* Names of functions whose summary says that nothing is known of them, in *)
(* a way that reaches their callers.  On the ROSE path these are the       *)
(* program's own, too, since their summaries carry other names.  When      *)
(* computeLocalSummaries() threw, the sweep is missed, and the seeding     *)
(* makes up for it only as far as the program declares the unknown         *)
(* function: one that is never declared has no summary to propagate, and a *)
(* defined one gets an empty summary as if it did nothing.                 *)
(***************************************************************************)
Unseen ==
    IF failed THEN Unresolved \cap DOMAIN ir
    ELSE IF project = "built" THEN Names \ Whitelist
    ELSE Unresolved

\* An unknown function is reported as one that may write anything, whatever
\* happened before; and so is every function that can end up calling one that
\* is Unseen, on either path and in any component order.  (After a failed phase
\* this leaves out the callers of a function that is not declared.  A defined
\* function is Unseen on the ROSE path only; elsewhere it counts as seen, with
\* whatever it writes that was not extracted: see PureHasNoSideEffects.)
UnresolvedIsReported ==
    pc = "done" =>
        \A f \in Names \ Whitelist :
            f \in Unresolved \/ CanCall(f) \cap Unseen # {} =>
                /\ GetSummary(f).isConservative
                /\ GetSummary(f).modifiesGlobals
                /\ ~GetSummary(f).isPure

\* Unless a phase failed, what the loops of a function write is in the summary
\* of everything that can end up calling it, or that summary says that nothing
\* is known.  (After a failure it need not be in either: analyze() then seeds a
\* defined function with an empty summary, InterproceduralAnalysis.cpp:135-141.)
LoopWritesReported ==
    pc = "done" /\ ~failed =>
        \A f \in Names \ Whitelist : \A g \in CanCall(f) \cap Defined :
            \/ ir[g].mod \subseteq GetSummary(f).mod
            \/ GetSummary(f).isConservative /\ GetSummary(f).modifiesGlobals

-----------------------------------------------------------------------------
(* What the header says and the code does not do.                          *)

\* InterproceduralAnalysis.h, of isPure: "true if no side effects at all".
PureHasNoSideEffects ==
    pc = "done" =>
        \A f \in Defined \ Whitelist : \A g \in CanCall(f) \cap Defined :
            GetSummary(f).isPure => ir[g].mod = {} /\ ~ir[g].effects
=============================================================================
