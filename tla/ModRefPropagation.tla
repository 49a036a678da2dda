-------------------------- MODULE ModRefPropagation --------------------------
(***************************************************************************)
(* InterproceduralAnalysis::propagateBottomUp(): the fixpoint that turns   *)
(* the local mod/ref summary of every function into its transitive one.    *)
(*                                                                         *)
(* The call graph, the component list computeSCCs() returned for it (see   *)
(* TarjanScc) and the local summaries are fixed by the initial state.  A   *)
(* step handles one component: the loops over its members, over all        *)
(* callers and over their sets touch no summary they also read from, so    *)
(* the order inside a step does not matter.                                *)
(***************************************************************************)
EXTENDS CallGraphs, Sequences

CONSTANTS
    Vars,           \* variable names found in mod and ref sets
    Whitelist,      \* pureFunctions_
    Seeds           \* the local summaries considered

(***************************************************************************)
(* FunctionSummary.  A new map entry is value-initialised: empty sets and  *)
(* all flags false.                                                        *)
(***************************************************************************)
Summary == [mod : SUBSET Vars, ref : SUBSET Vars,
            modifiesGlobals : BOOLEAN, isConservative : BOOLEAN,
            isPure : BOOLEAN]

ASSUME SeedsAreSummaries == Seeds \subseteq Summary

NewSummary == [mod |-> {}, ref |-> {}, modifiesGlobals |-> FALSE,
               isConservative |-> FALSE, isPure |-> FALSE]

\* mergeSummary() of every source into dst.  isPure is not merged.
Merge(dst, sources) ==
    [dst EXCEPT !.mod = @ \cup UNION {s.mod : s \in sources},
                !.ref = @ \cup UNION {s.ref : s \in sources},
                !.modifiesGlobals = @ \/ \E s \in sources : s.modifiesGlobals,
                !.isConservative = @ \/ \E s \in sources : s.isConservative]

VARIABLES
    callGraph,      \* callGraph_
    local,          \* the summaries as seeded, kept for comparison
    summaries,      \* summaries_, a function on the names with an entry
    sccs,           \* what computeSCCs() returned
    idx,            \* the component the for loop is at
    changed,
    passes,         \* iterations of the while loop, counted up to PassBound
    pc              \* "while", "collapse", "push" or "done"

vars == <<callGraph, local, summaries, sccs, idx, changed, passes, pc>>
inputs == <<callGraph, local, sccs>>

PassBound == 3      \* `passes' is not in the code; it stops counting here

Known == DOMAIN summaries
Scc == sccs[idx]
Entry(f) == IF f \in Known THEN summaries[f] ELSE NewSummary

Init ==
    /\ callGraph \in CallGraphOver(Functions)
    /\ sccs \in CalleeFirstOrders(callGraph)
    /\ local \in UNION {[D -> Seeds] : D \in SUBSET Functions}
    /\ summaries = local
    /\ idx = 1 /\ changed = TRUE /\ passes = 0
    /\ pc = "while"

\* An empty call graph: nothing is propagated and nothing is finalised.
NothingToDo ==
    /\ pc = "while" /\ DOMAIN callGraph = {}
    /\ pc' = "done"
    /\ UNCHANGED <<inputs, summaries, idx, changed, passes>>

StartPassKeepingFlag ==
    /\ pc = "while" /\ DOMAIN callGraph # {} /\ changed
    /\ idx' = 1
    /\ passes' = IF passes < PassBound THEN passes + 1 ELSE passes
    /\ pc' = "collapse"
    /\ UNCHANGED <<inputs, summaries, changed>>

StartPassFromZero ==
    /\ pc = "while" /\ DOMAIN callGraph # {} /\ changed
    /\ changed' = FALSE
    /\ idx' = 0
    /\ passes' = IF passes < PassBound THEN passes + 1 ELSE passes
    /\ pc' = "collapse"
    /\ UNCHANGED <<inputs, summaries>>

StartPass ==
    /\ pc = "while" /\ DOMAIN callGraph # {} /\ changed
    /\ changed' = FALSE
    /\ idx' = 1
    /\ passes' = IF passes < PassBound THEN passes + 1 ELSE passes
    /\ pc' = "collapse"
    /\ UNCHANGED <<inputs, summaries>>

IsCycle(C) == Cardinality(C) > 1

CycleSummaryUnmarked == Merge(NewSummary, {summaries[m] : m \in Scc \cap Known})

\* The union over a cycle, marked conservative.
CycleSummary ==
    [Merge(NewSummary, {summaries[m] : m \in Scc \cap Known})
        EXCEPT !.isConservative = TRUE]

UpdateAlwaysChanged(S, new) ==
    /\ summaries' = [f \in Known \cup S |-> IF f \in S THEN new[f] ELSE summaries[f]]
    /\ changed' = TRUE

\* Write the new entries `new' for the functions in S; the flag records
\* whether an entry's contents differ.
Update(S, new) ==
    /\ summaries' = [f \in Known \cup S |-> IF f \in S THEN new[f] ELSE summaries[f]]
    /\ changed' = (changed \/ \E f \in S : new[f] # Entry(f))

CollapseCycle ==
    /\ pc = "collapse" /\ idx \in DOMAIN sccs /\ IsCycle(Scc)
    /\ Update(Scc, [m \in Scc |-> Merge(Entry(m), {CycleSummary})])
    /\ pc' = "push"
    /\ UNCHANGED <<inputs, idx, passes>>

PassSingleton ==
    /\ pc = "collapse" /\ idx \in DOMAIN sccs /\ ~IsCycle(Scc)
    /\ pc' = "push"
    /\ UNCHANGED <<inputs, summaries, idx, changed, passes>>

MembersInAnyRelation(f) == Scc \cap Known

MembersByReversedEdge(f) == {m \in Scc \cap Known : f \in Callees(callGraph, m)}

\* The members of the component, with an entry, that f calls.
CalledMembers(f) == Callees(callGraph, f) \cap Scc \cap Known

\* Callers inside the component are left to the union above.
Callers == {f \in DOMAIN callGraph \ Scc : CalledMembers(f) # {}}

PushToKnownCallers ==
    /\ pc = "push"
    /\ LET S == Callers \cap Known
       IN  Update(S, [f \in S |->
               Merge(Entry(f), {summaries[m] : m \in CalledMembers(f)})])
    /\ idx' = idx + 1
    /\ pc' = "collapse"
    /\ UNCHANGED <<inputs, passes>>

PushToCallers ==
    /\ pc = "push"
    /\ Update(Callers, [f \in Callers |->
           Merge(Entry(f), {summaries[m] : m \in CalledMembers(f)})])
    /\ idx' = idx + 1
    /\ pc' = "collapse"
    /\ UNCHANGED <<inputs, passes>>

EndPass ==
    /\ pc = "collapse" /\ idx \notin DOMAIN sccs
    /\ pc' = "while"
    /\ UNCHANGED <<inputs, summaries, idx, changed, passes>>

FinalFromModSetOnly(f) ==
    IF f \in Whitelist
    THEN [summaries[f] EXCEPT !.isPure = TRUE, !.modifiesGlobals = FALSE,
                              !.isConservative = FALSE]
    ELSE [summaries[f] EXCEPT !.isPure = (summaries[f].mod = {})]

\* Step 3: the final flags of one entry.
Final(f) ==
    IF f \in Whitelist
    THEN [summaries[f] EXCEPT !.isPure = TRUE, !.modifiesGlobals = FALSE,
                              !.isConservative = FALSE]
    ELSE [summaries[f] EXCEPT !.isPure =
              summaries[f].mod = {} /\ ~summaries[f].modifiesGlobals]

Finalize ==
    /\ pc = "while" /\ DOMAIN callGraph # {} /\ ~changed
    /\ summaries' = [f \in Known |-> Final(f)]
    /\ pc' = "done"
    /\ UNCHANGED <<inputs, idx, changed, passes>>

Next ==
    \/ NothingToDo
    \/ StartPass
    \/ CollapseCycle
    \/ PassSingleton
    \/ PushToCallers
    \/ EndPass
    \/ Finalize

\* The analysis is one sequential call; it is not interrupted.
Spec == Init /\ [][Next]_vars /\ WF_vars(Next)

-----------------------------------------------------------------------------
\* Types.
TypeOK ==
    /\ callGraph \in CallGraphOver(Functions)
    /\ sccs \in Seq(SUBSET Functions)
    /\ Known \subseteq Functions /\ summaries \in [Known -> Summary]
    /\ DOMAIN local \subseteq Known /\ local \in [DOMAIN local -> Seeds]
    /\ idx \in 1..(Len(sccs) + 1)
    /\ pc = "push" => idx \in DOMAIN sccs
    /\ changed \in BOOLEAN
    /\ passes \in 0..PassBound
    /\ pc \in {"while", "collapse", "push", "done"}

\* The functions with a local summary that f calls, directly or not, and f.
Reached(f) == {g \in DOMAIN local : Reaches(callGraph, f, g)}

\* Soundness of the result: whatever a function may write or read locally,
\* and whatever is unknown about it, is in the summary of every function that
\* can end up calling it.  The whitelist overrides the two flags, not the sets.
SummariesSound ==
    pc = "done" =>
        \A f \in Functions : \A g \in Reached(f) :
            /\ f \in Known
            /\ local[g].mod \subseteq summaries[f].mod
            /\ local[g].ref \subseteq summaries[f].ref
            /\ f \notin Whitelist =>
                 /\ local[g].modifiesGlobals => summaries[f].modifiesGlobals
                 /\ local[g].isConservative => summaries[f].isConservative

\* Each item of summary s has an origin among what f can end up calling.
Justified(f, s) ==
    /\ \A v \in s.mod : \E g \in Reached(f) : v \in local[g].mod
    /\ \A v \in s.ref : \E g \in Reached(f) : v \in local[g].ref
    /\ s.modifiesGlobals => \E g \in Reached(f) : local[g].modifiesGlobals
    /\ s.isConservative =>
          \/ \E g \in Reached(f) : local[g].isConservative
          \/ \E g \in Nodes(callGraph) :
                Reaches(callGraph, f, g) /\ IsCycle(SccOf(callGraph, g))

\* Precision: nothing is ever in a summary without a function reached by a
\* call chain that put it there; a summary is conservative only because of a
\* conservative local one or a cycle among the functions reached.
SummariesPrecise == \A f \in Known : Justified(f, summaries[f])

\* Every function on a recursive cycle, and every function above one, ends
\* with a conservative summary: the over-approximation is not lost on the way
\* up.  (Whitelisted names are exempt; a function calling itself is no cycle.)
ConservativeAboveCycles ==
    pc = "done" =>
        \A f \in Functions \ Whitelist : \A g \in Nodes(callGraph) :
            Reaches(callGraph, f, g) /\ IsCycle(SccOf(callGraph, g))
                => f \in Known /\ summaries[f].isConservative

\* A function is reported pure exactly when nothing it can end up calling
\* writes a variable or may write globals.
PureExactly ==
    pc = "done" /\ DOMAIN callGraph # {} =>
        \A f \in Known \ Whitelist :
            summaries[f].isPure <=>
                \A g \in Reached(f) :
                    local[g].mod = {} /\ ~local[g].modifiesGlobals

\* The callee-first order does its work: the first pass already reaches the
\* fixpoint and the second only confirms it.
TwoPassesSuffice == passes <= 2

\* The while loop ends, on every graph with every seeding.
Terminates == <>(pc = "done")
=============================================================================
