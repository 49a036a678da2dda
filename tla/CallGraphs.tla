----------------------------- MODULE CallGraphs -----------------------------
(***************************************************************************)
(* The call graph of InterproceduralAnalysis: callGraph_ maps a caller to  *)
(* the names it calls.  A name that is only ever called need not be a key. *)
(* The graph is a function whose domain is the set of keys.                *)
(*                                                                         *)
(* Reachability is defined by closed sets rather than by recursion, which  *)
(* serves evaluation on small graphs and deductive proof alike.            *)
(***************************************************************************)
EXTENDS Naturals, FiniteSets

CONSTANT Functions      \* function names

ASSUME FunctionsFinite == IsFiniteSet(Functions)

CallGraphOver(F) == UNION {[Keys -> SUBSET F] : Keys \in SUBSET F}

Nodes(graph) == DOMAIN graph \cup UNION {graph[f] : f \in DOMAIN graph}

Callees(graph, f) == IF f \in DOMAIN graph THEN graph[f] ELSE {}

CallClosed(graph, S) == \A f \in S : Callees(graph, f) \subseteq S

\* A call chain, possibly empty, leads from f to g.
Reaches(graph, f, g) ==
    \A S \in SUBSET Functions : f \in S /\ CallClosed(graph, S) => g \in S

\* The strongly connected component of f: what f reaches and is reached by.
SccOf(graph, f) ==
    {g \in Nodes(graph) : Reaches(graph, f, g) /\ Reaches(graph, g, f)}

Sccs(graph) == {SccOf(graph, f) : f \in Nodes(graph)}

\* A component list in the order the header of computeSCCs promises: each
\* component once, and before any other component that calls into it.
CalleeFirst(graph, order) ==
    /\ \A C \in Sccs(graph) : \E i \in DOMAIN order : order[i] = C
    /\ \A i, j \in DOMAIN order : order[i] = order[j] => i = j
    /\ \A i, j \in DOMAIN order :
          i < j => \A f \in order[i] : Callees(graph, f) \cap order[j] = {}

CalleeFirstOrders(graph) ==
    {order \in UNION {[1..n -> Sccs(graph)] : n \in 0..Cardinality(Functions)} :
        CalleeFirst(graph, order)}
=============================================================================
