------------------------------ MODULE SccOrder ------------------------------
(***************************************************************************)
(* What computeSCCs() promises, independent of how it finds it: the        *)
(* strongly connected components of the call graph are listed one at a     *)
(* time, each only once everything its members call outside it is already  *)
(* listed, until all are.  The order among independent components is open  *)
(* (the program iterates over hash maps).                                  *)
(***************************************************************************)
EXTENDS CallGraphs, Sequences

VARIABLES callGraph, sccs

vars == <<callGraph, sccs>>

Listed == {sccs[i] : i \in DOMAIN sccs}

Ready(C) ==
    /\ C \notin Listed
    /\ \A f \in C : Callees(callGraph, f) \subseteq C \cup UNION Listed

Init == callGraph \in CallGraphOver(Functions) /\ sccs = <<>>

List(C) ==
    /\ Ready(C)
    /\ sccs' = Append(sccs, C)
    /\ UNCHANGED callGraph

Next == \E C \in Sccs(callGraph) : List(C)

\* The list is completed.  Stated as the promise itself, not as fairness of
\* Next: Next is enabled until the list is complete.
Completes == <>(Listed = Sccs(callGraph))

Spec == Init /\ [][Next]_vars /\ Completes
=============================================================================
