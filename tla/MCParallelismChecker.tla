------------------------- MODULE MCParallelismChecker -------------------------
(***************************************************************************)
(* Loops with up to three accesses to a parameter array A and a global G,  *)
(* indexed by the induction variable i or by another base j, and up to two *)
(* calls, of one callee of each kind the analysis can report.              *)
(***************************************************************************)
EXTENDS ParallelismChecker, TLC

CONSTANTS A, G, i, j, math, writer, global, extern, cycle, reduce

MCNames == {A, G}
MCBases == {i, j}
MCCalleeNames == {math, writer, global, extern, cycle, reduce}

MCLoops ==
    {loopNest \in [inductionVar : {i},
               accesses : {S \in SUBSET [array : MCNames,
                                         index : [base : MCBases, offset : {0, 2}],
                                         isWrite : BOOLEAN] : Cardinality(S) <= 3},
               calls : UNION {[1..n -> MCCalleeNames] : n \in 0..2},
               params : {{}, {A}}] :
        \* the third access and the second call in turn
        Cardinality(loopNest.accesses) + Len(loopNest.calls) <= 3}
    \cup [inductionVar : {NoVar},
          accesses : {{[array |-> A, index |-> [base |-> j, offset |-> 0], isWrite |-> TRUE]}},
          calls : {<<>>}, params : {{A}}]

Silent == [mod |-> {}, ref |-> {}, modifiesGlobals |-> FALSE,
           isConservative |-> FALSE, isPure |-> FALSE]

\* math is whitelisted, writer writes and reads the array G in a loop, global
\* is reported to modify globals, extern has no summary, cycle is a recursive
\* pair without effects, reduce a defined helper without effects.
MCSummaries ==
    (math   :> [Silent EXCEPT !.isPure = TRUE]) @@
    (writer :> [Silent EXCEPT !.mod = {G}, !.ref = {G}]) @@
    (global :> [Silent EXCEPT !.modifiesGlobals = TRUE]) @@
    (cycle  :> [Silent EXCEPT !.isConservative = TRUE, !.isPure = TRUE]) @@
    (reduce :> [Silent EXCEPT !.isPure = TRUE])

MCSummaryMaps == {MCSummaries}
MCBaseValue == (i :> 0) @@ (j :> 1)
MCWrites == (math :> {}) @@ (writer :> {G}) @@ (global :> {G}) @@
            (extern :> {A, G}) @@ (cycle :> {}) @@ (reduce :> {})
=============================================================================
