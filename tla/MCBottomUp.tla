----------------------------- MODULE MCBottomUp -----------------------------
(***************************************************************************)
(* Every call graph over three functions, and every order in which keys    *)
(* and callees can be visited.  Then, for a graph without self-calls, any  *)
(* choice per function of no entry or one of four local summaries; a call  *)
(* of a function to itself, which the propagation skips, is left to graphs *)
(* where no function has an entry.                                         *)
(***************************************************************************)
EXTENDS BottomUp

CONSTANTS f1, f2, f3, u, w

MCFunctions == {f1, f2, f3}
MCVars == {u, w}
MCWhitelist == {f3}

Blank  == NewSummary
Writer == [NewSummary EXCEPT !.mod = {u}, !.ref = {w}]
Global == [NewSummary EXCEPT !.mod = {w}, !.modifiesGlobals = TRUE]
Extern == [NewSummary EXCEPT !.modifiesGlobals = TRUE, !.isConservative = TRUE]
MCSeeds == {Blank, Writer, Global, Extern}

PartialSeedings == UNION {[D -> MCSeeds] : D \in SUBSET MCFunctions}

MCSeedings ==
    [graph \in CallGraphOver(MCFunctions) |->
        IF \E f \in DOMAIN graph : f \in graph[f] THEN {<<>>} ELSE PartialSeedings]
=============================================================================
