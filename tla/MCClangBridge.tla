----------------------------- MODULE MCClangBridge -----------------------------
(***************************************************************************)
(* Every body of up to three nodes, and every loop around four nodes, each *)
(* alone in its unit; and every unit of three declarations of two names,   *)
(* one of which is overloaded, in the main file or in a header, with a     *)
(* definition that has one loop.                                           *)
(***************************************************************************)
EXTENDS ClangBridge

CONSTANTS f, g, f1, f2, g1

MCNames == {f, g}
MCFunctionDecls == {f1, f2, g1}
NameOf(function) == IF function = g1 THEN g ELSE f

Extended(body) ==
    {longer \in {Append(body, node) :
                    node \in [kind : Kinds, parent : {0} \cup DOMAIN body,
                             side : {"lhs", "rhs", "in"}]} : WellFormed(longer)}

Bodies1 == Extended(<<>>)
Bodies2 == UNION {Extended(body) : body \in Bodies1}
Bodies3 == UNION {Extended(body) : body \in Bodies2}

\* A loop around one more node than a body has.
ExtendedInLoop(body) ==
    {longer \in Extended(body) :
        LET node == Last(longer) IN node.parent > 0 /\ node.kind \notin {"for", "compound"}}

Loops1 == {<<[kind |-> "for", parent |-> 0, side |-> "in"]>>}
Loops2 == UNION {ExtendedInLoop(body) : body \in Loops1}
Loops3 == UNION {ExtendedInLoop(body) : body \in Loops2}
Loops4 == UNION {ExtendedInLoop(body) : body \in Loops3}
Loops5 == UNION {ExtendedInLoop(body) : body \in Loops4}

Bodies == {<<>>} \cup Bodies1 \cup Bodies2 \cup Bodies3 \cup Loops5

Loop == <<[kind |-> "for", parent |-> 0, side |-> "in"],
          [kind |-> "subscript", parent |-> 1, side |-> "in"]>>

Declarations ==
    {d \in [function : MCFunctionDecls, name : MCNames, inMainFile : BOOLEAN,
            body : {Opaque, Loop}] : d.name = NameOf(d.function)}

MCUnits ==
    {<<[function |-> f1, name |-> f, inMainFile |-> TRUE, body |-> body]>> : body \in Bodies}
    \cup {u \in [1..3 -> Declarations] :
            \A j, k \in 1..3 :
                u[j].function = u[k].function /\ u[j].body # Opaque /\ u[k].body # Opaque
                    => j = k}
=============================================================================
