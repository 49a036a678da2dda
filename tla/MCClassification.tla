-------------------------- MODULE MCClassification --------------------------
(***************************************************************************)
(* A defined function f, which may call g and the whitelisted printf; g is *)
(* not in the program, only declared, or defined, and may call back and    *)
(* write the array of f or its own.  The program may declare printf or     *)
(* define its own, which may call g, or end a chain of calls from f.       *)
(***************************************************************************)
EXTENDS Classification, TLC

CONSTANTS f, g, printf, rf, rg, rprintf, u, w, i

MCNames == {f, g, printf}
MCQualified == (f :> rf) @@ (g :> rg) @@ (printf :> rprintf)
MCFunctions == {f, g, printf, rf, rg, rprintf}
MCVars == {u, w, i}

Declared == [defined |-> FALSE, calls |-> {}, mod |-> {}, ref |-> {},
             effects |-> FALSE]

\* A body that writes an array in a loop, or nothing.
Bodies(v, callees) ==
    [defined : {TRUE}, calls : SUBSET callees, mod : {{v}, {}}, ref : {{}},
     effects : {FALSE}]

\* Who reads an array calls, through another, who writes it.
Chain ==
    (f :> [defined |-> TRUE, calls |-> {g}, mod |-> {}, ref |-> {u}, effects |-> FALSE]) @@
    (g :> [defined |-> TRUE, calls |-> {printf}, mod |-> {}, ref |-> {}, effects |-> FALSE]) @@
    (printf :> [defined |-> TRUE, calls |-> {}, mod |-> {u}, ref |-> {}, effects |-> FALSE])

\* Who writes nothing calls who writes a scalar, as in `total += value'.
Accumulates ==
    (f :> [defined |-> TRUE, calls |-> {g}, mod |-> {}, ref |-> {}, effects |-> FALSE]) @@
    (g :> [defined |-> TRUE, calls |-> {}, mod |-> {}, ref |-> {}, effects |-> TRUE])

MCPrograms ==
    {(f :> body) : body \in Bodies(u, {g, printf})}
    \cup {(f :> body) @@ (g :> Declared) : body \in Bodies(u, {g, printf})}
    \cup {(f :> body) @@ (g :> other) :
              body \in Bodies(u, {g, printf}), other \in Bodies(w, {f}) \cup Bodies(u, {f})}
    \cup {(f :> body) @@ (printf :> own) :
              body \in Bodies(u, {printf}), own \in {Declared} \cup Bodies(w, {g})}
    \cup {Chain, Accumulates}

\* In the rebuilt AST only the induction variable is written.
MCRoseRecords ==
    {[mod |-> {i}, ref |-> {i}, modifiesGlobals |-> FALSE,
      isConservative |-> FALSE, isPure |-> FALSE]}

\* A loop over i that writes or reads an array, of a parameter or not, and
\* calls once.
MCNests ==
    {[inductionVar |-> i, calls |-> <<c>>, params |-> own,
      accesses |-> {[array |-> v, index |-> [base |-> i, offset |-> 0],
                     isWrite |-> write]}] :
        c \in MCNames, v \in {u, w}, write \in BOOLEAN, own \in {{}, {u, w}}}
=============================================================================
