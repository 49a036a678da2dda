----------------------------- MODULE ClangBridge -----------------------------
(***************************************************************************)
(* ClangBridge::extractIR(): the declarations of a translation unit become *)
(* one FunctionIR per name.                                                *)
(*                                                                         *)
(* Clang is external.  It hands every function declaration to              *)
(* VisitFunctionDecl() in the order of the source, and walks a body from   *)
(* left to right, calling back on the nodes whose class the visitor        *)
(* overrides.  A body is the sequence of its nodes in that order, each     *)
(* with its parent (0 at the top) and the side it is on: "lhs" and "rhs"   *)
(* of an assignment, "in" of anything else.  Parentheses, plain variables  *)
(* and literals are left out; so are the texts recorded with a node, which *)
(* is identified by its place instead.                                     *)
(*                                                                         *)
(* A compound assignment is a node of a class of its own in Clang,         *)
(* CompoundAssignOperator, which is not given to TraverseBinaryOperator(). *)
(***************************************************************************)
EXTENDS Integers, SequencesExt

CONSTANTS
    Names,
    FunctionDecls,  \* the functions, overloads being different ones
    Units           \* translation units: sequences of declarations

Kinds == {"for", "subscript", "assign", "compound", "incdec", "call", "expr"}

Node == [kind : Kinds, parent : Nat, side : {"lhs", "rhs", "in"}]

Opaque == <<[kind |-> "none", parent |-> 0, side |-> "in"]>>

(***************************************************************************)
(* A declaration; its `body' is Opaque unless it is the definition.        *)
(***************************************************************************)
Declaration == [function : FunctionDecls, name : Names, inMainFile : BOOLEAN,
                body : Seq(Node) \cup {Opaque}]

\* The nodes around node n of a body.
Ancestors(body, n) == {m \in 1..(n - 1) : \A k \in (m + 1)..n : body[k].parent >= m}

WellFormed(body) ==
    \A n \in DOMAIN body :
        LET parent == body[n].parent
        IN  /\ parent \in {0} \cup (IF n = 1 THEN {} ELSE Ancestors(body, n - 1) \cup {n - 1})
            /\ body[n].side # "in" <=>
                   parent > 0 /\ body[parent].kind \in {"assign", "compound"}
            \* one target, and it comes first
            /\ body[n].side = "lhs" \/ (parent > 0 /\ body[parent].kind = "incdec") =>
                   parent = n - 1
            \* a loop is a statement
            /\ body[n].kind = "for" =>
                   \A m \in Ancestors(body, n) : body[m].kind = "for"

ASSUME UnitsTyped ==
    \A u \in Units :
        /\ u \in Seq(Declaration)
        /\ \A k \in DOMAIN u : u[k].body # Opaque => WellFormed(u[k].body)
        \* a function has one name and at most one definition
        /\ \A j, k \in DOMAIN u : u[j].function = u[k].function =>
               /\ u[j].name = u[k].name
               /\ u[j].body # Opaque /\ u[k].body # Opaque => j = k

VARIABLES
    unit,           \* the translation unit, not modified
    at,             \* the declaration being visited
    ir,             \* the ProgramIR
    fn,             \* the FunctionIR under construction
    visiting,       \* the body of the declaration is being walked
    nextNode,       \* the next node Clang comes to
    open,           \* nodes Clang is inside of, each with what its handler saved
    currentLoopIndex, nestLevel, inWriteContext

walk == <<nextNode, open, currentLoopIndex, nestLevel, inWriteContext>>
vars == <<unit, at, ir, fn, visiting, walk>>

Decl == unit[at]
Body == Decl.body

\* FunctionDecl::hasBody(): some declaration of the function is the definition.
HasBody(d) ==
    \E k \in DOMAIN unit : unit[k].function = d.function /\ unit[k].body # Opaque

NewFunctionIR(d) ==
    [name |-> d.name, hasDefinition |-> HasBody(d), loops |-> <<>>, calls |-> <<>>]

Init ==
    /\ unit \in Units
    /\ at = 1
    /\ ir = <<>>
    /\ fn = [name |-> "", hasDefinition |-> FALSE, loops |-> <<>>, calls |-> <<>>]
    /\ visiting = FALSE
    /\ nextNode = 1 /\ open = <<>>
    /\ currentLoopIndex = 0         \* -1 in the code, which counts from 0
    /\ nestLevel = 0
    /\ inWriteContext = FALSE

-----------------------------------------------------------------------------
(* ProgramVisitor::VisitFunctionDecl().                                    *)

\* Headers, templates and implicit declarations are passed over.
SkipDeclaration ==
    /\ at \in DOMAIN unit /\ ~visiting
    /\ ~Decl.inMainFile
    /\ at' = at + 1
    /\ UNCHANGED <<unit, ir, fn, visiting, walk>>

\* The entry of a name is the first one, or the first with a definition.
Merged(f) ==
    IF f.name \notin DOMAIN ir \/ (f.hasDefinition /\ ~ir[f.name].hasDefinition)
    THEN [n \in DOMAIN ir \cup {f.name} |-> IF n = f.name THEN f ELSE ir[n]]
    ELSE ir

VisitPrototype ==
    /\ at \in DOMAIN unit /\ ~visiting
    /\ Decl.inMainFile /\ Body = Opaque
    /\ ir' = Merged(NewFunctionIR(Decl))
    /\ at' = at + 1
    /\ UNCHANGED <<unit, fn, visiting, walk>>

VisitDefinition ==
    /\ at \in DOMAIN unit /\ ~visiting
    /\ Decl.inMainFile /\ Body # Opaque
    /\ fn' = NewFunctionIR(Decl)
    /\ visiting' = TRUE
    /\ nextNode' = 1 /\ open' = <<>>
    /\ currentLoopIndex' = 0 /\ nestLevel' = 0 /\ inWriteContext' = FALSE
    /\ UNCHANGED <<unit, at, ir>>

BodyWalked ==
    /\ visiting /\ open = <<>> /\ nextNode \notin DOMAIN Body
    /\ ir' = Merged(fn)
    /\ visiting' = FALSE
    /\ at' = at + 1
    /\ UNCHANGED <<unit, fn, walk>>

-----------------------------------------------------------------------------
(* FunctionBodyVisitor, whose handlers Clang calls.                        *)

Inside == IF open = <<>> THEN 0 ELSE Last(open).node
KindInside == IF open = <<>> THEN "none" ELSE Body[Inside].kind

\* The walk is about to enter a child of the node it is inside of ...
AtChild == nextNode \in DOMAIN Body /\ Body[nextNode].parent = Inside

\* ... which is not the right-hand side of an assignment still at its left.
AtNode(kind) ==
    /\ visiting /\ AtChild
    /\ Body[nextNode].kind = kind
    /\ KindInside = "assign" /\ Body[nextNode].side = "rhs" => Last(open).turned

\* Node `nextNode' is entered; `saved' is the local variable of its handler.
EnterWith(saved) ==
    /\ open' = Append(open, [node |-> nextNode, saved |-> saved, turned |-> FALSE])
    /\ nextNode' = nextNode + 1
    /\ UNCHANGED <<unit, at, ir, visiting>>

\* The node the walk is inside of has no child left.
AtEnd(kinds) ==
    /\ visiting /\ open # <<>> /\ ~AtChild
    /\ KindInside \in kinds

LeaveNode ==
    /\ open' = Front(open)
    /\ UNCHANGED <<unit, at, ir, fn, visiting, nextNode>>

InNest == currentLoopIndex # 0

\* TraverseForStmt(): a new nest, unless one is being recorded.
EnterFor ==
    /\ AtNode("for")
    /\ IF InNest
       THEN /\ nestLevel' = nestLevel + 1
            /\ fn' = [fn EXCEPT !.loops[currentLoopIndex].depth =
                          IF nestLevel' > @ THEN nestLevel' ELSE @]
            /\ UNCHANGED currentLoopIndex
       ELSE /\ fn' = [fn EXCEPT !.loops = Append(@,
                 [location |-> nextNode, depth |-> 1, arrayAccesses |-> <<>>, callSites |-> <<>>])]
            /\ currentLoopIndex' = Len(fn.loops) + 1
            /\ nestLevel' = 1
    /\ EnterWith(~InNest)
    /\ UNCHANGED inWriteContext

LeaveForAlways ==
    /\ AtEnd({"for"})
    /\ currentLoopIndex' = 0 /\ nestLevel' = 0
    /\ UNCHANGED inWriteContext
    /\ LeaveNode

LeaveFor ==
    /\ AtEnd({"for"})
    /\ IF Last(open).saved
       THEN currentLoopIndex' = 0 /\ nestLevel' = 0
       ELSE nestLevel' = nestLevel - 1 /\ UNCHANGED currentLoopIndex
    /\ UNCHANGED inWriteContext
    /\ LeaveNode

EnterSubscriptInContext ==
    /\ AtNode("subscript")
    /\ fn' = IF InNest
             THEN [fn EXCEPT !.loops[currentLoopIndex].arrayAccesses =
                       Append(@, [node |-> nextNode, isWrite |-> inWriteContext])]
             ELSE fn
    /\ EnterWith(inWriteContext)
    /\ UNCHANGED <<currentLoopIndex, nestLevel, inWriteContext>>

\* TraverseArraySubscriptExpr(): base and index are read.
EnterSubscript ==
    /\ AtNode("subscript")
    /\ fn' = IF InNest
             THEN [fn EXCEPT !.loops[currentLoopIndex].arrayAccesses =
                       Append(@, [node |-> nextNode, isWrite |-> inWriteContext])]
             ELSE fn
    /\ inWriteContext' = FALSE
    /\ EnterWith(inWriteContext)
    /\ UNCHANGED <<currentLoopIndex, nestLevel>>

\* TraverseBinaryOperator() on an assignment, and TraverseUnaryOperator() on
\* an increment: what follows is written.
EnterWritten ==
    /\ AtNode("assign") \/ AtNode("incdec")
    /\ inWriteContext' = TRUE
    /\ EnterWith(inWriteContext)
    /\ UNCHANGED <<fn, currentLoopIndex, nestLevel>>

TurnToRhs ==
    /\ visiting /\ KindInside = "assign" /\ ~Last(open).turned
    /\ ~(AtChild /\ Body[nextNode].side = "lhs")
    /\ inWriteContext' = FALSE
    /\ open' = [open EXCEPT ![Len(open)].turned = TRUE]
    /\ UNCHANGED <<unit, at, ir, fn, visiting, nextNode, currentLoopIndex, nestLevel>>

LeaveContext ==
    /\ AtEnd({"subscript", "assign", "incdec"})
    /\ KindInside = "assign" => Last(open).turned
    /\ inWriteContext' = Last(open).saved
    /\ UNCHANGED <<currentLoopIndex, nestLevel>>
    /\ LeaveNode

EnterCallOfEither ==
    /\ AtNode("call")
    /\ fn' = IF InNest
             THEN [fn EXCEPT !.loops[currentLoopIndex].callSites = Append(@, nextNode)]
             ELSE [fn EXCEPT !.calls = Append(@, nextNode)]
    /\ EnterWith(FALSE)
    /\ UNCHANGED <<currentLoopIndex, nestLevel, inWriteContext>>

\* VisitCallExpr(): every call is the function's, and the nest's it is in.
EnterCall ==
    /\ AtNode("call")
    /\ fn' = IF InNest
             THEN [fn EXCEPT !.calls = Append(@, nextNode),
                             !.loops[currentLoopIndex].callSites = Append(@, nextNode)]
             ELSE [fn EXCEPT !.calls = Append(@, nextNode)]
    /\ EnterWith(FALSE)
    /\ UNCHANGED <<currentLoopIndex, nestLevel, inWriteContext>>

\* No handler: the walk goes on below.
EnterOther ==
    /\ AtNode("expr") \/ AtNode("compound")
    /\ EnterWith(FALSE)
    /\ UNCHANGED <<fn, currentLoopIndex, nestLevel, inWriteContext>>

LeaveOther ==
    /\ AtEnd({"call", "expr", "compound"})
    /\ UNCHANGED <<currentLoopIndex, nestLevel, inWriteContext>>
    /\ LeaveNode

Next ==
    \/ SkipDeclaration \/ VisitPrototype \/ VisitDefinition \/ BodyWalked
    \/ EnterFor \/ LeaveFor
    \/ EnterSubscript
    \/ EnterWritten \/ TurnToRhs
    \/ LeaveContext
    \/ EnterCall \/ EnterOther \/ LeaveOther

Spec == Init /\ [][Next]_vars

-----------------------------------------------------------------------------
(* What the extraction should find, by the shape of the body alone.        *)

Done == at \notin DOMAIN unit

MainFileDecls == {k \in DOMAIN unit : unit[k].inMainFile}

\* The declaration the entry of a name is from: the first one of a function
\* that has a body, or just the first.
Origin(name) ==
    LET of == {k \in MainFileDecls : unit[k].name = name}
        defined == {k \in of : HasBody(unit[k])}
    IN  Min(IF defined # {} THEN defined ELSE of)

Within(body, n, kinds) ==
    {m \in DOMAIN body : n \in Ancestors(body, m) /\ body[m].kind \in kinds}

Outermost(body) ==
    {n \in DOMAIN body : body[n].kind = "for" /\ Ancestors(body, n) = {}}

\* The sequence lists the numbers in S, each once, in increasing order.
Lists(seq, S) ==
    /\ ToSet(seq) = S
    /\ \A i, j \in DOMAIN seq : i < j => seq[i] < seq[j]

\* Node n is the left side of an assignment, compound or not, or the operand
\* of an increment.
DirectTarget(body, n) ==
    LET parent == body[n].parent
    IN  parent > 0 /\ (body[parent].kind = "incdec" \/ body[n].side = "lhs")

\* Node n belongs to the target of an assignment (not a compound one) or of an
\* increment, and to no subscript, right side or further target inside it.
InTarget(body, n) ==
    \E m \in Ancestors(body, n) :
        /\ \/ body[m].kind = "incdec"
           \/ /\ body[m].kind = "assign"
              /\ \E c \in Ancestors(body, n) \cup {n} :
                    body[c].parent = m /\ body[c].side = "lhs"
        /\ \A k \in Ancestors(body, n) :
              k > m => body[k].kind \notin {"subscript", "assign", "incdec"}

AccessesOf(name) ==
    UNION {{ir[name].loops[k].arrayAccesses[j] : j \in DOMAIN ir[name].loops[k].arrayAccesses} :
           k \in DOMAIN ir[name].loops}

\* Types, and the bookkeeping of the walk: a nest is being recorded exactly
\* while the walk is inside a loop, and nestLevel says how deep.
TypeOK ==
    /\ at \in 1..(Len(unit) + 1)
    /\ DOMAIN ir \subseteq Names /\ \A n \in DOMAIN ir : ir[n].name = n
    /\ visiting \in BOOLEAN /\ inWriteContext \in BOOLEAN
    /\ visiting =>
         /\ at \in DOMAIN unit
         /\ nextNode \in 1..(Len(Body) + 1)
         /\ nestLevel = Cardinality({k \in DOMAIN open : Body[open[k].node].kind = "for"})
         /\ currentLoopIndex = IF nestLevel = 0 THEN 0 ELSE Len(fn.loops)

\* The nests of an entry are the outermost loops of its body, in order, each
\* with its depth and with every subscript and every call inside it once, in
\* order, however the loops in it are nested; a call outside is recorded too.
NestsAreTheOutermostLoops ==
    Done => \A name \in DOMAIN ir :
        LET entry == ir[name]
            body == unit[Origin(name)].body
        IN  body # Opaque =>
            /\ Lists(entry.calls, {n \in DOMAIN body : body[n].kind = "call"})
            /\ Lists([k \in DOMAIN entry.loops |-> entry.loops[k].location], Outermost(body))
            /\ \A k \in DOMAIN entry.loops :
                 LET nest == entry.loops[k]
                     inside == Within(body, nest.location, {"for"})
                 IN  /\ Lists([j \in DOMAIN nest.arrayAccesses |-> nest.arrayAccesses[j].node],
                              Within(body, nest.location, {"subscript"}))
                     /\ Lists(nest.callSites, Within(body, nest.location, {"call"}))
                     /\ nest.depth = Max({1} \cup {Cardinality(Ancestors(body, n)) + 1 : n \in inside})

\* The flag saved and restored along the walk never misses the direct target of
\* an assignment or increment, and never marks as written what is outside of a
\* target: an index, a right side, or what comes after.  (Compound assignments,
\* and what else is inside a target, are the subject of WritesAreDirectTargets.)
WritesAreTargets ==
    Done => \A name \in DOMAIN ir : \A access \in AccessesOf(name) :
        LET body == unit[Origin(name)].body
        IN  /\ DirectTarget(body, access.node) /\ body[body[access.node].parent].kind # "compound"
                   => access.isWrite
            /\ access.isWrite => InTarget(body, access.node)

-----------------------------------------------------------------------------
(* What the comments say and the code does not do.                         *)

\* ClangBridge.cpp, on declarations of one name: "Prefer whichever one
\* carries the actual definition".  Where the main file defines a function
\* and the name is not overloaded, the entry has the loops of the definition.
DefinitionIsExtracted ==
    Done => \A k \in MainFileDecls :
        LET name == unit[k].name
        IN  /\ unit[k].body # Opaque
            /\ \A j \in DOMAIN unit : unit[j].name = name => unit[j].function = unit[k].function
            => {ir[name].loops[j].location : j \in DOMAIN ir[name].loops} = Outermost(unit[k].body)

\* ClangBridge.cpp: "an ArraySubscriptExpr is a write if it is the direct LHS
\* of `=' or a compound-assignment operator, or the operand of `++'/`--';
\* everything else is a read".
WritesAreDirectTargets ==
    Done => \A name \in DOMAIN ir : \A access \in AccessesOf(name) :
        access.isWrite <=> DirectTarget(unit[Origin(name)].body, access.node)
=============================================================================
