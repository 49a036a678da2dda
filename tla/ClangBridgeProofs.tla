--------------------------- MODULE ClangBridgeProofs ---------------------------
(***************************************************************************)
(* Proofs about ClangBridge, for every translation unit: whatever is       *)
(* nested in what, the walk records the loops, accesses and calls that are *)
(* there, and each name gets the declaration it should.                    *)
(***************************************************************************)
EXTENDS ClangBridge, FiniteSetTheorems, SequenceTheorems, TLAPS

-----------------------------------------------------------------------------
(* The invariant of the walk.                                              *)

OpenNodes == {open[i].node : i \in DOMAIN open}

\* The next node's parent, if there is a next node, is one the walk is inside
\* of or none.
NextBelow == nextNode \in DOMAIN Body => Body[nextNode].parent \in {0} \cup OpenNodes

\* The nodes the walk is inside of are a path from the top, and all nodes
\* come to since the walk entered one are below it; of a node it has left,
\* the next node is not below.
PathInv ==
    /\ open \in Seq([node : 1..(nextNode - 1), saved : BOOLEAN, turned : BOOLEAN])
    /\ \A i \in DOMAIN open :
          /\ Body[open[i].node].parent = IF i = 1 THEN 0 ELSE open[i - 1].node
          /\ \A k \in (open[i].node + 1)..(nextNode - 1) : Body[k].parent >= open[i].node
    /\ \A i, j \in DOMAIN open : i < j => open[i].node < open[j].node
    /\ \A m \in (1..(nextNode - 1)) \ OpenNodes :
          nextNode \in DOMAIN Body => \E k \in (m + 1)..nextNode : Body[k].parent < m
    /\ NextBelow

KindAt(i) == Body[open[i].node].kind

\* The loops the walk is inside of are the outermost of its nodes, and the
\* first of them has opened the nest.
NestInv ==
    /\ nestLevel \in 0..Len(open)
    /\ \A i \in DOMAIN open : KindAt(i) = "for" <=> i <= nestLevel
    /\ \A i \in 1..nestLevel : open[i].saved <=> i = 1
    /\ currentLoopIndex = IF nestLevel = 0 THEN 0 ELSE Len(fn.loops)
    /\ nestLevel > 0 => /\ fn.loops # <<>>
                        /\ fn.loops[Len(fn.loops)].location = open[1].node

\* Of the nodes of a path: whether the i-th says if its operands are written,
\* and whether it says that the operand the walk is at is.
IsContext(body, path, i) == body[path[i].node].kind \in {"subscript", "assign", "incdec"}

SaysWritten(body, path, i) ==
    \/ body[path[i].node].kind = "incdec"
    \/ body[path[i].node].kind = "assign" /\ ~path[i].turned

\* Whether what the first i of these nodes lead to is written.
ContextAt(body, path, i) ==
    \E j \in 1..i : /\ SaysWritten(body, path, j)
                    /\ \A k \in (j + 1)..i : ~IsContext(body, path, k)

\* The flag and the saved flags are what the path says, and the walk turns
\* from the left of an assignment to its right where the body does.
ContextInv ==
    /\ inWriteContext <=> ContextAt(Body, open, Len(open))
    /\ \A i \in DOMAIN open : IsContext(Body, open, i) => (open[i].saved <=> ContextAt(Body, open, i - 1))
    /\ \A i \in DOMAIN open : i > 1 /\ KindAt(i - 1) = "assign" =>
          (Body[open[i].node].side = "lhs" <=> ~open[i - 1].turned)
    /\ \A i \in DOMAIN open :
          open[i].turned /\ nextNode \in DOMAIN Body /\ Body[nextNode].parent = open[i].node
              => Body[nextNode].side # "lhs"

Nest(body) ==
    [location : DOMAIN body, depth : Nat,
     arrayAccesses : Seq([node : DOMAIN body, isWrite : BOOLEAN]),
     callSites : Seq(DOMAIN body)]

DepthOf(body, n) == Cardinality(Ancestors(body, n)) + 1

\* A nest holds what is inside its loop of the nodes before n.
NestHolds(nest, body, n) ==
    /\ Lists([j \in DOMAIN nest.arrayAccesses |-> nest.arrayAccesses[j].node],
             {m \in Within(body, nest.location, {"subscript"}) : m < n})
    /\ \A j \in DOMAIN nest.arrayAccesses :
          nest.arrayAccesses[j].isWrite <=> InTarget(body, nest.arrayAccesses[j].node)
    /\ Lists(nest.callSites, {m \in Within(body, nest.location, {"call"}) : m < n})
    /\ nest.depth \in {1} \cup {DepthOf(body, m) : m \in {l \in Within(body, nest.location, {"for"}) : l < n}}
    /\ nest.depth >= 1
    /\ \A m \in Within(body, nest.location, {"for"}) : m < n => DepthOf(body, m) <= nest.depth

\* A FunctionIR holds what its body has before node n.
Holds(entry, body, n) ==
    /\ entry.calls \in Seq(DOMAIN body) /\ entry.loops \in Seq(Nest(body))
    /\ Lists(entry.calls, {m \in DOMAIN body : body[m].kind = "call" /\ m < n})
    /\ Lists([k \in DOMAIN entry.loops |-> entry.loops[k].location], {m \in Outermost(body) : m < n})
    /\ \A k \in DOMAIN entry.loops : NestHolds(entry.loops[k], body, n)

\* While a body is being walked.
WalkInv ==
    /\ at \in DOMAIN unit /\ Decl.inMainFile /\ Body # Opaque
    /\ nextNode \in 1..(Len(Body) + 1)
    /\ fn \in [name : {Decl.name}, hasDefinition : {TRUE},
               loops : Seq(Nest(Body)), calls : Seq(DOMAIN Body)]
    /\ PathInv
    /\ NestInv
    /\ ContextInv
    /\ Holds(fn, Body, nextNode)

-----------------------------------------------------------------------------
(* The invariant of the entries.                                           *)

\* What the declaration k becomes.
EntryOf(entry, k) ==
    /\ entry.name = unit[k].name
    /\ entry.hasDefinition = HasBody(unit[k])
    /\ unit[k].body = Opaque => entry.loops = <<>>
    /\ unit[k].body # Opaque => Holds(entry, unit[k].body, Len(unit[k].body) + 1)

\* Of the declarations of the name before declaration `end', k is preferred.
IsOrigin(name, k, end) ==
    /\ k \in MainFileDecls /\ k < end /\ unit[k].name = name
    /\ \A j \in MainFileDecls : j < end /\ unit[j].name = name =>
          \/ k <= j /\ (HasBody(unit[j]) => HasBody(unit[k]))
          \/ HasBody(unit[k]) /\ ~HasBody(unit[j])

EntriesInv ==
    /\ \A k \in MainFileDecls : k < at => unit[k].name \in DOMAIN ir
    /\ \A name \in DOMAIN ir :
          \E k \in MainFileDecls : IsOrigin(name, k, at) /\ EntryOf(ir[name], k)

IInv ==
    /\ unit \in Units /\ at \in 1..(Len(unit) + 1)
    /\ visiting \in BOOLEAN /\ inWriteContext \in BOOLEAN
    /\ EntriesInv
    /\ visiting => WalkInv
-----------------------------------------------------------------------------
(* Units and lists.                                                        *)

\* What is assumed of a body.
LEMMA BodyFacts ==
    ASSUME unit \in Units, NEW k \in DOMAIN unit, unit[k].body # Opaque
    PROVE  LET body == unit[k].body IN
           /\ body \in Seq(Node) /\ Len(body) \in Nat /\ DOMAIN body = 1..Len(body)
           /\ \A n \in DOMAIN body :
                 /\ body[n].kind \in Kinds /\ body[n].parent \in Nat
                 /\ body[n].side \in {"lhs", "rhs", "in"}
                 /\ body[n].parent \in {0} \cup (IF n = 1 THEN {} ELSE Ancestors(body, n - 1) \cup {n - 1})
                 /\ body[n].side # "in" <=>
                        body[n].parent > 0 /\ body[body[n].parent].kind \in {"assign", "compound"}
                 /\ body[n].side = "lhs" => body[n].parent = n - 1
                 /\ body[n].kind = "for" => \A m \in Ancestors(body, n) : body[m].kind = "for"
<1> DEFINE body == unit[k].body
<1>1. unit \in Seq(Declaration) /\ WellFormed(body)
  BY UnitsTyped
<1>2. unit[k] \in Declaration
  BY <1>1
<1>3. body \in Seq(Node)
  BY <1>2 DEF Declaration
<1> HIDE DEF body
<1>4. /\ Len(body) \in Nat /\ DOMAIN body = 1..Len(body)
      /\ \A n \in DOMAIN body : body[n] \in Node
  BY <1>3
<1>5. \A n \in DOMAIN body :
         /\ body[n].kind \in Kinds /\ body[n].parent \in Nat
         /\ body[n].side \in {"lhs", "rhs", "in"}
  BY <1>4 DEF Node
<1>6. QED BY <1>1, <1>3, <1>4, <1>5 DEF body, WellFormed

\* And of the declarations.
LEMMA UnitFacts ==
    ASSUME unit \in Units
    PROVE  /\ Len(unit) \in Nat /\ DOMAIN unit = 1..Len(unit)
           /\ \A k \in DOMAIN unit : /\ unit[k].name \in Names
                                     /\ unit[k].body # Opaque => HasBody(unit[k])
<1>1. unit \in Seq(Declaration)
  BY UnitsTyped
<1>2. \A k \in DOMAIN unit : unit[k] \in Declaration
  BY <1>1
<1> QED BY <1>1, <1>2 DEF Declaration, HasBody

\* A list with one more, larger number at its end.
LEMMA ListsOneMore ==
    ASSUME NEW s, NEW t, NEW len \in Nat, NEW S \in SUBSET Int, NEW n \in Int,
           DOMAIN s = 1..len, DOMAIN t = 1..(len + 1),
           \A i \in 1..len : t[i] = s[i], t[len + 1] = n,
           \A m \in S : m < n, Lists(s, S)
    PROVE  Lists(t, S \cup {n})
<1>1. \A i \in 1..(len + 1) : i \in 1..len \/ i = len + 1
  OBVIOUS
<1>2. ToSet(t) = S \cup {n}
  <2>1. S = {s[i] : i \in 1..len}
    BY DEF Lists, ToSet
  <2>2. {t[i] : i \in 1..(len + 1)} = {s[i] : i \in 1..len} \cup {n}
    <3>1. 1..len \subseteq 1..(len + 1) /\ len + 1 \in 1..(len + 1)
      OBVIOUS
    <3> QED BY <1>1, <3>1
  <2> QED BY <2>1, <2>2 DEF ToSet
<1>3. ASSUME NEW i \in DOMAIN t, NEW j \in DOMAIN t, i < j PROVE t[i] < t[j]
  <2>1. i \in 1..len /\ t[i] = s[i] /\ s[i] \in S
    BY <1>3, <1>1 DEF Lists, ToSet
  <2>2. CASE j \in 1..len
    BY <1>3, <2>1, <2>2 DEF Lists
  <2>3. CASE j = len + 1
    BY <2>1, <2>3
  <2> QED BY <1>1, <2>2, <2>3
<1> QED BY <1>2, <1>3 DEF Lists

\* The empty list.
LEMMA ListsNone == ASSUME NEW s, DOMAIN s = {} PROVE Lists(s, {})
BY DEF Lists, ToSet

LEMMA EmptyDomain == DOMAIN <<>> = {} /\ Len(<<>>) = 0 /\ \A S : <<>> \in Seq(S)
<1>1. DOMAIN <<>> = {}
  BY EmptySeq
<1> QED BY <1>1, EmptySeq

-----------------------------------------------------------------------------
(* The path.                                                               *)

PathNode == [node : DOMAIN Body, saved : BOOLEAN, turned : BOOLEAN]

\* The invariant in the terms of the proofs.
LEMMA WalkFacts ==
    ASSUME unit \in Units, WalkInv
    PROVE  /\ Body \in Seq(Node) /\ Len(Body) \in Nat /\ DOMAIN Body = 1..Len(Body)
           /\ at \in DOMAIN unit /\ Body # Opaque
           /\ nextNode \in 1..(Len(Body) + 1)
           /\ nextNode \in DOMAIN Body <=> nextNode # Len(Body) + 1
           /\ Len(open) \in Nat /\ DOMAIN open = 1..Len(open)
           /\ open \in Seq(PathNode)
           /\ open # <<>> <=> Len(open) > 0
           /\ \A i \in DOMAIN open : /\ open[i].node \in 1..(nextNode - 1)
                                     /\ open[i].node \in DOMAIN Body
                                     /\ open[i].saved \in BOOLEAN /\ open[i].turned \in BOOLEAN
<1>1. /\ Body \in Seq(Node) /\ Len(Body) \in Nat /\ DOMAIN Body = 1..Len(Body)
      /\ at \in DOMAIN unit /\ Body # Opaque
      /\ nextNode \in 1..(Len(Body) + 1)
  BY BodyFacts DEF WalkInv, Body, Decl
<1>2. open \in Seq([node : 1..(nextNode - 1), saved : BOOLEAN, turned : BOOLEAN])
  BY DEF WalkInv, PathInv
<1> DEFINE T == [node : 1..(nextNode - 1), saved : BOOLEAN, turned : BOOLEAN]
<1>3. 1..(nextNode - 1) \subseteq DOMAIN Body
  BY <1>1
<1>4. T \subseteq PathNode
  BY <1>3 DEF PathNode
<1>5. \A i \in DOMAIN open : open[i] \in T
  <2> HIDE DEF T
  <2>1. open \in Seq(T)
    BY <1>2 DEF T
  <2> QED BY <2>1
<1>6. open \in Seq(PathNode)
  <2> HIDE DEF T
  <2>1. open \in Seq(T)
    BY <1>2 DEF T
  <2> QED BY <2>1, <1>4, SeqMonotonic
<1> QED BY <1>1, <1>2, <1>3, <1>5, <1>6

\* Where the walk enters a child, it is inside of just the nodes around it.
LEMMA PathIsAncestors ==
    ASSUME unit \in Units, WalkInv, AtChild
    PROVE  OpenNodes = Ancestors(Body, nextNode)
<1> USE WalkFacts
<1>1. /\ nextNode \in DOMAIN Body /\ Body[nextNode].parent = Inside
      /\ Inside = IF Len(open) = 0 THEN 0 ELSE open[Len(open)].node
  BY DEF AtChild, Inside, Last
<1>2. ASSUME NEW m \in OpenNodes PROVE m \in Ancestors(Body, nextNode)
  <2>1. PICK i \in DOMAIN open : m = open[i].node
    BY DEF OpenNodes
  <2>2. \A k \in (m + 1)..(nextNode - 1) : Body[k].parent >= m
    BY <2>1 DEF WalkInv, PathInv
  <2>3. m <= open[Len(open)].node
    <3>1. Len(open) \in DOMAIN open /\ (i = Len(open) \/ i < Len(open))
      BY <2>1
    <3>2. i < Len(open) => open[i].node < open[Len(open)].node
      BY <2>1, <3>1 DEF WalkInv, PathInv
    <3> QED BY <2>1, <3>1, <3>2
  <2>4. Body[nextNode].parent >= m
    BY <1>1, <2>1, <2>3
  <2>5. \A k \in (m + 1)..nextNode : k \in (m + 1)..(nextNode - 1) \/ k = nextNode
    BY <2>1
  <2> QED BY <2>1, <2>2, <2>4, <2>5 DEF Ancestors
<1>3. ASSUME NEW m \in Ancestors(Body, nextNode), m \notin OpenNodes PROVE FALSE
  <2>1. m \in 1..(nextNode - 1) /\ \A k \in (m + 1)..nextNode : Body[k].parent >= m
    BY DEF Ancestors
  <2>2. PICK k \in (m + 1)..nextNode : Body[k].parent < m
    BY <1>1, <1>3, <2>1 DEF WalkInv, PathInv
  <2>3. k \in DOMAIN Body /\ Body[k].parent \in Nat
    BY <1>1, <2>1, <2>2, BodyFacts DEF Body, Decl
  <2> QED BY <2>1, <2>2, <2>3
<1> QED BY <1>2, <1>3

\* Entering a node puts it on the path.
LEMMA PathEntered ==
    ASSUME unit \in Units, WalkInv, AtChild, NEW saved \in BOOLEAN, EnterWith(saved)
    PROVE  /\ UNCHANGED <<unit, at, ir, visiting>> /\ Body' = Body
           /\ nextNode \in DOMAIN Body /\ nextNode' = nextNode + 1
           /\ nextNode' \in 1..(Len(Body) + 1)
           /\ Len(open') = Len(open) + 1 /\ DOMAIN open' = 1..(Len(open) + 1)
           /\ \A i \in DOMAIN open : open'[i] = open[i]
           /\ open'[Len(open) + 1] = [node |-> nextNode, saved |-> saved, turned |-> FALSE]
           /\ PathInv'
<1> USE WalkFacts
<1>1. /\ nextNode \in DOMAIN Body /\ Body[nextNode].parent = Inside
      /\ Inside = IF Len(open) = 0 THEN 0 ELSE open[Len(open)].node
  BY DEF AtChild, Inside, Last
<1>2. UNCHANGED <<unit, at, ir, visiting>> /\ Body' = Body /\ nextNode' = nextNode + 1
  BY DEF EnterWith, Body, Decl
<1> DEFINE e == [node |-> nextNode, saved |-> saved, turned |-> FALSE]
<1>3. open' = Append(open, e) /\ e \in PathNode
  BY <1>1 DEF EnterWith, PathNode
<1>4. /\ Len(open') = Len(open) + 1 /\ DOMAIN open' = 1..(Len(open) + 1)
      /\ \A i \in DOMAIN open : open'[i] = open[i]
      /\ open'[Len(open) + 1] = e
      /\ open' \in Seq(PathNode)
  BY <1>3, AppendProperties, LenProperties
<1>5. \A i \in DOMAIN open' : i \in DOMAIN open \/ i = Len(open) + 1
  BY <1>4
<1>6. OpenNodes' = OpenNodes \cup {nextNode}
  <2>1. OpenNodes' = {open'[i].node : i \in DOMAIN open'}
    BY DEF OpenNodes
  <2>2. DOMAIN open' = DOMAIN open \cup {Len(open) + 1}
    BY <1>4, <1>5
  <2>3. /\ \A i \in DOMAIN open : open'[i].node = open[i].node
        /\ open'[Len(open) + 1].node = nextNode
    BY <1>4
  <2> HIDE DEF e
  <2> QED BY ONLY <2>1, <2>2, <2>3 DEF OpenNodes
<1>7. open' \in Seq([node : 1..(nextNode' - 1), saved : BOOLEAN, turned : BOOLEAN])
  <2> DEFINE T == [node : 1..(nextNode' - 1), saved : BOOLEAN, turned : BOOLEAN]
  <2>1. \A i \in DOMAIN open' : open'[i].node \in 1..(nextNode' - 1)
    BY <1>1, <1>2, <1>4, <1>5
  <2>2. \A i \in DOMAIN open' : open'[i] \in PathNode
    BY <1>4
  <2>3. \A i \in DOMAIN open' : open'[i] \in T
    BY <2>1, <2>2 DEF PathNode
  <2> HIDE DEF T
  <2>4. open' = [i \in 1..Len(open') |-> open'[i]] /\ Len(open') \in Nat
    BY <1>4
  <2>5. open' \in Seq(T)
    BY <2>3, <2>4, <1>4
  <2> QED BY <2>5 DEF T
<1>8. ASSUME NEW i \in DOMAIN open'
      PROVE  /\ Body[open'[i].node].parent = IF i = 1 THEN 0 ELSE open'[i - 1].node
             /\ \A k \in (open'[i].node + 1)..(nextNode' - 1) : Body[k].parent >= open'[i].node
  <2>1. CASE i \in DOMAIN open
    <3>1. open'[i] = open[i] /\ (i # 1 => open'[i - 1] = open[i - 1])
      BY <1>4, <2>1
    <3>2. \A k \in (open[i].node + 1)..nextNode :
             k \in (open[i].node + 1)..(nextNode - 1) \/ k = nextNode
      BY <2>1
    <3>3. Body[nextNode].parent >= open[i].node
      <4>1. open[i].node \in OpenNodes
        BY <2>1 DEF OpenNodes
      <4>2. open[i].node \in Ancestors(Body, nextNode)
        BY <4>1, PathIsAncestors
      <4> QED BY <1>1, <4>2, <2>1 DEF Ancestors
    <3> QED BY <1>2, <2>1, <3>1, <3>2, <3>3 DEF WalkInv, PathInv
  <2>2. CASE i = Len(open) + 1
    <3>1. /\ open'[i].node = nextNode /\ nextNode \in Nat
          /\ i = 1 <=> Len(open) = 0
          /\ i # 1 => i - 1 = Len(open) /\ Len(open) \in DOMAIN open
      BY <1>4, <2>2
    <3>2. i # 1 => open'[i - 1] = open[Len(open)]
      BY <1>4, <3>1
    <3>3. (nextNode + 1)..(nextNode' - 1) = {}
      BY <1>2, <3>1
    <3> QED BY <1>1, <3>1, <3>2, <3>3
  <2> QED BY <1>5, <2>1, <2>2
<1>9. ASSUME NEW i \in DOMAIN open', NEW j \in DOMAIN open', i < j
      PROVE  open'[i].node < open'[j].node
  <2>1. i \in DOMAIN open /\ open'[i] = open[i] /\ open[i].node < nextNode
    BY <1>4, <1>5, <1>9
  <2>2. CASE j \in DOMAIN open
    BY <1>4, <1>9, <2>1, <2>2 DEF WalkInv, PathInv
  <2>3. CASE j = Len(open) + 1
    BY <1>4, <2>1, <2>3
  <2> QED BY <1>5, <2>2, <2>3
<1>10. ASSUME NEW m \in (1..(nextNode' - 1)) \ OpenNodes', nextNode' \in DOMAIN Body
       PROVE  \E k \in (m + 1)..nextNode' : Body[k].parent < m
  <2>1. m \in (1..(nextNode - 1)) \ OpenNodes
    BY <1>2, <1>6, <1>10
  <2>2. PICK k \in (m + 1)..nextNode : Body[k].parent < m
    BY <1>1, <2>1 DEF WalkInv, PathInv
  <2> QED BY <1>2, <2>1, <2>2
<1>11. NextBelow'
  <2> SUFFICES ASSUME nextNode' \in DOMAIN Body
               PROVE  Body[nextNode'].parent \in {0} \cup OpenNodes'
    BY <1>2 DEF NextBelow
  <2>1. nextNode' # 1 /\ nextNode' - 1 = nextNode
    BY <1>1, <1>2
  <2>2. Body[nextNode'].parent \in {0} \cup Ancestors(Body, nextNode) \cup {nextNode}
    BY <2>1, BodyFacts DEF Body, Decl
  <2> QED BY <1>6, <2>2, PathIsAncestors
<1>12. PathInv'
  BY <1>2, <1>7, <1>8, <1>9, <1>10, <1>11 DEF PathInv
<1> QED BY <1>1, <1>2, <1>4, <1>12

\* Leaving a node takes it off the path.
LEMMA PathLeft ==
    ASSUME unit \in Units, WalkInv, open # <<>>, ~AtChild, LeaveNode
    PROVE  /\ UNCHANGED <<unit, at, ir, fn, visiting, nextNode>> /\ Body' = Body
           /\ Len(open) > 0 /\ Len(open) \in DOMAIN open
           /\ Len(open') = Len(open) - 1 /\ DOMAIN open' = 1..(Len(open) - 1)
           /\ \A i \in DOMAIN open' : i \in DOMAIN open /\ open'[i] = open[i]
           /\ PathInv'
<1> USE WalkFacts
<1>1. UNCHANGED <<unit, at, ir, fn, visiting, nextNode>> /\ Body' = Body
  BY DEF LeaveNode, Body, Decl
<1>2. Len(open) > 0 /\ Len(open) \in DOMAIN open
  OBVIOUS
<1>3. open' = SubSeq(open, 1, Len(open) - 1)
  BY DEF LeaveNode, Front
<1> DEFINE T == [node : 1..(nextNode - 1), saved : BOOLEAN, turned : BOOLEAN]
<1>4. \A i \in 1..(Len(open) - 1) : i \in DOMAIN open /\ open[i] \in T
  <2>1. open \in Seq(T)
    BY DEF WalkInv, PathInv
  <2> HIDE DEF T
  <2> QED BY <2>1
<1>5. /\ open' \in Seq(T) /\ Len(open') = Len(open) - 1
      /\ DOMAIN open' = 1..(Len(open) - 1)
      /\ \A i \in DOMAIN open' : i \in DOMAIN open /\ open'[i] = open[i]
  <2> HIDE DEF T
  <2>1. /\ open' \in Seq(T)
        /\ Len(open') = Len(open) - 1
        /\ \A i \in 1..(Len(open) - 1) : open'[i] = open[i]
    BY <1>2, <1>3, <1>4, SubSeqProperties
  <2> QED BY <1>4, <2>1, LenProperties
<1>6. \A i \in DOMAIN open : i \in DOMAIN open' \/ i = Len(open)
  BY <1>5
<1>7. OpenNodes = OpenNodes' \cup {Inside} /\ Inside = open[Len(open)].node
  <2>1. Inside = open[Len(open)].node
    BY <1>2 DEF Inside, Last
  <2>2. OpenNodes \subseteq OpenNodes' \cup {open[Len(open)].node}
    BY <1>5, <1>6 DEF OpenNodes
  <2>3. OpenNodes' \cup {open[Len(open)].node} \subseteq OpenNodes
    BY <1>2, <1>5 DEF OpenNodes
  <2> QED BY ONLY <2>1, <2>2, <2>3
<1>8. nextNode \in DOMAIN Body =>
          Body[nextNode].parent \in {0} \cup OpenNodes' /\ Body[nextNode].parent < Inside
  <2> SUFFICES ASSUME nextNode \in DOMAIN Body
               PROVE  Body[nextNode].parent \in {0} \cup OpenNodes' /\ Body[nextNode].parent < Inside
    OBVIOUS
  <2>1. Body[nextNode].parent \in {0} \cup OpenNodes /\ Body[nextNode].parent # Inside
    BY DEF WalkInv, PathInv, NextBelow, AtChild
  <2>2. Body[nextNode].parent \in {0} \cup OpenNodes'
    BY <1>7, <2>1
  <2>3. \A m \in OpenNodes' : m < Inside
    <3>1. \A i \in DOMAIN open' : i \in DOMAIN open /\ i < Len(open) /\ open'[i].node = open[i].node
      BY <1>5
    <3>2. \A i \in DOMAIN open : i < Len(open) => open[i].node < open[Len(open)].node
      BY <1>2 DEF WalkInv, PathInv
    <3>3. \A i \in DOMAIN open' : open'[i].node < Inside
      BY <1>7, <3>1, <3>2
    <3> QED BY <3>3 DEF OpenNodes
  <2> QED BY <1>2, <1>7, <2>2, <2>3
<1>9. ASSUME NEW i \in DOMAIN open'
      PROVE  /\ Body[open'[i].node].parent = IF i = 1 THEN 0 ELSE open'[i - 1].node
             /\ \A k \in (open'[i].node + 1)..(nextNode - 1) : Body[k].parent >= open'[i].node
  <2>1. i \in DOMAIN open /\ open'[i] = open[i] /\ (i # 1 => open'[i - 1] = open[i - 1])
    BY <1>5
  <2>2. PathInv
    BY DEF WalkInv
  <2> QED BY ONLY <2>1, <2>2 DEF PathInv
<1>10. \A i, j \in DOMAIN open' : i < j => open'[i].node < open'[j].node
  BY <1>5 DEF WalkInv, PathInv
<1>11. ASSUME NEW m \in (1..(nextNode - 1)) \ OpenNodes', nextNode \in DOMAIN Body
       PROVE  \E k \in (m + 1)..nextNode : Body[k].parent < m
  <2>1. CASE m \in OpenNodes
    BY <1>2, <1>7, <1>8, <1>11, <2>1
  <2>2. CASE m \notin OpenNodes
    BY <1>11, <2>2 DEF WalkInv, PathInv
  <2> QED BY <2>1, <2>2
<1>12. PathInv'
  BY <1>1, <1>5, <1>8, <1>9, <1>10, <1>11 DEF PathInv, NextBelow
<1> QED BY <1>1, <1>2, <1>5, <1>12


-----------------------------------------------------------------------------
(* What the path says of what is written.                                  *)

\* One node further along a path.
LEMMA ContextStep ==
    ASSUME NEW body, NEW path, NEW l \in Nat
    PROVE  ContextAt(body, path, l + 1) <=>
               \/ SaysWritten(body, path, l + 1)
               \/ ~IsContext(body, path, l + 1) /\ ContextAt(body, path, l)
<1>1. \A j : j \in 1..(l + 1) <=> j \in 1..l \/ j = l + 1
  OBVIOUS
<1>2. \A j \in 1..l : \A k : k \in (j + 1)..(l + 1) <=> k \in (j + 1)..l \/ k = l + 1
  OBVIOUS
<1>3. \A k : k \notin ((l + 1) + 1)..(l + 1)
  OBVIOUS
<1> QED BY <1>1, <1>2, <1>3 DEF ContextAt

\* What follows on a path does not matter.
LEMMA ContextPrefix ==
    ASSUME NEW body, NEW path, NEW other, NEW l \in Nat,
           \A i \in 1..l : other[i].node = path[i].node /\ other[i].turned = path[i].turned
    PROVE  ContextAt(body, other, l) <=> ContextAt(body, path, l)
<1>1. \A i \in 1..l : /\ IsContext(body, other, i) <=> IsContext(body, path, i)
                      /\ SaysWritten(body, other, i) <=> SaysWritten(body, path, i)
  BY DEF IsContext, SaysWritten
<1>2. \A j \in 1..l : \A k \in (j + 1)..l : k \in 1..l
  OBVIOUS
<1> QED BY <1>1, <1>2 DEF ContextAt

\* The nodes of the path in the terms of the body.
LEMMA PathFacts ==
    ASSUME unit \in Units, WalkInv
    PROVE  /\ \A i, j \in DOMAIN open : /\ i < j <=> open[i].node < open[j].node
                                        /\ open[i].node = open[j].node => i = j
           /\ \A i \in DOMAIN open : /\ open[i].node > 0 /\ open[i].node \in Nat
                                     /\ i > 1 => i - 1 \in DOMAIN open
                                     /\ i > 1 => Body[open[i].node].parent = open[i - 1].node
                                     /\ i = 1 => Body[open[i].node].parent = 0
<1> USE WalkFacts
<1>1. \A i, j \in DOMAIN open : i < j => open[i].node < open[j].node
  BY DEF WalkInv, PathInv
<1>2. \A i \in DOMAIN open : Body[open[i].node].parent = IF i = 1 THEN 0 ELSE open[i - 1].node
  BY DEF WalkInv, PathInv
<1>3. \A i, j \in DOMAIN open : i < j \/ i = j \/ j < i
  OBVIOUS
<1>4. \A i \in DOMAIN open : open[i].node \in Nat /\ open[i].node > 0
  OBVIOUS
<1>5. \A i \in DOMAIN open : i > 1 => i - 1 \in DOMAIN open
  OBVIOUS
<1>6. \A i, j \in DOMAIN open : /\ i < j <=> open[i].node < open[j].node
                                /\ open[i].node = open[j].node => i = j
  BY <1>1, <1>3, <1>4
<1> QED BY <1>2, <1>4, <1>5, <1>6

\* Where an assignment has its child on the path, or next, on the left.
LEMMA LeftOfAssignment ==
    ASSUME unit \in Units, WalkInv, AtChild, KindInside = "assign",
           Body[nextNode].side = "rhs" => Last(open).turned
    PROVE  /\ open # <<>>
           /\ Body[nextNode].side = "lhs" <=> ~open[Len(open)].turned
<1> USE WalkFacts
<1>1. open # <<>> /\ Len(open) \in DOMAIN open
  BY DEF KindInside
<1>2. /\ nextNode \in DOMAIN Body /\ Body[nextNode].parent = open[Len(open)].node
      /\ Body[open[Len(open)].node].kind = "assign"
  BY <1>1 DEF AtChild, Inside, KindInside, Last
<1>3. Body[nextNode].side \in {"lhs", "rhs"}
  BY <1>1, <1>2, PathFacts, BodyFacts DEF Body, Decl
<1>4. open[Len(open)].turned => Body[nextNode].side # "lhs"
  BY <1>1, <1>2 DEF WalkInv, ContextInv
<1> QED BY <1>1, <1>3, <1>4 DEF Last

\* Where the walk enters a node, the flag is what the body says of the node.
LEMMA FlagIsWritten ==
    ASSUME unit \in Units, WalkInv, AtChild,
           KindInside = "assign" /\ Body[nextNode].side = "rhs" => Last(open).turned
    PROVE  inWriteContext <=> InTarget(Body, nextNode)
<1> USE WalkFacts
<1> DEFINE NodeAt(j) == open[j].node
<1>1. /\ nextNode \in DOMAIN Body /\ Body[nextNode].parent = Inside
      /\ Inside = IF Len(open) = 0 THEN 0 ELSE NodeAt(Len(open))
      /\ Len(open) # 0 => Len(open) \in DOMAIN open
  BY DEF AtChild, Inside, Last
<1>2. Ancestors(Body, nextNode) = {NodeAt(j) : j \in DOMAIN open}
  BY PathIsAncestors DEF OpenNodes
<1>3. ASSUME NEW j \in DOMAIN open, Body[NodeAt(j)].kind = "assign"
      PROVE  ~open[j].turned <=> \E c \in Ancestors(Body, nextNode) \cup {nextNode} :
                                    Body[c].parent = NodeAt(j) /\ Body[c].side = "lhs"
  <2>1. CASE j = Len(open)
    <3>1. KindInside = "assign"
      BY <1>1, <1>3, <2>1 DEF KindInside
    <3>2. Body[nextNode].parent = NodeAt(j) /\ (Body[nextNode].side = "lhs" <=> ~open[j].turned)
      BY <1>1, <2>1, <3>1, LeftOfAssignment
    <3>3. ASSUME NEW i \in DOMAIN open PROVE Body[NodeAt(i)].parent # NodeAt(j)
      <4>1. CASE i = 1
        BY <4>1, PathFacts
      <4>2. CASE i > 1
        <5>1. i - 1 \in DOMAIN open /\ i - 1 # j /\ Body[NodeAt(i)].parent = NodeAt(i - 1)
          BY <2>1, <4>2, PathFacts
        <5> QED BY <5>1, PathFacts
      <4> QED BY <4>1, <4>2
    <3> QED BY <1>2, <3>2, <3>3
  <2>2. CASE j < Len(open)
    <3>1. j + 1 \in DOMAIN open /\ j + 1 > 1 /\ (j + 1) - 1 = j
      BY <2>2
    <3>2. Body[NodeAt(j + 1)].parent = NodeAt(j)
      BY <3>1, PathFacts
    <3>3. Body[NodeAt(j + 1)].side = "lhs" <=> ~open[j].turned
      BY <1>3, <3>1 DEF WalkInv, ContextInv, KindAt
    <3>4. ASSUME NEW i \in DOMAIN open, Body[NodeAt(i)].parent = NodeAt(j) PROVE i = j + 1
      <4>1. CASE i = 1
        BY <3>4, <4>1, PathFacts
      <4>2. CASE i > 1
        <5>1. i - 1 \in DOMAIN open /\ NodeAt(i - 1) = NodeAt(j)
          BY <3>4, <4>2, PathFacts
        <5>2. i - 1 = j
          BY <5>1, PathFacts
        <5> QED BY <5>2
      <4> QED BY <4>1, <4>2
    <3>5. Body[nextNode].parent # NodeAt(j)
      <4>1. Body[nextNode].parent = NodeAt(Len(open)) /\ Len(open) \in DOMAIN open
        BY <1>1
      <4> QED BY <2>2, <4>1, PathFacts
    <3> QED BY <1>2, <3>1, <3>2, <3>3, <3>4, <3>5
  <2> QED BY <2>1, <2>2
<1>4. \A j \in DOMAIN open :
         /\ (\A k \in Ancestors(Body, nextNode) :
                k > NodeAt(j) => Body[k].kind \notin {"subscript", "assign", "incdec"})
            <=> \A i \in (j + 1)..Len(open) : ~IsContext(Body, open, i)
  <2>1. ASSUME NEW j \in DOMAIN open, NEW i \in DOMAIN open
        PROVE  NodeAt(i) > NodeAt(j) <=> i \in (j + 1)..Len(open)
    <3>1. NodeAt(j) < NodeAt(i) <=> j < i
      BY PathFacts
    <3> QED BY <3>1
  <2>2. \A j \in DOMAIN open : \A i \in (j + 1)..Len(open) : i \in DOMAIN open
    OBVIOUS
  <2> QED BY <1>2, <2>1, <2>2 DEF IsContext
<1>5. InTarget(Body, nextNode) <=>
         \E j \in DOMAIN open :
            /\ SaysWritten(Body, open, j)
            /\ \A i \in (j + 1)..Len(open) : ~IsContext(Body, open, i)
  <2> DEFINE Below(m) == \A k \in Ancestors(Body, nextNode) :
                             k > m => Body[k].kind \notin {"subscript", "assign", "incdec"}
             Left(m) == \E c \in Ancestors(Body, nextNode) \cup {nextNode} :
                             Body[c].parent = m /\ Body[c].side = "lhs"
             Through(m) == /\ \/ Body[m].kind = "incdec"
                              \/ Body[m].kind = "assign" /\ Left(m)
                           /\ Below(m)
  <2>1. InTarget(Body, nextNode) <=> \E m \in Ancestors(Body, nextNode) : Through(m)
    BY DEF InTarget
  <2>2. \A j \in DOMAIN open : Below(NodeAt(j)) <=> \A i \in (j + 1)..Len(open) : ~IsContext(Body, open, i)
    BY <1>4
  <2>3. \A j \in DOMAIN open : Body[NodeAt(j)].kind = "assign" => (~open[j].turned <=> Left(NodeAt(j)))
    BY <1>3
  <2> HIDE DEF Below, Left
  <2>4. \A j \in DOMAIN open : Through(NodeAt(j)) <=>
            /\ SaysWritten(Body, open, j)
            /\ \A i \in (j + 1)..Len(open) : ~IsContext(Body, open, i)
    BY <2>2, <2>3 DEF SaysWritten
  <2> HIDE DEF Through
  <2> QED BY <1>2, <2>1, <2>4
<1>6. inWriteContext <=> ContextAt(Body, open, Len(open))
  BY DEF WalkInv, ContextInv
<1> QED BY <1>5, <1>6 DEF ContextAt

-----------------------------------------------------------------------------
(* What a nest and a function hold, one node later.                        *)

\* The node comes to the nests around it and to no other.
LEMMA WithinNext ==
    ASSUME NEW body \in Seq(Node), NEW n \in DOMAIN body, NEW loc, NEW kinds
    PROVE  {m \in Within(body, loc, kinds) : m < n + 1} =
               {m \in Within(body, loc, kinds) : m < n} \cup
               (IF loc \in Ancestors(body, n) /\ body[n].kind \in kinds THEN {n} ELSE {})
<1>1. DOMAIN body \subseteq Nat /\ n \in Nat
  OBVIOUS
<1>2. \A m \in DOMAIN body : m < n + 1 <=> m < n \/ m = n
  BY <1>1
<1>3. n \in Within(body, loc, kinds) <=> loc \in Ancestors(body, n) /\ body[n].kind \in kinds
  BY DEF Within
<1>4. Within(body, loc, kinds) \subseteq DOMAIN body /\ ~(n < n) /\ n < n + 1
  BY <1>1 DEF Within
<1> QED BY <1>2, <1>3, <1>4

\* The list of a nest's accesses or calls, or of a function's, one node later.
LEMMA NestUnchanged ==
    ASSUME NEW body \in Seq(Node), NEW n \in DOMAIN body, NEW nest, NestHolds(nest, body, n),
           \/ nest.location \notin Ancestors(body, n)
           \/ body[n].kind \notin {"subscript", "call", "for"}
    PROVE  NestHolds(nest, body, n + 1)
<1>1. /\ {m \in Within(body, nest.location, {"subscript"}) : m < n + 1}
             = {m \in Within(body, nest.location, {"subscript"}) : m < n}
      /\ {m \in Within(body, nest.location, {"call"}) : m < n + 1}
             = {m \in Within(body, nest.location, {"call"}) : m < n}
      /\ {m \in Within(body, nest.location, {"for"}) : m < n + 1}
             = {m \in Within(body, nest.location, {"for"}) : m < n}
  BY WithinNext
<1> QED BY <1>1 DEF NestHolds

\* A node's depth is a number.
LEMMA DepthIsNat ==
    ASSUME NEW body, NEW n \in Nat
    PROVE  DepthOf(body, n) \in Nat /\ DepthOf(body, n) >= 1
<1>1. IsFiniteSet(1..(n - 1))
  BY FS_Interval
<1>2. IsFiniteSet(Ancestors(body, n))
  BY <1>1, FS_Subset DEF Ancestors
<1> QED BY <1>2, FS_CardinalityType DEF DepthOf

LEMMA NestGetsAccess ==
    ASSUME NEW body \in Seq(Node), NEW n \in DOMAIN body,
           NEW nest \in Nest(body), NestHolds(nest, body, n),
           nest.location \in Ancestors(body, n), body[n].kind = "subscript",
           NEW write \in BOOLEAN, write <=> InTarget(body, n),
           NEW next, next = [nest EXCEPT !.arrayAccesses = Append(@, [node |-> n, isWrite |-> write])]
    PROVE  next \in Nest(body) /\ next.location = nest.location /\ NestHolds(next, body, n + 1)
<1> DEFINE A == [node : DOMAIN body, isWrite : BOOLEAN]
           a == [node |-> n, isWrite |-> write]
           old == nest.arrayAccesses
           new == Append(old, a)
<1>1. /\ nest.location \in DOMAIN body /\ nest.depth \in Nat
      /\ old \in Seq(A) /\ nest.callSites \in Seq(DOMAIN body)
      /\ next = [location |-> nest.location, depth |-> nest.depth,
                 arrayAccesses |-> new, callSites |-> nest.callSites]
  BY DEF Nest
<1>2. a \in A /\ a.node = n /\ a.isWrite = write
  OBVIOUS
<1>3. /\ new \in Seq(A) /\ Len(old) \in Nat /\ DOMAIN old = 1..Len(old)
      /\ DOMAIN new = 1..(Len(old) + 1)
      /\ \A j \in DOMAIN old : new[j] = old[j] /\ old[j] \in A
      /\ new[Len(old) + 1] = a
  <2> HIDE DEF A, a
  <2> QED BY <1>1, <1>2, AppendProperties, LenProperties, ElementOfSeq
<1>4. next \in Nest(body)
  BY <1>1, <1>3 DEF Nest
<1> DEFINE before == {m \in Within(body, nest.location, {"subscript"}) : m < n}
<1>5. /\ {m \in Within(body, nest.location, {"subscript"}) : m < n + 1} = before \cup {n}
      /\ {m \in Within(body, nest.location, {"call"}) : m < n + 1}
             = {m \in Within(body, nest.location, {"call"}) : m < n}
      /\ {m \in Within(body, nest.location, {"for"}) : m < n + 1}
             = {m \in Within(body, nest.location, {"for"}) : m < n}
  BY WithinNext
<1>6. n \in Int /\ before \in SUBSET Int /\ \A m \in before : m < n
  BY DEF Within
<1>7. Lists([j \in DOMAIN new |-> new[j].node], before \cup {n})
  <2> DEFINE s == [j \in DOMAIN old |-> old[j].node]
             t == [j \in DOMAIN new |-> new[j].node]
             len == Len(old)
  <2>1. Lists(s, before)
    BY DEF NestHolds
  <2>2. /\ DOMAIN s = 1..len /\ DOMAIN t = 1..(len + 1) /\ len \in Nat
        /\ t[len + 1] = n
    BY <1>2, <1>3
  <2>3. \A i \in 1..len : t[i] = s[i]
    <3>1. \A i \in 1..len : i \in DOMAIN new
      BY <1>3
    <3> QED BY <1>3, <3>1
  <2> HIDE DEF s, t, len, before
  <2>4. Lists(t, before \cup {n})
    BY <1>6, <2>1, <2>2, <2>3, ListsOneMore
  <2> QED BY <2>4 DEF t
<1>8. \A j \in DOMAIN new : new[j].isWrite <=> InTarget(body, new[j].node)
  <2>1. \A j \in DOMAIN new : j \in DOMAIN old \/ j = Len(old) + 1
    BY <1>3
  <2>2. \A j \in DOMAIN old : old[j].isWrite <=> InTarget(body, old[j].node)
    BY DEF NestHolds
  <2> QED BY <1>2, <1>3, <2>1, <2>2
<1>9. NestHolds(next, body, n + 1)
  <2> HIDE DEF new, before
  <2>1. /\ next.location = nest.location /\ next.depth = nest.depth
        /\ next.arrayAccesses = new /\ next.callSites = nest.callSites
    BY <1>1
  <2>2. Lists([j \in DOMAIN next.arrayAccesses |-> next.arrayAccesses[j].node],
              {m \in Within(body, next.location, {"subscript"}) : m < n + 1})
    <3>1. [j \in DOMAIN next.arrayAccesses |-> next.arrayAccesses[j].node]
              = [j \in DOMAIN new |-> new[j].node]
      BY ONLY <2>1
    <3>2. {m \in Within(body, next.location, {"subscript"}) : m < n + 1} = before \cup {n}
      BY <1>5, <2>1
    <3> QED BY ONLY <1>7, <3>1, <3>2
  <2>3. \A j \in DOMAIN next.arrayAccesses :
            next.arrayAccesses[j].isWrite <=> InTarget(body, next.arrayAccesses[j].node)
    BY <1>8, <2>1
  <2>4. Lists(next.callSites, {m \in Within(body, next.location, {"call"}) : m < n + 1})
    BY <1>5, <2>1 DEF NestHolds
  <2>5. /\ next.depth \in {1} \cup {DepthOf(body, m) :
                m \in {l \in Within(body, next.location, {"for"}) : l < n + 1}}
        /\ next.depth >= 1
        /\ \A m \in Within(body, next.location, {"for"}) : m < n + 1 => DepthOf(body, m) <= next.depth
    <3>1. /\ nest.depth \in {1} \cup {DepthOf(body, m) :
                m \in {l \in Within(body, nest.location, {"for"}) : l < n}}
          /\ nest.depth >= 1
          /\ \A m \in Within(body, nest.location, {"for"}) : m < n => DepthOf(body, m) <= nest.depth
      BY DEF NestHolds
    <3> QED BY <1>5, <2>1, <3>1
  <2> QED BY <2>2, <2>3, <2>4, <2>5 DEF NestHolds
<1> QED BY <1>1, <1>4, <1>9

LEMMA NestGetsCall ==
    ASSUME NEW body \in Seq(Node), NEW n \in DOMAIN body,
           NEW nest \in Nest(body), NestHolds(nest, body, n),
           nest.location \in Ancestors(body, n), body[n].kind = "call",
           NEW next, next = [nest EXCEPT !.callSites = Append(@, n)]
    PROVE  next \in Nest(body) /\ next.location = nest.location /\ NestHolds(next, body, n + 1)
<1> DEFINE old == nest.callSites
           new == Append(old, n)
           before == {m \in Within(body, nest.location, {"call"}) : m < n}
<1>1. /\ nest.location \in DOMAIN body /\ nest.depth \in Nat
      /\ nest.arrayAccesses \in Seq([node : DOMAIN body, isWrite : BOOLEAN])
      /\ old \in Seq(DOMAIN body)
      /\ next = [location |-> nest.location, depth |-> nest.depth,
                 arrayAccesses |-> nest.arrayAccesses, callSites |-> new]
  BY DEF Nest
<1>2. new \in Seq(DOMAIN body) /\ Lists(new, before \cup {n})
  <2>1. n \in Int /\ before \in SUBSET Int /\ \A m \in before : m < n
    BY DEF Within
  <2>2. Lists(old, before)
    BY DEF NestHolds
  <2> HIDE DEF before, old
  <2>3. /\ new \in Seq(DOMAIN body) /\ Len(old) \in Nat /\ DOMAIN old = 1..Len(old)
        /\ DOMAIN new = 1..(Len(old) + 1)
        /\ \A j \in 1..Len(old) : new[j] = old[j]
        /\ new[Len(old) + 1] = n
    BY <1>1, AppendProperties, LenProperties
  <2> HIDE DEF new
  <2> QED BY <2>1, <2>2, <2>3, ListsOneMore
<1>3. /\ {m \in Within(body, nest.location, {"call"}) : m < n + 1} = before \cup {n}
      /\ {m \in Within(body, nest.location, {"subscript"}) : m < n + 1}
             = {m \in Within(body, nest.location, {"subscript"}) : m < n}
      /\ {m \in Within(body, nest.location, {"for"}) : m < n + 1}
             = {m \in Within(body, nest.location, {"for"}) : m < n}
  BY WithinNext
<1> HIDE DEF new, before
<1>4. /\ next.location = nest.location /\ next.depth = nest.depth
      /\ next.arrayAccesses = nest.arrayAccesses /\ next.callSites = new
  BY <1>1
<1>5. NestHolds(next, body, n + 1)
  BY <1>2, <1>3, <1>4 DEF NestHolds
<1>6. next \in Nest(body)
  BY ONLY <1>1, <1>2 DEF Nest
<1> QED BY <1>1, <1>5, <1>6

LEMMA NestGetsFor ==
    ASSUME NEW body \in Seq(Node), NEW n \in DOMAIN body,
           NEW nest \in Nest(body), NestHolds(nest, body, n),
           nest.location \in Ancestors(body, n), body[n].kind = "for",
           NEW next,
           next = [nest EXCEPT !.depth = IF DepthOf(body, n) > @ THEN DepthOf(body, n) ELSE @]
    PROVE  next \in Nest(body) /\ next.location = nest.location /\ NestHolds(next, body, n + 1)
<1> DEFINE inside == {l \in Within(body, nest.location, {"for"}) : l < n}
           depth == IF DepthOf(body, n) > nest.depth THEN DepthOf(body, n) ELSE nest.depth
<1>1. /\ nest.location \in DOMAIN body /\ nest.depth \in Nat
      /\ nest.arrayAccesses \in Seq([node : DOMAIN body, isWrite : BOOLEAN])
      /\ nest.callSites \in Seq(DOMAIN body)
      /\ next = [location |-> nest.location, depth |-> depth,
                 arrayAccesses |-> nest.arrayAccesses, callSites |-> nest.callSites]
  BY DEF Nest
<1>2. DepthOf(body, n) \in Nat /\ DepthOf(body, n) >= 1
  BY DepthIsNat
<1>3. /\ {m \in Within(body, nest.location, {"for"}) : m < n + 1} = inside \cup {n}
      /\ {m \in Within(body, nest.location, {"subscript"}) : m < n + 1}
             = {m \in Within(body, nest.location, {"subscript"}) : m < n}
      /\ {m \in Within(body, nest.location, {"call"}) : m < n + 1}
             = {m \in Within(body, nest.location, {"call"}) : m < n}
  BY WithinNext
<1>4. /\ nest.depth \in {1} \cup {DepthOf(body, m) : m \in inside}
      /\ nest.depth >= 1
      /\ \A m \in inside : DepthOf(body, m) <= nest.depth
  BY DEF NestHolds
<1>5. \A m \in inside : DepthOf(body, m) \in Nat
  BY DepthIsNat DEF Within
<1> HIDE DEF inside
<1>6. /\ depth \in Nat /\ depth >= 1
      /\ depth \in {1} \cup {DepthOf(body, m) : m \in inside \cup {n}}
      /\ \A m \in inside \cup {n} : DepthOf(body, m) <= depth
  <2>1. CASE DepthOf(body, n) > nest.depth
    BY <1>1, <1>2, <1>4, <1>5, <2>1
  <2>2. CASE ~(DepthOf(body, n) > nest.depth)
    BY <1>1, <1>2, <1>4, <1>5, <2>2
  <2> QED BY <2>1, <2>2
<1> HIDE DEF depth
<1>7. /\ next.location = nest.location /\ next.depth = depth
      /\ next.arrayAccesses = nest.arrayAccesses /\ next.callSites = nest.callSites
  BY <1>1
<1>8. NestHolds(next, body, n + 1)
  <2>1. \A m \in Within(body, nest.location, {"for"}) : m < n + 1 => m \in inside \cup {n}
    BY <1>3
  <2> QED BY <1>3, <1>6, <1>7, <2>1 DEF NestHolds
<1>9. next \in Nest(body)
  BY ONLY <1>1, <1>6 DEF Nest
<1> QED BY <1>7, <1>8, <1>9

\* One nest of a function replaced by what it is one node later, the others
\* not being around the node.
LEMMA OneNestReplaced ==
    ASSUME NEW body \in Seq(Node), NEW n \in DOMAIN body,
           NEW loops \in Seq(Nest(body)), NEW c \in DOMAIN loops,
           \A k \in DOMAIN loops : NestHolds(loops[k], body, n),
           \A k \in DOMAIN loops : k # c => loops[k].location \notin Ancestors(body, n),
           NEW nest \in Nest(body), nest.location = loops[c].location,
           NestHolds(nest, body, n + 1),
           NEW next, next = [loops EXCEPT ![c] = nest]
    PROVE  /\ next \in Seq(Nest(body)) /\ DOMAIN next = DOMAIN loops
           /\ \A k \in DOMAIN loops : /\ next[k].location = loops[k].location
                                      /\ NestHolds(next[k], body, n + 1)
<1> DEFINE N == Nest(body)
<1>1. loops \in Seq(N) /\ nest \in N
  OBVIOUS
<1>2. \A k \in DOMAIN loops : next[k] = IF k = c THEN nest ELSE loops[k]
  OBVIOUS
<1>3. ASSUME NEW k \in DOMAIN loops, k # c PROVE NestHolds(next[k], body, n + 1)
  BY <1>2, <1>3, NestUnchanged
<1>4. next \in Seq(N) /\ DOMAIN next = DOMAIN loops
  <2> HIDE DEF N
  <2> QED BY <1>1, ExceptSeq
<1> QED BY <1>2, <1>3, <1>4

\* A function one node later, if the node opens no nest.
LEMMA HoldsNext ==
    ASSUME NEW body \in Seq(Node), NEW n \in DOMAIN body, n \notin Outermost(body),
           NEW entry, Holds(entry, body, n),
           NEW next, next.loops \in Seq(Nest(body)), DOMAIN next.loops = DOMAIN entry.loops,
           \A k \in DOMAIN entry.loops : /\ next.loops[k].location = entry.loops[k].location
                                         /\ NestHolds(next.loops[k], body, n + 1),
           next.calls = IF body[n].kind = "call" THEN Append(entry.calls, n) ELSE entry.calls
    PROVE  Holds(next, body, n + 1)
<1> DEFINE calls == {m \in DOMAIN body : body[m].kind = "call" /\ m < n}
           old == entry.calls
           new == Append(entry.calls, n)
<1>1. /\ DOMAIN body \subseteq Nat /\ n \in Nat
      /\ \A m \in DOMAIN body : m < n + 1 <=> m < n \/ m = n
  OBVIOUS
<1>2. {m \in DOMAIN body : body[m].kind = "call" /\ m < n + 1} =
          calls \cup (IF body[n].kind = "call" THEN {n} ELSE {})
  BY <1>1
<1>3. old \in Seq(DOMAIN body) /\ Lists(old, calls)
  BY DEF Holds
<1>4. new \in Seq(DOMAIN body) /\ Lists(new, calls \cup {n})
  <2>1. n \in Int /\ calls \in SUBSET Int /\ \A m \in calls : m < n
    BY <1>1
  <2> HIDE DEF calls, old
  <2>2. /\ new \in Seq(DOMAIN body) /\ Len(old) \in Nat /\ DOMAIN old = 1..Len(old)
        /\ DOMAIN new = 1..(Len(old) + 1)
        /\ \A j \in 1..Len(old) : new[j] = old[j]
        /\ new[Len(old) + 1] = n
    BY <1>3, AppendProperties, LenProperties DEF old
  <2> HIDE DEF new
  <2> QED BY <1>3, <2>1, <2>2, ListsOneMore
<1>5. /\ next.calls \in Seq(DOMAIN body)
      /\ Lists(next.calls, {m \in DOMAIN body : body[m].kind = "call" /\ m < n + 1})
  <2>1. CASE body[n].kind = "call"
    BY <1>2, <1>4, <2>1
  <2>2. CASE body[n].kind # "call"
    <3>1. {m \in DOMAIN body : body[m].kind = "call" /\ m < n + 1} = calls
      BY <1>2, <2>2
    <3> QED BY <1>3, <2>2, <3>1
  <2> QED BY <2>1, <2>2
<1>6. {m \in Outermost(body) : m < n + 1} = {m \in Outermost(body) : m < n}
  BY <1>1 DEF Outermost
<1>7. [k \in DOMAIN next.loops |-> next.loops[k].location]
          = [k \in DOMAIN entry.loops |-> entry.loops[k].location]
  OBVIOUS
<1>8. Lists([k \in DOMAIN next.loops |-> next.loops[k].location], {m \in Outermost(body) : m < n + 1})
  BY <1>6, <1>7 DEF Holds
<1> QED BY <1>5, <1>8 DEF Holds

\* A function one node later, if the node opens a nest.
LEMMA HoldsNextNest ==
    ASSUME NEW body \in Seq(Node), NEW n \in DOMAIN body, n \in Outermost(body),
           NEW entry, Holds(entry, body, n),
           NEW nest, nest = [location |-> n, depth |-> 1, arrayAccesses |-> <<>>, callSites |-> <<>>],
           NEW next, next.loops = Append(entry.loops, nest), next.calls = entry.calls
    PROVE  next.loops \in Seq(Nest(body)) /\ Holds(next, body, n + 1)
<1> DEFINE N == Nest(body)
           old == entry.loops
           new == Append(entry.loops, nest)
<1>1. /\ DOMAIN body \subseteq Nat /\ n \in Nat
      /\ \A m \in DOMAIN body : m < n + 1 <=> m < n \/ m = n
      /\ body[n].kind = "for" /\ Ancestors(body, n) = {}
  BY DEF Outermost
<1>2. nest \in N
  <2>1. <<>> \in Seq([node : DOMAIN body, isWrite : BOOLEAN]) /\ <<>> \in Seq(DOMAIN body)
    BY EmptyDomain
  <2> QED BY <2>1 DEF Nest
<1>3. old \in Seq(N)
  BY DEF Holds
<1>4. /\ new \in Seq(N) /\ Len(old) \in Nat /\ DOMAIN old = 1..Len(old)
      /\ DOMAIN new = 1..(Len(old) + 1)
      /\ \A j \in 1..Len(old) : new[j] = old[j]
      /\ new[Len(old) + 1] = nest
  <2> HIDE DEF N, old
  <2> QED BY <1>2, <1>3, AppendProperties, LenProperties DEF old
<1>5. /\ next.calls \in Seq(DOMAIN body)
      /\ Lists(next.calls, {m \in DOMAIN body : body[m].kind = "call" /\ m < n + 1})
  <2>1. {m \in DOMAIN body : body[m].kind = "call" /\ m < n + 1}
            = {m \in DOMAIN body : body[m].kind = "call" /\ m < n}
    BY <1>1
  <2> QED BY <2>1 DEF Holds
<1>6. Lists([k \in DOMAIN new |-> new[k].location], {m \in Outermost(body) : m < n + 1})
  <2> DEFINE s == [k \in DOMAIN old |-> old[k].location]
             t == [k \in DOMAIN new |-> new[k].location]
             before == {m \in Outermost(body) : m < n}
             len == Len(old)
  <2>1. {m \in Outermost(body) : m < n + 1} = before \cup {n}
    BY <1>1 DEF Outermost
  <2>2. n \in Int /\ before \in SUBSET Int /\ \A m \in before : m < n
    BY <1>1 DEF Outermost
  <2>3. Lists(s, before)
    BY DEF Holds
  <2>4. /\ DOMAIN s = 1..len /\ DOMAIN t = 1..(len + 1) /\ len \in Nat
        /\ t[len + 1] = n
    BY <1>4
  <2>5. \A i \in 1..len : t[i] = s[i]
    <3>1. \A i \in 1..len : i \in DOMAIN new
      BY <1>4
    <3> QED BY <1>4, <3>1
  <2> HIDE DEF s, t, len, before
  <2>6. Lists(t, before \cup {n})
    BY <2>2, <2>3, <2>4, <2>5, ListsOneMore
  <2> QED BY <2>1, <2>6 DEF t
<1>7. ASSUME NEW k \in DOMAIN new PROVE NestHolds(new[k], body, n + 1)
  <2>1. CASE k \in 1..Len(old)
    <3>1. NestHolds(new[k], body, n)
      BY <1>4, <2>1 DEF Holds
    <3> QED BY <1>1, <3>1, NestUnchanged
  <2>2. CASE k = Len(old) + 1
    <3>1. \A kinds : {m \in Within(body, n, kinds) : m < n + 1} = {}
      BY <1>1 DEF Within, Ancestors
    <3>2. /\ new[k].location = n /\ new[k].depth = 1
          /\ new[k].arrayAccesses = <<>> /\ new[k].callSites = <<>>
      BY <1>4, <2>2
    <3> HIDE DEF new, old, N
    <3>3. /\ Lists(<<>>, {})
          /\ Lists([j \in DOMAIN <<>> |-> <<>>[j].node], {})
          /\ \A j : j \notin DOMAIN <<>>
      BY EmptyDomain, ListsNone
    <3>4. /\ Lists([j \in DOMAIN new[k].arrayAccesses |-> new[k].arrayAccesses[j].node],
                   {m \in Within(body, n, {"subscript"}) : m < n + 1})
          /\ Lists(new[k].callSites, {m \in Within(body, n, {"call"}) : m < n + 1})
      BY <3>1, <3>2, <3>3
    <3>5. \A m \in Within(body, n, {"for"}) : ~(m < n + 1)
      BY <3>1
    <3> QED BY <3>2, <3>3, <3>4, <3>5 DEF NestHolds
  <2> QED BY <1>4, <2>1, <2>2
<1> QED BY <1>4, <1>5, <1>6, <1>7 DEF Holds

-----------------------------------------------------------------------------
(* Entering a node.                                                        *)

\* The nests and the nest being recorded.
LEMMA NestFacts ==
    ASSUME unit \in Units, WalkInv
    PROVE  /\ fn.loops \in Seq(Nest(Body)) /\ fn.calls \in Seq(DOMAIN Body)
           /\ Len(fn.loops) \in Nat /\ DOMAIN fn.loops = 1..Len(fn.loops)
           /\ nestLevel \in 0..Len(open)
           /\ InNest <=> nestLevel > 0
           /\ InNest => /\ currentLoopIndex = Len(fn.loops)
                        /\ currentLoopIndex \in DOMAIN fn.loops
                        /\ fn.loops[currentLoopIndex].location = open[1].node
           /\ \A k \in DOMAIN fn.loops :
                 /\ fn.loops[k] \in Nest(Body) /\ NestHolds(fn.loops[k], Body, nextNode)
                 /\ fn.loops[k].location \in OpenNodes <=> InNest /\ k = currentLoopIndex
<1> USE WalkFacts
<1> DEFINE N == Nest(Body)
<1>1. fn.loops \in Seq(N) /\ fn.calls \in Seq(DOMAIN Body)
  BY DEF WalkInv, Holds
<1>2. /\ Len(fn.loops) \in Nat /\ DOMAIN fn.loops = 1..Len(fn.loops)
      /\ \A k \in DOMAIN fn.loops : fn.loops[k] \in N
      /\ fn.loops # <<>> => Len(fn.loops) > 0
  <2> HIDE DEF N
  <2> QED BY <1>1
<1>3. nestLevel \in 0..Len(open)
  BY DEF WalkInv, NestInv
<1>4. nestLevel = 0 => currentLoopIndex = 0
  BY DEF WalkInv, NestInv
<1>5. nestLevel > 0 => /\ currentLoopIndex = Len(fn.loops) /\ fn.loops # <<>>
                       /\ fn.loops[currentLoopIndex].location = open[1].node
  BY <1>3 DEF WalkInv, NestInv
<1>6. InNest <=> nestLevel > 0
  BY <1>2, <1>3, <1>4, <1>5 DEF InNest
<1>7. ASSUME NEW k \in DOMAIN fn.loops
      PROVE  fn.loops[k].location \in OpenNodes <=> InNest /\ k = currentLoopIndex
  <2>1. Lists([j \in DOMAIN fn.loops |-> fn.loops[j].location], {m \in Outermost(Body) : m < nextNode})
    BY DEF WalkInv, Holds
  <2>2. Body[fn.loops[k].location].kind = "for"
    BY <2>1 DEF Lists, ToSet, Outermost
  <2>3. CASE ~InNest
    <3>1. nestLevel = 0
      BY <1>3, <1>6, <2>3
    <3>2. \A i \in DOMAIN open : Body[open[i].node].kind # "for"
      BY <3>1 DEF WalkInv, NestInv, KindAt
    <3> QED BY <2>2, <2>3, <3>2 DEF OpenNodes
  <2>4. CASE InNest /\ k = currentLoopIndex
    <3>1. 1 \in DOMAIN open
      BY <1>3, <1>6, <2>4
    <3> QED BY <1>5, <1>6, <2>4, <3>1 DEF OpenNodes
  <2>5. CASE InNest /\ k # currentLoopIndex
    <3>1. k < currentLoopIndex /\ currentLoopIndex \in DOMAIN fn.loops
      BY <1>2, <1>5, <1>6, <2>5
    <3>2. fn.loops[k].location < open[1].node
      BY <1>5, <1>6, <2>1, <2>5, <3>1 DEF Lists
    <3>3. 1 \in DOMAIN open
      BY <1>3, <1>6, <2>5
    <3>4. fn.loops[k].location \in Nat
      BY <1>2 DEF Nest
    <3>5. \A i \in DOMAIN open : fn.loops[k].location # open[i].node
      <4>1. \A i \in DOMAIN open : i = 1 \/ open[1].node < open[i].node
        BY <3>3, PathFacts
      <4> QED BY <3>2, <3>3, <3>4, <4>1
    <3> QED BY <2>5, <3>5 DEF OpenNodes
  <2> QED BY <2>3, <2>4, <2>5
<1>8. \A k \in DOMAIN fn.loops : NestHolds(fn.loops[k], Body, nextNode)
  BY DEF WalkInv, Holds
<1> QED BY <1>1, <1>2, <1>3, <1>5, <1>6, <1>7, <1>8

\* Of a node on its way into the walk: what it does to the saved flags.
LEMMA ContextEntered ==
    ASSUME unit \in Units, WalkInv, AtChild,
           KindInside = "assign" /\ Body[nextNode].side = "rhs" => Last(open).turned,
           NEW saved \in BOOLEAN, EnterWith(saved),
           Body[nextNode].kind \in {"subscript", "assign", "incdec"} => (saved <=> inWriteContext),
           inWriteContext' <=> \/ Body[nextNode].kind \in {"assign", "incdec"}
                               \/ Body[nextNode].kind # "subscript" /\ inWriteContext
    PROVE  ContextInv'
<1> USE WalkFacts
<1> DEFINE len == Len(open)
<1>1. /\ nextNode \in DOMAIN Body /\ Body' = Body /\ nextNode' = nextNode + 1
      /\ DOMAIN open' = 1..(len + 1) /\ Len(open') = len + 1
      /\ \A i \in DOMAIN open : open'[i] = open[i]
      /\ open'[len + 1] = [node |-> nextNode, saved |-> saved, turned |-> FALSE]
  BY PathEntered
<1>2. /\ len \in Nat /\ DOMAIN open = 1..len
      /\ \A i \in DOMAIN open' : i \in DOMAIN open \/ i = len + 1
  BY <1>1
<1>3. /\ inWriteContext <=> ContextAt(Body, open, len)
      /\ \A i \in DOMAIN open : IsContext(Body, open, i) => (open[i].saved <=> ContextAt(Body, open, i - 1))
      /\ \A i \in DOMAIN open : i > 1 /\ KindAt(i - 1) = "assign" =>
            (Body[open[i].node].side = "lhs" <=> ~open[i - 1].turned)
  BY DEF WalkInv, ContextInv
<1>4. \A i \in 0..len : ContextAt(Body, open', i) <=> ContextAt(Body, open, i)
  <2> TAKE i \in 0..len
  <2>1. \A j \in 1..i : open'[j] = open[j]
    BY <1>1, <1>2
  <2> QED BY <2>1, ContextPrefix
<1>5. inWriteContext' <=> ContextAt(Body, open', len + 1)
  <2>1. /\ SaysWritten(Body, open', len + 1) <=> Body[nextNode].kind \in {"assign", "incdec"}
        /\ IsContext(Body, open', len + 1) <=> Body[nextNode].kind \in {"subscript", "assign", "incdec"}
    BY <1>1 DEF SaysWritten, IsContext
  <2>2. ContextAt(Body, open', len) <=> inWriteContext
    BY <1>2, <1>3, <1>4
  <2>3. ContextAt(Body, open', len + 1) <=> \/ SaysWritten(Body, open', len + 1)
                                            \/ ~IsContext(Body, open', len + 1) /\ ContextAt(Body, open', len)
    <3> HIDE DEF len
    <3> QED BY ONLY <1>2, ContextStep
  <2>4. inWriteContext' <=> \/ Body[nextNode].kind \in {"assign", "incdec"}
                            \/ Body[nextNode].kind # "subscript" /\ inWriteContext
    OBVIOUS
  <2> QED BY ONLY <2>1, <2>2, <2>3, <2>4
<1>6. ASSUME NEW i \in DOMAIN open', IsContext(Body, open', i)
      PROVE  open'[i].saved <=> ContextAt(Body, open', i - 1)
  <2>1. i - 1 \in 0..len
    BY <1>1, <1>2
  <2>2. CASE i \in DOMAIN open
    <3>1. IsContext(Body, open, i) /\ open'[i].saved = open[i].saved
      BY <1>1, <1>6, <2>2 DEF IsContext
    <3> QED BY <1>3, <1>4, <2>1, <2>2, <3>1
  <2>3. CASE i = len + 1
    <3>1. /\ open'[i].saved = saved /\ i - 1 = len
          /\ Body[nextNode].kind \in {"subscript", "assign", "incdec"}
      BY <1>1, <1>2, <1>6, <2>3 DEF IsContext
    <3> QED BY <1>3, <1>4, <2>1, <3>1
  <2> QED BY <1>2, <2>2, <2>3
<1>7. ASSUME NEW i \in DOMAIN open', i > 1, Body[open'[i - 1].node].kind = "assign"
      PROVE  Body[open'[i].node].side = "lhs" <=> ~open'[i - 1].turned
  <2>1. i - 1 \in DOMAIN open /\ open'[i - 1] = open[i - 1]
    BY <1>1, <1>2, <1>7
  <2>2. CASE i \in DOMAIN open
    BY <1>1, <1>3, <1>7, <2>1, <2>2 DEF KindAt
  <2>3. CASE i = len + 1
    <3>1. i - 1 = len /\ open # <<>> /\ open'[i].node = nextNode
      BY <1>1, <1>2, <1>7, <2>3
    <3>2. KindInside = "assign"
      BY <1>7, <2>1, <3>1 DEF KindInside, Inside, Last
    <3> QED BY <2>1, <3>1, <3>2, LeftOfAssignment
  <2> QED BY <1>2, <2>2, <2>3
<1>8. ASSUME NEW i \in DOMAIN open', open'[i].turned, nextNode + 1 \in DOMAIN Body,
             Body[nextNode + 1].parent = open'[i].node
      PROVE  Body[nextNode + 1].side # "lhs"
  <2>1. i \in DOMAIN open
    BY <1>1, <1>2, <1>8
  <2>2. open[i].node # nextNode /\ nextNode + 1 - 1 = nextNode
    BY <1>1, <2>1
  <2>3. Body[nextNode + 1].side = "lhs" => Body[nextNode + 1].parent = nextNode
    BY <1>8, <2>2, BodyFacts DEF Body, Decl
  <2> QED BY <1>1, <1>8, <2>1, <2>2, <2>3
<1> QED BY <1>1, <1>5, <1>6, <1>7, <1>8 DEF ContextInv, KindAt

\* And to the level of the nest, if it is no loop.
LEMMA NestEntered ==
    ASSUME unit \in Units, WalkInv, AtChild, NEW saved \in BOOLEAN, EnterWith(saved),
           Body[nextNode].kind # "for", UNCHANGED <<nestLevel, currentLoopIndex>>,
           fn'.loops \in Seq(Nest(Body)), DOMAIN fn'.loops = DOMAIN fn.loops,
           \A k \in DOMAIN fn.loops : fn'.loops[k].location = fn.loops[k].location
    PROVE  NestInv'
<1> USE WalkFacts
<1> DEFINE N == Nest(Body)
<1>1. /\ Body' = Body /\ DOMAIN open' = 1..(Len(open) + 1) /\ Len(open') = Len(open) + 1
      /\ \A i \in DOMAIN open : open'[i] = open[i]
      /\ open'[Len(open) + 1].node = nextNode
  <2>1. open'[Len(open) + 1] = [node |-> nextNode, saved |-> saved, turned |-> FALSE]
    BY PathEntered
  <2> QED BY <2>1, PathEntered
<1>2. Len(fn'.loops) = Len(fn.loops) /\ DOMAIN fn'.loops = 1..Len(fn'.loops)
  <2>1. fn'.loops \in Seq(N) /\ fn.loops \in Seq(N)
    BY NestFacts
  <2> HIDE DEF N
  <2> QED BY <2>1, LenProperties
<1>3. nestLevel \in 0..Len(open)
  BY NestFacts
<1>4. ASSUME NEW i \in DOMAIN open' PROVE Body[open'[i].node].kind = "for" <=> i <= nestLevel
  <2>1. CASE i \in DOMAIN open
    BY <1>1, <2>1 DEF WalkInv, NestInv, KindAt
  <2>2. CASE i = Len(open) + 1
    BY <1>1, <1>3, <2>2
  <2> QED BY <1>1, <2>1, <2>2
<1>5. \A i \in 1..nestLevel : open'[i].saved <=> i = 1
  <2>1. \A i \in 1..nestLevel : i \in DOMAIN open
    BY <1>3
  <2> QED BY <1>1, <2>1 DEF WalkInv, NestInv
<1>6. nestLevel > 0 => /\ fn'.loops # <<>>
                       /\ fn'.loops[Len(fn'.loops)].location = open'[1].node
  <2> SUFFICES ASSUME nestLevel > 0
               PROVE  fn'.loops # <<>> /\ fn'.loops[Len(fn'.loops)].location = open'[1].node
    OBVIOUS
  <2>1. currentLoopIndex = Len(fn.loops) /\ currentLoopIndex \in DOMAIN fn.loops
        /\ fn.loops[currentLoopIndex].location = open[1].node
    BY NestFacts
  <2>2. 1 \in DOMAIN open
    BY <1>3
  <2>3. fn'.loops # <<>>
    BY <2>1, EmptyDomain
  <2> QED BY <1>1, <1>2, <2>1, <2>2, <2>3
<1>7. currentLoopIndex = IF nestLevel = 0 THEN 0 ELSE Len(fn'.loops)
  BY <1>2 DEF WalkInv, NestInv
<1>8. nestLevel \in 0..(Len(open) + 1)
  BY <1>3
<1> QED BY <1>1, <1>4, <1>5, <1>6, <1>7, <1>8 DEF NestInv, KindAt

\* So, whatever the node is, it remains to see what is recorded of it.
LEMMA WalkEntered ==
    ASSUME unit \in Units, WalkInv, AtChild, NEW saved \in BOOLEAN, EnterWith(saved),
           fn'.name = fn.name, fn'.hasDefinition = fn.hasDefinition,
           fn' = [name |-> fn'.name, hasDefinition |-> fn'.hasDefinition,
                  loops |-> fn'.loops, calls |-> fn'.calls],
           Holds(fn', Body, nextNode + 1), NestInv', ContextInv'
    PROVE  WalkInv'
<1>1. /\ UNCHANGED <<unit, at>> /\ Body' = Body /\ nextNode' = nextNode + 1
      /\ nextNode' \in 1..(Len(Body) + 1) /\ PathInv'
  BY PathEntered
<1>2. Decl' = Decl
  BY <1>1 DEF Decl
<1>3. fn'.name \in {Decl.name} /\ fn'.hasDefinition \in {TRUE}
  BY DEF WalkInv
<1>4. fn'.loops \in Seq(Nest(Body)) /\ fn'.calls \in Seq(DOMAIN Body)
  BY DEF Holds
<1>5. fn' \in [name : {Decl.name}, hasDefinition : {TRUE},
               loops : Seq(Nest(Body)), calls : Seq(DOMAIN Body)]
  BY <1>3, <1>4
<1> QED BY <1>1, <1>2, <1>5 DEF WalkInv

\* The fields of the FunctionIR.
LEMMA FnFields ==
    ASSUME WalkInv
    PROVE  fn = [name |-> fn.name, hasDefinition |-> fn.hasDefinition,
                 loops |-> fn.loops, calls |-> fn.calls]
<1> DEFINE L == Seq(Nest(Body))
           C == Seq(DOMAIN Body)
<1>1. fn \in [name : {Decl.name}, hasDefinition : {TRUE}, loops : L, calls : C]
  BY DEF WalkInv
<1> HIDE DEF L, C
<1> QED BY <1>1

LEMMA EnterForWalk ==
    ASSUME unit \in Units, WalkInv, EnterFor
    PROVE  WalkInv'
<1> USE WalkFacts
<1> DEFINE n == nextNode
           len == Len(open)
           c == currentLoopIndex
<1>1. /\ AtChild /\ Body[n].kind = "for" /\ n \in DOMAIN Body
      /\ KindInside = "assign" /\ Body[n].side = "rhs" => Last(open).turned
      /\ EnterWith(~InNest) /\ (~InNest) \in BOOLEAN
      /\ inWriteContext' = inWriteContext
  BY DEF EnterFor, AtNode, AtChild
<1>2. /\ Body' = Body /\ DOMAIN open' = 1..(len + 1) /\ Len(open') = len + 1
      /\ \A i \in DOMAIN open : open'[i] = open[i]
      /\ open'[len + 1] = [node |-> n, saved |-> ~InNest, turned |-> FALSE]
  BY <1>1, PathEntered
<1>3. Ancestors(Body, n) = OpenNodes
  BY <1>1, PathIsAncestors
<1>4. \A i \in DOMAIN open : Body[open[i].node].kind = "for"
  <2>1. \A m \in Ancestors(Body, n) : Body[m].kind = "for"
    BY <1>1, BodyFacts DEF Body, Decl
  <2> QED BY <1>3, <2>1 DEF OpenNodes
<1>5. nestLevel = len /\ (InNest <=> len > 0)
  <2>1. nestLevel \in 0..len /\ (InNest <=> nestLevel > 0)
    BY NestFacts
  <2>2. \A i \in DOMAIN open : i <= nestLevel
    BY <1>4 DEF WalkInv, NestInv, KindAt
  <2>3. len \in Nat /\ DOMAIN open = 1..len
    OBVIOUS
  <2> HIDE DEF len
  <2>4. len # 0 => len <= nestLevel
    BY ONLY <2>2, <2>3
  <2>5. nestLevel = len
    BY ONLY <2>1, <2>3, <2>4
  <2> QED BY ONLY <2>1, <2>5
<1>6. Cardinality(OpenNodes) = len
  <2> DEFINE f == [i \in 1..len |-> open[i].node]
  <2>1. f \in [1..len -> OpenNodes]
    BY DEF OpenNodes
  <2>2. \A i, j \in 1..len : f[i] = f[j] => i = j
    BY PathFacts
  <2>3. \A m \in OpenNodes : \E i \in 1..len : f[i] = m
    BY DEF OpenNodes
  <2> HIDE DEF f
  <2>4. f \in Bijection(1..len, OpenNodes)
    BY <2>1, <2>2, <2>3 DEF Bijection, Injection, Surjection, IsInjective
  <2>5. ExistsBijection(1..len, OpenNodes)
    BY <2>4 DEF ExistsBijection
  <2> QED BY <2>5, FS_CountingElements
<1>7. DepthOf(Body, n) = len + 1
  BY <1>3, <1>6 DEF DepthOf
<1>8. ContextInv'
  BY <1>1, ContextEntered
<1>9. Holds(fn, Body, n)
  BY DEF WalkInv
<1> HIDE DEF n, len, c
<1>10. CASE InNest
  <2> DEFINE nest == [fn.loops[c] EXCEPT !.depth = IF DepthOf(Body, n) > @ THEN DepthOf(Body, n) ELSE @]
             loops == [fn.loops EXCEPT ![c] = nest]
  <2>1. /\ nestLevel' = len + 1 /\ currentLoopIndex' = c
        /\ fn' = [fn EXCEPT !.loops = loops]
    BY <1>5, <1>7, <1>10 DEF EnterFor, c
  <2>2. /\ c \in DOMAIN fn.loops /\ fn.loops[c].location = open[1].node
        /\ c = Len(fn.loops)
        /\ fn.loops \in Seq(Nest(Body)) /\ fn.loops[c] \in Nest(Body)
        /\ \A k \in DOMAIN fn.loops : NestHolds(fn.loops[k], Body, n)
        /\ \A k \in DOMAIN fn.loops : fn.loops[k].location \in OpenNodes <=> k = c
    BY <1>10, NestFacts DEF c, n
  <2>3. nest \in Nest(Body) /\ nest.location = fn.loops[c].location /\ NestHolds(nest, Body, n + 1)
    <3> HIDE DEF nest
    <3>1. fn.loops[c].location \in Ancestors(Body, n)
      BY <1>3, <2>2
    <3>2. nest = [fn.loops[c] EXCEPT !.depth = IF DepthOf(Body, n) > @ THEN DepthOf(Body, n) ELSE @]
      BY DEF nest
    <3>3. /\ Body \in Seq(Node) /\ n \in DOMAIN Body /\ Body[n].kind = "for"
          /\ fn.loops[c] \in Nest(Body) /\ NestHolds(fn.loops[c], Body, n)
      BY <1>1, <2>2
    <3> QED BY ONLY <3>1, <3>2, <3>3, NestGetsFor
  <2> HIDE DEF nest
  <2>4. /\ loops \in Seq(Nest(Body)) /\ DOMAIN loops = DOMAIN fn.loops
        /\ \A k \in DOMAIN fn.loops : /\ loops[k].location = fn.loops[k].location
                                      /\ NestHolds(loops[k], Body, n + 1)
    <3>1. /\ \A k \in DOMAIN fn.loops : k # c => fn.loops[k].location \notin Ancestors(Body, n)
          /\ Body \in Seq(Node)
      BY <1>3, <2>2
    <3> QED BY ONLY <1>1, <2>2, <2>3, <3>1, OneNestReplaced
  <2> HIDE DEF loops
  <2>5. fn' = [name |-> fn.name, hasDefinition |-> fn.hasDefinition, loops |-> loops, calls |-> fn.calls]
    BY <2>1, FnFields
  <2>6. /\ fn'.name = fn.name /\ fn'.hasDefinition = fn.hasDefinition
        /\ fn'.loops = loops /\ fn'.calls = fn.calls
    BY <2>5
  <2>7. n \notin Outermost(Body)
    <3>1. 1 \in DOMAIN open
      BY <1>5, <1>10 DEF len
    <3>2. open[1].node \in Ancestors(Body, n)
      BY ONLY <1>3, <3>1 DEF OpenNodes
    <3> QED BY ONLY <3>2 DEF Outermost
  <2>8. Holds(fn', Body, n + 1)
    BY <1>1, <1>9, <2>4, <2>6, <2>7, HoldsNext
  <2>9. NestInv'
    <3>1. Len(loops) = Len(fn.loops) /\ loops # <<>>
      BY <2>2, <2>4, LenProperties, EmptyDomain
    <3>2. \A i \in DOMAIN open' : Body[open'[i].node].kind = "for" /\ i <= nestLevel'
      BY <1>1, <1>2, <1>4, <2>1 DEF len, n
    <3>3. \A i \in 1..nestLevel' : open'[i].saved <=> i = 1
      <4> TAKE i \in 1..nestLevel'
      <4>1. CASE i \in DOMAIN open
        BY <1>2, <1>5, <4>1 DEF WalkInv, NestInv, len
      <4>2. CASE i = len + 1
        <5>1. open'[i].saved = ~InNest
          BY <1>2, <4>2
        <5>2. i # 1
          BY <1>5, <1>10, <4>2 DEF len
        <5> QED BY <1>10, <5>1, <5>2
      <4> QED BY <2>1, <4>1, <4>2 DEF len
    <3>4. loops[Len(loops)].location = open'[1].node
      <4>1. 1 \in DOMAIN open
        BY <1>5, <1>10 DEF len
      <4> QED BY <1>2, <2>2, <2>4, <3>1, <4>1
    <3>5. nestLevel' \in 0..(len + 1) /\ nestLevel' # 0
      BY <2>1 DEF len
    <3> QED BY <1>2, <2>1, <2>2, <2>6, <3>1, <3>2, <3>3, <3>4, <3>5 DEF NestInv, KindAt
  <2> QED BY <1>1, <1>8, <2>5, <2>6, <2>8, <2>9, WalkEntered DEF n
<1>11. CASE ~InNest
  <2> DEFINE nest == [location |-> n, depth |-> 1, arrayAccesses |-> <<>>, callSites |-> <<>>]
             loops == Append(fn.loops, nest)
  <2>1. /\ nestLevel' = 1 /\ currentLoopIndex' = Len(fn.loops) + 1
        /\ fn' = [fn EXCEPT !.loops = loops]
    BY <1>11 DEF EnterFor, n
  <2>2. len = 0 /\ open = <<>>
    BY <1>5, <1>11 DEF len
  <2> HIDE DEF nest
  <2>3. /\ DOMAIN loops = 1..(Len(fn.loops) + 1) /\ Len(loops) = Len(fn.loops) + 1
        /\ Len(fn.loops) \in Nat
        /\ loops[Len(fn.loops) + 1] = nest
    <3> DEFINE N == Nest(Body) \cup {nest}
    <3>1. fn.loops \in Seq(Nest(Body)) /\ Len(fn.loops) \in Nat
      BY NestFacts
    <3>2. Nest(Body) \subseteq N /\ nest \in N
      OBVIOUS
    <3> HIDE DEF N
    <3>3. fn.loops \in Seq(N)
      BY <3>1, <3>2, SeqMonotonic
    <3> QED BY <3>1, <3>2, <3>3, AppendProperties, LenProperties
  <2> HIDE DEF loops
  <2>4. fn' = [name |-> fn.name, hasDefinition |-> fn.hasDefinition, loops |-> loops, calls |-> fn.calls]
    BY <2>1, FnFields
  <2>5. /\ fn'.name = fn.name /\ fn'.hasDefinition = fn.hasDefinition
        /\ fn'.loops = loops /\ fn'.calls = fn.calls
    BY <2>4
  <2>6. n \in Outermost(Body)
    BY <1>1, <1>3, <2>2, EmptyDomain DEF Outermost, OpenNodes
  <2>7. Holds(fn', Body, n + 1)
    BY <1>1, <1>9, <2>5, <2>6, HoldsNextNest DEF nest, loops
  <2>8. NestInv'
    <3>1. /\ Len(open') = 1 /\ DOMAIN open' = {1}
          /\ open'[1].node = n /\ open'[1].saved
      <4>1. Len(open') = 1 /\ DOMAIN open' = 1..1
        BY <1>2, <2>2
      <4>2. open'[1] = [node |-> n, saved |-> ~InNest, turned |-> FALSE]
        BY <1>2, <2>2
      <4>3. open'[1].node = n /\ open'[1].saved = ~InNest
        BY ONLY <4>2
      <4>4. 1..1 = {1}
        OBVIOUS
      <4> QED BY ONLY <1>11, <4>1, <4>3, <4>4
    <3>2. loops # <<>> /\ loops[Len(loops)].location = n
      BY <2>3, EmptyDomain DEF nest
    <3>3. \A i \in DOMAIN open' : Body[open'[i].node].kind = "for" /\ i <= 1
      BY <1>1, <3>1
    <3>4. /\ \A i \in 1..nestLevel' : open'[i].saved <=> i = 1
          /\ nestLevel' \in 0..1 /\ nestLevel' # 0
      BY <2>1, <3>1
    <3>5. Len(fn'.loops) = Len(fn.loops) + 1
      BY <2>3, <2>5
    <3> QED BY <1>2, <2>1, <2>3, <2>5, <3>1, <3>2, <3>3, <3>4, <3>5 DEF NestInv, KindAt
  <2> QED BY <1>1, <1>8, <2>4, <2>5, <2>7, <2>8, WalkEntered DEF n
<1> QED BY <1>10, <1>11

\* A node that is no loop, given what the nests have become.
LEMMA RecordedWalk ==
    ASSUME unit \in Units, WalkInv, AtChild, Body[nextNode].kind # "for",
           NEW saved \in BOOLEAN, EnterWith(saved),
           NEW loops \in Seq(Nest(Body)), DOMAIN loops = DOMAIN fn.loops,
           \A k \in DOMAIN fn.loops : /\ loops[k].location = fn.loops[k].location
                                      /\ NestHolds(loops[k], Body, nextNode + 1),
           fn' = [name |-> fn.name, hasDefinition |-> fn.hasDefinition, loops |-> loops,
                  calls |-> IF Body[nextNode].kind = "call" THEN Append(fn.calls, nextNode)
                            ELSE fn.calls],
           UNCHANGED <<nestLevel, currentLoopIndex>>, ContextInv'
    PROVE  WalkInv'
<1>1. /\ fn'.name = fn.name /\ fn'.hasDefinition = fn.hasDefinition /\ fn'.loops = loops
      /\ fn'.calls = IF Body[nextNode].kind = "call" THEN Append(fn.calls, nextNode) ELSE fn.calls
  OBVIOUS
<1>2. fn' = [name |-> fn'.name, hasDefinition |-> fn'.hasDefinition,
             loops |-> fn'.loops, calls |-> fn'.calls]
  BY <1>1
<1>3. NestInv'
  BY <1>1, NestEntered
<1>4. Holds(fn', Body, nextNode + 1)
  <2>1. nextNode \in DOMAIN Body /\ Body \in Seq(Node) /\ nextNode \notin Outermost(Body)
    BY WalkFacts DEF AtChild, Outermost
  <2>2. Holds(fn, Body, nextNode)
    BY DEF WalkInv
  <2> QED BY <1>1, <2>1, <2>2, HoldsNext
<1> QED BY <1>1, <1>2, <1>3, <1>4, WalkEntered

\* No nest has changed, and none should.
LEMMA NestsKept ==
    ASSUME unit \in Units, WalkInv, AtChild,
           ~InNest \/ Body[nextNode].kind \notin {"subscript", "call", "for"}
    PROVE  /\ fn.loops \in Seq(Nest(Body))
           /\ \A k \in DOMAIN fn.loops : NestHolds(fn.loops[k], Body, nextNode + 1)
<1>1. nextNode \in DOMAIN Body /\ Body \in Seq(Node)
  BY WalkFacts DEF AtChild
<1>2. \A k \in DOMAIN fn.loops : /\ NestHolds(fn.loops[k], Body, nextNode)
                                 /\ ~InNest => fn.loops[k].location \notin Ancestors(Body, nextNode)
  BY NestFacts, PathIsAncestors
<1> QED BY <1>1, <1>2, NestFacts, NestUnchanged

\* The nest the walk is in is the one that should.
LEMMA NestReplaced ==
    ASSUME unit \in Units, WalkInv, AtChild, InNest,
           NEW nest \in Nest(Body), nest.location = fn.loops[currentLoopIndex].location,
           NestHolds(nest, Body, nextNode + 1),
           NEW loops, loops = [fn.loops EXCEPT ![currentLoopIndex] = nest]
    PROVE  /\ loops \in Seq(Nest(Body)) /\ DOMAIN loops = DOMAIN fn.loops
           /\ \A k \in DOMAIN fn.loops : /\ loops[k].location = fn.loops[k].location
                                         /\ NestHolds(loops[k], Body, nextNode + 1)
<1>1. nextNode \in DOMAIN Body /\ Body \in Seq(Node)
  BY WalkFacts DEF AtChild
<1>2. /\ fn.loops \in Seq(Nest(Body)) /\ currentLoopIndex \in DOMAIN fn.loops
      /\ \A k \in DOMAIN fn.loops :
            /\ NestHolds(fn.loops[k], Body, nextNode)
            /\ k # currentLoopIndex => fn.loops[k].location \notin Ancestors(Body, nextNode)
  BY NestFacts, PathIsAncestors
<1> QED BY <1>1, <1>2, OneNestReplaced

LEMMA EnterSubscriptWalk ==
    ASSUME unit \in Units, WalkInv, inWriteContext \in BOOLEAN, EnterSubscript
    PROVE  WalkInv'
<1>1. /\ AtChild /\ Body[nextNode].kind = "subscript" /\ nextNode \in DOMAIN Body
      /\ KindInside = "assign" /\ Body[nextNode].side = "rhs" => Last(open).turned
      /\ EnterWith(inWriteContext) /\ inWriteContext' = FALSE
      /\ UNCHANGED <<nestLevel, currentLoopIndex>>
  BY DEF EnterSubscript, AtNode, AtChild
<1>2. ContextInv'
  BY <1>1, ContextEntered
<1>3. Body \in Seq(Node)
  BY WalkFacts
<1>4. CASE InNest
  <2> DEFINE old == fn.loops[currentLoopIndex]
             nest == [old EXCEPT !.arrayAccesses =
                          Append(@, [node |-> nextNode, isWrite |-> inWriteContext])]
             loops == [fn.loops EXCEPT ![currentLoopIndex] = nest]
  <2>1. fn' = [fn EXCEPT !.loops = loops]
    BY <1>4 DEF EnterSubscript
  <2>2. inWriteContext <=> InTarget(Body, nextNode)
    BY <1>1, FlagIsWritten
  <2>3. /\ old \in Nest(Body) /\ NestHolds(old, Body, nextNode)
        /\ old.location \in Ancestors(Body, nextNode)
    BY <1>1, <1>4, NestFacts, PathIsAncestors
  <2>4. nest \in Nest(Body) /\ nest.location = old.location /\ NestHolds(nest, Body, nextNode + 1)
    BY ONLY <1>1, <1>3, <2>2, <2>3, inWriteContext \in BOOLEAN, NestGetsAccess
  <2> HIDE DEF nest
  <2>5. /\ loops \in Seq(Nest(Body)) /\ DOMAIN loops = DOMAIN fn.loops
        /\ \A k \in DOMAIN fn.loops : /\ loops[k].location = fn.loops[k].location
                                      /\ NestHolds(loops[k], Body, nextNode + 1)
    BY <1>1, <1>4, <2>4, NestReplaced
  <2> HIDE DEF loops
  <2>6. fn' = [name |-> fn.name, hasDefinition |-> fn.hasDefinition, loops |-> loops,
               calls |-> IF Body[nextNode].kind = "call" THEN Append(fn.calls, nextNode)
                         ELSE fn.calls]
    BY <1>1, <2>1, FnFields
  <2> QED BY <1>1, <1>2, <2>5, <2>6, RecordedWalk
<1>5. CASE ~InNest
  <2>1. fn' = [name |-> fn.name, hasDefinition |-> fn.hasDefinition, loops |-> fn.loops,
               calls |-> IF Body[nextNode].kind = "call" THEN Append(fn.calls, nextNode)
                         ELSE fn.calls]
    BY <1>1, <1>5, FnFields DEF EnterSubscript
  <2> QED BY <1>1, <1>2, <1>5, <2>1, NestsKept, RecordedWalk
<1> QED BY <1>4, <1>5

LEMMA EnterCallWalk ==
    ASSUME unit \in Units, WalkInv, inWriteContext \in BOOLEAN, EnterCall
    PROVE  WalkInv'
<1>1. /\ AtChild /\ Body[nextNode].kind = "call" /\ nextNode \in DOMAIN Body
      /\ KindInside = "assign" /\ Body[nextNode].side = "rhs" => Last(open).turned
      /\ EnterWith(FALSE) /\ inWriteContext' = inWriteContext
      /\ UNCHANGED <<nestLevel, currentLoopIndex>>
  BY DEF EnterCall, AtNode, AtChild
<1>2. ContextInv'
  BY <1>1, ContextEntered
<1>3. Body \in Seq(Node)
  BY WalkFacts
<1>4. CASE InNest
  <2> DEFINE old == fn.loops[currentLoopIndex]
             nest == [old EXCEPT !.callSites = Append(@, nextNode)]
             loops == [fn.loops EXCEPT ![currentLoopIndex] = nest]
  <2>1. fn' = [fn EXCEPT !.calls = Append(@, nextNode), !.loops = loops]
    BY <1>4 DEF EnterCall
  <2>2. /\ old \in Nest(Body) /\ NestHolds(old, Body, nextNode)
        /\ old.location \in Ancestors(Body, nextNode)
    BY <1>1, <1>4, NestFacts, PathIsAncestors
  <2>3. nest \in Nest(Body) /\ nest.location = old.location /\ NestHolds(nest, Body, nextNode + 1)
    BY ONLY <1>1, <1>3, <2>2, NestGetsCall
  <2> HIDE DEF nest
  <2>4. /\ loops \in Seq(Nest(Body)) /\ DOMAIN loops = DOMAIN fn.loops
        /\ \A k \in DOMAIN fn.loops : /\ loops[k].location = fn.loops[k].location
                                      /\ NestHolds(loops[k], Body, nextNode + 1)
    BY <1>1, <1>4, <2>3, NestReplaced
  <2> HIDE DEF loops
  <2>5. fn' = [name |-> fn.name, hasDefinition |-> fn.hasDefinition, loops |-> loops,
               calls |-> IF Body[nextNode].kind = "call" THEN Append(fn.calls, nextNode)
                         ELSE fn.calls]
    BY <1>1, <2>1, FnFields
  <2> QED BY <1>1, <1>2, <2>4, <2>5, RecordedWalk
<1>5. CASE ~InNest
  <2>1. fn' = [name |-> fn.name, hasDefinition |-> fn.hasDefinition, loops |-> fn.loops,
               calls |-> IF Body[nextNode].kind = "call" THEN Append(fn.calls, nextNode)
                         ELSE fn.calls]
    BY <1>1, <1>5, FnFields DEF EnterCall
  <2> QED BY <1>1, <1>2, <1>5, <2>1, NestsKept, RecordedWalk
<1> QED BY <1>4, <1>5

\* Entering anything else records nothing.
LEMMA UnrecordedWalk ==
    ASSUME unit \in Units, WalkInv, AtChild,
           Body[nextNode].kind \notin {"subscript", "call", "for"},
           NEW saved \in BOOLEAN, EnterWith(saved),
           UNCHANGED <<fn, nestLevel, currentLoopIndex>>, ContextInv'
    PROVE  WalkInv'
<1>1. fn' = [name |-> fn.name, hasDefinition |-> fn.hasDefinition, loops |-> fn.loops,
             calls |-> IF Body[nextNode].kind = "call" THEN Append(fn.calls, nextNode)
                       ELSE fn.calls]
  BY FnFields
<1> QED BY <1>1, NestsKept, RecordedWalk

LEMMA EnterWrittenWalk ==
    ASSUME unit \in Units, WalkInv, inWriteContext \in BOOLEAN, EnterWritten
    PROVE  WalkInv'
<1>1. /\ AtChild /\ Body[nextNode].kind \in {"assign", "incdec"}
      /\ KindInside = "assign" /\ Body[nextNode].side = "rhs" => Last(open).turned
      /\ EnterWith(inWriteContext) /\ inWriteContext' = TRUE
      /\ UNCHANGED <<fn, nestLevel, currentLoopIndex>>
  BY DEF EnterWritten, AtNode
<1>2. ContextInv'
  BY <1>1, ContextEntered
<1> QED BY <1>1, <1>2, UnrecordedWalk

LEMMA EnterOtherWalk ==
    ASSUME unit \in Units, WalkInv, EnterOther
    PROVE  WalkInv'
<1>1. /\ AtChild /\ Body[nextNode].kind \in {"expr", "compound"}
      /\ KindInside = "assign" /\ Body[nextNode].side = "rhs" => Last(open).turned
      /\ EnterWith(FALSE) /\ inWriteContext' = inWriteContext
      /\ UNCHANGED <<fn, nestLevel, currentLoopIndex>>
  BY DEF EnterOther, AtNode
<1>2. ContextInv'
  BY <1>1, ContextEntered
<1> QED BY <1>1, <1>2, UnrecordedWalk

-----------------------------------------------------------------------------
(* Leaving a node.                                                         *)

\* The flag is again what it was when the walk came to the node.
LEMMA ContextLeft ==
    ASSUME unit \in Units, WalkInv, open # <<>>, ~AtChild, LeaveNode,
           inWriteContext' <=> ContextAt(Body, open, Len(open) - 1)
    PROVE  ContextInv'
<1>0. /\ Body' = Body /\ nextNode' = nextNode
      /\ Len(open') = Len(open) - 1 /\ DOMAIN open' = 1..(Len(open) - 1)
      /\ \A i \in DOMAIN open' : i \in DOMAIN open /\ open'[i] = open[i]
  BY PathLeft
<1> USE WalkFacts
<1> DEFINE len == Len(open) - 1
<1>1. /\ Body' = Body /\ nextNode' = nextNode
      /\ Len(open') = len /\ DOMAIN open' = 1..len /\ len \in Nat
      /\ \A i \in DOMAIN open' : i \in DOMAIN open /\ open'[i] = open[i]
  <2>1. Len(open) - 1 \in Nat
    OBVIOUS
  <2> QED BY ONLY <1>0, <2>1
<1> HIDE DEF len
<1>2. \A i \in 0..len : ContextAt(Body, open', i) <=> ContextAt(Body, open, i)
  <2> TAKE i \in 0..len
  <2>1. i \in Nat /\ \A j \in 1..i : open'[j] = open[j]
    BY ONLY <1>1, i \in 0..len
  <2> QED BY ONLY <2>1, ContextPrefix
<1>3. /\ \A i \in DOMAIN open : IsContext(Body, open, i) => (open[i].saved <=> ContextAt(Body, open, i - 1))
      /\ \A i \in DOMAIN open : i > 1 /\ Body[open[i - 1].node].kind = "assign" =>
            (Body[open[i].node].side = "lhs" <=> ~open[i - 1].turned)
      /\ \A i \in DOMAIN open :
            open[i].turned /\ nextNode \in DOMAIN Body /\ Body[nextNode].parent = open[i].node
                => Body[nextNode].side # "lhs"
  BY DEF WalkInv, ContextInv, KindAt
<1>4. inWriteContext' <=> ContextAt(Body, open', len)
  BY <1>1, <1>2 DEF len
<1>5. ASSUME NEW i \in DOMAIN open', IsContext(Body, open', i)
      PROVE  open'[i].saved <=> ContextAt(Body, open', i - 1)
  <2>1. i - 1 \in 0..len /\ i \in DOMAIN open /\ open'[i] = open[i]
    BY <1>1
  <2>2. IsContext(Body, open, i)
    BY <1>5, <2>1 DEF IsContext
  <2> QED BY <1>2, <1>3, <2>1, <2>2
<1>6. ASSUME NEW i \in DOMAIN open', i > 1, Body[open'[i - 1].node].kind = "assign"
      PROVE  Body[open'[i].node].side = "lhs" <=> ~open'[i - 1].turned
  <2>1. i - 1 \in DOMAIN open' /\ i \in DOMAIN open
    BY <1>1, <1>6
  <2> QED BY <1>1, <1>3, <1>6, <2>1
<1>7. \A i \in DOMAIN open' :
         open'[i].turned /\ nextNode \in DOMAIN Body /\ Body[nextNode].parent = open'[i].node
             => Body[nextNode].side # "lhs"
  BY <1>1, <1>3
<1> QED BY <1>1, <1>4, <1>5, <1>6, <1>7 DEF ContextInv, KindAt

\* Nothing else has changed that the walk depends on.
LEMMA WalkLeft ==
    ASSUME unit \in Units, WalkInv, open # <<>>, ~AtChild, LeaveNode, NestInv', ContextInv'
    PROVE  WalkInv'
<1>1. UNCHANGED <<unit, at, fn, nextNode>> /\ Body' = Body /\ PathInv'
  BY PathLeft
<1> QED BY <1>1 DEF WalkInv, Decl

LEMMA LeaveForWalk ==
    ASSUME unit \in Units, WalkInv, LeaveFor
    PROVE  WalkInv'
<1> USE WalkFacts
<1>1. /\ open # <<>> /\ ~AtChild /\ KindInside = "for" /\ LeaveNode
      /\ inWriteContext' = inWriteContext
  BY DEF LeaveFor, AtEnd
<1>2. /\ Len(open) > 0 /\ Len(open) \in DOMAIN open /\ Last(open) = open[Len(open)]
      /\ Body[open[Len(open)].node].kind = "for"
  BY <1>1 DEF KindInside, Inside, Last
<1>3. ContextInv'
  <2>1. Len(open) - 1 \in Nat /\ (Len(open) - 1) + 1 = Len(open)
    BY <1>2
  <2>2. /\ ~SaysWritten(Body, open, (Len(open) - 1) + 1)
        /\ ~IsContext(Body, open, (Len(open) - 1) + 1)
    BY <1>2, <2>1 DEF SaysWritten, IsContext
  <2>3. ContextAt(Body, open, (Len(open) - 1) + 1) <=> ContextAt(Body, open, Len(open) - 1)
    BY ONLY <2>1, <2>2, ContextStep
  <2>4. inWriteContext' <=> ContextAt(Body, open, Len(open) - 1)
    BY <1>1, <2>1, <2>3 DEF WalkInv, ContextInv
  <2> QED BY <1>1, <2>4, ContextLeft
<1>4. /\ nestLevel = Len(open)
      /\ Last(open).saved <=> Len(open) = 1
  <2>1. nestLevel \in 0..Len(open)
    BY NestFacts
  <2>2. Len(open) <= nestLevel
    BY <1>2 DEF WalkInv, NestInv, KindAt
  <2>3. nestLevel = Len(open) /\ Len(open) \in 1..nestLevel
    BY <1>2, <2>1, <2>2
  <2> QED BY <1>2, <2>3 DEF WalkInv, NestInv
<1>5. /\ Len(open') = Len(open) - 1 /\ DOMAIN open' = 1..(Len(open) - 1)
      /\ \A i \in DOMAIN open' : i \in DOMAIN open /\ open'[i] = open[i]
      /\ fn' = fn /\ Body' = Body
  BY <1>1, PathLeft
<1>6. /\ nestLevel' = Len(open) - 1
      /\ currentLoopIndex' = IF Len(open) = 1 THEN 0 ELSE Len(fn.loops)
  <2>1. currentLoopIndex = Len(fn.loops)
    BY <1>2, <1>4 DEF WalkInv, NestInv
  <2>2. CASE Last(open).saved
    BY <1>4, <2>2 DEF LeaveFor
  <2>3. CASE ~Last(open).saved
    BY <1>4, <2>1, <2>3 DEF LeaveFor
  <2> QED BY <2>2, <2>3
<1>7. NestInv'
  <2>1. \A i \in DOMAIN open : Body[open[i].node].kind = "for" <=> i <= nestLevel
    BY DEF WalkInv, NestInv, KindAt
  <2>2. \A i \in DOMAIN open' : Body[open'[i].node].kind = "for" /\ i <= nestLevel'
    BY <1>4, <1>5, <1>6, <2>1
  <2>3. \A i \in 1..nestLevel' : open'[i].saved <=> i = 1
    <3>1. \A i \in 1..nestLevel' : i \in DOMAIN open' /\ i \in 1..nestLevel
      BY <1>2, <1>4, <1>5, <1>6
    <3> QED BY <1>5, <3>1 DEF WalkInv, NestInv
  <2>4. nestLevel' > 0 => /\ fn.loops # <<>>
                          /\ fn.loops[Len(fn.loops)].location = open'[1].node
    <3>1. nestLevel > 0
      BY <1>2, <1>4
    <3>2. nestLevel' > 0 => 1 \in DOMAIN open'
      BY <1>2, <1>5, <1>6
    <3> QED BY <1>5, <3>1, <3>2 DEF WalkInv, NestInv
  <2>5. nestLevel' \in 0..Len(open') /\ (nestLevel' = 0 <=> Len(open) = 1)
    BY <1>2, <1>5, <1>6
  <2> QED BY <1>5, <1>6, <2>2, <2>3, <2>4, <2>5 DEF NestInv, KindAt
<1> QED BY <1>1, <1>3, <1>7, WalkLeft

\* A node that is no loop is below those that are.
LEMMA NestLeft ==
    ASSUME unit \in Units, WalkInv, open # <<>>, ~AtChild, KindInside # "for", LeaveNode,
           UNCHANGED <<nestLevel, currentLoopIndex>>
    PROVE  NestInv'
<1> USE WalkFacts
<1>1. /\ Len(open') = Len(open) - 1 /\ DOMAIN open' = 1..(Len(open) - 1)
      /\ \A i \in DOMAIN open' : i \in DOMAIN open /\ open'[i] = open[i]
      /\ fn' = fn /\ Body' = Body
      /\ Len(open) > 0 /\ Len(open) \in DOMAIN open
  BY PathLeft
<1>2. nestLevel \in 0..(Len(open) - 1)
  <2>1. nestLevel \in 0..Len(open)
    BY NestFacts
  <2>2. Body[open[Len(open)].node].kind # "for"
    BY DEF KindInside, Inside, Last
  <2>3. ~(Len(open) <= nestLevel)
    BY <1>1, <2>2 DEF WalkInv, NestInv, KindAt
  <2> QED BY <1>1, <2>1, <2>3
<1>3. \A i \in 1..nestLevel : i \in DOMAIN open'
  BY <1>1, <1>2
<1>4. \A i \in DOMAIN open' : Body[open'[i].node].kind = "for" <=> i <= nestLevel
  BY <1>1 DEF WalkInv, NestInv, KindAt
<1>5. \A i \in 1..nestLevel : open'[i].saved <=> i = 1
  BY <1>1, <1>3 DEF WalkInv, NestInv
<1>6. nestLevel > 0 => 1 \in DOMAIN open'
  BY <1>2, <1>3
<1>7. nestLevel > 0 => /\ fn.loops # <<>>
                       /\ fn.loops[Len(fn.loops)].location = open'[1].node
  BY <1>1, <1>6 DEF WalkInv, NestInv
<1>8. currentLoopIndex = IF nestLevel = 0 THEN 0 ELSE Len(fn.loops)
  BY DEF WalkInv, NestInv
<1> QED BY <1>1, <1>2, <1>4, <1>5, <1>7, <1>8 DEF NestInv, KindAt

LEMMA LeaveContextWalk ==
    ASSUME unit \in Units, WalkInv, LeaveContext
    PROVE  WalkInv'
<1> USE WalkFacts
<1>1. /\ open # <<>> /\ ~AtChild /\ KindInside \in {"subscript", "assign", "incdec"}
      /\ LeaveNode /\ inWriteContext' = Last(open).saved
      /\ UNCHANGED <<nestLevel, currentLoopIndex>>
  BY DEF LeaveContext, AtEnd
<1>2. Len(open) \in DOMAIN open /\ Last(open) = open[Len(open)]
  BY <1>1 DEF Last
<1>3. IsContext(Body, open, Len(open))
  BY <1>1, <1>2 DEF KindInside, Inside, IsContext
<1>4. inWriteContext' <=> ContextAt(Body, open, Len(open) - 1)
  BY <1>1, <1>2, <1>3 DEF WalkInv, ContextInv
<1>5. ContextInv' /\ NestInv'
  BY <1>1, <1>4, ContextLeft, NestLeft
<1> QED BY <1>1, <1>5, WalkLeft

LEMMA LeaveOtherWalk ==
    ASSUME unit \in Units, WalkInv, LeaveOther
    PROVE  WalkInv'
<1> USE WalkFacts
<1>1. /\ open # <<>> /\ ~AtChild /\ KindInside \in {"call", "expr", "compound"}
      /\ LeaveNode /\ inWriteContext' = inWriteContext
      /\ UNCHANGED <<nestLevel, currentLoopIndex>>
  BY DEF LeaveOther, AtEnd
<1>2. Len(open) - 1 \in Nat /\ (Len(open) - 1) + 1 = Len(open)
  BY <1>1
<1>3. /\ ~SaysWritten(Body, open, (Len(open) - 1) + 1)
      /\ ~IsContext(Body, open, (Len(open) - 1) + 1)
  BY <1>1, <1>2 DEF SaysWritten, IsContext, KindInside, Inside, Last
<1>4. ContextAt(Body, open, (Len(open) - 1) + 1) <=> ContextAt(Body, open, Len(open) - 1)
  BY ONLY <1>2, <1>3, ContextStep
<1>5. inWriteContext' <=> ContextAt(Body, open, Len(open) - 1)
  BY <1>1, <1>2, <1>4 DEF WalkInv, ContextInv
<1>6. ContextInv' /\ NestInv'
  BY <1>1, <1>5, ContextLeft, NestLeft
<1> QED BY <1>1, <1>6, WalkLeft

\* From the left of an assignment to its right.
LEMMA TurnToRhsWalk ==
    ASSUME unit \in Units, WalkInv, TurnToRhs
    PROVE  WalkInv'
<1> USE WalkFacts
<1> DEFINE len == Len(open)
<1>1. /\ UNCHANGED <<unit, at, fn, nextNode, currentLoopIndex, nestLevel>>
      /\ Body' = Body /\ Decl' = Decl
      /\ KindInside = "assign" /\ ~(AtChild /\ Body[nextNode].side = "lhs")
      /\ inWriteContext' = FALSE
      /\ open' = [open EXCEPT ![len].turned = TRUE]
  BY DEF TurnToRhs, Body, Decl
<1>2. len \in DOMAIN open /\ Body[open[len].node].kind = "assign" /\ Inside = open[len].node
  BY <1>1 DEF KindInside, Inside, Last
<1>3. /\ DOMAIN open' = DOMAIN open
      /\ \A i \in DOMAIN open : i # len => open'[i] = open[i]
      /\ open'[len] = [open[len] EXCEPT !.turned = TRUE]
  BY <1>1, <1>2
<1> DEFINE T == [node : 1..(nextNode - 1), saved : BOOLEAN, turned : BOOLEAN]
<1>4. open[len] \in T /\ open \in Seq(T)
  <2>1. open \in Seq(T)
    BY DEF WalkInv, PathInv
  <2> HIDE DEF T
  <2> QED BY <1>2, <2>1
<1>5. /\ open'[len].node = open[len].node /\ open'[len].saved = open[len].saved
      /\ open'[len].turned /\ open'[len] \in T
  BY <1>3, <1>4
<1>6. \A i \in DOMAIN open : open'[i].node = open[i].node /\ open'[i].saved = open[i].saved
  BY <1>3, <1>5
<1>7. open' \in Seq(T) /\ Len(open') = len
  <2> DEFINE e == open'[len]
  <2>1. open' = [open EXCEPT ![len] = e]
    BY <1>1, <1>3
  <2>2. open \in Seq(T) /\ e \in T /\ len \in 1..Len(open)
    BY <1>2, <1>4, <1>5
  <2> HIDE DEF T, e
  <2>3. [open EXCEPT ![len] = e] \in Seq(T) /\ Len([open EXCEPT ![len] = e]) = Len(open)
    BY <2>2, ExceptSeq
  <2> QED BY <2>1, <2>3
<1> HIDE DEF T, len
<1>8. PathInv'
  <2>1. OpenNodes' = OpenNodes
    BY <1>3, <1>6 DEF OpenNodes
  <2>2. \A i \in DOMAIN open : i # 1 => i - 1 \in DOMAIN open
    OBVIOUS
  <2>3. ASSUME NEW i \in DOMAIN open'
        PROVE  /\ Body[open'[i].node].parent = IF i = 1 THEN 0 ELSE open'[i - 1].node
               /\ \A k \in (open'[i].node + 1)..(nextNode - 1) : Body[k].parent >= open'[i].node
    <3>1. i \in DOMAIN open /\ open'[i].node = open[i].node
          /\ (i # 1 => open'[i - 1].node = open[i - 1].node)
      BY <1>3, <1>6, <2>2
    <3>2. PathInv
      BY DEF WalkInv
    <3> QED BY ONLY <1>6, <3>1, <3>2 DEF PathInv
  <2>4. \A i, j \in DOMAIN open' : i < j => open'[i].node < open'[j].node
    BY <1>3, <1>6 DEF WalkInv, PathInv
  <2>5. /\ \A m \in (1..(nextNode - 1)) \ OpenNodes :
             nextNode \in DOMAIN Body => \E k \in (m + 1)..nextNode : Body[k].parent < m
        /\ nextNode \in DOMAIN Body => Body[nextNode].parent \in {0} \cup OpenNodes
    BY DEF WalkInv, PathInv, NextBelow
  <2> QED BY <1>1, <1>7, <2>1, <2>3, <2>4, <2>5 DEF PathInv, NextBelow, T
<1>9. NestInv'
  <2>1. nestLevel \in 0..Len(open) /\ (nestLevel > 0 => 1 \in DOMAIN open)
    BY NestFacts
  <2>2. \A i \in 1..nestLevel : i \in DOMAIN open
    BY <2>1
  <2>3. \A i \in DOMAIN open' : Body[open'[i].node].kind = "for" <=> i <= nestLevel
    BY <1>3, <1>6 DEF WalkInv, NestInv, KindAt
  <2>4. \A i \in 1..nestLevel : open'[i].saved <=> i = 1
    BY <1>6, <2>2 DEF WalkInv, NestInv
  <2>5. /\ currentLoopIndex = IF nestLevel = 0 THEN 0 ELSE Len(fn.loops)
        /\ nestLevel > 0 => /\ fn.loops # <<>>
                            /\ fn.loops[Len(fn.loops)].location = open'[1].node
    BY <1>6, <2>1 DEF WalkInv, NestInv
  <2> QED BY <1>1, <1>7, <2>1, <2>3, <2>4, <2>5 DEF NestInv, KindAt, len
<1>10. ContextInv'
  <2>1. ASSUME NEW i \in DOMAIN open
        PROVE  ContextAt(Body, open', i - 1) <=> ContextAt(Body, open, i - 1)
    <3>1. \A j \in 1..(i - 1) : open'[j] = open[j]
      BY <1>3 DEF len
    <3> QED BY <3>1, ContextPrefix
  <2>2. inWriteContext' <=> ContextAt(Body, open', len)
    <3>1. len - 1 \in Nat /\ (len - 1) + 1 = len
      BY <1>2 DEF len
    <3>2. /\ ~SaysWritten(Body, open', (len - 1) + 1)
          /\ IsContext(Body, open', (len - 1) + 1)
      BY <1>2, <1>5, <3>1 DEF SaysWritten, IsContext
    <3>3. ~ContextAt(Body, open', (len - 1) + 1)
      BY ONLY <3>1, <3>2, ContextStep
    <3> QED BY <1>1, <3>1, <3>3
  <2>3. ASSUME NEW i \in DOMAIN open', IsContext(Body, open', i)
        PROVE  open'[i].saved <=> ContextAt(Body, open', i - 1)
    <3>1. i \in DOMAIN open /\ IsContext(Body, open, i)
      BY <1>3, <1>6, <2>3 DEF IsContext
    <3>2. open[i].saved <=> ContextAt(Body, open, i - 1)
      BY <3>1 DEF WalkInv, ContextInv
    <3> QED BY <1>6, <2>1, <3>1, <3>2
  <2>4. ASSUME NEW i \in DOMAIN open', i > 1, Body[open'[i - 1].node].kind = "assign"
        PROVE  Body[open'[i].node].side = "lhs" <=> ~open'[i - 1].turned
    <3>1. i \in DOMAIN open /\ i - 1 \in DOMAIN open /\ i - 1 # len
      BY <1>3, <2>4 DEF len
    <3> QED BY <1>3, <1>6, <2>4, <3>1 DEF WalkInv, ContextInv, KindAt
  <2>5. ASSUME NEW i \in DOMAIN open', open'[i].turned, nextNode \in DOMAIN Body,
               Body[nextNode].parent = open'[i].node
        PROVE  Body[nextNode].side # "lhs"
    <3>1. CASE i = len
      <4>1. Body[nextNode].parent = Inside
        BY <1>2, <1>5, <2>5, <3>1
      <4> QED BY <1>1, <2>5, <4>1 DEF AtChild
    <3>2. CASE i # len
      BY <1>3, <2>5, <3>2 DEF WalkInv, ContextInv
    <3> QED BY <3>1, <3>2
  <2> QED BY <1>1, <1>7, <2>2, <2>3, <2>4, <2>5 DEF ContextInv, KindAt
<1> QED BY <1>1, <1>8, <1>9, <1>10 DEF WalkInv

-----------------------------------------------------------------------------
(* Declarations and entries.                                               *)

\* A body is entered with nothing recorded.
LEMMA VisitDefinitionWalk ==
    ASSUME unit \in Units, VisitDefinition
    PROVE  WalkInv'
<1>1. /\ at \in DOMAIN unit /\ Decl.inMainFile /\ Body # Opaque
      /\ UNCHANGED <<unit, at, ir>> /\ Body' = Body /\ Decl' = Decl
      /\ nextNode' = 1 /\ open' = <<>>
      /\ currentLoopIndex' = 0 /\ nestLevel' = 0 /\ inWriteContext' = FALSE
      /\ fn' = [name |-> Decl.name, hasDefinition |-> HasBody(Decl), loops |-> <<>>, calls |-> <<>>]
  BY DEF VisitDefinition, Body, Decl, NewFunctionIR
<1>2. /\ Body \in Seq(Node) /\ Len(Body) \in Nat /\ DOMAIN Body = 1..Len(Body)
      /\ 1 \in DOMAIN Body => Body[1].parent = 0
  BY <1>1, BodyFacts DEF Body, Decl
<1>3. HasBody(Decl)
  BY <1>1, UnitFacts DEF Body, Decl
<1>4. DOMAIN <<>> = {} /\ Len(<<>>) = 0 /\ \A S : <<>> \in Seq(S)
  BY EmptyDomain
<1>5. nextNode' \in 1..(Len(Body) + 1) /\ 1..(nextNode' - 1) = {}
  BY <1>1, <1>2
<1>6. /\ fn'.name = Decl.name /\ fn'.hasDefinition = HasBody(Decl)
      /\ fn'.loops = <<>> /\ fn'.calls = <<>>
  BY <1>1
<1>7. fn' \in [name : {Decl.name}, hasDefinition : {TRUE},
               loops : Seq(Nest(Body)), calls : Seq(DOMAIN Body)]
  <2> DEFINE Loops == Seq(Nest(Body))
             Calls == Seq(DOMAIN Body)
  <2>1. <<>> \in Loops /\ <<>> \in Calls
    BY <1>4
  <2>2. fn' = [name |-> Decl.name, hasDefinition |-> TRUE, loops |-> <<>>, calls |-> <<>>]
    BY <1>1, <1>3
  <2> HIDE DEF Loops, Calls
  <2>3. fn' \in [name : {Decl.name}, hasDefinition : {TRUE}, loops : Loops, calls : Calls]
    BY <2>1, <2>2
  <2> QED BY <2>3 DEF Loops, Calls
<1>8. PathInv'
  <2>1. open' \in Seq([node : 1..(nextNode' - 1), saved : BOOLEAN, turned : BOOLEAN])
    BY <1>1, <1>4
  <2>2. DOMAIN open' = {} /\ 1..(nextNode' - 1) = {}
    BY <1>1, <1>4, <1>5
  <2>3. NextBelow'
    BY <1>1, <1>2 DEF NextBelow
  <2> QED BY <2>1, <2>2, <2>3 DEF PathInv
<1>9. NestInv'
  BY <1>1, <1>4 DEF NestInv
<1>10. ContextInv'
  <2>1. ~ContextAt(Body, open', Len(open'))
    BY <1>1, <1>4 DEF ContextAt
  <2>2. DOMAIN open' = {}
    BY <1>1, <1>4
  <2> QED BY <1>1, <2>1, <2>2 DEF ContextInv
<1>11. Holds(fn', Body, 1)
  <2>1. /\ {m \in DOMAIN Body : Body[m].kind = "call" /\ m < 1} = {}
        /\ {m \in Outermost(Body) : m < 1} = {}
    BY <1>2 DEF Outermost
  <2>2. /\ DOMAIN fn'.loops = {} /\ DOMAIN fn'.calls = {}
        /\ fn'.calls \in Seq(DOMAIN Body) /\ fn'.loops \in Seq(Nest(Body))
    BY <1>4, <1>6
  <2>3. DOMAIN [k \in DOMAIN fn'.loops |-> fn'.loops[k].location] = {}
    BY <2>2
  <2> QED BY <2>1, <2>2, <2>3, ListsNone DEF Holds
<1> QED BY <1>1, <1>5, <1>7, <1>8, <1>9, <1>10, <1>11 DEF WalkInv

\* Walking on leaves the entries alone.
LEMMA EntriesKept ==
    ASSUME EntriesInv, UNCHANGED <<unit, at, ir>>
    PROVE  EntriesInv'
<1>1. \A name, k : IsOrigin(name, k, at) => IsOrigin(name, k, at)'
  BY DEF IsOrigin, HasBody, MainFileDecls
<1>2. \A name, k : EntryOf(ir[name], k) => EntryOf(ir[name], k)'
  BY DEF EntryOf, HasBody
<1>3. MainFileDecls' = MainFileDecls
  BY DEF MainFileDecls
<1> QED BY <1>1, <1>2, <1>3 DEF EntriesInv

\* What a FunctionIR is merged into is the entries of one more declaration,
\* and an entry with a definition is among them as it was.
LEMMA MergedEntries ==
    ASSUME unit \in Units, EntriesInv, at \in DOMAIN unit, Decl.inMainFile,
           NEW f, EntryOf(f, at), ir' = Merged(f), at' = at + 1, UNCHANGED unit
    PROVE  /\ EntriesInv'
           /\ \A n \in DOMAIN ir : ir[n].hasDefinition => ir'[n] = ir[n]
<1> DEFINE Def(k) == HasBody(unit[k])
<1>1. /\ f.name = unit[at].name /\ f.hasDefinition = Def(at)
      /\ Len(unit) \in Nat /\ DOMAIN unit = 1..Len(unit)
      /\ at \in MainFileDecls /\ at \in Nat
      /\ MainFileDecls \subseteq Nat
      /\ MainFileDecls' = MainFileDecls
  BY UnitFacts DEF EntryOf, MainFileDecls, Decl
<1>2. /\ \A k \in MainFileDecls : k < at => unit[k].name \in DOMAIN ir
      /\ \A name \in DOMAIN ir :
            \E k \in MainFileDecls : IsOrigin(name, k, at) /\ EntryOf(ir[name], k)
  BY DEF EntriesInv
<1>3. \A k \in MainFileDecls : k < at + 1 <=> k < at \/ k = at
  BY <1>1
<1> DEFINE Replaces == f.name \notin DOMAIN ir \/ (f.hasDefinition /\ ~ir[f.name].hasDefinition)
<1>4. ir' = IF Replaces
            THEN [n \in DOMAIN ir \cup {f.name} |-> IF n = f.name THEN f ELSE ir[n]]
            ELSE ir
  BY DEF Merged
<1>5. DOMAIN ir' = DOMAIN ir \cup {f.name}
  <2>1. CASE Replaces
    BY <1>4, <2>1
  <2>2. CASE ~Replaces
    BY <1>4, <2>2
  <2> QED BY <2>1, <2>2
<1>6. \A n \in DOMAIN ir' : ir'[n] = IF n = f.name /\ Replaces THEN f ELSE ir[n]
  <2>1. CASE Replaces
    BY <1>4, <2>1
  <2>2. CASE ~Replaces
    BY <1>4, <2>2
  <2> QED BY <2>1, <2>2
<1>7. ASSUME NEW name, name # f.name, NEW k \in MainFileDecls, IsOrigin(name, k, at)
      PROVE  IsOrigin(name, k, at + 1)
  BY <1>1, <1>3, <1>7 DEF IsOrigin
<1>8. \A name, k : EntryOf(ir'[name], k) => EntryOf(ir[name], k)'
  BY DEF EntryOf, HasBody
<1>9. \A name, k : IsOrigin(name, k, at + 1) => IsOrigin(name, k, at)'
  BY <1>1 DEF IsOrigin, HasBody
<1>10. ASSUME NEW name \in DOMAIN ir'
       PROVE  \E k \in MainFileDecls : IsOrigin(name, k, at + 1) /\ EntryOf(ir'[name], k)
  <2>1. CASE name # f.name
    <3>1. name \in DOMAIN ir /\ ir'[name] = ir[name]
      BY <1>5, <1>6, <2>1
    <3> QED BY <1>2, <1>7, <2>1, <3>1
  <2>2. CASE name = f.name /\ f.name \notin DOMAIN ir
    <3>1. ir'[name] = f
      BY <1>6, <2>2
    <3>2. \A j \in MainFileDecls : j < at + 1 /\ unit[j].name = name => j = at
      BY <1>2, <1>3, <2>2
    <3>3. IsOrigin(name, at, at + 1)
      BY <1>1, <2>2, <3>2 DEF IsOrigin
    <3> QED BY <1>1, <3>1, <3>3
  <2>3. CASE name = f.name /\ f.name \in DOMAIN ir
    <3>1. PICK k \in MainFileDecls : IsOrigin(name, k, at) /\ EntryOf(ir[name], k)
      BY <1>2, <2>3
    <3>2. /\ ir[name].hasDefinition = Def(k) /\ k < at /\ unit[k].name = name /\ k \in Nat
          /\ \A j \in MainFileDecls : j < at /\ unit[j].name = name =>
                \/ k <= j /\ (Def(j) => Def(k))
                \/ Def(k) /\ ~Def(j)
      BY <1>1, <3>1 DEF EntryOf, IsOrigin
    <3>3. CASE Def(at) /\ ~Def(k)
      <4>1. ir'[name] = f
        BY <1>1, <1>6, <2>3, <3>2, <3>3
      <4>2. \A j \in MainFileDecls : j < at /\ unit[j].name = name => ~Def(j)
        BY <3>2, <3>3
      <4>3. \A j \in MainFileDecls : j < at + 1 /\ unit[j].name = name =>
                \/ at <= j /\ (Def(j) => Def(at))
                \/ Def(at) /\ ~Def(j)
        BY <1>1, <1>3, <3>3, <4>2
      <4>4. IsOrigin(name, at, at + 1)
        BY <1>1, <2>3, <4>3 DEF IsOrigin
      <4> QED BY <1>1, <4>1, <4>4
    <3>4. CASE ~(Def(at) /\ ~Def(k))
      <4>1. ir'[name] = ir[name]
        BY <1>1, <1>6, <2>3, <3>2, <3>4
      <4>2. \A j \in MainFileDecls : j < at + 1 /\ unit[j].name = name =>
                \/ k <= j /\ (Def(j) => Def(k))
                \/ Def(k) /\ ~Def(j)
        BY <1>1, <1>3, <3>2, <3>4
      <4>3. k < at + 1
        BY <1>1, <3>2
      <4>4. IsOrigin(name, k, at + 1)
        BY <3>2, <4>2, <4>3 DEF IsOrigin
      <4> QED BY <3>1, <4>1, <4>4
    <3> QED BY <3>3, <3>4
  <2> QED BY <2>1, <2>2, <2>3
<1>11. EntriesInv'
  <2>1. \A k \in MainFileDecls' : k < at' => unit'[k].name \in DOMAIN ir'
    BY <1>1, <1>2, <1>3, <1>5
  <2>2. \A name \in DOMAIN ir' :
            \E k \in MainFileDecls' : IsOrigin(name, k, at)' /\ EntryOf(ir[name], k)'
    BY <1>1, <1>8, <1>9, <1>10
  <2> QED BY <2>1, <2>2 DEF EntriesInv
<1>12. \A n \in DOMAIN ir : ir[n].hasDefinition => ir'[n] = ir[n]
  BY <1>5, <1>6
<1> QED BY <1>11, <1>12

-----------------------------------------------------------------------------
(* The theorems.                                                           *)

LEMMA IInvInit == Init => IInv
<1> SUFFICES ASSUME Init PROVE IInv
  OBVIOUS
<1>1. unit \in Units /\ Len(unit) \in Nat /\ at = 1 /\ ~visiting /\ DOMAIN ir = {}
  BY UnitFacts, EmptyDomain DEF Init
<1>2. EntriesInv
  <2>1. \A k \in MainFileDecls : ~(k < at)
    BY <1>1, UnitFacts DEF MainFileDecls
  <2> QED BY <1>1, <2>1 DEF EntriesInv
<1>3. at \in 1..(Len(unit) + 1)
  BY <1>1
<1> QED BY <1>1, <1>2, <1>3 DEF IInv, Init

\* A step of the walk of a body, of which there are nine.
WalkStep ==
    \/ EnterFor \/ LeaveFor \/ EnterSubscript \/ EnterWritten \/ TurnToRhs
    \/ LeaveContext \/ EnterCall \/ EnterOther \/ LeaveOther

LEMMA WalkStepFrame ==
    ASSUME IInv, WalkStep
    PROVE  visiting /\ UNCHANGED <<unit, at, ir, visiting>> /\ inWriteContext' \in BOOLEAN
<1>1. visiting /\ UNCHANGED <<unit, at, ir, visiting>>
  BY DEF WalkStep, EnterFor, LeaveFor, EnterSubscript, EnterWritten, TurnToRhs, LeaveContext,
         EnterCall, EnterOther, LeaveOther, AtNode, AtEnd, EnterWith, LeaveNode
<1>2. CASE LeaveContext
  <2>1. Last(open).saved \in BOOLEAN
    <3>1. unit \in Units /\ WalkInv /\ open # <<>>
      BY <1>1, <1>2 DEF IInv, LeaveContext, AtEnd
    <3>2. Len(open) \in DOMAIN open
      BY <3>1, WalkFacts
    <3> QED BY <3>1, <3>2, WalkFacts DEF Last
  <2> QED BY <1>1, <1>2, <2>1 DEF LeaveContext
<1>3. CASE ~LeaveContext
  BY <1>1, <1>3 DEF IInv, WalkStep, EnterFor, LeaveFor, EnterSubscript, EnterWritten, TurnToRhs,
                    EnterCall, EnterOther, LeaveOther
<1> QED BY <1>2, <1>3

LEMMA IInvNext == IInv /\ [Next]_vars => IInv'
<1> SUFFICES ASSUME IInv, [Next]_vars PROVE IInv'
  OBVIOUS
<1>1. /\ unit \in Units /\ at \in 1..(Len(unit) + 1) /\ Len(unit) \in Nat
      /\ DOMAIN unit = 1..Len(unit)
      /\ visiting \in BOOLEAN /\ inWriteContext \in BOOLEAN
      /\ EntriesInv /\ (visiting => WalkInv)
  BY UnitFacts DEF IInv
<1>2. CASE SkipDeclaration
  <2>1. /\ UNCHANGED <<unit, ir, visiting, inWriteContext>> /\ at' = at + 1 /\ ~visiting
        /\ at \in DOMAIN unit /\ ~unit[at].inMainFile
    BY <1>2 DEF SkipDeclaration, walk, Decl
  <2>2. MainFileDecls' = MainFileDecls
    BY <2>1 DEF MainFileDecls
  <2>3. \A k \in MainFileDecls : k < at + 1 <=> k < at
    BY <1>1, <2>1 DEF MainFileDecls
  <2>4. \A name, k : IsOrigin(name, k, at) => IsOrigin(name, k, at)'
    BY <2>1, <2>2, <2>3 DEF IsOrigin, HasBody
  <2>5. \A name, k : EntryOf(ir[name], k) => EntryOf(ir[name], k)'
    BY <2>1 DEF EntryOf, HasBody
  <2>6. EntriesInv'
    BY <1>1, <2>1, <2>2, <2>3, <2>4, <2>5 DEF EntriesInv
  <2>7. at' \in 1..(Len(unit) + 1)
    BY <1>1, <2>1
  <2> QED BY <1>1, <2>1, <2>6, <2>7 DEF IInv
<1>3. CASE VisitPrototype
  <2>1. /\ UNCHANGED <<unit, visiting, inWriteContext>> /\ at' = at + 1 /\ ~visiting
        /\ at \in DOMAIN unit /\ Decl.inMainFile /\ Body = Opaque
        /\ ir' = Merged(NewFunctionIR(Decl))
    BY <1>3 DEF VisitPrototype, walk
  <2>2. EntryOf(NewFunctionIR(Decl), at)
    BY <2>1 DEF EntryOf, NewFunctionIR, Decl, Body
  <2>3. EntriesInv'
    BY <1>1, <2>1, <2>2, MergedEntries
  <2>4. at' \in 1..(Len(unit) + 1)
    BY <1>1, <2>1
  <2> QED BY <1>1, <2>1, <2>3, <2>4 DEF IInv
<1>4. CASE VisitDefinition
  <2>1. UNCHANGED <<unit, at, ir>> /\ visiting' = TRUE /\ inWriteContext' = FALSE
    BY <1>4 DEF VisitDefinition
  <2>2. WalkInv'
    BY <1>1, <1>4, VisitDefinitionWalk
  <2>3. EntriesInv'
    BY <1>1, <2>1, EntriesKept
  <2> QED BY <1>1, <2>1, <2>2, <2>3 DEF IInv
<1>5. CASE BodyWalked
  <2>1. /\ UNCHANGED <<unit, inWriteContext>> /\ at' = at + 1 /\ visiting' = FALSE
        /\ WalkInv /\ nextNode \notin DOMAIN Body
        /\ ir' = Merged(fn)
    BY <1>1, <1>5 DEF BodyWalked, walk
  <2>2. at \in DOMAIN unit /\ Decl.inMainFile /\ Body # Opaque
    BY <2>1 DEF WalkInv
  <2>3. EntryOf(fn, at)
    <3>1. fn.name = Decl.name /\ fn.hasDefinition = TRUE
      BY <2>1 DEF WalkInv
    <3>2. HasBody(Decl) = TRUE
      BY <1>1, <2>2 DEF HasBody, Body, Decl
    <3>3. nextNode = Len(Body) + 1
      BY <1>1, <2>1, WalkFacts
    <3>4. Holds(fn, Body, Len(Body) + 1)
      BY <2>1, <3>3 DEF WalkInv
    <3> QED BY <2>2, <3>1, <3>2, <3>4 DEF EntryOf, Body, Decl
  <2>4. EntriesInv'
    BY <1>1, <2>1, <2>2, <2>3, MergedEntries
  <2>5. at' \in 1..(Len(unit) + 1)
    BY <1>1, <2>1, <2>2
  <2> QED BY <1>1, <2>1, <2>4, <2>5 DEF IInv
<1>6. CASE WalkStep
  <2>1. visiting /\ UNCHANGED <<unit, at, ir, visiting>> /\ inWriteContext' \in BOOLEAN
    BY <1>6, WalkStepFrame
  <2>2. WalkInv'
    BY <1>1, <1>6, <2>1, EnterForWalk, LeaveForWalk, EnterSubscriptWalk, EnterWrittenWalk,
       TurnToRhsWalk, LeaveContextWalk, EnterCallWalk, EnterOtherWalk, LeaveOtherWalk DEF WalkStep
  <2>3. EntriesInv'
    BY <1>1, <2>1, EntriesKept
  <2> QED BY <1>1, <2>1, <2>2, <2>3 DEF IInv
<1>7. CASE UNCHANGED vars
  <2>1. UNCHANGED <<unit, at, ir, fn, visiting, nextNode, open, currentLoopIndex, nestLevel, inWriteContext>>
    BY <1>7 DEF vars, walk
  <2>2. EntriesInv'
    BY <1>1, <2>1, EntriesKept
  <2>3. visiting => WalkInv'
    <3> SUFFICES ASSUME visiting PROVE WalkInv'
      OBVIOUS
    <3>1. WalkInv /\ Body' = Body /\ Decl' = Decl
      BY <1>1, <2>1 DEF Body, Decl
    <3>2. PathInv'
      BY <2>1, <3>1 DEF WalkInv, PathInv, NextBelow, OpenNodes
    <3>3. NestInv'
      BY <2>1, <3>1 DEF WalkInv, NestInv, KindAt
    <3>4. ContextInv'
      BY <2>1, <3>1 DEF WalkInv, ContextInv, KindAt
    <3> QED BY <2>1, <3>1, <3>2, <3>3, <3>4 DEF WalkInv
  <2> QED BY <1>1, <2>1, <2>2, <2>3 DEF IInv
<1> QED BY <1>2, <1>3, <1>4, <1>5, <1>6, <1>7 DEF Next, WalkStep

\* The invariant holds of every unit.
THEOREM Invariant == Spec => []IInv
BY IInvInit, IInvNext, PTL DEF Spec

LEMMA IInvTypes == IInv => TypeOK
<1> SUFFICES ASSUME IInv PROVE TypeOK
  OBVIOUS
<1>1. \A name \in DOMAIN ir : name \in Names /\ ir[name].name = name
  <2> TAKE name \in DOMAIN ir
  <2>1. PICK k \in MainFileDecls : IsOrigin(name, k, at) /\ EntryOf(ir[name], k)
    BY DEF IInv, EntriesInv
  <2>2. unit[k].name = name /\ ir[name].name = unit[k].name /\ k \in DOMAIN unit
    BY <2>1 DEF IsOrigin, EntryOf, MainFileDecls
  <2>3. unit \in Units
    BY DEF IInv
  <2> QED BY <2>2, <2>3, UnitFacts
<1>2. ASSUME visiting
      PROVE  /\ at \in DOMAIN unit /\ nextNode \in 1..(Len(Body) + 1)
             /\ nestLevel = Cardinality({k \in DOMAIN open : Body[open[k].node].kind = "for"})
             /\ currentLoopIndex = IF nestLevel = 0 THEN 0 ELSE Len(fn.loops)
  <2>1. unit \in Units /\ WalkInv
    BY <1>2 DEF IInv
  <2>2. /\ DOMAIN open = 1..Len(open) /\ Len(open) \in Nat
        /\ nestLevel \in 0..Len(open)
    BY <2>1, WalkFacts, NestFacts
  <2>3. {k \in DOMAIN open : Body[open[k].node].kind = "for"} = 1..nestLevel
    <3>1. \A k \in DOMAIN open : Body[open[k].node].kind = "for" <=> k <= nestLevel
      BY <2>1 DEF WalkInv, NestInv, KindAt
    <3> QED BY <2>2, <3>1
  <2>4. Cardinality(1..nestLevel) = nestLevel
    BY <2>2, FS_Interval
  <2> QED BY <2>1, <2>3, <2>4 DEF WalkInv, NestInv
<1> QED BY <1>1, <1>2 DEF IInv, TypeOK

\* Types, and the bookkeeping of the walk: a nest is being recorded exactly
\* while the walk is inside a loop, and nestLevel says how deep.
THEOREM TypesCorrect == Spec => []TypeOK
BY Invariant, IInvTypes, PTL

-----------------------------------------------------------------------------
(* When every declaration has been visited.                                *)

\* Each entry is what Origin() says it is from.
LEMMA EntriesAtEnd ==
    ASSUME IInv, Done, NEW name \in DOMAIN ir
    PROVE  /\ Origin(name) \in DOMAIN unit /\ EntryOf(ir[name], Origin(name))
<1>1. at = Len(unit) + 1 /\ Len(unit) \in Nat /\ DOMAIN unit = 1..Len(unit)
  BY UnitFacts DEF IInv, Done
<1>2. PICK k \in MainFileDecls : IsOrigin(name, k, at) /\ EntryOf(ir[name], k)
  BY DEF IInv, EntriesInv
<1> DEFINE of == {j \in MainFileDecls : unit[j].name = name}
           defined == {j \in of : HasBody(unit[j])}
           S == IF defined # {} THEN defined ELSE of
<1>3. \A j \in MainFileDecls : j \in Nat /\ j < at
  BY <1>1 DEF MainFileDecls
<1>4. /\ k \in of
      /\ \A j \in of : \/ k <= j /\ (HasBody(unit[j]) => HasBody(unit[k]))
                       \/ HasBody(unit[k]) /\ ~HasBody(unit[j])
  BY <1>2, <1>3 DEF IsOrigin
<1>5. k \in S /\ \A j \in S : k <= j
  <2>1. CASE HasBody(unit[k])
    BY <1>4, <2>1
  <2>2. CASE ~HasBody(unit[k])
    <3>1. defined = {}
      BY <1>4, <2>2
    <3> QED BY <1>4, <2>2, <3>1
  <2> QED BY <2>1, <2>2
<1>6. S \subseteq Nat
  BY <1>3
<1>7. Origin(name) = Min(S)
  BY DEF Origin
<1> HIDE DEF S
<1>8. Min(S) \in S /\ \A j \in S : Min(S) <= j
  BY <1>5 DEF Min
<1>9. Min(S) = k
  <2>1. Min(S) \in Nat /\ k \in Nat /\ Min(S) <= k /\ k <= Min(S)
    BY ONLY <1>5, <1>6, <1>8
  <2> QED BY ONLY <2>1
<1> QED BY <1>2, <1>7, <1>9 DEF MainFileDecls

\* A nest that holds all of its loop.
LEMMA NestComplete ==
    ASSUME NEW body \in Seq(Node), NEW nest \in Nest(body), NestHolds(nest, body, Len(body) + 1)
    PROVE  LET inside == Within(body, nest.location, {"for"}) IN
           /\ Lists([j \in DOMAIN nest.arrayAccesses |-> nest.arrayAccesses[j].node],
                    Within(body, nest.location, {"subscript"}))
           /\ Lists(nest.callSites, Within(body, nest.location, {"call"}))
           /\ nest.depth = Max({1} \cup {Cardinality(Ancestors(body, n)) + 1 : n \in inside})
<1>1. \A kinds : {m \in Within(body, nest.location, kinds) : m < Len(body) + 1}
                     = Within(body, nest.location, kinds)
  BY DEF Within
<1> DEFINE inside == Within(body, nest.location, {"for"})
           S == {1} \cup {DepthOf(body, n) : n \in inside}
<1>2. S = {1} \cup {Cardinality(Ancestors(body, n)) + 1 : n \in inside}
  BY DEF DepthOf
<1>3. nest.depth \in S /\ \A x \in S : nest.depth >= x
  BY <1>1 DEF NestHolds
<1>4. S \subseteq Nat
  BY DepthIsNat DEF Within
<1> HIDE DEF S
<1>5. Max(S) \in S /\ \A x \in S : Max(S) >= x
  BY <1>3 DEF Max
<1>6. nest.depth = Max(S)
  <2>1. Max(S) \in Nat /\ nest.depth \in Nat /\ Max(S) >= nest.depth /\ nest.depth >= Max(S)
    BY ONLY <1>3, <1>4, <1>5
  <2> QED BY ONLY <2>1
<1>7. /\ Lists([j \in DOMAIN nest.arrayAccesses |-> nest.arrayAccesses[j].node],
               Within(body, nest.location, {"subscript"}))
      /\ Lists(nest.callSites, Within(body, nest.location, {"call"}))
  BY <1>1 DEF NestHolds
<1> QED BY <1>2, <1>6, <1>7

LEMMA NestsAtEnd == IInv => NestsAreTheOutermostLoops
<1> SUFFICES ASSUME IInv, Done, NEW name \in DOMAIN ir, unit[Origin(name)].body # Opaque
             PROVE  LET entry == ir[name]
                        body == unit[Origin(name)].body
                    IN  /\ Lists(entry.calls, {n \in DOMAIN body : body[n].kind = "call"})
                        /\ Lists([k \in DOMAIN entry.loops |-> entry.loops[k].location], Outermost(body))
                        /\ \A k \in DOMAIN entry.loops :
                             LET nest == entry.loops[k]
                                 inside == Within(body, nest.location, {"for"})
                             IN  /\ Lists([j \in DOMAIN nest.arrayAccesses |-> nest.arrayAccesses[j].node],
                                          Within(body, nest.location, {"subscript"}))
                                 /\ Lists(nest.callSites, Within(body, nest.location, {"call"}))
                                 /\ nest.depth = Max({1} \cup {Cardinality(Ancestors(body, n)) + 1 : n \in inside})
  BY DEF NestsAreTheOutermostLoops
<1> DEFINE entry == ir[name]
           body == unit[Origin(name)].body
<1>1. Origin(name) \in DOMAIN unit /\ Holds(entry, body, Len(body) + 1)
  BY EntriesAtEnd DEF EntryOf
<1>2. unit \in Units
  BY DEF IInv
<1>3. body \in Seq(Node) /\ Len(body) \in Nat /\ DOMAIN body = 1..Len(body)
  BY <1>1, <1>2, BodyFacts
<1> HIDE DEF entry, body
<1>4. \A m \in DOMAIN body : m < Len(body) + 1
  BY <1>3
<1>5. Lists(entry.calls, {n \in DOMAIN body : body[n].kind = "call"})
  <2>1. {m \in DOMAIN body : body[m].kind = "call" /\ m < Len(body) + 1}
            = {m \in DOMAIN body : body[m].kind = "call"}
    BY <1>4
  <2> QED BY <1>1, <2>1 DEF Holds
<1>6. Lists([k \in DOMAIN entry.loops |-> entry.loops[k].location], Outermost(body))
  <2>1. {m \in Outermost(body) : m < Len(body) + 1} = Outermost(body)
    BY <1>4 DEF Outermost
  <2> QED BY <1>1, <2>1 DEF Holds
<1>7. \A k \in DOMAIN entry.loops :
         entry.loops[k] \in Nest(body) /\ NestHolds(entry.loops[k], body, Len(body) + 1)
  <2> DEFINE N == Nest(body)
  <2>1. entry.loops \in Seq(N)
    BY <1>1 DEF Holds
  <2>2. \A k \in DOMAIN entry.loops : entry.loops[k] \in N
    <3> HIDE DEF N
    <3> QED BY <2>1
  <2> QED BY <1>1, <2>2 DEF Holds
<1> QED BY <1>3, <1>5, <1>6, <1>7, NestComplete DEF entry, body

\* The nests of an entry are the outermost loops of its body, in order, each
\* with its depth and with every subscript and every call inside it once, in
\* order, however the loops in it are nested; a call outside is recorded too.
THEOREM NestsCorrect == Spec => []NestsAreTheOutermostLoops
BY Invariant, NestsAtEnd, PTL

\* Nothing comes between an assignment or increment and its direct target.
LEMMA DirectIsInTarget ==
    ASSUME NEW body \in Seq(Node), WellFormed(body), NEW n \in DOMAIN body,
           DirectTarget(body, n), body[body[n].parent].kind # "compound"
    PROVE  InTarget(body, n)
<1> DEFINE m == body[n].parent
<1>1. n \in Nat \ {0} /\ m \in Nat /\ m > 0
  <2>1. n \in Nat \ {0}
    BY LenProperties
  <2>2. body[n].parent \in Nat
    <3>1. body[n] \in Node
      BY ElementOfSeq, LenProperties
    <3> QED BY <3>1 DEF Node
  <2> QED BY <2>1, <2>2 DEF DirectTarget
<1>2. m = n - 1
  BY DEF WellFormed, DirectTarget
<1>3. body[m].kind = "incdec" \/ (body[m].kind = "assign" /\ body[n].side = "lhs")
  BY DEF WellFormed, DirectTarget
<1> HIDE DEF m
<1>4. m \in Ancestors(body, n)
  BY <1>1, <1>2 DEF Ancestors, m
<1>5. \A k \in Ancestors(body, n) : ~(k > m)
  BY <1>1, <1>2 DEF Ancestors
<1>6. body[n].parent = m
  BY DEF m
<1> QED BY <1>3, <1>4, <1>5, <1>6 DEF InTarget

LEMMA WriteFlagsAtEnd == IInv => WritesAreTargets
<1> SUFFICES ASSUME IInv, Done, NEW name \in DOMAIN ir, NEW k \in DOMAIN ir[name].loops,
                    NEW j \in DOMAIN ir[name].loops[k].arrayAccesses
             PROVE  LET access == ir[name].loops[k].arrayAccesses[j]
                        body == unit[Origin(name)].body
                    IN  /\ DirectTarget(body, access.node)
                              /\ body[body[access.node].parent].kind # "compound"
                                  => access.isWrite
                        /\ access.isWrite => InTarget(body, access.node)
  <2> SUFFICES ASSUME IInv, Done, NEW name \in DOMAIN ir, NEW access \in AccessesOf(name)
               PROVE  LET body == unit[Origin(name)].body
                      IN  /\ DirectTarget(body, access.node)
                                /\ body[body[access.node].parent].kind # "compound"
                                    => access.isWrite
                          /\ access.isWrite => InTarget(body, access.node)
    BY DEF WritesAreTargets
  <2>1. PICK k \in DOMAIN ir[name].loops : \E j \in DOMAIN ir[name].loops[k].arrayAccesses :
              access = ir[name].loops[k].arrayAccesses[j]
    BY DEF AccessesOf
  <2>2. PICK j \in DOMAIN ir[name].loops[k].arrayAccesses :
              access = ir[name].loops[k].arrayAccesses[j]
    BY <2>1
  <2> QED BY <2>2
<1> DEFINE body == unit[Origin(name)].body
           access == ir[name].loops[k].arrayAccesses[j]
<1>1. Origin(name) \in DOMAIN unit /\ EntryOf(ir[name], Origin(name))
  BY EntriesAtEnd
<1>2. body # Opaque
  BY <1>1, EmptyDomain DEF EntryOf
<1>3. Holds(ir[name], body, Len(body) + 1)
  BY <1>1, <1>2 DEF EntryOf
<1>4. body \in Seq(Node) /\ WellFormed(body)
  <2>1. unit \in Units
    BY DEF IInv
  <2>2. \A d \in DOMAIN unit : unit[d].body # Opaque => WellFormed(unit[d].body)
    BY <2>1, UnitsTyped
  <2> QED BY <1>1, <1>2, <2>1, <2>2, BodyFacts
<1> HIDE DEF body
<1>5. access.isWrite <=> InTarget(body, access.node)
  BY <1>3 DEF Holds, NestHolds
<1>6. access.node \in DOMAIN body
  <2> DEFINE nest == ir[name].loops[k]
             nodes == [l \in DOMAIN nest.arrayAccesses |-> nest.arrayAccesses[l].node]
             inside == {m \in Within(body, nest.location, {"subscript"}) : m < Len(body) + 1}
  <2>1. ToSet(nodes) = inside
    BY <1>3 DEF Holds, NestHolds, Lists
  <2>2. nodes[j] \in ToSet(nodes)
    BY DEF ToSet
  <2> QED BY <2>1, <2>2 DEF Within
<1> QED BY <1>4, <1>5, <1>6, DirectIsInTarget DEF body

\* Whatever body is walked, the flag misses no direct target of an assignment
\* or increment and marks as written nothing that is outside of a target.
THEOREM WriteFlagsCorrect == Spec => []WritesAreTargets
BY Invariant, WriteFlagsAtEnd, PTL
=============================================================================
