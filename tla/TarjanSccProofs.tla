--------------------------- MODULE TarjanSccProofs ---------------------------
(***************************************************************************)
(* Proofs about TarjanScc, for every finite set of functions, every call   *)
(* graph and every order of visits.                                        *)
(***************************************************************************)
EXTENDS TarjanScc, FiniteSetTheorems, SequenceTheorems, TLAPS

-----------------------------------------------------------------------------
(* Call graphs: reachability and components.                               *)

\* Reachability is reflexive: the empty call chain.
LEMMA ReachesSelf ==
    ASSUME NEW graph, NEW f \in Functions
    PROVE  Reaches(graph, f, f)
BY DEF Reaches

\* Reachability is transitive: call chains compose.
LEMMA ReachesTransitive ==
    ASSUME NEW graph, NEW f \in Functions, NEW g \in Functions, NEW h \in Functions,
           Reaches(graph, f, g), Reaches(graph, g, h)
    PROVE  Reaches(graph, f, h)
BY DEF Reaches

\* A call is a call chain.
LEMMA ReachesCallee ==
    ASSUME NEW graph, NEW f \in Functions, NEW g \in Callees(graph, f)
    PROVE  Reaches(graph, f, g)
BY DEF Reaches, CallClosed

\* What a closed set contains, it contains with everything reached from it.
LEMMA ClosedUnderReaches ==
    ASSUME NEW graph, NEW S \in SUBSET Functions, CallClosed(graph, S),
           NEW f \in S, NEW g, Reaches(graph, f, g)
    PROVE  g \in S
BY DEF Reaches

\* The names in a graph are function names.
LEMMA GraphNames ==
    ASSUME NEW graph \in CallGraphOver(Functions)
    PROVE  /\ DOMAIN graph \subseteq Functions
           /\ Nodes(graph) \subseteq Functions
           /\ \A f : Callees(graph, f) \subseteq Nodes(graph)
           /\ Sccs(graph) \subseteq SUBSET Nodes(graph)
<1>1. PICK D \in SUBSET Functions : graph \in [D -> SUBSET Functions]
  BY DEF CallGraphOver
<1>2. DOMAIN graph \subseteq Functions /\ Nodes(graph) \subseteq Functions
  BY <1>1 DEF Nodes
<1>3. \A f : Callees(graph, f) \subseteq Nodes(graph)
  BY <1>1 DEF Nodes, Callees
<1>4. Sccs(graph) \subseteq SUBSET Nodes(graph)
  BY DEF Sccs, SccOf
<1> QED BY <1>2, <1>3, <1>4

\* A node is in its own component, and members of a component reach each
\* other; hence components that share a member are equal.
LEMMA SccMembers ==
    ASSUME NEW graph \in CallGraphOver(Functions), NEW C \in Sccs(graph)
    PROVE  /\ \A f, g \in C : Reaches(graph, f, g)
           /\ \A f \in C : C = SccOf(graph, f)
<1>1. PICK x \in Nodes(graph) : C = SccOf(graph, x)
  BY DEF Sccs
<1>2. x \in Functions /\ C \subseteq Functions
  BY <1>1, GraphNames DEF SccOf
<1>3. \A f, g \in C : Reaches(graph, f, g)
  <2> SUFFICES ASSUME NEW f \in C, NEW g \in C PROVE Reaches(graph, f, g)
    OBVIOUS
  <2>1. Reaches(graph, f, x) /\ Reaches(graph, x, g)
    BY <1>1 DEF SccOf
  <2> QED BY <2>1, <1>2, ReachesTransitive
<1>4. \A f \in C : C = SccOf(graph, f)
  <2> SUFFICES ASSUME NEW f \in C PROVE C = SccOf(graph, f)
    OBVIOUS
  <2>1. C \subseteq SccOf(graph, f)
    BY <1>1, <1>3 DEF SccOf
  <2>2. ASSUME NEW g \in SccOf(graph, f) PROVE g \in C
    <3>1. g \in Nodes(graph) /\ g \in Functions
      BY GraphNames DEF SccOf
    <3>2. Reaches(graph, f, g) /\ Reaches(graph, g, f)
      BY DEF SccOf
    <3>3. Reaches(graph, f, x) /\ Reaches(graph, x, f)
      BY <1>1 DEF SccOf
    <3>4. Reaches(graph, x, g) /\ Reaches(graph, g, x)
      BY <3>1, <3>2, <3>3, <1>2, ReachesTransitive
    <3> QED BY <3>1, <3>4, <1>1 DEF SccOf
  <2> QED BY <2>1, <2>2
<1> QED BY <1>3, <1>4

\* Every node is in a component.
LEMMA SccCovers ==
    ASSUME NEW graph \in CallGraphOver(Functions), NEW f \in Nodes(graph)
    PROVE  f \in SccOf(graph, f) /\ SccOf(graph, f) \in Sccs(graph)
BY ReachesSelf, GraphNames DEF Sccs, SccOf

-----------------------------------------------------------------------------
(* The invariant.                                                          *)

Frame == [node : Visited, todo : SUBSET Nodes(callGraph)]

\* The nodes of the components listed so far.
ListedNodes == UNION {ToSet(sccs[k]) : k \in DOMAIN sccs}

\* Activations are nested in the order of visit, and what one has still to
\* look at are callees of its node.
FramesInOrder ==
    /\ \A k, l \in DOMAIN frames :
          k < l => index[frames[k].node] < index[frames[l].node]
    /\ \A k \in DOMAIN frames : frames[k].todo \subseteq Callees(callGraph, frames[k].node)

\* Nodes lower on the stack reach those above them ...
LowerReaches ==
    \A x, y \in onStack : index[x] <= index[y] => Reaches(callGraph, x, y)

\* ... and every stacked node reaches the node of an activation below it.
HangsOnFrame ==
    \A y \in onStack : \E k \in DOMAIN frames :
        index[frames[k].node] <= index[y] /\ Reaches(callGraph, y, frames[k].node)

\* What a node calls is visited, once its activation has looked at it.
CalleesSeen ==
    /\ \A y \in Visited : (\A k \in DOMAIN frames : frames[k].node # y)
                              => Callees(callGraph, y) \subseteq Visited
    /\ \A k \in DOMAIN frames :
          Callees(callGraph, frames[k].node) \ frames[k].todo \subseteq Visited

\* Listed components call only into listed components.
ListedClosed == CallClosed(callGraph, ListedNodes)

\* y is stacked since the k-th activation and not since a later one.
InSegment(y, k) ==
    /\ y \in onStack /\ index[frames[k].node] <= index[y]
    /\ k + 1 \in DOMAIN frames => index[y] < index[frames[k + 1].node]

\* The lowlink of an activation's node is a lower bound on what its segment
\* calls on the stack, as far as it was looked at.
LowlinkBounds ==
    \A k \in DOMAIN frames : \A y \in onStack : \A z \in onStack :
        /\ InSegment(y, k)
        /\ z \in Callees(callGraph, y)
        /\ y = frames[k].node => z \notin frames[k].todo
        => lowlink[frames[k].node] <= index[z]

IInv ==
    /\ TypeOK
    /\ StackDiscipline
    /\ LowlinkIsWitnessed
    /\ FramesInOrder
    /\ LowerReaches
    /\ HangsOnFrame
    /\ CalleesSeen
    /\ ListedClosed
    /\ LowlinkBounds

-----------------------------------------------------------------------------
(* Facts about states that satisfy the invariant.                          *)

\* The numbers given out.
LEMMA Numbers ==
    ASSUME TypeOK
    PROVE  /\ nextIndex \in Nat /\ IsFiniteSet(Visited)
           /\ Visited \subseteq Functions
           /\ \A f \in Visited : /\ index[f] \in Nat /\ index[f] < nextIndex
                                 /\ lowlink[f] \in Nat /\ lowlink[f] <= index[f]
<1>1. callGraph \in CallGraphOver(Functions) /\ Visited \subseteq Nodes(callGraph)
  BY DEF TypeOK
<1>2. Nodes(callGraph) \subseteq Functions
  BY <1>1, GraphNames
<1>3. IsFiniteSet(Visited)
  BY <1>1, <1>2, FunctionsFinite, FS_Subset
<1>4. nextIndex \in Nat
  BY <1>3, FS_CardinalityType DEF TypeOK
<1>5. ASSUME NEW f \in Visited
      PROVE  /\ index[f] \in Nat /\ index[f] < nextIndex
             /\ lowlink[f] \in Nat /\ lowlink[f] <= index[f]
  <2>1. index[f] \in 0..(nextIndex - 1)
    BY DEF TypeOK
  <2>2. index[f] \in Nat /\ index[f] < nextIndex
    BY <1>4, <2>1
  <2>3. lowlink[f] \in 0..index[f]
    BY DEF TypeOK
  <2> QED BY <2>2, <2>3
<1> QED BY <1>1, <1>2, <1>3, <1>4, <1>5

\* The stack holds each of its nodes once, and in the order of the numbers.
LEMMA StackFacts ==
    ASSUME TypeOK, StackDiscipline
    PROVE  /\ onStack \subseteq Visited
           /\ Len(stack) \in Nat /\ DOMAIN stack = 1..Len(stack)
           /\ \A i \in DOMAIN stack : stack[i] \in onStack
           /\ \A y \in onStack : \E i \in DOMAIN stack : stack[i] = y
           /\ \A i, j \in DOMAIN stack :
                 i <= j <=> index[stack[i]] <= index[stack[j]]
           /\ \A x, y \in onStack : index[x] = index[y] => x = y
<1>1. onStack \subseteq Visited /\ Len(stack) \in Nat /\ DOMAIN stack = 1..Len(stack)
  BY DEF TypeOK
<1>2. /\ \A i \in DOMAIN stack : stack[i] \in onStack
      /\ \A y \in onStack : \E i \in DOMAIN stack : stack[i] = y
  BY DEF StackDiscipline, ToSet
<1>3. ASSUME NEW i \in DOMAIN stack, NEW j \in DOMAIN stack
      PROVE  i <= j <=> index[stack[i]] <= index[stack[j]]
  <2>1. index[stack[i]] \in Nat /\ index[stack[j]] \in Nat
    BY <1>1, <1>2, Numbers
  <2>2. /\ i < j => index[stack[i]] < index[stack[j]]
        /\ j < i => index[stack[j]] < index[stack[i]]
    BY DEF StackDiscipline
  <2> QED BY <1>1, <2>1, <2>2
<1>4. ASSUME NEW x \in onStack, NEW y \in onStack, index[x] = index[y]
      PROVE  x = y
  <2>1. PICK i \in DOMAIN stack : stack[i] = x
    BY <1>2
  <2>2. PICK j \in DOMAIN stack : stack[j] = y
    BY <1>2
  <2>3. index[x] \in Nat /\ index[y] \in Nat
    BY <1>1, Numbers
  <2>4. i <= j /\ j <= i
    BY <1>3, <1>4, <2>1, <2>2, <2>3
  <2> QED BY <1>1, <2>1, <2>2, <2>4
<1> QED BY <1>1, <1>2, <1>3, <1>4

\* The innermost activation.
LEMMA TopFacts ==
    ASSUME TypeOK, StackDiscipline, FramesInOrder, frames # <<>>
    PROVE  /\ Len(frames) \in Nat \ {0} /\ DOMAIN frames = 1..Len(frames)
           /\ Len(frames) \in DOMAIN frames /\ Top = frames[Len(frames)]
           /\ Top.node \in onStack /\ Top.node \in Visited
           /\ Top.todo \subseteq Callees(callGraph, Top.node)
           /\ \A k \in DOMAIN frames :
                 /\ frames[k] \in Frame /\ frames[k].node \in onStack
                 /\ index[frames[k].node] <= index[Top.node]
                 /\ frames[k].node = Top.node => k = Len(frames)
<1>1. frames \in Seq(Frame)
  BY DEF TypeOK, Frame
<1>2. /\ Len(frames) \in Nat \ {0} /\ DOMAIN frames = 1..Len(frames)
      /\ Len(frames) \in DOMAIN frames /\ Top = frames[Len(frames)]
      /\ \A k \in DOMAIN frames : frames[k] \in Frame
  BY <1>1 DEF Top, Last
<1>3. \A k \in DOMAIN frames : frames[k].node \in onStack /\ frames[k].node \in Visited
  BY <1>2 DEF StackDiscipline, TypeOK
<1>4. Top.todo \subseteq Callees(callGraph, Top.node)
  BY <1>2 DEF FramesInOrder
<1>5. ASSUME NEW k \in DOMAIN frames
      PROVE  /\ index[frames[k].node] <= index[Top.node]
             /\ frames[k].node = Top.node => k = Len(frames)
  <2>1. index[frames[k].node] \in Nat /\ index[Top.node] \in Nat
    BY <1>2, <1>3, Numbers
  <2>2. k < Len(frames) => index[frames[k].node] < index[Top.node]
    BY <1>2 DEF FramesInOrder
  <2> QED BY <1>2, <2>1, <2>2
<1> QED BY <1>2, <1>3, <1>4, <1>5

\* Every stacked node reaches the innermost activation.
LEMMA AllReachTop ==
    ASSUME IInv, frames # <<>>, NEW y \in onStack
    PROVE  Reaches(callGraph, y, Top.node)
<1> USE DEF IInv
<1>1. PICK k \in DOMAIN frames : Reaches(callGraph, y, frames[k].node)
  BY DEF HangsOnFrame
<1>2. /\ frames[k].node \in onStack /\ Top.node \in onStack
      /\ index[frames[k].node] <= index[Top.node]
  BY TopFacts
<1>3. Reaches(callGraph, frames[k].node, Top.node)
  BY <1>2 DEF LowerReaches
<1>4. onStack \subseteq Functions
  BY Numbers, StackFacts
<1> QED BY <1>1, <1>2, <1>3, <1>4, ReachesTransitive

\* What the innermost activation calls is reached from the whole stack.
LEMMA AllReachCallee ==
    ASSUME IInv, frames # <<>>, NEW c \in Top.todo, NEW y \in onStack
    PROVE  c \in Nodes(callGraph) /\ c \in Functions /\ Reaches(callGraph, y, c)
<1>1. /\ callGraph \in CallGraphOver(Functions)
      /\ c \in Callees(callGraph, Top.node) /\ Top.node \in onStack
      /\ onStack \subseteq Functions
  BY TopFacts, Numbers, StackFacts DEF IInv, TypeOK
<1>2. c \in Nodes(callGraph) /\ c \in Functions
  BY <1>1, GraphNames
<1>3. Reaches(callGraph, Top.node, c)
  BY <1>1, <1>2, ReachesCallee
<1> QED BY <1>1, <1>2, <1>3, AllReachTop, ReachesTransitive

\* Without an activation the stack is empty.
LEMMA NoFramesNoStack ==
    ASSUME IInv, frames = <<>>
    PROVE  onStack = {}
BY DEF IInv, HangsOnFrame

-----------------------------------------------------------------------------
(* Entering a node: StartRoot and Recurse.                                 *)

\* What Enter changes, node by node and activation by activation.
LEMMA EnterEffect ==
    ASSUME TypeOK, NEW f \in Nodes(callGraph) \ Visited,
           NEW callers \in Seq(Frame), Len(callers) = Len(frames),
           Enter(f, callers)
    PROVE  /\ Visited' = Visited \cup {f} /\ DOMAIN lowlink' = DOMAIN lowlink \cup {f}
           /\ index'[f] = nextIndex /\ lowlink'[f] = nextIndex
           /\ \A g \in Visited : index'[g] = index[g] /\ lowlink'[g] = lowlink[g]
           /\ nextIndex' = nextIndex + 1
           /\ onStack' = onStack \cup {f}
           /\ stack' \in Seq(Visited') /\ Len(stack') = Len(stack) + 1
           /\ Len(stack) \in Nat
           /\ \A i \in DOMAIN stack : stack'[i] = stack[i]
           /\ stack'[Len(stack) + 1] = f
           /\ Len(frames) \in Nat /\ DOMAIN frames = 1..Len(frames)
           /\ frames' \in Seq([node : Visited', todo : SUBSET Nodes(callGraph)])
           /\ Len(frames') = Len(frames) + 1 /\ DOMAIN frames' = 1..(Len(frames) + 1)
           /\ \A k \in DOMAIN frames : frames'[k] = callers[k]
           /\ frames'[Len(frames) + 1].node = f
           /\ frames'[Len(frames) + 1].todo = Callees(callGraph, f)
           /\ callGraph' = callGraph /\ sccs' = sccs
<1> DEFINE new == [node |-> f, todo |-> Callees(callGraph, f)]
           FrameNow == [node : Visited', todo : SUBSET Nodes(callGraph)]
<1>1. /\ Visited' = Visited \cup {f} /\ DOMAIN lowlink' = DOMAIN lowlink \cup {f}
      /\ index'[f] = nextIndex /\ lowlink'[f] = nextIndex
      /\ \A g \in Visited : index'[g] = index[g] /\ lowlink'[g] = lowlink[g]
  BY DEF TypeOK, Enter, Put, Visited
<1>2. /\ nextIndex' = nextIndex + 1 /\ onStack' = onStack \cup {f}
      /\ callGraph' = callGraph /\ sccs' = sccs
      /\ stack' = Append(stack, f) /\ frames' = Append(callers, new)
  BY DEF Enter
<1>3. Callees(callGraph, f) \subseteq Nodes(callGraph)
  BY GraphNames DEF TypeOK
<1>4. new \in FrameNow /\ Frame \subseteq FrameNow
  BY <1>1, <1>3 DEF Frame
<1>5. callers \in Seq(FrameNow) /\ stack \in Seq(Visited')
  <2>1. stack \in Seq(Visited) /\ Visited \subseteq Visited'
    BY <1>1 DEF TypeOK
  <2> HIDE DEF FrameNow, new
  <2> QED BY <1>4, <2>1, SeqMonotonic
<1> HIDE DEF FrameNow, new
<1>6. /\ stack' \in Seq(Visited') /\ Len(stack') = Len(stack) + 1 /\ Len(stack) \in Nat
      /\ \A i \in DOMAIN stack : stack'[i] = stack[i]
      /\ stack'[Len(stack) + 1] = f
  BY <1>1, <1>2, <1>5
<1>7. frames \in Seq(Frame)
  BY DEF TypeOK, Frame
<1>8. /\ Len(frames) \in Nat /\ DOMAIN frames = 1..Len(frames)
      /\ frames' \in Seq(FrameNow)
      /\ Len(frames') = Len(frames) + 1 /\ DOMAIN frames' = 1..(Len(frames) + 1)
      /\ \A k \in DOMAIN frames : frames'[k] = callers[k]
      /\ frames'[Len(frames) + 1] = new
  <2>1. Len(frames) \in Nat /\ DOMAIN frames = 1..Len(frames)
    BY <1>7, LenProperties
  <2> QED BY <1>2, <1>4, <1>5, <2>1, AppendProperties, LenProperties
<1> QED BY <1>1, <1>2, <1>6, <1>8 DEF FrameNow, new

\* Entering keeps the types.
LEMMA EnterKeepsTypes ==
    ASSUME TypeOK, NEW f \in Nodes(callGraph) \ Visited,
           NEW callers \in Seq(Frame), Len(callers) = Len(frames),
           Enter(f, callers)
    PROVE  TypeOK'
<1>1. /\ Visited' = Visited \cup {f} /\ DOMAIN lowlink' = DOMAIN lowlink \cup {f}
      /\ index'[f] = nextIndex /\ lowlink'[f] = nextIndex
      /\ \A g \in Visited : index'[g] = index[g] /\ lowlink'[g] = lowlink[g]
      /\ nextIndex' = nextIndex + 1 /\ onStack' = onStack \cup {f}
      /\ callGraph' = callGraph /\ sccs' = sccs
  BY EnterEffect DEF Enter
<1>2. /\ stack' \in Seq(Visited')
      /\ frames' \in Seq([node : Visited', todo : SUBSET Nodes(callGraph)])
  BY EnterEffect DEF Enter
<1>3. /\ DOMAIN lowlink' = Visited' /\ Visited' \subseteq Nodes(callGraph)
      /\ callGraph \in CallGraphOver(Functions) /\ onStack' \subseteq Visited'
  BY <1>1 DEF TypeOK
<1>4. nextIndex' = Cardinality(Visited')
  <2>1. IsFiniteSet(Visited) /\ nextIndex = Cardinality(Visited) /\ f \notin Visited
    BY Numbers DEF TypeOK
  <2> QED BY <1>1, <2>1, FS_AddElement
<1>5. {index'[g] : g \in Visited'} = 0..(nextIndex' - 1)
  <2>1. {index'[g] : g \in Visited'} = {index[g] : g \in Visited} \cup {nextIndex}
    BY <1>1
  <2>2. {index[g] : g \in Visited} = 0..(nextIndex - 1) /\ nextIndex \in Nat
    BY Numbers DEF TypeOK
  <2> QED BY <2>1, <2>2, <1>1
<1>6. \A g \in Visited' : lowlink'[g] \in 0..index'[g]
  BY <1>1, Numbers DEF TypeOK
<1>7. sccs' \in Seq(Seq(Visited'))
  <2>1. Seq(Visited) \subseteq Seq(Visited')
    BY <1>1, SeqMonotonic
  <2>2. sccs' \in Seq(Seq(Visited))
    BY <1>1 DEF TypeOK
  <2> QED BY <2>1, <2>2, SeqMonotonic
<1> QED BY <1>1, <1>2, <1>3, <1>4, <1>5, <1>6, <1>7 DEF TypeOK

\* Entering a node that the whole stack reaches keeps the invariant.
LEMMA EnterKeeps ==
    ASSUME IInv, NEW f \in Nodes(callGraph) \ Visited,
           NEW callers \in Seq(Frame), Len(callers) = Len(frames),
           \A k \in DOMAIN frames :
               /\ callers[k].node = frames[k].node
               /\ callers[k].todo \subseteq frames[k].todo
               /\ frames[k].todo \ {f} \subseteq callers[k].todo,
           \A y \in onStack : Reaches(callGraph, y, f),
           Enter(f, callers)
    PROVE  IInv'
<1> USE DEF IInv
<1> DEFINE n == Len(frames) + 1
<1>1. /\ Visited' = Visited \cup {f} /\ onStack' = onStack \cup {f}
      /\ index'[f] = nextIndex /\ lowlink'[f] = nextIndex
      /\ \A g \in Visited : index'[g] = index[g] /\ lowlink'[g] = lowlink[g]
      /\ callGraph' = callGraph /\ ListedNodes' = ListedNodes
  <2>1. sccs' = sccs
    BY DEF Enter
  <2>2. ListedNodes' = ListedNodes
    BY <2>1 DEF ListedNodes
  <2> QED BY <2>1, <2>2, EnterEffect DEF Enter
<1>2. /\ n \in Nat /\ DOMAIN frames' = 1..n /\ DOMAIN frames = 1..(n - 1)
      /\ n \in DOMAIN frames' /\ n \notin DOMAIN frames
      /\ frames'[n].node = f /\ frames'[n].todo = Callees(callGraph, f)
      /\ \A k \in DOMAIN frames :
             /\ frames'[k].node = frames[k].node /\ frames[k].node \in onStack
             /\ frames'[k].todo \subseteq frames[k].todo
             /\ frames[k].todo \ {f} \subseteq frames'[k].todo
      /\ \A k \in DOMAIN frames' : k \in DOMAIN frames \/ k = n
  BY EnterEffect DEF Enter, StackDiscipline
<1> HIDE DEF n
<1>3. /\ f \in Functions /\ onStack \subseteq Visited /\ f \notin Visited
      /\ \A g \in Visited : index[g] \in Nat /\ index[g] < nextIndex
      /\ \A g \in Visited : lowlink[g] \in Nat /\ lowlink[g] <= index[g]
      /\ nextIndex \in Nat /\ callGraph \in CallGraphOver(Functions)
  BY GraphNames, Numbers DEF TypeOK
<1>4. TypeOK'
  BY EnterKeepsTypes
<1>5. StackDiscipline'
  <2>1. /\ Len(stack) \in Nat /\ DOMAIN stack = 1..Len(stack)
        /\ DOMAIN stack' = 1..(Len(stack) + 1)
        /\ \A i \in DOMAIN stack : stack'[i] = stack[i] /\ stack[i] \in onStack
        /\ stack'[Len(stack) + 1] = f
    BY EnterEffect, StackFacts DEF Enter
  <2>2. ToSet(stack') = onStack'
    <3>1. ToSet(stack') = ToSet(stack) \cup {f}
      BY <2>1 DEF ToSet
    <3> QED BY <3>1, <1>1 DEF StackDiscipline
  <2>3. ASSUME NEW i \in DOMAIN stack', NEW j \in DOMAIN stack', i < j
        PROVE  index'[stack'[i]] < index'[stack'[j]]
    <3>1. i \in DOMAIN stack /\ stack'[i] = stack[i] /\ stack[i] \in Visited
      BY <2>1, <2>3, <1>3
    <3>2. CASE j \in DOMAIN stack
      BY <3>1, <3>2, <2>1, <2>3, <1>1, <1>3 DEF StackDiscipline
    <3>3. CASE j = Len(stack) + 1
      BY <3>1, <3>3, <2>1, <1>1, <1>3
    <3> QED BY <3>2, <3>3, <2>1
  <2>4. \A k \in DOMAIN frames' : frames'[k].node \in onStack'
    BY <1>1, <1>2
  <2>5. ListedNodes' \cap onStack' = {} /\ ListedNodes' \cup onStack' = Visited'
    <3>1. ListedNodes \cap onStack = {} /\ ListedNodes \cup onStack = Visited
      BY DEF StackDiscipline, ListedNodes
    <3> QED BY <3>1, <1>1, <1>3
  <2> QED BY <2>2, <2>3, <2>4, <2>5 DEF StackDiscipline, ListedNodes
<1>6. LowlinkIsWitnessed'
  <2> SUFFICES ASSUME NEW y \in onStack'
               PROVE  \E g \in onStack' :
                         index'[g] = lowlink'[y] /\ Reaches(callGraph, y, g)
    BY <1>1 DEF LowlinkIsWitnessed
  <2>1. CASE y = f
    BY <2>1, <1>1, <1>3, ReachesSelf
  <2>2. CASE y \in onStack
    <3>1. PICK g \in onStack : index[g] = lowlink[y] /\ Reaches(callGraph, y, g)
      BY <2>2 DEF LowlinkIsWitnessed
    <3> QED BY <3>1, <2>2, <1>1, <1>3
  <2> QED BY <2>1, <2>2, <1>1
<1>7. FramesInOrder'
  <2>1. ASSUME NEW k \in DOMAIN frames', NEW l \in DOMAIN frames', k < l
        PROVE  index'[frames'[k].node] < index'[frames'[l].node]
    <3>1. k \in DOMAIN frames /\ frames[k].node \in Visited
      BY <2>1, <1>2, <1>3
    <3>2. CASE l \in DOMAIN frames
      BY <3>1, <3>2, <2>1, <1>1, <1>2, <1>3 DEF FramesInOrder
    <3>3. CASE l = n
      BY <3>1, <3>3, <1>1, <1>2, <1>3
    <3> QED BY <3>2, <3>3, <1>2
  <2>2. \A k \in DOMAIN frames' :
           frames'[k].todo \subseteq Callees(callGraph, frames'[k].node)
    BY <1>2 DEF FramesInOrder
  <2> QED BY <2>1, <2>2, <1>1 DEF FramesInOrder
<1>8. LowerReaches'
  <2> SUFFICES ASSUME NEW x \in onStack', NEW y \in onStack', index'[x] <= index'[y]
               PROVE  Reaches(callGraph, x, y)
    BY <1>1 DEF LowerReaches
  <2>1. CASE y = f
    BY <2>1, <1>1, <1>3, ReachesSelf
  <2>2. CASE x \in onStack /\ y \in onStack
    BY <2>2, <1>1, <1>3 DEF LowerReaches
  <2>3. CASE x = f /\ y \in onStack
    BY <2>3, <1>1, <1>3
  <2> QED BY <2>1, <2>2, <2>3, <1>1
<1>9. HangsOnFrame'
  <2> SUFFICES ASSUME NEW y \in onStack'
               PROVE  \E k \in DOMAIN frames' :
                         /\ index'[frames'[k].node] <= index'[y]
                         /\ Reaches(callGraph, y, frames'[k].node)
    BY <1>1 DEF HangsOnFrame
  <2>1. CASE y = f
    BY <2>1, <1>1, <1>2, <1>3, ReachesSelf
  <2>2. CASE y \in onStack
    <3>1. PICK k \in DOMAIN frames : /\ index[frames[k].node] <= index[y]
                                     /\ Reaches(callGraph, y, frames[k].node)
      BY <2>2 DEF HangsOnFrame
    <3>2. k \in DOMAIN frames' /\ frames'[k].node = frames[k].node
      BY <1>2
    <3> QED BY <3>1, <3>2, <2>2, <1>1, <1>2, <1>3
  <2> QED BY <2>1, <2>2, <1>1
<1>10. CalleesSeen'
  <2>1. ASSUME NEW y \in Visited', \A k \in DOMAIN frames' : frames'[k].node # y
        PROVE  Callees(callGraph, y) \subseteq Visited'
    <3>1. y \in Visited
      BY <2>1, <1>1, <1>2
    <3>2. \A k \in DOMAIN frames : frames[k].node # y
      BY <2>1, <1>2
    <3> QED BY <3>1, <3>2, <1>1 DEF CalleesSeen
  <2>2. ASSUME NEW k \in DOMAIN frames'
        PROVE  Callees(callGraph, frames'[k].node) \ frames'[k].todo \subseteq Visited'
    <3>1. CASE k = n
      BY <3>1, <1>2
    <3>2. CASE k \in DOMAIN frames
      <4>1. Callees(callGraph, frames[k].node) \ frames[k].todo \subseteq Visited
        BY <3>2 DEF CalleesSeen
      <4> QED BY <4>1, <3>2, <1>1, <1>2
    <3> QED BY <3>1, <3>2, <1>2
  <2> QED BY <2>1, <2>2, <1>1 DEF CalleesSeen
<1>11. ListedClosed'
  BY <1>1 DEF ListedClosed, CallClosed
<1>12. LowlinkBounds'
  <2> SUFFICES ASSUME NEW k \in DOMAIN frames', NEW y \in onStack', NEW z \in onStack',
                      InSegment(y, k)', z \in Callees(callGraph, y),
                      y = frames'[k].node => z \notin frames'[k].todo
               PROVE  lowlink'[frames'[k].node] <= index'[z]
    BY <1>1 DEF LowlinkBounds
  <2>1. CASE k = n
    <3>1. nextIndex <= index'[y]
      BY <2>1, <1>1, <1>2 DEF InSegment
    <3>2. y = f
      BY <3>1, <1>1, <1>3
    <3>3. z \notin Callees(callGraph, f)
      BY <3>2, <2>1, <1>2
    <3> QED BY <3>2, <3>3
  <2>2. CASE k \in DOMAIN frames
    <3>1. /\ frames'[k].node = frames[k].node /\ frames[k].node \in Visited
          /\ lowlink'[frames'[k].node] = lowlink[frames[k].node]
          /\ lowlink[frames[k].node] \in Nat /\ lowlink[frames[k].node] < nextIndex
      BY <2>2, <1>1, <1>2, <1>3
    <3>2. CASE z = f
      BY <3>1, <3>2, <1>1, <1>3
    <3>3. CASE z # f
      <4>1. z \in onStack /\ index'[z] = index[z]
        BY <3>3, <1>1, <1>3
      <4>2. y # f
        <5>1. CASE k + 1 = n
          <6>1. index'[y] < index'[f]
            BY <5>1, <1>2 DEF InSegment
          <6> QED BY <6>1, <1>1, <1>3
        <5>2. CASE k + 1 # n
          <6>1. k + 1 \in DOMAIN frames
            BY <5>2, <2>2, <1>2
          <6>2. index'[y] < index[frames[k + 1].node] /\ frames[k + 1].node \in Visited
            BY <6>1, <1>1, <1>2, <1>3 DEF InSegment
          <6> QED BY <6>2, <1>1, <1>3
        <5> QED BY <5>1, <5>2
      <4>3. y \in onStack /\ index'[y] = index[y]
        BY <4>2, <1>1, <1>3
      <4>4. InSegment(y, k)
        <5>1. index[frames[k].node] <= index[y]
          BY <4>3, <3>1, <1>1 DEF InSegment
        <5>2. ASSUME k + 1 \in DOMAIN frames PROVE index[y] < index[frames[k + 1].node]
          <6>1. k + 1 \in DOMAIN frames' /\ frames[k + 1].node \in Visited
            BY <5>2, <1>2, <1>3
          <6> QED BY <5>2, <6>1, <4>3, <1>1, <1>2 DEF InSegment
        <5> QED BY <4>3, <5>1, <5>2 DEF InSegment
      <4>5. y = frames[k].node => z \notin frames[k].todo
        BY <3>1, <3>3, <2>2, <1>2
      <4>6. lowlink[frames[k].node] <= index[z]
        BY <2>2, <4>1, <4>3, <4>4, <4>5 DEF LowlinkBounds
      <4> QED BY <4>6, <4>1, <3>1
    <3> QED BY <3>2, <3>3
  <2> QED BY <2>1, <2>2, <1>2
<1> QED BY <1>4, <1>5, <1>6, <1>7, <1>8, <1>9, <1>10, <1>11, <1>12

-----------------------------------------------------------------------------
(* Looking at a visited callee: BackEdge and SkipFinished.                 *)

\* What the two change.
LEMMA TakeEffect ==
    ASSUME IInv, NEW c, BackEdge(c) \/ SkipFinished(c)
    PROVE  /\ frames # <<>> /\ c \in Top.todo /\ c \in Visited
           /\ frames' \in Seq(Frame) /\ DOMAIN frames' = DOMAIN frames
           /\ Len(frames') = Len(frames)
           /\ \A k \in DOMAIN frames :
                 /\ frames'[k].node = frames[k].node
                 /\ frames'[k].todo \subseteq frames[k].todo
                 /\ frames[k].todo \subseteq frames'[k].todo \cup {c}
                 /\ k # Len(frames) => frames'[k] = frames[k]
           /\ DOMAIN lowlink' = DOMAIN lowlink
           /\ \A g \in Visited : g # Top.node => lowlink'[g] = lowlink[g]
           /\ lowlink'[Top.node] \in Nat
           /\ lowlink'[Top.node] <= lowlink[Top.node]
           /\ c \in onStack => lowlink'[Top.node] <= index[c]
           /\ \/ lowlink'[Top.node] = lowlink[Top.node]
              \/ c \in onStack /\ lowlink'[Top.node] = index[c]
           /\ UNCHANGED <<callGraph, index, nextIndex, stack, onStack, sccs>>
<1> USE DEF IInv
<1>1. /\ frames # <<>> /\ c \in Top.todo /\ c \in Visited /\ frames' = Taking(c)
      /\ UNCHANGED <<callGraph, index, nextIndex, stack, onStack, sccs>>
  BY DEF BackEdge, SkipFinished
<1>2. /\ frames \in Seq(Frame) /\ Len(frames) \in DOMAIN frames
      /\ DOMAIN frames = 1..Len(frames)
      /\ Top = frames[Len(frames)] /\ Top \in Frame /\ Top.node \in Visited
  BY <1>1, TopFacts DEF TypeOK, Frame
<1> DEFINE top == [Top EXCEPT !.todo = @ \ {c}]
<1>3. top \in Frame /\ top.node = Top.node /\ top.todo = Top.todo \ {c}
  BY <1>2 DEF Frame
<1>4. frames' = [frames EXCEPT ![Len(frames)] = top]
  BY <1>1, <1>2 DEF Taking
<1> HIDE DEF top
<1>5. /\ frames' \in Seq(Frame) /\ DOMAIN frames' = DOMAIN frames
      /\ Len(frames') = Len(frames)
      /\ \A k \in DOMAIN frames :
            frames'[k] = IF k = Len(frames) THEN top ELSE frames[k]
  BY <1>2, <1>3, <1>4, ExceptSeq
<1>6. \A k \in DOMAIN frames :
          /\ frames'[k].node = frames[k].node
          /\ frames'[k].todo \subseteq frames[k].todo
          /\ frames[k].todo \subseteq frames'[k].todo \cup {c}
          /\ k # Len(frames) => frames'[k] = frames[k]
  BY <1>2, <1>3, <1>5
<1>7. /\ DOMAIN lowlink = Visited /\ index[c] \in Nat
      /\ lowlink[Top.node] \in Nat
  BY <1>1, <1>2, Numbers DEF TypeOK
<1>8. CASE SkipFinished(c)
  <2>1. lowlink' = lowlink /\ c \notin onStack
    BY <1>8 DEF SkipFinished
  <2> QED BY <2>1, <1>1, <1>5, <1>6, <1>7
<1>9. CASE BackEdge(c)
  <2>1. lowlink' = [lowlink EXCEPT ![Top.node] = Lower(@, index[c])] /\ c \in onStack
    BY <1>9 DEF BackEdge
  <2>2. /\ DOMAIN lowlink' = DOMAIN lowlink
        /\ lowlink'[Top.node] = Lower(lowlink[Top.node], index[c])
        /\ \A g \in Visited : g # Top.node => lowlink'[g] = lowlink[g]
    BY <2>1, <1>2, <1>7
  <2>3. /\ lowlink'[Top.node] \in Nat
        /\ lowlink'[Top.node] <= lowlink[Top.node] /\ lowlink'[Top.node] <= index[c]
        /\ lowlink'[Top.node] = lowlink[Top.node] \/ lowlink'[Top.node] = index[c]
    BY <2>2, <1>7 DEF Lower
  <2> QED BY <2>1, <2>2, <2>3, <1>1, <1>5, <1>6
<1> QED BY <1>1, <1>8, <1>9

\* Looking at a visited callee keeps the invariant.
LEMMA TakeKeeps ==
    ASSUME IInv, NEW c, BackEdge(c) \/ SkipFinished(c)
    PROVE  IInv'
<1> USE DEF IInv
<1>1. /\ frames # <<>> /\ c \in Top.todo /\ c \in Visited
      /\ DOMAIN frames' = DOMAIN frames
      /\ \A k \in DOMAIN frames :
            /\ frames'[k].node = frames[k].node
            /\ frames'[k].todo \subseteq frames[k].todo
            /\ frames[k].todo \subseteq frames'[k].todo \cup {c}
            /\ k # Len(frames) => frames'[k] = frames[k]
  BY TakeEffect DEF BackEdge, SkipFinished
<1>2. /\ DOMAIN lowlink' = DOMAIN lowlink
      /\ \A g \in Visited : g # Top.node => lowlink'[g] = lowlink[g]
      /\ lowlink'[Top.node] \in Nat
      /\ lowlink'[Top.node] <= lowlink[Top.node]
      /\ c \in onStack => lowlink'[Top.node] <= index[c]
      /\ \/ lowlink'[Top.node] = lowlink[Top.node]
         \/ c \in onStack /\ lowlink'[Top.node] = index[c]
  BY TakeEffect DEF BackEdge, SkipFinished
<1>3. /\ callGraph' = callGraph /\ index' = index /\ nextIndex' = nextIndex
      /\ stack' = stack /\ onStack' = onStack /\ sccs' = sccs
      /\ Visited' = Visited /\ ListedNodes' = ListedNodes
  BY DEF BackEdge, SkipFinished, Visited, ListedNodes
<1>4. /\ Top.node \in onStack /\ Top.node \in Visited
      /\ Len(frames) \in DOMAIN frames /\ Top = frames[Len(frames)]
      /\ Top.todo \subseteq Callees(callGraph, Top.node)
      /\ \A k \in DOMAIN frames : frames[k].node = Top.node => k = Len(frames)
  BY <1>1, TopFacts
<1>5. /\ onStack \subseteq Visited /\ Visited \subseteq Functions
      /\ \A g \in Visited : /\ index[g] \in Nat /\ lowlink[g] \in Nat
                            /\ lowlink[g] <= index[g]
  BY Numbers, StackFacts
<1>6. TypeOK'
  <2>1. frames' \in Seq([node : Visited', todo : SUBSET Nodes(callGraph')])
    <3>1. frames' \in Seq(Frame)
      BY TakeEffect DEF BackEdge, SkipFinished
    <3> QED BY <3>1, <1>3 DEF Frame
  <2>2. \A g \in Visited' : lowlink'[g] \in 0..index'[g]
    BY <1>2, <1>3, <1>4, <1>5
  <2>3. DOMAIN lowlink' = Visited'
    BY <1>2, <1>3 DEF TypeOK
  <2> QED BY <2>1, <2>2, <2>3, <1>3 DEF TypeOK
<1>7. StackDiscipline'
  BY <1>1, <1>3 DEF StackDiscipline
<1>8. LowlinkIsWitnessed'
  <2> SUFFICES ASSUME NEW y \in onStack
               PROVE  \E g \in onStack : index[g] = lowlink'[y] /\ Reaches(callGraph, y, g)
    BY <1>3 DEF LowlinkIsWitnessed
  <2>1. CASE lowlink'[y] = lowlink[y]
    BY <2>1 DEF LowlinkIsWitnessed
  <2>2. CASE y = Top.node /\ c \in onStack /\ lowlink'[y] = index[c]
    <3>1. Reaches(callGraph, y, c)
      BY <2>2, <1>1, AllReachCallee
    <3> QED BY <2>2, <3>1
  <2> QED BY <2>1, <2>2, <1>2, <1>5
<1>9. FramesInOrder'
  BY <1>1, <1>3 DEF FramesInOrder
<1>10. LowerReaches'
  BY <1>3 DEF LowerReaches
<1>11. HangsOnFrame'
  BY <1>1, <1>3 DEF HangsOnFrame
<1>12. CalleesSeen'
  BY <1>1, <1>3 DEF CalleesSeen
<1>13. ListedClosed'
  BY <1>3 DEF ListedClosed
<1>14. LowlinkBounds'
  <2> SUFFICES ASSUME NEW k \in DOMAIN frames, NEW y \in onStack, NEW z \in onStack,
                      InSegment(y, k)', z \in Callees(callGraph, y),
                      y = frames[k].node => z \notin frames'[k].todo
               PROVE  lowlink'[frames[k].node] <= index[z]
    BY <1>1, <1>3 DEF LowlinkBounds
  <2>1. InSegment(y, k)
    BY <1>1, <1>3 DEF InSegment
  <2>2. frames[k].node \in Visited
    BY <1>5 DEF StackDiscipline
  <2>3. CASE y = frames[k].node => z \notin frames[k].todo
    <3>1. lowlink[frames[k].node] <= index[z]
      BY <2>1, <2>3 DEF LowlinkBounds
    <3>2. lowlink'[frames[k].node] \in Nat /\ lowlink'[frames[k].node] <= lowlink[frames[k].node]
      BY <2>2, <1>2, <1>5
    <3> QED BY <3>1, <3>2, <2>2, <1>5
  <2>4. CASE y = frames[k].node /\ z \in frames[k].todo
    <3>1. z = c /\ k = Len(frames)
      BY <2>4, <1>1
    <3> QED BY <3>1, <1>2, <1>4
  <2> QED BY <2>3, <2>4
<1> QED BY <1>6, <1>7, <1>8, <1>9, <1>10, <1>11, <1>12, <1>13, <1>14

-----------------------------------------------------------------------------
(* Returning: LeaveOnStack and CompleteScc.                                *)

\* What is left of the activations, and which lowlinks change.
LEMMA ReturnEffect ==
    ASSUME IInv, NEW node, frames # <<>>, Top.node = node, ReturnFrom(node)
    PROVE  /\ frames' \in Seq(Frame) /\ Len(frames) \in Nat \ {0}
           /\ DOMAIN frames = 1..Len(frames) /\ DOMAIN frames' = 1..(Len(frames) - 1)
           /\ \A k \in DOMAIN frames' :
                 /\ k \in DOMAIN frames /\ frames'[k] = frames[k]
                 /\ frames[k].node # node
                 /\ index[frames[k].node] < index[node]
           /\ \A k \in DOMAIN frames : k \in DOMAIN frames' \/ k = Len(frames)
           /\ DOMAIN lowlink' = DOMAIN lowlink
           /\ \A g \in Visited :
                 \/ lowlink'[g] = lowlink[g]
                 \/ /\ g \in onStack /\ index[g] < index[node]
                    /\ lowlink'[g] = lowlink[node] /\ lowlink'[g] < lowlink[g]
           /\ Len(frames) # 1 =>
                 lowlink'[frames[Len(frames) - 1].node] <= lowlink[node]
<1> USE DEF IInv
<1> DEFINE n == Len(frames)
<1>1. /\ n \in Nat \ {0} /\ DOMAIN frames = 1..n /\ n \in DOMAIN frames
      /\ frames[n].node = node /\ node \in onStack
      /\ \A k \in DOMAIN frames : /\ frames[k] \in Frame /\ frames[k].node \in onStack
                                  /\ frames[k].node = node => k = n
  BY TopFacts
<1>2. frames \in Seq(Frame)
  BY DEF TypeOK, Frame
<1>3. /\ frames' \in Seq(Frame) /\ DOMAIN frames' = 1..(n - 1)
      /\ \A k \in 1..(n - 1) : frames'[k] = frames[k]
  <2>1. frames' = SubSeq(frames, 1, n - 1)
    BY DEF ReturnFrom, Front
  <2>2. \A k \in 1..(n - 1) : frames[k] \in Frame
    BY <1>1
  <2>3. /\ frames' \in Seq(Frame) /\ Len(frames') = n - 1
        /\ \A k \in 1..(n - 1) : frames'[k] = frames[k]
    BY <1>1, <2>1, <2>2, SubSeqProperties
  <2> QED BY <2>3, LenProperties
<1>4. /\ onStack \subseteq Visited /\ DOMAIN lowlink = Visited
      /\ \A g \in Visited : index[g] \in Nat /\ lowlink[g] \in Nat
  BY Numbers, StackFacts DEF TypeOK
<1>5. \A k \in DOMAIN frames' :
         /\ k \in DOMAIN frames /\ frames'[k] = frames[k]
         /\ frames[k].node # node /\ index[frames[k].node] < index[node]
  BY <1>1, <1>3 DEF FramesInOrder
<1>6. CASE n = 1
  <2>1. lowlink' = lowlink
    BY <1>6 DEF ReturnFrom
  <2> QED BY <2>1, <1>1, <1>3, <1>5, <1>6
<1>7. CASE n # 1
  <2> DEFINE p == frames[n - 1].node
  <2>1. n - 1 \in DOMAIN frames' /\ p \in onStack /\ p \in Visited
    BY <1>1, <1>3, <1>4, <1>7
  <2>2. index[p] < index[node]
    BY <2>1, <1>5
  <2>3. lowlink' = [lowlink EXCEPT ![p] = Lower(@, lowlink[node])]
    BY <1>7 DEF ReturnFrom
  <2> HIDE DEF p
  <2>4. /\ DOMAIN lowlink' = DOMAIN lowlink
        /\ lowlink'[p] = Lower(lowlink[p], lowlink[node])
        /\ \A g \in Visited : g # p => lowlink'[g] = lowlink[g]
    BY <2>1, <2>3, <1>4
  <2>5. lowlink[p] \in Nat /\ lowlink[node] \in Nat
    BY <2>1, <1>1, <1>4
  <2>6. /\ lowlink'[p] <= lowlink[node]
        /\ \/ lowlink'[p] = lowlink[p]
           \/ lowlink'[p] = lowlink[node] /\ lowlink'[p] < lowlink[p]
    BY <2>4, <2>5 DEF Lower
  <2>7. \A g \in Visited :
           \/ lowlink'[g] = lowlink[g]
           \/ /\ g \in onStack /\ index[g] < index[node]
              /\ lowlink'[g] = lowlink[node] /\ lowlink'[g] < lowlink[g]
    BY <2>1, <2>2, <2>4, <2>6
  <2> QED BY <1>1, <1>3, <1>5, <2>4, <2>6, <2>7 DEF p
<1> QED BY <1>6, <1>7

\* Returning to a caller that joins the node's component keeps the invariant.
LEMMA LeaveKeeps ==
    ASSUME IInv, NEW node, LeaveOnStack(node)
    PROVE  IInv'
<1> USE DEF IInv
<1> DEFINE n == Len(frames)
<1>1. /\ frames # <<>> /\ Top.node = node /\ Top.todo = {} /\ ReturnFrom(node)
      /\ lowlink[node] # index[node]
      /\ callGraph' = callGraph /\ index' = index /\ nextIndex' = nextIndex
      /\ stack' = stack /\ onStack' = onStack /\ sccs' = sccs
      /\ Visited' = Visited /\ ListedNodes' = ListedNodes
  BY DEF LeaveOnStack, Visited, ListedNodes
<1>2. /\ frames' \in Seq(Frame) /\ n \in Nat \ {0}
      /\ DOMAIN frames = 1..n /\ DOMAIN frames' = 1..(n - 1)
      /\ \A k \in DOMAIN frames' :
            /\ k \in DOMAIN frames /\ frames'[k] = frames[k]
            /\ frames[k].node # node /\ index[frames[k].node] < index[node]
      /\ \A k \in DOMAIN frames : k \in DOMAIN frames' \/ k = n
  BY <1>1, ReturnEffect DEF ReturnFrom
<1>3. /\ DOMAIN lowlink' = DOMAIN lowlink
      /\ \A g \in Visited :
            \/ lowlink'[g] = lowlink[g]
            \/ /\ g \in onStack /\ index[g] < index[node]
               /\ lowlink'[g] = lowlink[node] /\ lowlink'[g] < lowlink[g]
      /\ n # 1 => lowlink'[frames[n - 1].node] <= lowlink[node]
  BY <1>1, ReturnEffect DEF ReturnFrom
<1>4. /\ n \in DOMAIN frames /\ frames[n].node = node /\ frames[n].todo = {}
      /\ node \in onStack
      /\ \A k \in DOMAIN frames : frames[k].node \in onStack
  BY <1>1, TopFacts
<1> HIDE DEF n
<1>5. /\ onStack \subseteq Visited /\ Visited \subseteq Functions
      /\ \A g \in Visited : /\ index[g] \in Nat /\ lowlink[g] \in Nat
                            /\ lowlink[g] <= index[g]
  BY Numbers, StackFacts
<1>6. PICK w \in onStack : index[w] = lowlink[node] /\ Reaches(callGraph, node, w)
  BY <1>4 DEF LowlinkIsWitnessed
<1>7. index[w] < index[node]
  BY <1>1, <1>4, <1>5, <1>6
<1>8. PICK m \in DOMAIN frames' :
         index[frames[m].node] <= index[w] /\ Reaches(callGraph, node, frames[m].node)
  <2>1. PICK m \in DOMAIN frames :
           index[frames[m].node] <= index[w] /\ Reaches(callGraph, w, frames[m].node)
    BY DEF HangsOnFrame
  <2>2. m # n
    BY <2>1, <1>4, <1>5, <1>7
  <2>3. Reaches(callGraph, node, frames[m].node)
    BY <2>1, <1>4, <1>5, <1>6, ReachesTransitive
  <2> QED BY <2>1, <2>2, <2>3, <1>2
<1>9. TypeOK'
  <2>1. frames' \in Seq([node : Visited', todo : SUBSET Nodes(callGraph')])
    BY <1>1, <1>2 DEF Frame
  <2>2. \A g \in Visited' : lowlink'[g] \in 0..index'[g]
    BY <1>1, <1>3, <1>4, <1>5
  <2>3. DOMAIN lowlink' = Visited'
    BY <1>1, <1>3 DEF TypeOK
  <2> QED BY <2>1, <2>2, <2>3, <1>1 DEF TypeOK
<1>10. StackDiscipline'
  BY <1>1, <1>2 DEF StackDiscipline
<1>11. LowlinkIsWitnessed'
  <2> SUFFICES ASSUME NEW y \in onStack
               PROVE  \E g \in onStack : index[g] = lowlink'[y] /\ Reaches(callGraph, y, g)
    BY <1>1 DEF LowlinkIsWitnessed
  <2>1. CASE lowlink'[y] = lowlink[y]
    BY <2>1 DEF LowlinkIsWitnessed
  <2>2. CASE index[y] < index[node] /\ lowlink'[y] = lowlink[node]
    <3>1. Reaches(callGraph, y, node)
      BY <2>2, <1>4, <1>5 DEF LowerReaches
    <3>2. Reaches(callGraph, y, w)
      BY <3>1, <1>4, <1>5, <1>6, ReachesTransitive
    <3> QED BY <2>2, <3>2, <1>6
  <2> QED BY <2>1, <2>2, <1>3, <1>5
<1>12. FramesInOrder'
  BY <1>1, <1>2 DEF FramesInOrder
<1>13. LowerReaches'
  BY <1>1 DEF LowerReaches
<1>14. HangsOnFrame'
  <2> SUFFICES ASSUME NEW y \in onStack
               PROVE  \E k \in DOMAIN frames' :
                         /\ index[frames[k].node] <= index[y]
                         /\ Reaches(callGraph, y, frames[k].node)
    BY <1>1, <1>2 DEF HangsOnFrame
  <2>1. PICK k \in DOMAIN frames :
           index[frames[k].node] <= index[y] /\ Reaches(callGraph, y, frames[k].node)
    BY DEF HangsOnFrame
  <2>2. CASE k \in DOMAIN frames'
    BY <2>1, <2>2
  <2>3. CASE k = n
    <3>1. index[frames[m].node] <= index[y]
      BY <2>1, <2>3, <1>2, <1>4, <1>5, <1>7, <1>8
    <3>2. Reaches(callGraph, y, frames[m].node)
      BY <2>1, <2>3, <1>2, <1>4, <1>5, <1>8, ReachesTransitive
    <3> QED BY <3>1, <3>2
  <2> QED BY <2>2, <2>3, <1>2
<1>15. CalleesSeen'
  <2>1. ASSUME NEW y \in Visited, \A k \in DOMAIN frames' : frames'[k].node # y
        PROVE  Callees(callGraph, y) \subseteq Visited
    <3>1. CASE y = node
      BY <3>1, <1>4 DEF CalleesSeen
    <3>2. CASE y # node
      <4>1. \A k \in DOMAIN frames : frames[k].node # y
        BY <2>1, <3>2, <1>2, <1>4
      <4> QED BY <4>1 DEF CalleesSeen
    <3> QED BY <3>1, <3>2
  <2>2. \A k \in DOMAIN frames' :
           Callees(callGraph, frames'[k].node) \ frames'[k].todo \subseteq Visited
    BY <1>2 DEF CalleesSeen
  <2> QED BY <2>1, <2>2, <1>1 DEF CalleesSeen
<1>16. ListedClosed'
  BY <1>1 DEF ListedClosed
<1>17. LowlinkBounds'
  <2> SUFFICES ASSUME NEW k \in DOMAIN frames', NEW y \in onStack, NEW z \in onStack,
                      InSegment(y, k)', z \in Callees(callGraph, y),
                      y = frames'[k].node => z \notin frames'[k].todo
               PROVE  lowlink'[frames'[k].node] <= index[z]
    BY <1>1 DEF LowlinkBounds
  <2>1. /\ k \in DOMAIN frames /\ frames'[k] = frames[k] /\ frames[k].node \in Visited
        /\ index[frames[k].node] <= index[y]
    BY <1>1, <1>2, <1>4, <1>5 DEF InSegment
  <2>2. lowlink'[frames[k].node] \in Nat /\ lowlink'[frames[k].node] <= lowlink[frames[k].node]
    BY <2>1, <1>3, <1>4, <1>5
  <2>3. CASE InSegment(y, k)
    <3>1. lowlink[frames[k].node] <= index[z]
      BY <2>1, <2>3 DEF LowlinkBounds
    <3> QED BY <3>1, <2>1, <2>2, <1>5
  <2>4. CASE ~InSegment(y, k)
    <3>1. k + 1 \in DOMAIN frames /\ ~(index[y] < index[frames[k + 1].node])
      BY <2>1, <2>4 DEF InSegment
    <3>2. k + 1 \notin DOMAIN frames'
      BY <3>1, <1>1, <1>2 DEF InSegment
    <3>3. k = n - 1 /\ n # 1 /\ index[node] <= index[y]
      BY <3>1, <3>2, <1>2, <1>4, <1>5
    <3>4. InSegment(y, n)
      BY <3>3, <1>2, <1>4 DEF InSegment
    <3>5. lowlink[node] <= index[z]
      BY <3>4, <1>4 DEF LowlinkBounds
    <3>6. lowlink'[frames[k].node] <= lowlink[node]
      BY <3>3, <1>3
    <3> QED BY <3>5, <3>6, <2>1, <2>2, <1>4, <1>5
  <2> QED BY <2>3, <2>4
<1> QED BY <1>9, <1>10, <1>11, <1>12, <1>13, <1>14, <1>15, <1>16, <1>17

\* What is popped with a node: it and everything stacked after it.
Popped(node) == {y \in onStack : index[node] <= index[y]}

\* Reversing a vector keeps its elements.
LEMMA ReverseKeeps ==
    ASSUME NEW S, NEW s \in Seq(S)
    PROVE  Reverse(s) \in Seq(S) /\ ToSet(Reverse(s)) = ToSet(s)
<1> DEFINE n == Len(s)
<1>1. n \in Nat /\ DOMAIN s = 1..n /\ \A i \in 1..n : s[i] \in S
  BY LenProperties, ElementOfSeq
<1>2. Reverse(s) = [i \in 1..n |-> s[(n - i) + 1]]
  BY DEF Reverse
<1> HIDE DEF n
<1>3. \A i \in 1..n : (n - i) + 1 \in 1..n /\ (n - ((n - i) + 1)) + 1 = i
  BY <1>1
<1>4. Reverse(s) \in Seq(S)
  BY <1>1, <1>2, <1>3
<1>5. DOMAIN Reverse(s) = 1..n /\ \A i \in 1..n : Reverse(s)[i] = s[(n - i) + 1]
  BY <1>2
<1>6. ToSet(Reverse(s)) \subseteq ToSet(s)
  BY <1>1, <1>3, <1>5 DEF ToSet
<1>7. ToSet(s) \subseteq ToSet(Reverse(s))
  BY <1>1, <1>3, <1>5 DEF ToSet
<1> QED BY <1>4, <1>6, <1>7

\* What completing a component does to the stack and the list.
LEMMA PopEffect ==
    ASSUME IInv, NEW node, CompleteScc(node)
    PROVE  /\ onStack' = onStack \ Popped(node)
           /\ stack' \in Seq(onStack') /\ ToSet(stack') = onStack'
           /\ \A i \in DOMAIN stack' : i \in DOMAIN stack /\ stack'[i] = stack[i]
           /\ sccs \in Seq(Seq(Visited)) /\ sccs' \in Seq(Seq(Visited))
           /\ Len(sccs) \in Nat /\ DOMAIN sccs = 1..Len(sccs)
           /\ DOMAIN sccs' = 1..(Len(sccs) + 1)
           /\ \A k \in DOMAIN sccs : sccs'[k] = sccs[k]
           /\ ToSet(sccs'[Len(sccs) + 1]) = Popped(node)
           /\ ListedNodes' = ListedNodes \cup Popped(node)
<1> USE DEF IInv
<1> DEFINE d == Depth(node)  n == Len(stack)  top == SubSeq(stack, d, n)
<1>1. /\ frames # <<>> /\ Top.node = node
      /\ sccs' = Append(sccs, Reverse(top))
      /\ stack' = SubSeq(stack, 1, d - 1)
      /\ onStack' = onStack \ ToSet(top)
  BY DEF CompleteScc
<1>2. node \in onStack
  BY <1>1, TopFacts
<1>3. /\ onStack \subseteq Visited /\ n \in Nat /\ DOMAIN stack = 1..n
      /\ \A i \in 1..n : stack[i] \in onStack
      /\ \A y \in onStack : \E i \in 1..n : stack[i] = y
      /\ \A i, j \in 1..n : i <= j <=> index[stack[i]] <= index[stack[j]]
  BY StackFacts
<1>4. d \in 1..n /\ stack[d] = node
  <2>1. \E i \in DOMAIN stack : stack[i] = node
    BY <1>2, <1>3
  <2> QED BY <2>1, <1>3 DEF Depth
<1> HIDE DEF d, n
<1>5. /\ top \in Seq(onStack) /\ Len(top) = n - d + 1
      /\ \A i \in 1..(n - d + 1) : top[i] = stack[d + i - 1]
  <2>1. \A i \in d..n : stack[i] \in onStack
    BY <1>3, <1>4
  <2> QED BY <2>1, <1>3, <1>4, SubSeqProperties
<1>6. /\ stack' \in Seq(Visited) /\ DOMAIN stack' = 1..(d - 1)
      /\ \A i \in 1..(d - 1) : stack'[i] = stack[i]
  <2>1. \A i \in 1..(d - 1) : stack[i] \in Visited
    BY <1>3, <1>4
  <2>2. /\ stack' \in Seq(Visited) /\ Len(stack') = d - 1
        /\ \A i \in 1..(d - 1) : stack'[i] = stack[i]
    BY <2>1, <1>1, <1>4, SubSeqProperties
  <2> QED BY <2>2, LenProperties
<1>7. ToSet(top) = Popped(node)
  <2>1. DOMAIN top = 1..(n - d + 1)
    BY <1>5, LenProperties
  <2> HIDE DEF top
  <2>2. ASSUME NEW y \in ToSet(top) PROVE y \in Popped(node)
    <3>1. PICK i \in 1..(n - d + 1) : y = stack[d + i - 1]
      BY <2>1, <1>5 DEF ToSet
    <3>2. d + i - 1 \in 1..n /\ d <= d + i - 1
      BY <1>3, <1>4
    <3> QED BY <3>1, <3>2, <1>3, <1>4 DEF Popped
  <2>3. ASSUME NEW y \in Popped(node) PROVE y \in ToSet(top)
    <3>1. PICK i \in 1..n : stack[i] = y
      BY <1>3 DEF Popped
    <3>2. d <= i
      BY <3>1, <1>3, <1>4 DEF Popped
    <3>3. i - d + 1 \in 1..(n - d + 1) /\ d + (i - d + 1) - 1 = i
      BY <3>2, <1>3, <1>4
    <3> QED BY <3>1, <3>3, <2>1, <1>5 DEF ToSet
  <2> QED BY <2>2, <2>3
<1>8. onStack' = onStack \ Popped(node)
  BY <1>1, <1>7
<1>9. ToSet(stack') = onStack'
  <2>1. ASSUME NEW i \in 1..(d - 1) PROVE stack'[i] \in onStack \ Popped(node)
    <3>1. i \in 1..n /\ ~(d <= i)
      BY <1>3, <1>4
    <3> QED BY <3>1, <1>3, <1>4, <1>6 DEF Popped
  <2>2. ASSUME NEW y \in onStack \ Popped(node) PROVE \E i \in 1..(d - 1) : stack'[i] = y
    <3>1. PICK i \in 1..n : stack[i] = y
      BY <1>3
    <3>2. ~(d <= i)
      BY <3>1, <1>3, <1>4 DEF Popped
    <3>3. i \in 1..(d - 1)
      BY <3>2, <1>3, <1>4
    <3> QED BY <3>1, <3>3, <1>6
  <2> QED BY <2>1, <2>2, <1>6, <1>8 DEF ToSet
<1>10. stack' \in Seq(onStack')
  <2>1. stack' \in [1..(d - 1) -> onStack'] /\ d - 1 \in Nat
    <3>1. \A i \in 1..(d - 1) : stack'[i] \in onStack'
      BY <1>6, <1>9 DEF ToSet
    <3>2. stack' \in [1..(d - 1) -> Visited]
      <4>1. Len(stack') = d - 1
        BY <1>4, <1>6, LenProperties
      <4> QED BY <4>1, <1>6, LenProperties
    <3> QED BY <3>1, <3>2, <1>3, <1>4
  <2> QED BY <2>1
<1>11. \A i \in DOMAIN stack' : i \in DOMAIN stack /\ stack'[i] = stack[i]
  BY <1>3, <1>4, <1>6
<1>12. Reverse(top) \in Seq(Visited) /\ ToSet(Reverse(top)) = Popped(node)
  <2>1. top \in Seq(Visited)
    BY <1>3, <1>5, SeqMonotonic
  <2> QED BY <2>1, <1>7, ReverseKeeps
<1> HIDE DEF top
<1>13. sccs \in Seq(Seq(Visited))
  BY DEF TypeOK
<1>14. Len(sccs) \in Nat /\ DOMAIN sccs = 1..Len(sccs)
  BY <1>13, LenProperties
<1>15. /\ sccs' \in Seq(Seq(Visited)) /\ Len(sccs') = Len(sccs) + 1
       /\ \A k \in 1..Len(sccs) : sccs'[k] = sccs[k]
       /\ sccs'[Len(sccs) + 1] = Reverse(top)
  BY <1>1, <1>12, <1>13, AppendProperties
<1>16. DOMAIN sccs' = 1..(Len(sccs) + 1)
  BY <1>15, LenProperties
<1>17. ListedNodes' = ListedNodes \cup Popped(node)
  <2>1. ListedNodes' = UNION {ToSet(sccs'[k]) : k \in 1..(Len(sccs) + 1)}
    BY <1>16 DEF ListedNodes
  <2>2. \A k \in 1..(Len(sccs) + 1) : k \in 1..Len(sccs) \/ k = Len(sccs) + 1
    BY <1>14
  <2>3. \A k \in 1..Len(sccs) : k \in 1..(Len(sccs) + 1) /\ ToSet(sccs'[k]) = ToSet(sccs[k])
    BY <1>14, <1>15
  <2>4. Len(sccs) + 1 \in 1..(Len(sccs) + 1) /\ ToSet(sccs'[Len(sccs) + 1]) = Popped(node)
    BY <1>12, <1>14, <1>15
  <2>5. ListedNodes = UNION {ToSet(sccs[k]) : k \in 1..Len(sccs)}
    BY <1>14 DEF ListedNodes
  <2> QED BY <2>1, <2>2, <2>3, <2>4, <2>5
<1> QED BY <1>8, <1>9, <1>10, <1>11, <1>12, <1>13, <1>14, <1>15, <1>16, <1>17

\* When a node ends with its own number as its lowlink, it and what was
\* stacked after it are a component, and all they call outside is listed.
LEMMA PoppedIsScc ==
    ASSUME IInv, NEW node, CompleteScc(node)
    PROVE  /\ node \in Popped(node) /\ node \in Nodes(callGraph)
           /\ \A y \in Popped(node) :
                 Callees(callGraph, y) \subseteq Popped(node) \cup ListedNodes
           /\ Popped(node) = SccOf(callGraph, node)
           /\ Popped(node) \cap ListedNodes = {}
<1> USE DEF IInv
<1> DEFINE n == Len(frames)
<1>1. /\ frames # <<>> /\ Top.node = node /\ Top.todo = {}
      /\ lowlink[node] = index[node]
  BY DEF CompleteScc
<1>2. /\ n \in Nat \ {0} /\ DOMAIN frames = 1..n /\ n \in DOMAIN frames
      /\ frames[n].node = node /\ frames[n].todo = {} /\ node \in onStack
      /\ \A k \in DOMAIN frames : index[frames[k].node] <= index[node]
      /\ \A k \in DOMAIN frames : frames[k].node \in onStack
  BY <1>1, TopFacts
<1> HIDE DEF n
<1>3. /\ onStack \subseteq Visited /\ Visited \subseteq Functions
      /\ Visited \subseteq Nodes(callGraph) /\ callGraph \in CallGraphOver(Functions)
      /\ \A g \in Visited : index[g] \in Nat
      /\ \A x, y \in onStack : index[x] = index[y] => x = y
  BY Numbers, StackFacts DEF TypeOK
<1>4. ListedNodes \cap onStack = {} /\ ListedNodes \cup onStack = Visited
  BY DEF StackDiscipline, ListedNodes
<1>5. node \in Popped(node) /\ Popped(node) \subseteq onStack
  BY <1>2, <1>3 DEF Popped
<1>6. ASSUME NEW y \in Popped(node), NEW z \in Callees(callGraph, y)
      PROVE  z \in Popped(node) \cup ListedNodes
  <2>1. z \in Visited
    <3>1. CASE y = node
      BY <3>1, <1>2 DEF CalleesSeen
    <3>2. CASE y # node
      <4>1. \A k \in DOMAIN frames : frames[k].node # y
        BY <3>2, <1>2, <1>3 DEF Popped
      <4> QED BY <4>1, <1>3, <1>5 DEF CalleesSeen
    <3> QED BY <3>1, <3>2
  <2>2. CASE z \in onStack
    <3>1. InSegment(y, n)
      BY <1>2 DEF InSegment, Popped
    <3>2. lowlink[node] <= index[z]
      BY <3>1, <2>2, <1>2, <1>5 DEF LowlinkBounds
    <3> QED BY <3>2, <2>2, <1>1 DEF Popped
  <2> QED BY <2>1, <2>2, <1>4
<1>7. Popped(node) \subseteq SccOf(callGraph, node)
  <2> SUFFICES ASSUME NEW y \in Popped(node) PROVE y \in SccOf(callGraph, node)
    OBVIOUS
  <2>1. Reaches(callGraph, y, node)
    BY <1>1, <1>5, AllReachTop
  <2>2. Reaches(callGraph, node, y)
    BY <1>2, <1>5 DEF LowerReaches, Popped
  <2> QED BY <2>1, <2>2, <1>3, <1>5 DEF SccOf
<1>8. SccOf(callGraph, node) \subseteq Popped(node)
  <2> SUFFICES ASSUME NEW g \in SccOf(callGraph, node) PROVE g \in Popped(node)
    OBVIOUS
  <2> DEFINE closed == Popped(node) \cup ListedNodes
  <2>1. CallClosed(callGraph, closed)
    BY <1>6 DEF CallClosed, ListedClosed
  <2>2. closed \in SUBSET Functions /\ node \in closed
    BY <1>3, <1>4, <1>5
  <2> HIDE DEF closed
  <2>3. Reaches(callGraph, node, g) /\ Reaches(callGraph, g, node)
    BY DEF SccOf
  <2>4. g \in closed
    BY <2>1, <2>2, <2>3, ClosedUnderReaches
  <2>5. g \notin ListedNodes
    <3> SUFFICES ASSUME g \in ListedNodes PROVE FALSE
      OBVIOUS
    <3>1. ListedNodes \in SUBSET Functions
      BY <1>3, <1>4
    <3>2. node \in ListedNodes
      BY <3>1, <2>3, ClosedUnderReaches DEF ListedClosed
    <3> QED BY <3>2, <1>2, <1>4
  <2> QED BY <2>4, <2>5 DEF closed
<1> QED BY <1>2, <1>3, <1>4, <1>5, <1>6, <1>7, <1>8

\* Completing a component keeps the invariant.
LEMMA CompleteKeeps ==
    ASSUME IInv, NEW node, CompleteScc(node)
    PROVE  IInv'
<1> USE DEF IInv
<1> DEFINE n == Len(frames)
<1>1. /\ frames # <<>> /\ Top.node = node /\ ReturnFrom(node)
      /\ lowlink[node] = index[node]
      /\ callGraph' = callGraph /\ index' = index /\ nextIndex' = nextIndex
      /\ Visited' = Visited
  BY DEF CompleteScc, Visited
<1>2. /\ frames' \in Seq(Frame) /\ n \in Nat \ {0}
      /\ DOMAIN frames = 1..n /\ DOMAIN frames' = 1..(n - 1)
      /\ \A k \in DOMAIN frames' :
            /\ k \in DOMAIN frames /\ frames'[k] = frames[k]
            /\ frames[k].node # node /\ index[frames[k].node] < index[node]
      /\ \A k \in DOMAIN frames : k \in DOMAIN frames' \/ k = n
  BY <1>1, ReturnEffect DEF ReturnFrom
<1>3. /\ DOMAIN lowlink' = DOMAIN lowlink
      /\ \A g \in Visited :
            \/ lowlink'[g] = lowlink[g]
            \/ /\ g \in onStack /\ index[g] < index[node]
               /\ lowlink'[g] = lowlink[node] /\ lowlink'[g] < lowlink[g]
  BY <1>1, ReturnEffect DEF ReturnFrom
<1>4. /\ n \in DOMAIN frames /\ frames[n].node = node /\ node \in onStack
      /\ \A k \in DOMAIN frames : frames[k].node \in onStack
  BY <1>1, TopFacts
<1> HIDE DEF n
<1>5. /\ onStack \subseteq Visited /\ Visited \subseteq Functions
      /\ \A g \in Visited : /\ index[g] \in Nat /\ lowlink[g] \in Nat
                            /\ lowlink[g] <= index[g]
  BY Numbers, StackFacts
\* No lowlink changes: the one folded in is larger than any below it.
<1>6. \A g \in Visited : lowlink'[g] = lowlink[g]
  BY <1>1, <1>3, <1>4, <1>5
<1>7. /\ onStack' = onStack \ Popped(node)
      /\ stack' \in Seq(onStack') /\ ToSet(stack') = onStack'
      /\ \A i \in DOMAIN stack' : i \in DOMAIN stack /\ stack'[i] = stack[i]
      /\ sccs' \in Seq(Seq(Visited))
      /\ ListedNodes' = ListedNodes \cup Popped(node)
  BY PopEffect DEF CompleteScc
<1>8. /\ \A y \in onStack' : y \in onStack /\ index[y] < index[node]
      /\ \A y \in onStack : index[y] < index[node] => y \in onStack'
      /\ Popped(node) \subseteq onStack
  BY <1>4, <1>5, <1>7 DEF Popped
<1>9. \A y \in Popped(node) :
         Callees(callGraph, y) \subseteq Popped(node) \cup ListedNodes
  BY PoppedIsScc DEF CompleteScc
<1>10. TypeOK'
  <2>1. frames' \in Seq([node : Visited', todo : SUBSET Nodes(callGraph')])
    BY <1>1, <1>2 DEF Frame
  <2>2. \A g \in Visited' : lowlink'[g] \in 0..index'[g]
    BY <1>1, <1>5, <1>6
  <2>3. DOMAIN lowlink' = Visited'
    BY <1>1, <1>3 DEF TypeOK
  <2>4. stack' \in Seq(Visited') /\ onStack' \subseteq Visited'
    BY <1>1, <1>5, <1>7, SeqMonotonic
  <2> QED BY <2>1, <2>2, <2>3, <2>4, <1>1, <1>7 DEF TypeOK
<1>11. StackDiscipline'
  <2>1. ToSet(stack') = onStack'
    BY <1>7
  <2>2. \A i, j \in DOMAIN stack' : i < j => index'[stack'[i]] < index'[stack'[j]]
    BY <1>1, <1>7 DEF StackDiscipline
  <2>3. \A k \in DOMAIN frames' : frames'[k].node \in onStack'
    BY <1>2, <1>4, <1>8
  <2>4. ListedNodes' \cap onStack' = {} /\ ListedNodes' \cup onStack' = Visited'
    <3>1. ListedNodes \cap onStack = {} /\ ListedNodes \cup onStack = Visited
      BY DEF StackDiscipline, ListedNodes
    <3> QED BY <3>1, <1>1, <1>7, <1>8
  <2> QED BY <2>1, <2>2, <2>3, <2>4 DEF StackDiscipline, ListedNodes
<1>12. LowlinkIsWitnessed'
  <2> SUFFICES ASSUME NEW y \in onStack'
               PROVE  \E g \in onStack' : index[g] = lowlink[y] /\ Reaches(callGraph, y, g)
    BY <1>1, <1>5, <1>6, <1>8 DEF LowlinkIsWitnessed
  <2>1. PICK g \in onStack : index[g] = lowlink[y] /\ Reaches(callGraph, y, g)
    BY <1>8 DEF LowlinkIsWitnessed
  <2>2. index[g] < index[node]
    BY <2>1, <1>4, <1>5, <1>8
  <2> QED BY <2>1, <2>2, <1>8
<1>13. FramesInOrder'
  BY <1>1, <1>2 DEF FramesInOrder
<1>14. LowerReaches'
  BY <1>1, <1>8 DEF LowerReaches
<1>15. HangsOnFrame'
  <2> SUFFICES ASSUME NEW y \in onStack'
               PROVE  \E k \in DOMAIN frames' :
                         /\ index[frames'[k].node] <= index[y]
                         /\ Reaches(callGraph, y, frames'[k].node)
    BY <1>1 DEF HangsOnFrame
  <2>1. PICK k \in DOMAIN frames :
           index[frames[k].node] <= index[y] /\ Reaches(callGraph, y, frames[k].node)
    BY <1>8 DEF HangsOnFrame
  <2>2. k # n
    BY <2>1, <1>4, <1>5, <1>8
  <2> QED BY <2>1, <2>2, <1>2
<1>16. CalleesSeen'
  <2>1. ASSUME NEW y \in Visited, \A k \in DOMAIN frames' : frames'[k].node # y
        PROVE  Callees(callGraph, y) \subseteq Visited
    <3>1. CASE y \in Popped(node)
      BY <3>1, <1>5, <1>8, <1>9 DEF StackDiscipline, ListedNodes
    <3>2. CASE y \notin Popped(node)
      <4>1. y # node
        BY <3>2, <1>4, <1>5 DEF Popped
      <4>2. \A k \in DOMAIN frames : frames[k].node # y
        BY <2>1, <4>1, <1>2, <1>4
      <4> QED BY <4>2 DEF CalleesSeen
    <3> QED BY <3>1, <3>2
  <2>2. \A k \in DOMAIN frames' :
           Callees(callGraph, frames'[k].node) \ frames'[k].todo \subseteq Visited
    BY <1>2 DEF CalleesSeen
  <2> QED BY <2>1, <2>2, <1>1 DEF CalleesSeen
<1>17. ListedClosed'
  BY <1>1, <1>7, <1>9 DEF ListedClosed, CallClosed
<1>18. LowlinkBounds'
  <2> SUFFICES ASSUME NEW k \in DOMAIN frames', NEW y \in onStack', NEW z \in onStack',
                      InSegment(y, k)', z \in Callees(callGraph, y),
                      y = frames'[k].node => z \notin frames'[k].todo
               PROVE  lowlink'[frames'[k].node] <= index[z]
    BY <1>1 DEF LowlinkBounds
  <2>1. /\ k \in DOMAIN frames /\ frames'[k] = frames[k] /\ frames[k].node \in Visited
        /\ index[frames[k].node] <= index[y] /\ y \in onStack /\ z \in onStack
    BY <1>1, <1>2, <1>4, <1>5, <1>8 DEF InSegment
  <2>2. InSegment(y, k)
    <3>1. ASSUME k + 1 \in DOMAIN frames PROVE index[y] < index[frames[k + 1].node]
      <4>1. CASE k + 1 = n
        BY <4>1, <1>4, <1>8
      <4>2. CASE k + 1 # n
        <5>1. k + 1 \in DOMAIN frames' /\ frames'[k + 1] = frames[k + 1]
          BY <3>1, <4>2, <1>2
        <5> QED BY <5>1, <1>1 DEF InSegment
      <4> QED BY <4>1, <4>2
    <3> QED BY <2>1, <3>1 DEF InSegment
  <2>3. lowlink[frames[k].node] <= index[z]
    BY <2>1, <2>2 DEF LowlinkBounds
  <2> QED BY <2>1, <2>3, <1>6
<1> QED BY <1>10, <1>11, <1>12, <1>13, <1>14, <1>15, <1>16, <1>17, <1>18

-----------------------------------------------------------------------------
(* The invariant holds.                                                    *)

\* A search that has not started satisfies the invariant.
LEMMA InvInit == Init => IInv
<1> SUFFICES ASSUME Init PROVE IInv
  OBVIOUS
<1>1. /\ callGraph \in CallGraphOver(Functions)
      /\ index = <<>> /\ lowlink = <<>> /\ nextIndex = 0 /\ stack = <<>>
      /\ onStack = {} /\ sccs = <<>> /\ frames = <<>>
  BY DEF Init
<1>2. /\ Visited = {} /\ DOMAIN lowlink = {} /\ DOMAIN stack = {}
      /\ DOMAIN frames = {} /\ DOMAIN sccs = {}
  BY <1>1 DEF Visited
<1>3. TypeOK
  <2>1. Cardinality(Visited) = 0
    BY <1>2, FS_EmptySet
  <2>2. {index[f] : f \in Visited} = 0..(nextIndex - 1)
    BY <1>1, <1>2
  <2>3. /\ stack \in Seq(Visited) /\ sccs \in Seq(Seq(Visited))
        /\ frames \in Seq([node : Visited, todo : SUBSET Nodes(callGraph)])
    BY <1>1, EmptySeq
  <2> QED BY <1>1, <1>2, <2>1, <2>2, <2>3 DEF TypeOK
<1>4. ListedNodes = {}
  BY <1>2 DEF ListedNodes
<1>5. StackDiscipline
  BY <1>1, <1>2, <1>4 DEF StackDiscipline, ListedNodes, ToSet
<1>6. LowlinkIsWitnessed /\ LowerReaches /\ HangsOnFrame /\ LowlinkBounds
  BY <1>1 DEF LowlinkIsWitnessed, LowerReaches, HangsOnFrame, LowlinkBounds
<1>7. FramesInOrder /\ CalleesSeen /\ ListedClosed
  BY <1>2, <1>4 DEF FramesInOrder, CalleesSeen, ListedClosed, CallClosed
<1> QED BY <1>3, <1>5, <1>6, <1>7 DEF IInv

\* Starting from a root keeps the invariant.
LEMMA RootKeeps ==
    ASSUME IInv, NEW f \in Functions, StartRoot(f)
    PROVE  IInv'
<1>1. frames = <<>> /\ f \in Nodes(callGraph) \ Visited /\ onStack = {}
  BY NoFramesNoStack DEF StartRoot, Nodes
<1>2. PICK callers : callers = <<>> /\ Enter(f, callers)
  BY DEF StartRoot
<1>3. callers \in Seq(Frame) /\ Len(callers) = Len(frames) /\ DOMAIN frames = {}
  BY <1>1, <1>2, EmptySeq
<1> QED BY <1>1, <1>2, <1>3, EnterKeeps DEF Enter

\* Recursing into a callee keeps the invariant.
LEMMA RecurseKeeps ==
    ASSUME IInv, NEW c \in Functions, Recurse(c)
    PROVE  IInv'
<1> USE DEF IInv
<1>1. frames # <<>> /\ c \in Top.todo /\ c \notin Visited
  BY DEF Recurse
<1>2. PICK callers : callers = Taking(c) /\ Enter(c, callers)
  BY DEF Recurse
<1>3. /\ frames \in Seq(Frame) /\ Len(frames) \in DOMAIN frames
      /\ DOMAIN frames = 1..Len(frames)
      /\ Top = frames[Len(frames)] /\ Top \in Frame /\ Top.node \in onStack
  BY <1>1, TopFacts DEF TypeOK, Frame
<1> DEFINE top == [Top EXCEPT !.todo = @ \ {c}]
<1>4. top \in Frame /\ top.node = Top.node /\ top.todo = Top.todo \ {c}
  BY <1>3 DEF Frame
<1>5. callers = [frames EXCEPT ![Len(frames)] = top]
  BY <1>2, <1>3 DEF Taking
<1> HIDE DEF top
<1>6. /\ callers \in Seq(Frame) /\ Len(callers) = Len(frames)
      /\ \A k \in DOMAIN frames :
            callers[k] = IF k = Len(frames) THEN top ELSE frames[k]
  BY <1>3, <1>4, <1>5, ExceptSeq
<1>7. \A k \in DOMAIN frames : /\ callers[k].node = frames[k].node
                               /\ callers[k].todo \subseteq frames[k].todo
                               /\ frames[k].todo \ {c} \subseteq callers[k].todo
  BY <1>3, <1>4, <1>6
<1>8. c \in Nodes(callGraph) \ Visited /\ \A y \in onStack : Reaches(callGraph, y, c)
  BY <1>1, <1>3, AllReachCallee
<1> QED BY <1>2, <1>6, <1>7, <1>8, EnterKeeps DEF Enter

\* Every step keeps the invariant.
LEMMA InvStep == IInv /\ [Next]_vars => IInv'
<1> SUFFICES ASSUME IInv, [Next]_vars PROVE IInv'
  OBVIOUS
<1>1. CASE UNCHANGED vars
  <2>1. /\ callGraph' = callGraph /\ index' = index /\ lowlink' = lowlink
        /\ nextIndex' = nextIndex /\ stack' = stack /\ onStack' = onStack
        /\ sccs' = sccs /\ frames' = frames /\ Visited' = Visited
        /\ ListedNodes' = ListedNodes
    BY <1>1 DEF vars, Visited, ListedNodes
  <2>2. TypeOK' /\ StackDiscipline' /\ LowlinkIsWitnessed' /\ FramesInOrder'
    BY <2>1 DEF IInv, TypeOK, StackDiscipline, LowlinkIsWitnessed, FramesInOrder
  <2>3. LowerReaches' /\ HangsOnFrame' /\ CalleesSeen' /\ ListedClosed'
    BY <2>1 DEF IInv, LowerReaches, HangsOnFrame, CalleesSeen, ListedClosed
  <2>4. LowlinkBounds'
    BY <2>1 DEF IInv, LowlinkBounds, InSegment
  <2> QED BY <2>2, <2>3, <2>4 DEF IInv
<1>2. ASSUME NEW f \in Functions,
             StartRoot(f) \/ Recurse(f) \/ BackEdge(f) \/ SkipFinished(f)
                \/ CompleteScc(f) \/ LeaveOnStack(f)
      PROVE  IInv'
  <2>1. CASE StartRoot(f)
    BY <2>1, RootKeeps DEF StartRoot
  <2>2. CASE Recurse(f)
    BY <2>2, RecurseKeeps DEF Recurse
  <2>3. CASE BackEdge(f) \/ SkipFinished(f)
    BY <2>3, TakeKeeps DEF BackEdge, SkipFinished
  <2>4. CASE CompleteScc(f)
    BY <2>4, CompleteKeeps DEF CompleteScc
  <2>5. CASE LeaveOnStack(f)
    BY <2>5, LeaveKeeps DEF LeaveOnStack
  <2> QED BY <1>2, <2>1, <2>2, <2>3, <2>4, <2>5
<1> QED BY <1>1, <1>2 DEF Next

\* The invariant of the search, on every call graph and in every order of
\* visits.
LEMMA Invariance == Spec => []IInv
BY InvInit, InvStep, PTL DEF Spec

\* The bookkeeping of computeSCCs() is consistent, on every call graph.
THEOREM TypesCorrect == Spec => []TypeOK
<1>1. IInv => TypeOK
  BY DEF IInv
<1> QED BY <1>1, Invariance, PTL

\* The stack and its onStack flags agree, and a node is stacked or listed and
\* never both, whatever the call graph and the order of visits.
THEOREM StackIsKept == Spec => []StackDiscipline
<1>1. IInv => StackDiscipline
  BY DEF IInv
<1> QED BY <1>1, Invariance, PTL

\* tarjanDFS() joins a node only to nodes that are still on the stack and that
\* it reaches, whatever the call graph and the order of visits.
THEOREM LowlinksAreWitnessed == Spec => []LowlinkIsWitnessed
<1>1. IInv => LowlinkIsWitnessed
  BY DEF IInv
<1> QED BY <1>1, Invariance, PTL

-----------------------------------------------------------------------------
(* The search implements the listing of SccOrder.                          *)

\* The components as sets, as the refinement mapping gives them.
Components == [k \in DOMAIN sccs |-> ToSet(sccs[k])]

\* The call graph notions of the two modules are the same.
LEMMA SameNotions ==
    /\ \A graph : Order!Sccs(graph) = Sccs(graph)
    /\ \A graph, f : Order!Callees(graph, f) = Callees(graph, f)
    /\ Order!CallGraphOver(Functions) = CallGraphOver(Functions)
BY DEF Order!Sccs, Order!SccOf, Order!Nodes, Order!Reaches, Order!CallClosed,
       Order!Callees, Order!CallGraphOver, Sccs, SccOf, Nodes, Reaches, CallClosed,
       Callees, CallGraphOver

\* Completing a component lists it.
LEMMA CompleteLists ==
    ASSUME IInv, NEW node, CompleteScc(node)
    PROVE  Order!Next
<1> DEFINE C == Popped(node)
<1>1. /\ sccs \in Seq(Seq(Visited)) /\ sccs' \in Seq(Seq(Visited))
      /\ Len(sccs) \in Nat /\ DOMAIN sccs = 1..Len(sccs)
      /\ DOMAIN sccs' = 1..(Len(sccs) + 1)
      /\ \A k \in DOMAIN sccs : sccs'[k] = sccs[k]
      /\ ToSet(sccs'[Len(sccs) + 1]) = C
  BY PopEffect DEF CompleteScc
<1>2. /\ node \in C /\ node \in Nodes(callGraph) /\ C = SccOf(callGraph, node)
      /\ \A y \in C : Callees(callGraph, y) \subseteq C \cup ListedNodes
      /\ C \cap ListedNodes = {}
  BY PoppedIsScc DEF CompleteScc
<1>3. callGraph' = callGraph
  BY DEF CompleteScc
<1> HIDE DEF C
<1>4. C \in Sccs(callGraph)
  BY <1>2 DEF Sccs
<1>5. Order!Listed = {ToSet(sccs[k]) : k \in DOMAIN sccs}
  BY DEF Order!Listed
<1>6. UNION Order!Listed = ListedNodes
  BY <1>5 DEF ListedNodes
<1>7. C \notin Order!Listed
  BY <1>2, <1>6
<1>8. Order!Ready(C)
  BY <1>2, <1>4, <1>6, <1>7, SameNotions DEF Order!Ready
<1>9. Components' = Append(Components, C)
  <2> DEFINE S == {ToSet(sccs[k]) : k \in DOMAIN sccs} \cup {C}
  <2>1. PICK n \in Nat : n = Len(sccs)
    BY <1>1
  <2>2. PICK before : before = Components
    OBVIOUS
  <2>3. PICK after : after = Components'
    OBVIOUS
  <2>4. /\ before \in [1..n -> S] /\ after \in [1..(n + 1) -> S] /\ C \in S
        /\ \A k \in 1..n : after[k] = before[k]
        /\ after[n + 1] = C
    <3>1. before = [k \in 1..n |-> ToSet(sccs[k])]
      BY <2>1, <2>2, <1>1 DEF Components
    <3>2. /\ after = [k \in DOMAIN sccs' |-> ToSet(sccs'[k])]
          /\ DOMAIN sccs' = 1..(n + 1)
      BY <2>1, <2>3, <1>1 DEF Components
    <3>3. \A k \in 1..n : k \in 1..(n + 1) /\ k \in DOMAIN sccs /\ sccs'[k] = sccs[k]
      <4>1. DOMAIN sccs = 1..n
        BY <2>1, <1>1
      <4>2. \A k \in DOMAIN sccs : sccs'[k] = sccs[k]
        BY <1>1
      <4> QED BY <4>1, <4>2
    <3>4. n + 1 \in 1..(n + 1) /\ ToSet(sccs'[n + 1]) = C
      BY <2>1, <1>1
    <3>5. \A k \in 1..(n + 1) : k \in 1..n \/ k = n + 1
      OBVIOUS
    <3> QED BY <3>1, <3>2, <3>3, <3>4, <3>5
  <2> HIDE DEF S
  <2>5. before \in Seq(S) /\ Len(before) = n /\ after \in Seq(S) /\ Len(after) = n + 1
    BY <2>4
  <2>6. /\ Append(before, C) \in Seq(S) /\ Len(Append(before, C)) = n + 1
        /\ \A k \in 1..n : Append(before, C)[k] = before[k]
        /\ Append(before, C)[n + 1] = C
    BY <2>4, <2>5, AppendProperties
  <2>7. \A k \in 1..(n + 1) : after[k] = Append(before, C)[k]
    BY <2>4, <2>6
  <2>8. after = Append(before, C)
    BY <2>5, <2>6, <2>7, SeqEqual
  <2> QED BY <2>2, <2>3, <2>8
<1>10. Order!List(C)
  BY <1>3, <1>8, <1>9 DEF Order!List, Components
<1> QED BY <1>4, <1>10, SameNotions DEF Order!Next

\* Every step lists a component or none.
LEMMA StepLists == IInv /\ [Next]_vars => [Order!Next]_Order!vars
<1> SUFFICES ASSUME IInv, [Next]_vars PROVE Order!Next \/ UNCHANGED Order!vars
  OBVIOUS
<1>1. ASSUME callGraph' = callGraph, sccs' = sccs PROVE UNCHANGED Order!vars
  BY <1>1 DEF Order!vars
<1>2. CASE UNCHANGED vars
  BY <1>1, <1>2 DEF vars
<1>3. ASSUME NEW f \in Functions, CompleteScc(f) PROVE Order!Next
  BY <1>3, CompleteLists DEF CompleteScc
<1>4. ASSUME NEW f \in Functions,
             StartRoot(f) \/ Recurse(f) \/ BackEdge(f) \/ SkipFinished(f) \/ LeaveOnStack(f)
      PROVE  UNCHANGED Order!vars
  BY <1>1, <1>4 DEF StartRoot, Recurse, Enter, BackEdge, SkipFinished, LeaveOnStack
<1> QED BY <1>2, <1>3, <1>4 DEF Next

\* computeSCCs() implements SccOrder, on every call graph and in every order
\* of visits: each vector it appends is exactly one strongly connected
\* component, not listed before, after everything it calls into.  (That the
\* search ends, the rest of ImplementsSccOrder, is model-checked.)
THEOREM ListsComponents == Spec => Order!Init /\ [][Order!Next]_Order!vars
<1>1. Init => Order!Init
  BY SameNotions DEF Init, Order!Init
<1>2. IInv /\ [Next]_vars => [Order!Next]_Order!vars
  BY StepLists
<1> QED BY <1>1, <1>2, Invariance, PTL DEF Spec

-----------------------------------------------------------------------------
(* What propagateBottomUp() is handed in the end.                          *)

\* What is listed are components, none twice, none calling a later one.
ListedInOrder ==
    /\ \A k \in DOMAIN sccs : ToSet(sccs[k]) \in Sccs(callGraph)
    /\ \A i, j \in DOMAIN sccs : i < j =>
          /\ ToSet(sccs[i]) \cap ToSet(sccs[j]) = {}
          /\ \A f \in ToSet(sccs[i]) : Callees(callGraph, f) \cap ToSet(sccs[j]) = {}

\* computeSCCs() returns.
Finished == frames = <<>> /\ DOMAIN callGraph \subseteq Visited

\* Every step keeps the list in order.
LEMMA OrderStep == IInv /\ ListedInOrder /\ [Next]_vars => ListedInOrder'
<1> SUFFICES ASSUME IInv, ListedInOrder, [Next]_vars PROVE ListedInOrder'
  OBVIOUS
<1>1. ASSUME callGraph' = callGraph, sccs' = sccs PROVE ListedInOrder'
  BY <1>1 DEF ListedInOrder
<1>2. CASE UNCHANGED vars
  BY <1>1, <1>2 DEF vars
<1>3. ASSUME NEW f \in Functions, CompleteScc(f) PROVE ListedInOrder'
  <2> DEFINE C == Popped(f)
  <2>1. /\ Len(sccs) \in Nat /\ DOMAIN sccs = 1..Len(sccs)
        /\ DOMAIN sccs' = 1..(Len(sccs) + 1)
        /\ \A k \in DOMAIN sccs : sccs'[k] = sccs[k]
        /\ ToSet(sccs'[Len(sccs) + 1]) = C
    BY <1>3, PopEffect DEF CompleteScc
  <2>2. f \in Nodes(callGraph) /\ C = SccOf(callGraph, f) /\ C \cap ListedNodes = {}
    BY <1>3, PoppedIsScc DEF CompleteScc
  <2> HIDE DEF C
  <2>3. C \in Sccs(callGraph) /\ callGraph' = callGraph
    BY <1>3, <2>2 DEF Sccs, CompleteScc
  <2>4. \A k \in DOMAIN sccs' : k \in DOMAIN sccs \/ k = Len(sccs) + 1
    BY <2>1
  <2>5. ASSUME NEW k \in DOMAIN sccs' PROVE ToSet(sccs'[k]) \in Sccs(callGraph)
    BY <2>1, <2>3, <2>4 DEF ListedInOrder
  <2>6. ASSUME NEW i \in DOMAIN sccs', NEW j \in DOMAIN sccs', i < j
        PROVE  /\ ToSet(sccs'[i]) \cap ToSet(sccs'[j]) = {}
               /\ \A g \in ToSet(sccs'[i]) :
                     Callees(callGraph, g) \cap ToSet(sccs'[j]) = {}
    <3>1. i \in DOMAIN sccs /\ sccs'[i] = sccs[i]
      BY <2>1, <2>6
    <3>2. ToSet(sccs[i]) \subseteq ListedNodes
      BY <3>1 DEF ListedNodes
    <3>3. \A g \in ToSet(sccs[i]) : Callees(callGraph, g) \subseteq ListedNodes
      BY <3>2 DEF IInv, ListedClosed, CallClosed
    <3>4. CASE j \in DOMAIN sccs
      BY <3>1, <3>4, <2>1, <2>6 DEF ListedInOrder
    <3>5. CASE j = Len(sccs) + 1
      BY <3>1, <3>2, <3>3, <3>5, <2>1, <2>2
    <3> QED BY <3>4, <3>5, <2>4
  <2> QED BY <2>3, <2>5, <2>6 DEF ListedInOrder
<1>4. ASSUME NEW f \in Functions,
             StartRoot(f) \/ Recurse(f) \/ BackEdge(f) \/ SkipFinished(f) \/ LeaveOnStack(f)
      PROVE  ListedInOrder'
  BY <1>1, <1>4 DEF StartRoot, Recurse, Enter, BackEdge, SkipFinished, LeaveOnStack
<1> QED BY <1>2, <1>3, <1>4 DEF Next

\* A finished search has listed every component.
LEMMA FinishedIsCalleeFirst ==
    ASSUME IInv, ListedInOrder, Finished
    PROVE  CalleeFirst(callGraph, Components)
<1> USE DEF IInv
<1>1. /\ callGraph \in CallGraphOver(Functions)
      /\ sccs \in Seq(Seq(Visited)) /\ DOMAIN sccs = 1..Len(sccs) /\ Len(sccs) \in Nat
  BY LenProperties DEF TypeOK
<1>2. ListedNodes = Visited
  BY NoFramesNoStack DEF Finished, StackDiscipline, ListedNodes
<1>3. Nodes(callGraph) \subseteq ListedNodes
  <2>1. \A f \in DOMAIN callGraph : f \in Visited /\ Callees(callGraph, f) \subseteq Visited
    BY DEF Finished, CalleesSeen
  <2>2. \A f \in DOMAIN callGraph : callGraph[f] \subseteq Visited
    BY <2>1 DEF Callees
  <2> QED BY <2>1, <2>2, <1>2 DEF Nodes
<1>4. /\ DOMAIN Components = DOMAIN sccs
      /\ \A k \in DOMAIN sccs : Components[k] = ToSet(sccs[k])
                                /\ ToSet(sccs[k]) \in Sccs(callGraph)
  BY DEF Components, ListedInOrder
<1>5. ASSUME NEW C \in Sccs(callGraph) PROVE \E k \in DOMAIN Components : Components[k] = C
  <2>1. PICK f \in Nodes(callGraph) : C = SccOf(callGraph, f)
    BY DEF Sccs
  <2>2. PICK k \in DOMAIN sccs : f \in ToSet(sccs[k])
    BY <1>3, <2>1 DEF ListedNodes
  <2>3. ToSet(sccs[k]) = SccOf(callGraph, f)
    BY <2>2, <1>1, <1>4, SccMembers
  <2> QED BY <2>1, <2>2, <2>3, <1>4
<1>6. ASSUME NEW i \in DOMAIN Components, NEW j \in DOMAIN Components,
             Components[i] = Components[j]
      PROVE  i = j
  <2>1. PICK f : f \in Components[i]
    BY <1>1, <1>4, SccCovers DEF Sccs
  <2>2. ~(i < j) /\ ~(j < i)
    BY <2>1, <1>4, <1>6 DEF ListedInOrder
  <2> QED BY <2>2, <1>1, <1>4
<1>7. \A i, j \in DOMAIN Components :
         i < j => \A f \in Components[i] : Callees(callGraph, f) \cap Components[j] = {}
  BY <1>4 DEF ListedInOrder
<1> QED BY <1>5, <1>6, <1>7 DEF CalleeFirst

\* What computeSCCs() returns is what propagateBottomUp() relies on, on every
\* call graph: every component, each once, callees first.
THEOREM ReturnsCalleeFirst == Spec => [](Finished => CalleeFirst(callGraph, Components))
<1>1. Init => ListedInOrder
  BY DEF Init, ListedInOrder
<1>2. IInv /\ ListedInOrder /\ [Next]_vars => ListedInOrder'
  BY OrderStep
<1>3. IInv /\ ListedInOrder => (Finished => CalleeFirst(callGraph, Components))
  BY FinishedIsCalleeFirst
<1> QED BY <1>1, <1>2, <1>3, Invariance, PTL DEF Spec
=============================================================================
