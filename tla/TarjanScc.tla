------------------------------ MODULE TarjanScc ------------------------------
(***************************************************************************)
(* InterproceduralAnalysis::computeSCCs() and tarjanDFS().  The recursion  *)
(* of tarjanDFS is explicit: `frames' is the C++ call stack, each frame    *)
(* holding its node and the callees its loop has not visited yet.  Keys of *)
(* callGraph_ and the callees of a node are visited in any order, which    *)
(* covers every hash order and every order of first call.  A callee listed *)
(* twice is visited once: its second visit finds it stacked with a larger  *)
(* index, or finished, and changes nothing.                                *)
(***************************************************************************)
EXTENDS CallGraphs, SequencesExt

VARIABLES
    callGraph,      \* callGraph_, not modified here
    index, lowlink, \* TarjanState, functions on the visited nodes
    nextIndex,
    stack,
    onStack,        \* the nodes whose onStack entry is true
    sccs,           \* components in the order they are completed
    frames          \* activations of tarjanDFS, the innermost last

vars == <<callGraph, index, lowlink, nextIndex, stack, onStack, sccs, frames>>

Top == Last(frames)
Visited == DOMAIN index
Lower(a, b) == IF a <= b THEN a ELSE b

\* h[f] = v on a map.
Put(h, f, v) == [g \in DOMAIN h \cup {f} |-> IF g = f THEN v ELSE h[g]]

Init ==
    /\ callGraph \in CallGraphOver(Functions)
    /\ index = <<>> /\ lowlink = <<>>
    /\ nextIndex = 0
    /\ stack = <<>> /\ onStack = {}
    /\ sccs = <<>>
    /\ frames = <<>>

(***************************************************************************)
(* The entry of tarjanDFS(f), called with the activations `callers'.       *)
(***************************************************************************)
EnterSameIndex(f, callers) ==
    /\ index' = Put(index, f, nextIndex)
    /\ lowlink' = Put(lowlink, f, nextIndex)
    /\ nextIndex' = nextIndex
    /\ stack' = Append(stack, f)
    /\ onStack' = onStack \cup {f}
    /\ frames' = Append(callers, [node |-> f, todo |-> Callees(callGraph, f)])
    /\ UNCHANGED <<callGraph, sccs>>

Enter(f, callers) ==
    /\ index' = Put(index, f, nextIndex)
    /\ lowlink' = Put(lowlink, f, nextIndex)
    /\ nextIndex' = nextIndex + 1
    /\ stack' = Append(stack, f)
    /\ onStack' = onStack \cup {f}
    /\ frames' = Append(callers, [node |-> f, todo |-> Callees(callGraph, f)])
    /\ UNCHANGED <<callGraph, sccs>>

\* computeSCCs(): start from a key of the call graph not visited yet.
StartRoot(f) ==
    /\ frames = <<>>
    /\ f \in DOMAIN callGraph \ Visited
    /\ Enter(f, <<>>)

\* The frames once the innermost activation has taken callee c in hand.
Taking(c) == [frames EXCEPT ![Len(frames)].todo = @ \ {c}]

Recurse(c) ==
    /\ frames # <<>> /\ c \in Top.todo
    /\ c \notin Visited
    /\ Enter(c, Taking(c))

BackEdgeToStacked(c) ==
    /\ frames # <<>> /\ c \in Top.todo
    /\ c \in Visited
    /\ lowlink' = [lowlink EXCEPT ![Top.node] = Lower(@, index[c])]
    /\ frames' = Taking(c)
    /\ UNCHANGED <<callGraph, index, nextIndex, stack, onStack, sccs>>

BackEdge(c) ==
    /\ frames # <<>> /\ c \in Top.todo
    /\ c \in Visited /\ c \in onStack
    /\ lowlink' = [lowlink EXCEPT ![Top.node] = Lower(@, index[c])]
    /\ frames' = Taking(c)
    /\ UNCHANGED <<callGraph, index, nextIndex, stack, onStack, sccs>>

\* A callee whose component is already complete is ignored.
SkipFinished(c) ==
    /\ frames # <<>> /\ c \in Top.todo
    /\ c \in Visited /\ c \notin onStack
    /\ frames' = Taking(c)
    /\ UNCHANGED <<callGraph, index, lowlink, nextIndex, stack, onStack, sccs>>

(***************************************************************************)
(* tarjanDFS(node) returns; its caller, if it is an activation too, folds  *)
(* the callee's lowlink into its own.                                      *)
(***************************************************************************)
ReturnForgettingLowlink(node) ==
    /\ frames' = Front(frames)
    /\ lowlink' = lowlink

ReturnFrom(node) ==
    /\ frames' = Front(frames)
    /\ lowlink' =
         IF Len(frames) = 1 THEN lowlink
         ELSE [lowlink EXCEPT ![frames[Len(frames) - 1].node] =
                                  Lower(@, lowlink[node])]

\* Where node lies on the stack.
Depth(node) == CHOOSE i \in DOMAIN stack : stack[i] = node

CompleteSccLeavingFlags(node) ==
    /\ frames # <<>> /\ Top.node = node /\ Top.todo = {}
    /\ lowlink[node] = index[node]
    /\ sccs' = Append(sccs, Reverse(SubSeq(stack, Depth(node), Len(stack))))
    /\ stack' = SubSeq(stack, 1, Depth(node) - 1)
    /\ onStack' = onStack \ {node}
    /\ ReturnFrom(node)
    /\ UNCHANGED <<callGraph, index, nextIndex>>

\* node is the root of a component: pop it and everything above it.
CompleteScc(node) ==
    /\ frames # <<>> /\ Top.node = node /\ Top.todo = {}
    /\ lowlink[node] = index[node]
    /\ sccs' = Append(sccs, Reverse(SubSeq(stack, Depth(node), Len(stack))))
    /\ stack' = SubSeq(stack, 1, Depth(node) - 1)
    /\ onStack' = onStack \ ToSet(SubSeq(stack, Depth(node), Len(stack)))
    /\ ReturnFrom(node)
    /\ UNCHANGED <<callGraph, index, nextIndex>>

\* node belongs to the component of a node below it on the stack.
LeaveOnStack(node) ==
    /\ frames # <<>> /\ Top.node = node /\ Top.todo = {}
    /\ lowlink[node] # index[node]
    /\ ReturnFrom(node)
    /\ UNCHANGED <<callGraph, index, nextIndex, stack, onStack, sccs>>

Next ==
    \E f \in Functions :
        \/ StartRoot(f)
        \/ Recurse(f)
        \/ BackEdge(f)
        \/ SkipFinished(f)
        \/ CompleteScc(f)
        \/ LeaveOnStack(f)

\* One thread runs the search to its end.
Spec == Init /\ [][Next]_vars /\ WF_vars(Next)

-----------------------------------------------------------------------------
\* Types, and the bookkeeping that is redundant in the code: lowlink is kept
\* for exactly the visited nodes, and the indices given out are distinct and
\* run from 0 to nextIndex - 1.
TypeOK ==
    /\ callGraph \in CallGraphOver(Functions)
    /\ Visited \subseteq Nodes(callGraph) /\ DOMAIN lowlink = Visited
    /\ nextIndex = Cardinality(Visited)
    /\ {index[f] : f \in Visited} = 0..(nextIndex - 1)
    /\ \A f \in Visited : lowlink[f] \in 0..index[f]
    /\ stack \in Seq(Visited) /\ onStack \subseteq Visited
    /\ sccs \in Seq(Seq(Visited))
    /\ frames \in Seq([node : Visited, todo : SUBSET Nodes(callGraph)])

\* The stack and its membership flags (two structures the code updates apart)
\* agree; the stack is in order of visit; every activation is still stacked;
\* a node is either stacked or in a listed component, never in both.
StackDiscipline ==
    /\ ToSet(stack) = onStack
    /\ \A i, j \in DOMAIN stack : i < j => index[stack[i]] < index[stack[j]]
    /\ \A k \in DOMAIN frames : frames[k].node \in onStack
    /\ LET listed == UNION {ToSet(sccs[k]) : k \in DOMAIN sccs}
       IN  listed \cap onStack = {} /\ listed \cup onStack = Visited

\* A stacked node's lowlink is the index of a node that is itself still on
\* the stack and that a call chain leads to: no node is ever joined to a
\* component through one that is complete.
LowlinkIsWitnessed ==
    \A f \in onStack : \E g \in onStack :
        index[g] = lowlink[f] /\ Reaches(callGraph, f, g)

\* The components as sets, in the order they were appended.
Order == INSTANCE SccOrder WITH sccs <- [k \in DOMAIN sccs |-> ToSet(sccs[k])]

\* The search implements the abstract listing: each appended vector is
\* exactly one strongly connected component, after all the components it
\* calls into, and the search ends with every component listed.
ImplementsSccOrder == Order!Spec
=============================================================================
