----------------------- MODULE ModRefPropagationProofs -----------------------
(***************************************************************************)
(* Proofs about ModRefPropagation, for every finite set of functions,      *)
(* every call graph, every callee-first component order and every local    *)
(* summaries.                                                              *)
(***************************************************************************)
EXTENDS ModRefPropagation, FiniteSetTheorems, TLAPS

-----------------------------------------------------------------------------
(* Call graphs: reachability and components.                               *)

\* Reachability is reflexive: the empty call chain.
LEMMA ReachesSelf ==
    ASSUME NEW graph, NEW f \in Functions
    PROVE  Reaches(graph, f, f)
BY DEF Reaches

\* Reachability is transitive: call chains compose.
LEMMA ReachesTransitive ==
    ASSUME NEW graph, NEW f \in Functions, NEW g \in Functions, NEW h \in Functions,
           Reaches(graph, f, g), Reaches(graph, g, h)
    PROVE  Reaches(graph, f, h)
BY DEF Reaches

\* A call is a call chain.
LEMMA ReachesCallee ==
    ASSUME NEW graph, NEW f \in Functions, NEW g \in Callees(graph, f)
    PROVE  Reaches(graph, f, g)
BY DEF Reaches, CallClosed

\* What a closed set contains, it contains with everything reached from it.
LEMMA ClosedUnderReaches ==
    ASSUME NEW graph, NEW S \in SUBSET Functions, CallClosed(graph, S),
           NEW f \in S, NEW g, Reaches(graph, f, g)
    PROVE  g \in S
BY DEF Reaches

\* The names in a graph are function names.
LEMMA GraphNames ==
    ASSUME NEW graph \in CallGraphOver(Functions)
    PROVE  /\ DOMAIN graph \subseteq Functions
           /\ Nodes(graph) \subseteq Functions
           /\ \A f : Callees(graph, f) \subseteq Nodes(graph)
           /\ Sccs(graph) \subseteq SUBSET Nodes(graph)
<1>1. PICK D \in SUBSET Functions : graph \in [D -> SUBSET Functions]
  BY DEF CallGraphOver
<1>2. DOMAIN graph \subseteq Functions /\ Nodes(graph) \subseteq Functions
  BY <1>1 DEF Nodes
<1>3. \A f : Callees(graph, f) \subseteq Nodes(graph)
  BY <1>1 DEF Nodes, Callees
<1>4. Sccs(graph) \subseteq SUBSET Nodes(graph)
  BY DEF Sccs, SccOf
<1> QED BY <1>2, <1>3, <1>4

\* A node is in its own component, and members of a component reach each
\* other; hence components that share a member are equal.
LEMMA SccMembers ==
    ASSUME NEW graph \in CallGraphOver(Functions), NEW C \in Sccs(graph)
    PROVE  /\ \A f, g \in C : Reaches(graph, f, g)
           /\ \A f \in C : C = SccOf(graph, f)
<1>1. PICK x \in Nodes(graph) : C = SccOf(graph, x)
  BY DEF Sccs
<1>2. x \in Functions /\ C \subseteq Functions
  BY <1>1, GraphNames DEF SccOf
<1>3. \A f, g \in C : Reaches(graph, f, g)
  <2> SUFFICES ASSUME NEW f \in C, NEW g \in C PROVE Reaches(graph, f, g)
    OBVIOUS
  <2>1. Reaches(graph, f, x) /\ Reaches(graph, x, g)
    BY <1>1 DEF SccOf
  <2> QED BY <2>1, <1>2, ReachesTransitive
<1>4. \A f \in C : C = SccOf(graph, f)
  <2> SUFFICES ASSUME NEW f \in C PROVE C = SccOf(graph, f)
    OBVIOUS
  <2>1. C \subseteq SccOf(graph, f)
    BY <1>1, <1>3 DEF SccOf
  <2>2. ASSUME NEW g \in SccOf(graph, f) PROVE g \in C
    <3>1. g \in Nodes(graph) /\ g \in Functions
      BY GraphNames DEF SccOf
    <3>2. Reaches(graph, f, g) /\ Reaches(graph, g, f)
      BY DEF SccOf
    <3>3. Reaches(graph, f, x) /\ Reaches(graph, x, f)
      BY <1>1 DEF SccOf
    <3>4. Reaches(graph, x, g) /\ Reaches(graph, g, x)
      BY <3>1, <3>2, <3>3, <1>2, ReachesTransitive
    <3> QED BY <3>1, <3>4, <1>1 DEF SccOf
  <2> QED BY <2>1, <2>2
<1> QED BY <1>3, <1>4

\* Every node is in a component.
LEMMA SccCovers ==
    ASSUME NEW graph \in CallGraphOver(Functions), NEW f \in Nodes(graph)
    PROVE  f \in SccOf(graph, f) /\ SccOf(graph, f) \in Sccs(graph)
BY ReachesSelf, GraphNames DEF Sccs, SccOf

-----------------------------------------------------------------------------
(* Cycles.                                                                 *)

\* Two different members make a component a cycle.
LEMMA TwoMembersAreCycle ==
    ASSUME NEW C \in SUBSET Functions, NEW f \in C, NEW g \in C, f # g
    PROVE  IsCycle(C)
<1>1. IsFiniteSet(C)
  BY FunctionsFinite, FS_Subset
<1>2. Cardinality(C) \in Nat /\ C # {}
  BY <1>1, FS_CardinalityType
<1>3. Cardinality(C) # 0
  BY <1>1, <1>2, FS_EmptySet
<1>4. Cardinality(C) # 1
  <2> SUFFICES ASSUME Cardinality(C) = 1 PROVE FALSE
    OBVIOUS
  <2>1. PICK x : C = {x}
    BY <1>1, FS_Singleton
  <2> QED BY <2>1
<1> QED BY <1>2, <1>3, <1>4 DEF IsCycle

\* Who is on a cycle calls somebody.
LEMMA CyclesCall ==
    ASSUME NEW graph \in CallGraphOver(Functions), NEW C \in Sccs(graph), IsCycle(C)
    PROVE  C \subseteq DOMAIN graph
<1> SUFFICES ASSUME NEW f \in C, f \notin DOMAIN graph PROVE FALSE
  OBVIOUS
<1>1. f \in Functions /\ \A g \in C : Reaches(graph, f, g)
  BY SccMembers, GraphNames
<1>2. {f} \in SUBSET Functions /\ CallClosed(graph, {f})
  BY <1>1 DEF CallClosed, Callees
<1>3. C = {f}
  BY <1>1, <1>2 DEF Reaches
<1>4. Cardinality({f}) = 1
  BY FS_Singleton
<1> QED BY <1>3, <1>4 DEF IsCycle

-----------------------------------------------------------------------------
(* Summaries and merging.                                                  *)

\* t covers everything s says.
Leq(s, t) ==
    /\ s.mod \subseteq t.mod
    /\ s.ref \subseteq t.ref
    /\ s.modifiesGlobals => t.modifiesGlobals
    /\ s.isConservative => t.isConservative

\* The summary order is a preorder.
LEMMA LeqTransitive ==
    ASSUME NEW r \in Summary, NEW s \in Summary, NEW t \in Summary,
           Leq(r, s), Leq(s, t)
    PROVE  Leq(r, t)
BY DEF Leq, Summary

LEMMA NewSummaryType == NewSummary \in Summary
BY DEF NewSummary, Summary

\* What merging computes, field by field.
LEMMA MergeFields ==
    ASSUME NEW dst \in Summary, NEW sources \in SUBSET Summary
    PROVE  /\ Merge(dst, sources) \in Summary
           /\ Merge(dst, sources).mod = dst.mod \cup UNION {s.mod : s \in sources}
           /\ Merge(dst, sources).ref = dst.ref \cup UNION {s.ref : s \in sources}
           /\ Merge(dst, sources).modifiesGlobals
                = (dst.modifiesGlobals \/ \E s \in sources : s.modifiesGlobals)
           /\ Merge(dst, sources).isConservative
                = (dst.isConservative \/ \E s \in sources : s.isConservative)
           /\ Merge(dst, sources).isPure = dst.isPure
<1>1. dst.mod \cup UNION {s.mod : s \in sources} \in SUBSET Vars
  BY DEF Summary
<1>2. dst.ref \cup UNION {s.ref : s \in sources} \in SUBSET Vars
  BY DEF Summary
<1> QED BY <1>1, <1>2 DEF Merge, Summary

\* A merge covers its destination and each of its sources ...
LEMMA MergeUpperBound ==
    ASSUME NEW dst \in Summary, NEW sources \in SUBSET Summary
    PROVE  /\ Leq(dst, Merge(dst, sources))
           /\ \A s \in sources : Leq(s, Merge(dst, sources))
<1>1. Leq(dst, Merge(dst, sources))
  BY MergeFields DEF Leq
<1>2. ASSUME NEW s \in sources PROVE Leq(s, Merge(dst, sources))
  <2>1. s.mod \subseteq UNION {r.mod : r \in sources}
    OBVIOUS
  <2>2. s.ref \subseteq UNION {r.ref : r \in sources}
    OBVIOUS
  <2>3. s.mod \subseteq Merge(dst, sources).mod
    BY <2>1, MergeFields
  <2>4. s.ref \subseteq Merge(dst, sources).ref
    BY <2>2, MergeFields
  <2>5. /\ s.modifiesGlobals => Merge(dst, sources).modifiesGlobals
        /\ s.isConservative => Merge(dst, sources).isConservative
    BY MergeFields
  <2> QED BY <2>3, <2>4, <2>5 DEF Leq
<1> QED BY <1>1, <1>2

\* ... and nothing they do not cover together.
LEMMA MergeLeast ==
    ASSUME NEW dst \in Summary, NEW sources \in SUBSET Summary,
           NEW t \in Summary, Leq(dst, t), \A s \in sources : Leq(s, t)
    PROVE  Leq(Merge(dst, sources), t)
<1>1. UNION {s.mod : s \in sources} \subseteq t.mod
  BY DEF Leq
<1>2. UNION {s.ref : s \in sources} \subseteq t.ref
  BY DEF Leq
<1>3. Merge(dst, sources).mod \subseteq t.mod
  BY <1>1, MergeFields DEF Leq
<1>4. Merge(dst, sources).ref \subseteq t.ref
  BY <1>2, MergeFields DEF Leq
<1>5. /\ Merge(dst, sources).modifiesGlobals => t.modifiesGlobals
      /\ Merge(dst, sources).isConservative => t.isConservative
  BY MergeFields DEF Leq
<1> QED BY <1>3, <1>4, <1>5 DEF Leq

\* Merging what is already covered changes nothing.
LEMMA MergeAbsorbs ==
    ASSUME NEW dst \in Summary, NEW sources \in SUBSET Summary,
           \A s \in sources : Leq(s, dst)
    PROVE  Merge(dst, sources) = dst
<1> DEFINE m == Merge(dst, sources)
<1>1. Leq(dst, dst)
  BY DEF Leq
<1>2. m \in Summary /\ m.isPure = dst.isPure
  BY MergeFields
<1>3. Leq(m, dst)
  BY <1>1, MergeLeast
<1>4. Leq(dst, m)
  BY MergeUpperBound
<1> HIDE DEF m
<1>5. m.mod = dst.mod /\ m.ref = dst.ref
  BY <1>3, <1>4 DEF Leq
<1>6. m.modifiesGlobals = dst.modifiesGlobals
  BY <1>2, <1>3, <1>4 DEF Leq, Summary
<1>7. m.isConservative = dst.isConservative
  BY <1>2, <1>3, <1>4 DEF Leq, Summary
<1>8. m = dst
  BY <1>2, <1>5, <1>6, <1>7 DEF Summary
<1> QED BY <1>8 DEF m

-----------------------------------------------------------------------------
(* Type correctness.                                                       *)

\* The component list is a callee-first list of the graph's components.
OrderOK ==
    /\ CalleeFirst(callGraph, sccs)
    /\ \A i \in DOMAIN sccs : sccs[i] \in Sccs(callGraph)

\* An entry that is present or new is a summary.
LEMMA EntryType ==
    ASSUME TypeOK, NEW f
    PROVE  Entry(f) \in Summary /\ (f \in Known => Entry(f) = summaries[f])
BY NewSummaryType DEF TypeOK, Entry, Known

\* The summaries merged by the two loops are summaries.
LEMMA SourcesType ==
    ASSUME TypeOK, NEW S
    PROVE  {summaries[m] : m \in S \cap Known} \in SUBSET Summary
BY DEF TypeOK, Known

LEMMA CycleSummaryType ==
    ASSUME TypeOK
    PROVE  /\ CycleSummary \in Summary
           /\ CycleSummary.isConservative
           /\ \A m \in Scc \cap Known : Leq(summaries[m], CycleSummary)
<1> DEFINE sources == {summaries[m] : m \in Scc \cap Known}
           union == Merge(NewSummary, sources)
<1>1. sources \in SUBSET Summary
  BY SourcesType
<1>2. union \in Summary
  BY <1>1, NewSummaryType, MergeFields
<1>3. \A s \in sources : Leq(s, union)
  BY <1>1, NewSummaryType, MergeUpperBound
<1>4. CycleSummary = [union EXCEPT !.isConservative = TRUE]
  BY DEF CycleSummary
<1> HIDE DEF union
<1>5. /\ CycleSummary \in Summary /\ CycleSummary.isConservative
      /\ CycleSummary.mod = union.mod /\ CycleSummary.ref = union.ref
      /\ CycleSummary.modifiesGlobals = union.modifiesGlobals
  BY <1>2, <1>4 DEF Summary
<1>6. \A m \in Scc \cap Known : Leq(summaries[m], union)
  BY <1>3
<1> QED BY <1>5, <1>6 DEF Leq

\* The effect of writing entries, function by function.
LEMMA UpdateEffect ==
    ASSUME TypeOK, NEW S \in SUBSET Functions, NEW new,
           \A f \in S : new[f] \in Summary,
           Update(S, new)
    PROVE  /\ Known' = Known \cup S
           /\ summaries' \in [Known' -> Summary]
           /\ \A f \in S : summaries'[f] = new[f]
           /\ \A f \in Known \ S : summaries'[f] = summaries[f]
           /\ changed' \in BOOLEAN
BY DEF TypeOK, Update, Known

\* A step of the collapse or push loop that keeps the rest keeps the types.
LEMMA CollapseEffect ==
    ASSUME TypeOK, OrderOK, CollapseCycle
    PROVE  /\ Scc \in SUBSET Functions
           /\ \A m \in Scc : Merge(Entry(m), {CycleSummary}) \in Summary
           /\ Known' = Known \cup Scc
           /\ summaries' \in [Known' -> Summary]
           /\ \A m \in Scc : summaries'[m] = Merge(Entry(m), {CycleSummary})
           /\ \A f \in Known \ Scc : summaries'[f] = summaries[f]
           /\ changed' \in BOOLEAN
<1> DEFINE new == [m \in Scc |-> Merge(Entry(m), {CycleSummary})]
<1>1. Scc \in SUBSET Functions
  BY DEF TypeOK, CollapseCycle, Scc
<1>2. \A m \in Scc : Merge(Entry(m), {CycleSummary}) \in Summary
  <2> SUFFICES ASSUME NEW m \in Scc
               PROVE  Merge(Entry(m), {CycleSummary}) \in Summary
    OBVIOUS
  <2>1. Entry(m) \in Summary /\ {CycleSummary} \in SUBSET Summary
    BY EntryType, CycleSummaryType
  <2> QED BY <2>1, MergeFields
<1>3. \A m \in Scc : new[m] = Merge(Entry(m), {CycleSummary})
  OBVIOUS
<1>4. Update(Scc, new)
  BY DEF CollapseCycle
<1> HIDE DEF new
<1> QED BY <1>1, <1>2, <1>3, <1>4, UpdateEffect

LEMMA PushEffect ==
    ASSUME TypeOK, OrderOK, PushToCallers
    PROVE  /\ Callers \in SUBSET (Functions \ Scc)
           /\ \A f : {summaries[m] : m \in CalledMembers(f)} \in SUBSET Summary
           /\ Known' = Known \cup Callers
           /\ summaries' \in [Known' -> Summary]
           /\ \A f \in Callers : summaries'[f] =
                  Merge(Entry(f), {summaries[m] : m \in CalledMembers(f)})
           /\ \A f \in Known \ Callers : summaries'[f] = summaries[f]
           /\ changed' \in BOOLEAN
<1> DEFINE pushed(f) == {summaries[m] : m \in CalledMembers(f)}
           new == [f \in Callers |-> Merge(Entry(f), pushed(f))]
<1>1. Callers \in SUBSET (Functions \ Scc)
  BY GraphNames DEF TypeOK, Callers
<1>2. \A f : pushed(f) \in SUBSET Summary
  BY DEF TypeOK, CalledMembers, Known
<1>3. \A f \in Callers : new[f] \in Summary /\ new[f] = Merge(Entry(f), pushed(f))
  <2> SUFFICES ASSUME NEW f \in Callers PROVE Merge(Entry(f), pushed(f)) \in Summary
    OBVIOUS
  <2>1. Entry(f) \in Summary
    BY EntryType
  <2> QED BY <2>1, <1>2, MergeFields
<1>4. Update(Callers, new)
  BY DEF PushToCallers
<1> HIDE DEF new
<1>5. Callers \in SUBSET Functions
  BY <1>1
<1>6. /\ Known' = Known \cup Callers
      /\ summaries' \in [Known' -> Summary]
      /\ \A f \in Callers : summaries'[f] = new[f]
      /\ \A f \in Known \ Callers : summaries'[f] = summaries[f]
      /\ changed' \in BOOLEAN
  BY <1>3, <1>4, <1>5, UpdateEffect
<1> QED BY <1>1, <1>2, <1>3, <1>6

\* What Step 3 leaves of an entry.
LEMMA FinalType ==
    ASSUME TypeOK, NEW f \in Known
    PROVE  /\ Final(f) \in Summary
           /\ Final(f).mod = summaries[f].mod /\ Final(f).ref = summaries[f].ref
           /\ f \notin Whitelist =>
                /\ Final(f).modifiesGlobals = summaries[f].modifiesGlobals
                /\ Final(f).isConservative = summaries[f].isConservative
                /\ Final(f).isPure =
                     (summaries[f].mod = {} /\ ~summaries[f].modifiesGlobals)
           /\ Final(f).modifiesGlobals => summaries[f].modifiesGlobals
           /\ Final(f).isConservative => summaries[f].isConservative
<1>1. summaries[f] \in Summary
  BY DEF TypeOK, Known
<1> QED BY <1>1 DEF Final, Summary

\* The initial states are typed, and their component list is in order.
LEMMA TypeInit == Init => TypeOK /\ OrderOK
<1> SUFFICES ASSUME Init PROVE TypeOK /\ OrderOK
  OBVIOUS
<1>1. PICK n \in Nat : sccs \in [1..n -> Sccs(callGraph)]
  <2>1. Cardinality(Functions) \in Nat
    BY FunctionsFinite, FS_CardinalityType
  <2>2. PICK n \in 0..Cardinality(Functions) : sccs \in [1..n -> Sccs(callGraph)]
    BY DEF Init, CalleeFirstOrders
  <2> QED BY <2>1, <2>2
<1>2. callGraph \in CallGraphOver(Functions) /\ Sccs(callGraph) \subseteq SUBSET Functions
  BY GraphNames DEF Init
<1>3. sccs \in [1..n -> SUBSET Functions]
  BY <1>1, <1>2
<1>4. sccs \in Seq(SUBSET Functions) /\ Len(sccs) = n
  BY <1>3
<1>5. PICK D \in SUBSET Functions : local \in [D -> Seeds]
  BY DEF Init
<1>6. Known \subseteq Functions /\ summaries \in [Known -> Summary]
  BY <1>5, SeedsAreSummaries DEF Init, Known
<1>7. DOMAIN local \subseteq Known /\ local \in [DOMAIN local -> Seeds]
  BY <1>5 DEF Init, Known
<1>8. TypeOK
  BY <1>2, <1>4, <1>6, <1>7 DEF Init, TypeOK, PassBound
<1>9. OrderOK
  BY <1>1 DEF Init, CalleeFirstOrders, OrderOK
<1> QED BY <1>8, <1>9

\* Every step keeps the types.
LEMMA TypeStep == TypeOK /\ OrderOK /\ [Next]_vars => TypeOK' /\ OrderOK'
<1> SUFFICES ASSUME TypeOK, OrderOK, [Next]_vars PROVE TypeOK' /\ OrderOK'
  OBVIOUS
<1> USE DEF inputs
<1>1. callGraph' = callGraph /\ local' = local /\ sccs' = sccs
  BY DEF Next, vars, NothingToDo, StartPass, CollapseCycle, PassSingleton,
         PushToCallers, EndPass, Finalize
<1>2. OrderOK'
  BY <1>1 DEF OrderOK, CalleeFirst
<1> SUFFICES TypeOK'
  BY <1>2
<1>3. CASE NothingToDo
  BY <1>1, <1>3 DEF NothingToDo, TypeOK, Known
<1>4. CASE StartPass
  <2>1. Len(sccs) \in Nat /\ 1 \in 1..(Len(sccs) + 1)
    BY DEF TypeOK
  <2>2. passes' \in 0..PassBound
    BY <1>4 DEF StartPass, TypeOK, PassBound
  <2>3. idx' = 1 /\ changed' = FALSE /\ pc' = "collapse" /\ summaries' = summaries
    BY <1>4 DEF StartPass
  <2> QED BY <1>1, <2>1, <2>2, <2>3 DEF TypeOK, Known
<1>5. CASE CollapseCycle
  <2>1. /\ Known' = Known \cup Scc /\ Scc \in SUBSET Functions
        /\ summaries' \in [Known' -> Summary]
        /\ changed' \in BOOLEAN
    BY <1>5, CollapseEffect
  <2>2. pc' = "push" /\ idx' = idx /\ passes' = passes /\ idx \in DOMAIN sccs
    BY <1>5 DEF CollapseCycle
  <2> QED BY <1>1, <2>1, <2>2 DEF TypeOK
<1>6. CASE PassSingleton
  BY <1>1, <1>6 DEF PassSingleton, TypeOK, Known
<1>7. CASE PushToCallers
  <2>1. /\ Known' = Known \cup Callers /\ Callers \subseteq Functions
        /\ summaries' \in [Known' -> Summary]
        /\ changed' \in BOOLEAN
    BY <1>7, PushEffect
  <2>2. pc' = "collapse" /\ idx' = idx + 1 /\ passes' = passes /\ idx \in DOMAIN sccs
    BY <1>7 DEF PushToCallers, TypeOK
  <2>3. idx' \in 1..(Len(sccs) + 1)
    BY <2>2 DEF TypeOK
  <2> QED BY <1>1, <2>1, <2>2, <2>3 DEF TypeOK
<1>8. CASE EndPass
  BY <1>1, <1>8 DEF EndPass, TypeOK, Known
<1>9. CASE Finalize
  <2>1. /\ summaries' \in [Known -> Summary] /\ Known' = Known
    BY <1>9, FinalType DEF Finalize, Known
  <2>2. pc' = "done" /\ idx' = idx /\ passes' = passes /\ changed' = changed
    BY <1>9 DEF Finalize
  <2> QED BY <1>1, <2>1, <2>2 DEF TypeOK
<1>10. CASE UNCHANGED vars
  BY <1>10 DEF vars, TypeOK, Known
<1> QED BY <1>3, <1>4, <1>5, <1>6, <1>7, <1>8, <1>9, <1>10 DEF Next

\* The summaries are well-formed in every reachable state of the propagation.
THEOREM TypeCorrect == Spec => []TypeOK
<1>1. Init => TypeOK /\ OrderOK
  BY TypeInit
<1>2. TypeOK /\ OrderOK /\ [Next]_vars => (TypeOK /\ OrderOK)'
  BY TypeStep
<1> QED BY <1>1, <1>2, PTL DEF Spec

-----------------------------------------------------------------------------
(* Soundness.  The loop invariant says what the callee-first order buys:   *)
(* a component the loop is past is settled, it has handed its summary to   *)
(* every caller, and nothing later in the pass touches its members.        *)

\* Callers outside the j-th component cover its members.
Settled(j) ==
    \A g \in sccs[j] \cap Known : \A f \in DOMAIN callGraph \ sccs[j] :
        g \in callGraph[f] => f \in Known /\ Leq(summaries[g], summaries[f])

\* The members of the j-th component, if it is a cycle, say the same and are
\* conservative.
Cohesive(j) ==
    IsCycle(sccs[j]) =>
        \A g \in sccs[j] :
            /\ g \in Known
            /\ summaries[g].isConservative
            /\ \A h \in sccs[j] : Leq(summaries[h], summaries[g])

Past(j) == j < idx \/ passes >= 2

LocalKept == \A f \in DOMAIN local : Leq(local[f], summaries[f])

PastSettled == \A j \in DOMAIN sccs : Past(j) => Settled(j) /\ Cohesive(j)

LoopControl ==
    /\ passes <= 2
    /\ passes = 2 => ~changed
    /\ passes = 0 => pc = "while" /\ idx = 1 /\ changed
    /\ pc = "while" /\ passes # 0 => idx \notin DOMAIN sccs

LoopInv ==
    pc # "done" =>
        /\ LocalKept
        /\ PastSettled
        /\ LoopControl
        /\ pc = "push" => Cohesive(idx)

Inv == TypeOK /\ OrderOK /\ LoopInv /\ TwoPassesSuffice

\* Different components of the list share no member.
LEMMA ComponentsDisjoint ==
    ASSUME TypeOK, OrderOK, NEW i \in DOMAIN sccs, NEW j \in DOMAIN sccs, i # j
    PROVE  sccs[i] \cap sccs[j] = {}
<1> SUFFICES ASSUME NEW f \in sccs[i], f \in sccs[j] PROVE FALSE
  OBVIOUS
<1>1. callGraph \in CallGraphOver(Functions) /\ sccs[i] \in Sccs(callGraph) /\ sccs[j] \in Sccs(callGraph)
  BY DEF TypeOK, OrderOK
<1>2. sccs[i] = SccOf(callGraph, f) /\ sccs[j] = SccOf(callGraph, f)
  BY <1>1, SccMembers
<1> QED BY <1>2 DEF OrderOK, CalleeFirst

\* The union over a cohesive cycle is already in each member.
LEMMA CollapseAbsorbed ==
    ASSUME TypeOK, OrderOK, CollapseCycle, Cohesive(idx), NEW m \in Scc
    PROVE  m \in Known /\ Merge(Entry(m), {CycleSummary}) = Entry(m)
<1>1. IsCycle(Scc) /\ Scc = sccs[idx]
  BY DEF CollapseCycle, Scc
<1>2. /\ m \in Known /\ summaries[m].isConservative
      /\ \A h \in Scc : Leq(summaries[h], summaries[m])
  BY <1>1 DEF Cohesive
<1>3. Entry(m) = summaries[m] /\ summaries[m] \in Summary
  BY <1>2, EntryType
<1> DEFINE sources == {summaries[h] : h \in Scc \cap Known}
           union == Merge(NewSummary, sources)
<1>4. sources \in SUBSET Summary /\ \A s \in sources : Leq(s, summaries[m])
  BY <1>2, SourcesType
<1>5. Leq(NewSummary, summaries[m])
  BY DEF Leq, NewSummary
<1>6. Leq(union, summaries[m]) /\ union \in Summary
  BY <1>3, <1>4, <1>5, NewSummaryType, MergeLeast, MergeFields
<1>7. CycleSummary = [union EXCEPT !.isConservative = TRUE]
  BY DEF CycleSummary
<1> HIDE DEF union
<1>8. Leq(CycleSummary, summaries[m])
  BY <1>2, <1>6, <1>7 DEF Leq, Summary
<1>9. CycleSummary \in Summary
  BY CycleSummaryType
<1> QED BY <1>2, <1>3, <1>8, <1>9, MergeAbsorbs

\* The callers of a settled component already cover what is pushed to them.
LEMMA PushAbsorbed ==
    ASSUME TypeOK, OrderOK, PushToCallers, Settled(idx), NEW f \in Callers
    PROVE  /\ f \in Known
           /\ Merge(Entry(f), {summaries[m] : m \in CalledMembers(f)}) = Entry(f)
<1>1. f \in DOMAIN callGraph \ Scc /\ CalledMembers(f) # {}
  BY DEF Callers
<1>2. \A m \in CalledMembers(f) : m \in Scc \cap Known /\ m \in callGraph[f]
  BY <1>1 DEF CalledMembers, Callees
<1>3. f \in Known /\ \A m \in CalledMembers(f) : Leq(summaries[m], summaries[f])
  BY <1>1, <1>2 DEF Settled, Scc
<1>4. Entry(f) = summaries[f] /\ Entry(f) \in Summary
  BY <1>3, EntryType
<1>5. {summaries[m] : m \in CalledMembers(f)} \in SUBSET Summary
  BY PushEffect
<1> QED BY <1>3, <1>4, <1>5, MergeAbsorbs

\* No step of the loops takes anything out of a summary.
LEMMA CollapseGrows ==
    ASSUME TypeOK, OrderOK, CollapseCycle
    PROVE  Known \subseteq Known' /\ \A f \in Known : Leq(summaries[f], summaries'[f])
<1>1. Known \subseteq Known'
  BY CollapseEffect
<1>2. ASSUME NEW f \in Known \cap Scc PROVE Leq(summaries[f], summaries'[f])
  <2>1. Entry(f) = summaries[f] /\ Entry(f) \in Summary /\ {CycleSummary} \in SUBSET Summary
    BY EntryType, CycleSummaryType
  <2>2. summaries'[f] = Merge(Entry(f), {CycleSummary})
    BY CollapseEffect
  <2> QED BY <2>1, <2>2, MergeUpperBound
<1>3. ASSUME NEW f \in Known \ Scc PROVE Leq(summaries[f], summaries'[f])
  BY CollapseEffect DEF Leq
<1> QED BY <1>1, <1>2, <1>3

LEMMA PushGrows ==
    ASSUME TypeOK, OrderOK, PushToCallers
    PROVE  Known \subseteq Known' /\ \A f \in Known : Leq(summaries[f], summaries'[f])
<1>1. Known \subseteq Known'
  BY PushEffect
<1>2. ASSUME NEW f \in Known \cap Callers PROVE Leq(summaries[f], summaries'[f])
  <2>1. Entry(f) = summaries[f] /\ Entry(f) \in Summary
    BY EntryType
  <2>2. {summaries[m] : m \in CalledMembers(f)} \in SUBSET Summary
    BY PushEffect
  <2>3. summaries'[f] = Merge(Entry(f), {summaries[m] : m \in CalledMembers(f)})
    BY PushEffect
  <2> QED BY <2>1, <2>2, <2>3, MergeUpperBound
<1>3. ASSUME NEW f \in Known \ Callers PROVE Leq(summaries[f], summaries'[f])
  BY PushEffect DEF Leq
<1> QED BY <1>1, <1>2, <1>3

\* A settled component stays settled when summaries only grow and its own
\* members keep theirs.
LEMMA SettledKept ==
    ASSUME TypeOK, TypeOK', callGraph' = callGraph, sccs' = sccs,
           NEW j \in DOMAIN sccs,
           Known \subseteq Known',
           \A f \in Known : Leq(summaries[f], summaries'[f]),
           \A f \in sccs[j] \cap Known' : f \in Known /\ summaries'[f] = summaries[f]
    PROVE  /\ Settled(j) => Settled(j)'
           /\ Cohesive(j) => Cohesive(j)'
<1>1. /\ \A f \in Known : summaries[f] \in Summary
      /\ \A f \in Known' : summaries'[f] \in Summary
  BY DEF TypeOK
<1>2. ASSUME Settled(j) PROVE Settled(j)'
  <2> SUFFICES ASSUME NEW g \in sccs[j] \cap Known',
                      NEW f \in DOMAIN callGraph \ sccs[j], g \in callGraph[f]
               PROVE  f \in Known' /\ Leq(summaries'[g], summaries'[f])
    BY DEF Settled, Leq
  <2>1. g \in Known /\ summaries'[g] = summaries[g]
    OBVIOUS
  <2>2. f \in Known /\ Leq(summaries[g], summaries[f])
    BY <1>2, <2>1 DEF Settled
  <2>3. f \in Known' /\ Leq(summaries[f], summaries'[f])
    BY <2>2
  <2> QED BY <1>1, <2>1, <2>2, <2>3, LeqTransitive
<1>3. ASSUME Cohesive(j) PROVE Cohesive(j)'
  <2> SUFFICES ASSUME IsCycle(sccs[j]), NEW g \in sccs[j]
               PROVE  /\ g \in Known' /\ summaries'[g].isConservative
                      /\ \A h \in sccs[j] : Leq(summaries'[h], summaries'[g])
    BY DEF Cohesive, Leq, IsCycle
  <2>1. \A h \in sccs[j] : h \in Known /\ summaries'[h] = summaries[h]
    BY <1>3 DEF Cohesive
  <2> QED BY <1>3, <2>1 DEF Cohesive
<1> QED BY <1>2, <1>3

\* Collapsing a cycle leaves the members of past components alone ...
LEMMA CollapseLeavesPast ==
    ASSUME TypeOK, OrderOK, PastSettled, CollapseCycle,
           NEW j \in DOMAIN sccs, Past(j)
    PROVE  \A f \in sccs[j] \cap Known' : f \in Known /\ summaries'[f] = summaries[f]
<1> SUFFICES ASSUME NEW f \in sccs[j] \cap Known'
             PROVE  f \in Known /\ summaries'[f] = summaries[f]
  OBVIOUS
<1>1. idx \in DOMAIN sccs /\ Scc = sccs[idx]
  BY DEF CollapseCycle, Scc
<1>2. CASE j = idx
  <2>1. Cohesive(idx) /\ f \in Scc
    BY <1>1, <1>2 DEF PastSettled
  <2>2. f \in Known /\ Merge(Entry(f), {CycleSummary}) = Entry(f) /\ Entry(f) = summaries[f]
    BY <2>1, CollapseAbsorbed, EntryType
  <2> QED BY <2>1, <2>2, CollapseEffect
<1>3. CASE j # idx
  <2>1. f \notin Scc
    BY <1>1, <1>3, ComponentsDisjoint
  <2> QED BY <2>1, CollapseEffect
<1> QED BY <1>2, <1>3

\* ... and so does pushing to callers, by the order of the list.
LEMMA PushLeavesPast ==
    ASSUME TypeOK, OrderOK, PastSettled, PushToCallers,
           NEW j \in DOMAIN sccs, Past(j)
    PROVE  \A f \in sccs[j] \cap Known' : f \in Known /\ summaries'[f] = summaries[f]
<1> SUFFICES ASSUME NEW f \in sccs[j] \cap Known'
             PROVE  f \in Known /\ summaries'[f] = summaries[f]
  OBVIOUS
<1>1. idx \in DOMAIN sccs /\ Scc = sccs[idx]
  BY DEF PushToCallers, TypeOK, Scc
<1>2. CASE f \notin Callers
  BY <1>2, PushEffect
<1>3. CASE f \in Callers
  <2>1. f \notin Scc /\ Callees(callGraph, f) \cap Scc # {}
    BY <1>3 DEF Callers, CalledMembers
  <2>2. ~(j < idx)
    BY <1>1, <2>1 DEF OrderOK, CalleeFirst
  <2>3. passes >= 2
    BY <2>2 DEF Past
  <2>4. Settled(idx)
    BY <1>1, <2>3 DEF PastSettled, Past
  <2>5. f \in Known /\ Merge(Entry(f), {summaries[m] : m \in CalledMembers(f)}) = summaries[f]
    BY <1>3, <2>4, PushAbsorbed, EntryType
  <2> QED BY <1>3, <2>5, PushEffect
<1> QED BY <1>2, <1>3

\* The initial states satisfy the invariant.
LEMMA LoopInvInit == Init => LoopInv /\ TwoPassesSuffice
<1> SUFFICES ASSUME Init PROVE LoopInv /\ TwoPassesSuffice
  OBVIOUS
<1>1. TypeOK
  BY TypeInit
<1>2. LocalKept
  BY DEF Init, LocalKept, Leq
<1>3. PastSettled
  BY <1>1 DEF Init, PastSettled, Past, TypeOK
<1>4. LoopControl
  BY DEF Init, LoopControl
<1> QED BY <1>2, <1>3, <1>4 DEF Init, LoopInv, TwoPassesSuffice

\* Local summaries stay covered while summaries grow.
LEMMA LocalKeptStep ==
    ASSUME TypeOK, TypeOK', local' = local, LocalKept,
           Known \subseteq Known',
           \A f \in Known : Leq(summaries[f], summaries'[f])
    PROVE  LocalKept'
<1> SUFFICES ASSUME NEW f \in DOMAIN local PROVE Leq(local[f], summaries'[f])
  BY DEF LocalKept, Leq
<1>1. f \in Known /\ f \in Known' /\ local[f] \in Seeds
  BY DEF TypeOK
<1>2. local[f] \in Summary /\ summaries[f] \in Summary /\ summaries'[f] \in Summary
  BY <1>1, SeedsAreSummaries DEF TypeOK
<1> QED BY <1>1, <1>2, LeqTransitive DEF LocalKept

\* Collapsing a cycle preserves the invariant.
LEMMA CollapseKeepsInv ==
    ASSUME Inv, TypeOK', CollapseCycle
    PROVE  LoopInv' /\ TwoPassesSuffice'
<1> USE DEF Inv
<1>1. /\ callGraph' = callGraph /\ local' = local /\ sccs' = sccs
      /\ idx' = idx /\ passes' = passes /\ pc = "collapse" /\ pc' = "push"
      /\ idx \in DOMAIN sccs /\ IsCycle(Scc) /\ Scc = sccs[idx]
  BY DEF CollapseCycle, inputs, Scc
<1>2. LocalKept /\ PastSettled /\ LoopControl
  BY <1>1 DEF LoopInv
<1>3. Known \subseteq Known' /\ \A f \in Known : Leq(summaries[f], summaries'[f])
  BY CollapseGrows
<1>4. LocalKept'
  BY <1>1, <1>2, <1>3, LocalKeptStep
<1>5. PastSettled'
  <2> SUFFICES ASSUME NEW j \in DOMAIN sccs, Past(j)
               PROVE  Settled(j)' /\ Cohesive(j)'
    BY <1>1 DEF PastSettled, Past
  <2>1. Settled(j) /\ Cohesive(j)
    BY <1>2 DEF PastSettled
  <2>2. \A f \in sccs[j] \cap Known' : f \in Known /\ summaries'[f] = summaries[f]
    BY <1>2, CollapseLeavesPast
  <2> QED BY <1>1, <1>3, <2>1, <2>2, SettledKept
<1>6. Cohesive(idx)'
  <2> DEFINE c == CycleSummary
  <2>1. c \in Summary /\ c.isConservative /\ {c} \in SUBSET Summary
    BY CycleSummaryType
  <2>2. ASSUME NEW m \in Scc
        PROVE  /\ Entry(m) \in Summary /\ Leq(Entry(m), c)
               /\ summaries'[m] = Merge(Entry(m), {c}) /\ m \in Known'
    <3>1. Entry(m) \in Summary /\ (m \in Known => Entry(m) = summaries[m])
      BY EntryType
    <3>2. CASE m \in Known
      BY <3>1, <3>2, CycleSummaryType, CollapseEffect
    <3>3. CASE m \notin Known
      <4>1. Leq(Entry(m), c)
        BY <3>3 DEF Entry, NewSummary, Leq
      <4> QED BY <3>1, <4>1, CollapseEffect
    <3> QED BY <3>2, <3>3
  <2> HIDE DEF c
  <2>3. Leq(c, c)
    BY DEF Leq
  <2>4. ASSUME NEW m \in Scc
        PROVE  Leq(summaries'[m], c) /\ Leq(c, summaries'[m]) /\ summaries'[m] \in Summary
    BY <2>1, <2>2, <2>3, MergeLeast, MergeUpperBound, MergeFields
  <2>5. \A m, h \in Scc : Leq(summaries'[h], summaries'[m]) /\ summaries'[m].isConservative
    <3> SUFFICES ASSUME NEW m \in Scc, NEW h \in Scc
                 PROVE  Leq(summaries'[h], summaries'[m]) /\ summaries'[m].isConservative
      OBVIOUS
    <3>1. Leq(summaries'[h], summaries'[m])
      BY <2>1, <2>4, LeqTransitive
    <3>2. summaries'[m].isConservative
      BY <2>1, <2>4 DEF Leq
    <3> QED BY <3>1, <3>2
  <2> QED BY <1>1, <2>2, <2>5 DEF Cohesive, Leq, IsCycle
<1>7. LoopControl'
  <2>1. ASSUME passes = 2 PROVE ~changed'
    <3>1. Cohesive(idx) /\ ~changed
      BY <1>1, <1>2, <2>1 DEF PastSettled, Past, LoopControl
    <3>2. \A m \in Scc : Merge(Entry(m), {CycleSummary}) = Entry(m)
      BY <3>1, CollapseAbsorbed
    <3> QED BY <3>1, <3>2 DEF CollapseCycle, Update
  <2> QED BY <1>1, <1>2, <2>1 DEF LoopControl
<1> QED BY <1>1, <1>4, <1>5, <1>6, <1>7 DEF LoopInv, TwoPassesSuffice

\* Pushing to the callers preserves the invariant and settles the component.
LEMMA PushKeepsInv ==
    ASSUME Inv, TypeOK', PushToCallers
    PROVE  LoopInv' /\ TwoPassesSuffice'
<1> USE DEF Inv
<1>1. /\ callGraph' = callGraph /\ local' = local /\ sccs' = sccs
      /\ idx' = idx + 1 /\ passes' = passes /\ pc = "push" /\ pc' = "collapse"
      /\ idx \in DOMAIN sccs /\ Scc = sccs[idx]
  BY DEF PushToCallers, inputs, Scc, TypeOK
<1> PICK k \in DOMAIN sccs : k = idx
  BY <1>1
<1>2. LocalKept /\ PastSettled /\ LoopControl /\ Cohesive(idx)
  BY <1>1 DEF LoopInv
<1>3. Known \subseteq Known' /\ \A f \in Known : Leq(summaries[f], summaries'[f])
  BY PushGrows
<1>4. LocalKept'
  BY <1>1, <1>2, <1>3, LocalKeptStep
<1>5. \A f \in Scc \cap Known' : f \in Known /\ summaries'[f] = summaries[f]
  BY PushEffect
<1>6. Settled(k)'
  <2> SUFFICES ASSUME NEW g \in Scc \cap Known',
                      NEW f \in DOMAIN callGraph \ Scc, g \in callGraph[f]
               PROVE  f \in Known' /\ Leq(summaries'[g], summaries'[f])
    BY <1>1 DEF Settled, Leq
  <2>1. g \in Known /\ summaries'[g] = summaries[g]
    BY <1>5
  <2>2. g \in CalledMembers(f) /\ f \in Callers
    BY <2>1 DEF CalledMembers, Callees, Callers
  <2>3. /\ f \in Known' /\ Entry(f) \in Summary
        /\ summaries'[f] = Merge(Entry(f), {summaries[m] : m \in CalledMembers(f)})
        /\ {summaries[m] : m \in CalledMembers(f)} \in SUBSET Summary
    BY <2>2, PushEffect, EntryType
  <2>4. summaries[g] \in {summaries[m] : m \in CalledMembers(f)}
    BY <2>2
  <2> QED BY <2>1, <2>3, <2>4, MergeUpperBound
<1>7. Cohesive(k)'
  <2>1. Cohesive(k)
    BY <1>2
  <2>2. \A f \in sccs[k] \cap Known' : f \in Known /\ summaries'[f] = summaries[f]
    BY <1>1, <1>5
  <2> QED BY <1>1, <1>3, <2>1, <2>2, SettledKept
<1>8. PastSettled'
  <2> SUFFICES ASSUME NEW j \in DOMAIN sccs, Past(j) \/ j = k
               PROVE  Settled(j)' /\ Cohesive(j)'
    BY <1>1 DEF PastSettled, Past, TypeOK
  <2>1. CASE Past(j)
    <3>1. Settled(j) /\ Cohesive(j)
      BY <1>2, <2>1 DEF PastSettled
    <3>2. \A f \in sccs[j] \cap Known' : f \in Known /\ summaries'[f] = summaries[f]
      BY <1>2, <2>1, PushLeavesPast
    <3> QED BY <1>1, <1>3, <3>1, <3>2, SettledKept
  <2> QED BY <1>6, <1>7, <2>1
<1>9. LoopControl'
  <2>1. ASSUME passes = 2 PROVE ~changed'
    <3>1. Settled(idx) /\ ~changed
      BY <1>1, <1>2, <2>1 DEF PastSettled, Past, LoopControl
    <3>2. \A f \in Callers :
             Merge(Entry(f), {summaries[m] : m \in CalledMembers(f)}) = Entry(f)
      BY <3>1, PushAbsorbed
    <3> QED BY <3>1, <3>2 DEF PushToCallers, Update
  <2> QED BY <1>1, <1>2, <2>1 DEF LoopControl
<1> QED BY <1>1, <1>4, <1>8, <1>9 DEF LoopInv, TwoPassesSuffice

\* Once a pass is over, a caller covers everything it calls.
LEMMA EdgesCovered ==
    ASSUME Inv, pc = "while", passes # 0,
           NEW f, NEW g \in Callees(callGraph, f), g \in Known
    PROVE  f \in Known /\ Leq(summaries[g], summaries[f])
<1> USE DEF Inv
<1>1. callGraph \in CallGraphOver(Functions) /\ f \in DOMAIN callGraph /\ g \in callGraph[f]
  BY DEF TypeOK, Callees
<1>2. g \in Nodes(callGraph)
  BY GraphNames, <1>1
<1>3. PICK j \in DOMAIN sccs : g \in sccs[j]
  BY <1>1, <1>2, SccCovers DEF OrderOK, CalleeFirst
<1>4. Past(j)
  BY DEF LoopInv, LoopControl, Past, TypeOK
<1>5. Settled(j) /\ Cohesive(j)
  BY <1>4 DEF LoopInv, PastSettled
<1>6. CASE f \notin sccs[j]
  BY <1>1, <1>3, <1>5, <1>6 DEF Settled
<1>7. CASE f \in sccs[j] /\ f # g
  <2>1. IsCycle(sccs[j])
    BY <1>3, <1>7, TwoMembersAreCycle DEF TypeOK
  <2> QED BY <1>3, <1>5, <1>7, <2>1 DEF Cohesive
<1>8. CASE f = g
  BY <1>8 DEF Leq
<1> QED BY <1>6, <1>7, <1>8

\* ... and so everything it can end up calling.
LEMMA ReachedCovered ==
    ASSUME Inv, pc = "while", passes # 0, NEW f \in Functions, NEW g \in Known,
           Reaches(callGraph, f, g)
    PROVE  f \in Known /\ Leq(summaries[g], summaries[f])
<1> DEFINE covered == {h \in Functions :
                         h \in Known => f \in Known /\ Leq(summaries[h], summaries[f])}
<1>1. f \in covered
  BY DEF Leq
<1>2. \A h \in Known : summaries[h] \in Summary
  BY DEF Inv, TypeOK
<1>3. CallClosed(callGraph, covered)
  <2> SUFFICES ASSUME NEW h \in covered, NEW k \in Callees(callGraph, h)
               PROVE  k \in covered
    BY DEF CallClosed
  <2>1. k \in Functions
    BY GraphNames DEF Inv, TypeOK
  <2>2. ASSUME k \in Known PROVE f \in Known /\ Leq(summaries[k], summaries[f])
    <3>1. h \in Known /\ Leq(summaries[k], summaries[h])
      BY <2>2, EdgesCovered
    <3>2. f \in Known /\ Leq(summaries[h], summaries[f])
      BY <3>1
    <3> QED BY <1>2, <2>2, <3>1, <3>2, LeqTransitive
  <2> QED BY <2>1, <2>2
<1> HIDE DEF covered
<1>4. covered \in SUBSET Functions
  BY DEF covered
<1>5. g \in covered
  BY <1>1, <1>3, <1>4, ClosedUnderReaches
<1> QED BY <1>5 DEF covered

\* The local summaries of everything a function can end up calling are covered.
LEMMA LocalsCovered ==
    ASSUME Inv, pc = "while", passes # 0, NEW f \in Functions, NEW g \in Reached(f)
    PROVE  f \in Known /\ Leq(local[g], summaries[f])
<1>1. g \in DOMAIN local /\ g \in Known /\ Reaches(callGraph, f, g)
  BY DEF Reached, Inv, TypeOK
<1>2. f \in Known /\ Leq(summaries[g], summaries[f])
  BY <1>1, ReachedCovered
<1>3. Leq(local[g], summaries[g])
  BY <1>1 DEF Inv, LoopInv, LocalKept
<1>4. local[g] \in Summary /\ summaries[g] \in Summary /\ summaries[f] \in Summary
  BY <1>1, <1>2, SeedsAreSummaries DEF Inv, TypeOK
<1> QED BY <1>2, <1>3, <1>4, LeqTransitive

\* Every step preserves the loop invariant.
LEMMA LoopInvStep ==
    Inv /\ TypeOK' /\ [Next]_vars => LoopInv' /\ TwoPassesSuffice'
<1> SUFFICES ASSUME Inv, TypeOK', [Next]_vars PROVE LoopInv' /\ TwoPassesSuffice'
  OBVIOUS
<1> USE DEF Inv
<1>1. CASE NothingToDo
  BY <1>1 DEF NothingToDo, LoopInv, TwoPassesSuffice
<1>2. CASE StartPass
  <2>1. /\ callGraph' = callGraph /\ local' = local /\ sccs' = sccs
        /\ summaries' = summaries /\ Known' = Known /\ changed
        /\ changed' = FALSE /\ idx' = 1 /\ pc = "while" /\ pc' = "collapse"
    BY <1>2 DEF StartPass, inputs, Known
  <2>2. LocalKept /\ PastSettled /\ LoopControl
    BY <2>1 DEF LoopInv
  <2>3. passes \in {0, 1} /\ passes' = passes + 1
    BY <1>2, <2>1, <2>2 DEF StartPass, LoopControl, TypeOK, PassBound
  <2>4. LocalKept'
    BY <2>1, <2>2 DEF LocalKept, Leq
  <2>5. PastSettled'
    <3> SUFFICES ASSUME NEW j \in DOMAIN sccs, Past(j)' PROVE Settled(j)' /\ Cohesive(j)'
      BY <2>1 DEF PastSettled
    <3>1. passes = 1
      BY <2>1, <2>3 DEF Past, TypeOK
    <3>2. Past(j)
      BY <2>1, <2>2, <3>1 DEF LoopControl, Past, TypeOK
    <3>3. Settled(j) /\ Cohesive(j)
      BY <2>2, <3>2 DEF PastSettled
    <3> QED BY <2>1, <3>3 DEF Settled, Cohesive, Leq, IsCycle
  <2>6. LoopControl'
    BY <2>1, <2>3 DEF LoopControl
  <2> QED BY <2>1, <2>3, <2>4, <2>5, <2>6 DEF LoopInv, TwoPassesSuffice
<1>3. CASE CollapseCycle
  BY <1>3, CollapseKeepsInv
<1>4. CASE PassSingleton
  <2>1. /\ callGraph' = callGraph /\ local' = local /\ sccs' = sccs
        /\ summaries' = summaries /\ Known' = Known /\ idx' = idx
        /\ passes' = passes /\ changed' = changed
        /\ pc = "collapse" /\ pc' = "push" /\ ~IsCycle(sccs[idx])
    BY <1>4 DEF PassSingleton, inputs, Known, Scc
  <2>2. LocalKept /\ PastSettled /\ LoopControl
    BY <2>1 DEF LoopInv
  <2>3. LocalKept' /\ PastSettled'
    BY <2>1, <2>2 DEF LocalKept, PastSettled, Past, Settled, Cohesive, Leq, IsCycle
  <2>4. LoopControl'
    BY <2>1, <2>2 DEF LoopControl
  <2>5. (pc = "push" => Cohesive(idx))'
    BY <2>1 DEF Cohesive, IsCycle
  <2> QED BY <2>1, <2>3, <2>4, <2>5 DEF LoopInv, TwoPassesSuffice
<1>5. CASE PushToCallers
  BY <1>5, PushKeepsInv
<1>6. CASE EndPass
  <2>1. /\ callGraph' = callGraph /\ local' = local /\ sccs' = sccs
        /\ summaries' = summaries /\ Known' = Known /\ idx' = idx
        /\ passes' = passes /\ changed' = changed
        /\ pc = "collapse" /\ pc' = "while" /\ idx \notin DOMAIN sccs
    BY <1>6 DEF EndPass, inputs, Known
  <2>2. LocalKept /\ PastSettled /\ LoopControl
    BY <2>1 DEF LoopInv
  <2>3. LocalKept' /\ PastSettled'
    BY <2>1, <2>2 DEF LocalKept, PastSettled, Past, Settled, Cohesive, Leq, IsCycle
  <2>4. LoopControl'
    BY <2>1, <2>2 DEF LoopControl
  <2> QED BY <2>1, <2>3, <2>4 DEF LoopInv, TwoPassesSuffice
<1>7. CASE Finalize
  BY <1>7 DEF Finalize, LoopInv, TwoPassesSuffice
<1>8. CASE UNCHANGED vars
  BY <1>8 DEF vars, LoopInv, LocalKept, PastSettled, Past, Settled, Cohesive,
              LoopControl, TwoPassesSuffice, Leq, IsCycle, Known
<1> QED BY <1>1, <1>2, <1>3, <1>4, <1>5, <1>6, <1>7, <1>8 DEF Next

\* Finishing the analysis establishes the soundness of the result.
LEMMA SoundStep ==
    Inv /\ SummariesSound /\ [Next]_vars => SummariesSound'
<1> SUFFICES ASSUME Inv, SummariesSound, [Next]_vars, pc' = "done"
             PROVE  SummariesSound'
  BY DEF SummariesSound
<1> USE DEF Inv
<1>1. CASE Finalize
  <2>1. /\ callGraph' = callGraph /\ local' = local /\ pc = "while" /\ ~changed
        /\ Known' = Known /\ \A f \in Known : summaries'[f] = Final(f)
    BY <1>1 DEF Finalize, inputs, Known
  <2>2. passes # 0
    BY <2>1 DEF LoopInv, LoopControl
  <2> SUFFICES ASSUME NEW f \in Functions, NEW g \in Reached(f)
               PROVE  /\ f \in Known
                      /\ local[g].mod \subseteq summaries'[f].mod
                      /\ local[g].ref \subseteq summaries'[f].ref
                      /\ f \notin Whitelist =>
                           /\ local[g].modifiesGlobals => summaries'[f].modifiesGlobals
                           /\ local[g].isConservative => summaries'[f].isConservative
    BY <2>1 DEF SummariesSound, Reached
  <2>3. f \in Known /\ Leq(local[g], summaries[f])
    BY <2>1, <2>2, LocalsCovered
  <2> QED BY <2>1, <2>3, FinalType DEF Leq
<1>2. CASE NothingToDo
  <2>1. /\ callGraph' = callGraph /\ local' = local /\ summaries' = summaries
        /\ pc = "while" /\ DOMAIN callGraph = {}
    BY <1>2 DEF NothingToDo, inputs
  <2> SUFFICES ASSUME NEW f \in Functions, NEW g \in Reached(f)
               PROVE  f \in Known /\ Leq(local[g], summaries[f])
    BY <2>1 DEF SummariesSound, Reached, Leq, Known
  <2>2. CallClosed(callGraph, {f})
    BY <2>1 DEF CallClosed, Callees
  <2>3. g = f /\ f \in DOMAIN local
    BY <2>2, ClosedUnderReaches DEF Reached
  <2>4. LocalKept
    BY <2>1 DEF LoopInv
  <2> QED BY <2>3, <2>4 DEF LocalKept, TypeOK
<1>3. CASE UNCHANGED vars
  BY <1>3 DEF vars, SummariesSound, Reached, Known
<1>4. CASE StartPass \/ CollapseCycle \/ PassSingleton \/ PushToCallers \/ EndPass
  BY <1>4 DEF StartPass, CollapseCycle, PassSingleton, PushToCallers, EndPass
<1> QED BY <1>1, <1>2, <1>3, <1>4 DEF Next

\* propagateBottomUp() is sound: at the end, every name that can reach an
\* effect through calls has it in its summary (both sets always, both flags
\* unless the name is whitelisted).
THEOREM Soundness == Spec => []SummariesSound
<1>1. Init => Inv /\ SummariesSound
  BY TypeInit, LoopInvInit DEF Inv, Init, SummariesSound
<1>2. Inv /\ SummariesSound /\ [Next]_vars => (Inv /\ SummariesSound)'
  BY TypeStep, LoopInvStep, SoundStep DEF Inv
<1> QED BY <1>1, <1>2, PTL DEF Spec

\* The first pass over a callee-first list reaches the fixpoint: the while
\* loop of propagateBottomUp() never runs a third time.
THEOREM TwoPasses == Spec => []TwoPassesSuffice
<1>1. Init => Inv
  BY TypeInit, LoopInvInit DEF Inv
<1>2. Inv /\ [Next]_vars => Inv'
  BY TypeStep, LoopInvStep DEF Inv
<1>3. Inv => TwoPassesSuffice
  BY DEF Inv
<1> QED BY <1>1, <1>2, <1>3, PTL DEF Spec

\* Finishing the analysis carries what is known of a cycle to all above it.
LEMMA ConservativeStep ==
    Inv /\ ConservativeAboveCycles /\ [Next]_vars => ConservativeAboveCycles'
<1> SUFFICES ASSUME Inv, ConservativeAboveCycles, [Next]_vars, pc' = "done"
             PROVE  ConservativeAboveCycles'
  BY DEF ConservativeAboveCycles
<1> USE DEF Inv
<1>1. CASE Finalize
  <2>1. /\ callGraph' = callGraph /\ pc = "while" /\ ~changed
        /\ Known' = Known /\ \A f \in Known : summaries'[f] = Final(f)
    BY <1>1 DEF Finalize, inputs, Known
  <2>2. passes # 0
    BY <2>1 DEF LoopInv, LoopControl
  <2> SUFFICES ASSUME NEW f \in Functions \ Whitelist, NEW g \in Nodes(callGraph),
                      Reaches(callGraph, f, g), IsCycle(SccOf(callGraph, g))
               PROVE  f \in Known /\ summaries'[f].isConservative
    BY <2>1 DEF ConservativeAboveCycles, IsCycle
  <2>3. PICK j \in DOMAIN sccs : sccs[j] = SccOf(callGraph, g) /\ g \in sccs[j]
    BY SccCovers DEF OrderOK, CalleeFirst, TypeOK
  <2>4. Past(j)
    BY <2>1, <2>2 DEF LoopInv, LoopControl, Past, TypeOK
  <2>5. Cohesive(j)
    BY <2>1, <2>4 DEF LoopInv, PastSettled
  <2>6. g \in Known /\ summaries[g].isConservative
    BY <2>3, <2>5 DEF Cohesive
  <2>7. f \in Known /\ Leq(summaries[g], summaries[f])
    BY <2>1, <2>2, <2>6, ReachedCovered
  <2>8. summaries[f].isConservative
    BY <2>6, <2>7 DEF Leq
  <2> QED BY <2>1, <2>7, <2>8, FinalType
<1>2. CASE NothingToDo
  <2>1. callGraph' = callGraph /\ DOMAIN callGraph = {}
    BY <1>2 DEF NothingToDo, inputs
  <2>2. Nodes(callGraph) = {}
    BY <2>1 DEF Nodes
  <2> QED BY <2>1, <2>2 DEF ConservativeAboveCycles
<1>3. CASE UNCHANGED vars
  BY <1>3 DEF vars, ConservativeAboveCycles, IsCycle, Known
<1>4. CASE StartPass \/ CollapseCycle \/ PassSingleton \/ PushToCallers \/ EndPass
  BY <1>4 DEF StartPass, CollapseCycle, PassSingleton, PushToCallers, EndPass
<1> QED BY <1>1, <1>2, <1>3, <1>4 DEF Next

\* The over-approximation of a cycle is not lost on the way up: who can end up
\* in a recursive cycle is conservative at the end, in every call graph.
THEOREM CyclesShow == Spec => []ConservativeAboveCycles
<1>1. Init => Inv /\ ConservativeAboveCycles
  BY TypeInit, LoopInvInit DEF Inv, Init, ConservativeAboveCycles
<1>2. Inv /\ ConservativeAboveCycles /\ [Next]_vars => (Inv /\ ConservativeAboveCycles)'
  BY TypeStep, LoopInvStep, ConservativeStep DEF Inv
<1> QED BY <1>1, <1>2, PTL DEF Spec

-----------------------------------------------------------------------------
(* Precision.                                                              *)

\* What justifies an item for a callee justifies it for its callers.
LEMMA JustifiedUp ==
    ASSUME TypeOK, NEW f \in Functions, NEW m \in Functions,
           Reaches(callGraph, f, m), NEW s, Justified(m, s)
    PROVE  Justified(f, s)
<1>1. \A g \in Functions : Reaches(callGraph, m, g) => Reaches(callGraph, f, g)
  BY ReachesTransitive
<1>2. Reached(m) \subseteq Reached(f)
  BY <1>1 DEF Reached, TypeOK
<1>3. Nodes(callGraph) \subseteq Functions
  BY GraphNames DEF TypeOK
<1> QED BY <1>1, <1>2, <1>3 DEF Justified

\* A merge is justified when its parts are.
LEMMA JustifiedMerge ==
    ASSUME NEW f, NEW dst \in Summary, NEW sources \in SUBSET Summary,
           Justified(f, dst), \A s \in sources : Justified(f, s)
    PROVE  Justified(f, Merge(dst, sources))
<1> DEFINE m == Merge(dst, sources)
<1>1. /\ m.mod = dst.mod \cup UNION {s.mod : s \in sources}
      /\ m.ref = dst.ref \cup UNION {s.ref : s \in sources}
      /\ m.modifiesGlobals => dst.modifiesGlobals \/ \E s \in sources : s.modifiesGlobals
      /\ m.isConservative => dst.isConservative \/ \E s \in sources : s.isConservative
  BY MergeFields
<1> HIDE DEF m
<1>2. \A v \in m.mod : v \in dst.mod \/ \E s \in sources : v \in s.mod
  BY <1>1
<1>3. \A v \in m.ref : v \in dst.ref \/ \E s \in sources : v \in s.ref
  BY <1>1
<1>4. \A v \in m.mod : \E g \in Reached(f) : v \in local[g].mod
  BY <1>2 DEF Justified
<1>5. \A v \in m.ref : \E g \in Reached(f) : v \in local[g].ref
  BY <1>3 DEF Justified
<1>6. m.modifiesGlobals => \E g \in Reached(f) : local[g].modifiesGlobals
  BY <1>1 DEF Justified
<1>7. m.isConservative =>
          \/ \E g \in Reached(f) : local[g].isConservative
          \/ \E g \in Nodes(callGraph) :
                Reaches(callGraph, f, g) /\ IsCycle(SccOf(callGraph, g))
  BY <1>1 DEF Justified
<1>8. Justified(f, m)
  BY <1>4, <1>5, <1>6, <1>7 DEF Justified
<1> QED BY <1>8 DEF m

\* A present or new entry is justified.
LEMMA JustifiedEntry ==
    ASSUME SummariesPrecise, NEW f
    PROVE  Justified(f, Entry(f))
BY DEF SummariesPrecise, Entry, NewSummary, Justified

\* Collapsing a cycle gives each member only what members it reaches have.
LEMMA PreciseCollapse ==
    ASSUME TypeOK, OrderOK, SummariesPrecise, CollapseCycle, NEW m \in Scc
    PROVE  Justified(m, summaries'[m])
<1> DEFINE sources == {summaries[h] : h \in Scc \cap Known}
           union == Merge(NewSummary, sources)
<1>1. /\ callGraph \in CallGraphOver(Functions) /\ Scc \in Sccs(callGraph) /\ IsCycle(Scc)
      /\ Scc \subseteq Functions /\ m \in Nodes(callGraph)
  <2>1. callGraph \in CallGraphOver(Functions) /\ Scc \in Sccs(callGraph) /\ IsCycle(Scc)
    BY DEF CollapseCycle, OrderOK, TypeOK, Scc
  <2> QED BY <2>1, CollapseEffect, GraphNames
<1>2. \A h \in Scc \cap Known : Justified(m, summaries[h])
  BY <1>1, SccMembers, JustifiedUp DEF SummariesPrecise
<1>3. Justified(m, NewSummary)
  BY DEF NewSummary, Justified
<1>4. sources \in SUBSET Summary /\ \A s \in sources : Justified(m, s)
  BY <1>2, SourcesType
<1>5. union \in Summary /\ Justified(m, union)
  BY <1>3, <1>4, NewSummaryType, JustifiedMerge, MergeFields
<1>6. CycleSummary = [union EXCEPT !.isConservative = TRUE]
  BY DEF CycleSummary
<1>7. \E g \in Nodes(callGraph) :
         Reaches(callGraph, m, g) /\ IsCycle(SccOf(callGraph, g))
  BY <1>1, SccMembers, ReachesSelf
<1> HIDE DEF union
<1>8. /\ CycleSummary.mod = union.mod /\ CycleSummary.ref = union.ref
      /\ CycleSummary.modifiesGlobals = union.modifiesGlobals
  BY <1>5, <1>6 DEF Summary
<1>9. Justified(m, CycleSummary)
  BY <1>5, <1>7, <1>8 DEF Justified
<1>10. summaries'[m] = Merge(Entry(m), {CycleSummary})
  BY CollapseEffect
<1> QED BY <1>9, <1>10, JustifiedEntry, EntryType, CycleSummaryType, JustifiedMerge

\* Pushing gives a caller only what its callees have.
LEMMA PrecisePush ==
    ASSUME TypeOK, OrderOK, SummariesPrecise, PushToCallers, NEW f \in Callers
    PROVE  Justified(f, summaries'[f])
<1> DEFINE sources == {summaries[m] : m \in CalledMembers(f)}
<1>1. f \in Functions
  BY PushEffect
<1>2. \A m \in CalledMembers(f) :
         m \in Known /\ m \in Functions /\ Reaches(callGraph, f, m)
  BY <1>1, ReachesCallee DEF CalledMembers, TypeOK
<1>3. \A m \in CalledMembers(f) : Justified(f, summaries[m])
  BY <1>1, <1>2, JustifiedUp DEF SummariesPrecise
<1>4. sources \in SUBSET Summary /\ \A s \in sources : Justified(f, s)
  BY <1>3, PushEffect
<1>5. summaries'[f] = Merge(Entry(f), sources)
  BY PushEffect
<1> HIDE DEF sources
<1> QED BY <1>4, <1>5, JustifiedEntry, EntryType, JustifiedMerge

\* Every step preserves precision.
LEMMA PreciseStep ==
    TypeOK /\ OrderOK /\ SummariesPrecise /\ [Next]_vars => SummariesPrecise'
<1> SUFFICES ASSUME TypeOK, OrderOK, SummariesPrecise, [Next]_vars,
                    NEW f \in Known'
             PROVE  Justified(f, summaries[f])'
  BY DEF SummariesPrecise
<1>1. callGraph' = callGraph /\ local' = local
  BY DEF Next, vars, inputs, NothingToDo, StartPass, CollapseCycle,
         PassSingleton, PushToCallers, EndPass, Finalize
<1> SUFFICES Justified(f, summaries'[f])
  BY <1>1 DEF Justified, Reached, IsCycle
<1>2. CASE CollapseCycle
  BY <1>2, CollapseEffect, PreciseCollapse DEF SummariesPrecise
<1>3. CASE PushToCallers
  BY <1>3, PushEffect, PrecisePush DEF SummariesPrecise
<1>4. CASE Finalize
  <2>1. f \in Known /\ summaries'[f] = Final(f)
    BY <1>4 DEF Finalize, Known
  <2>2. Justified(f, summaries[f])
    BY <2>1 DEF SummariesPrecise
  <2> QED BY <2>1, <2>2, FinalType DEF Justified
<1>5. CASE NothingToDo \/ StartPass \/ PassSingleton \/ EndPass \/ UNCHANGED vars
  BY <1>5 DEF NothingToDo, StartPass, PassSingleton, EndPass, vars, Known,
              SummariesPrecise
<1> QED BY <1>2, <1>3, <1>4, <1>5 DEF Next

\* propagateBottomUp() is precise in every state: a summary holds nothing that
\* no function reachable through calls put there.
THEOREM Precision == Spec => []SummariesPrecise
<1>1. Init => SummariesPrecise
  <2> SUFFICES ASSUME Init, NEW f \in Known PROVE Justified(f, summaries[f])
    BY DEF SummariesPrecise
  <2>1. f \in Functions /\ f \in DOMAIN local /\ local = summaries
    BY TypeInit DEF Init, Known, TypeOK
  <2>2. f \in Reached(f)
    BY <2>1, ReachesSelf DEF Reached
  <2> QED BY <2>1, <2>2 DEF Justified
<1>2. Init => TypeOK /\ OrderOK /\ SummariesPrecise
  BY <1>1, TypeInit
<1>3. TypeOK /\ OrderOK /\ SummariesPrecise /\ [Next]_vars
         => (TypeOK /\ OrderOK /\ SummariesPrecise)'
  BY TypeStep, PreciseStep
<1> QED BY <1>2, <1>3, PTL DEF Spec

-----------------------------------------------------------------------------
(* Purity.                                                                 *)

\* Purity is decided by the final sets and the final flag.
PurityDecided ==
    pc = "done" /\ DOMAIN callGraph # {} =>
        \A f \in Known \ Whitelist :
            summaries[f].isPure = (summaries[f].mod = {} /\ ~summaries[f].modifiesGlobals)

\* Only the last step decides it.
LEMMA PurityStep ==
    TypeOK /\ OrderOK /\ PurityDecided /\ [Next]_vars => PurityDecided'
<1> SUFFICES ASSUME TypeOK, OrderOK, PurityDecided, [Next]_vars,
                    pc' = "done", DOMAIN callGraph' # {}, NEW f \in Known' \ Whitelist
             PROVE  summaries'[f].isPure
                      = (summaries'[f].mod = {} /\ ~summaries'[f].modifiesGlobals)
  BY DEF PurityDecided
<1>1. CASE Finalize
  <2>1. f \in Known /\ summaries'[f] = Final(f)
    BY <1>1 DEF Finalize, Known
  <2> QED BY <2>1, FinalType
<1>2. CASE UNCHANGED vars
  BY <1>2 DEF vars, PurityDecided, Known
<1>3. CASE NothingToDo \/ StartPass \/ CollapseCycle \/ PassSingleton
           \/ PushToCallers \/ EndPass
  BY <1>3 DEF NothingToDo, StartPass, CollapseCycle, PassSingleton,
              PushToCallers, EndPass, inputs
<1> QED BY <1>1, <1>2, <1>3 DEF Next

\* A decided purity is exact, because the summary is sound and precise.
LEMMA PurityExact ==
    ASSUME TypeOK, PurityDecided, SummariesSound, SummariesPrecise
    PROVE  PureExactly
<1> SUFFICES ASSUME pc = "done", DOMAIN callGraph # {}, NEW f \in Known \ Whitelist
             PROVE  summaries[f].isPure <=>
                      \A g \in Reached(f) : local[g].mod = {} /\ ~local[g].modifiesGlobals
  BY DEF PureExactly
<1>1. f \in Functions /\ summaries[f] \in Summary
  BY DEF TypeOK
<1>2. summaries[f].isPure = (summaries[f].mod = {} /\ ~summaries[f].modifiesGlobals)
  BY DEF PurityDecided
<1>3. \A g \in Reached(f) :
         /\ local[g].mod \subseteq summaries[f].mod
         /\ local[g].modifiesGlobals => summaries[f].modifiesGlobals
  BY <1>1 DEF SummariesSound
<1>4. /\ \A v \in summaries[f].mod : \E g \in Reached(f) : v \in local[g].mod
      /\ summaries[f].modifiesGlobals => \E g \in Reached(f) : local[g].modifiesGlobals
  BY DEF SummariesPrecise, Justified
<1>5. ASSUME summaries[f].isPure, NEW g \in Reached(f)
      PROVE  local[g].mod = {} /\ ~local[g].modifiesGlobals
  BY <1>2, <1>3, <1>5
<1>6. ASSUME \A g \in Reached(f) : local[g].mod = {} /\ ~local[g].modifiesGlobals
      PROVE  summaries[f].isPure
  <2>1. summaries[f].mod = {}
    BY <1>4, <1>6
  <2>2. ~summaries[f].modifiesGlobals
    BY <1>4, <1>6
  <2> QED BY <1>2, <2>1, <2>2
<1> QED BY <1>5, <1>6

\* A function not on the whitelist is reported pure exactly when nothing it
\* can end up calling writes a variable or may write globals, in every graph.
THEOREM PurityIsExact == Spec => []PureExactly
<1>1. Init => TypeOK /\ OrderOK /\ PurityDecided
  BY TypeInit DEF Init, PurityDecided
<1>2. TypeOK /\ OrderOK /\ PurityDecided /\ [Next]_vars
         => (TypeOK /\ OrderOK /\ PurityDecided)'
  BY TypeStep, PurityStep
<1>3. TypeOK /\ PurityDecided /\ SummariesSound /\ SummariesPrecise => PureExactly
  BY PurityExact
<1> QED BY <1>1, <1>2, <1>3, Soundness, Precision, PTL DEF Spec
=============================================================================
