-------------------- MODULE InterproceduralAnalysisProofs --------------------
(***************************************************************************)
(* What analyze() promises of the program, for every program, on both of   *)
(* its paths and, where the theorem does not say otherwise, also after a   *)
(* phase that failed.  The phases before the propagation                   *)
(* are followed one by one; the propagation is that of ModRefPropagation,  *)
(* whose lemmas are used here for the local summaries the phases leave.    *)
(* The last part is about the verdicts, with the lemmas about the checker. *)
(***************************************************************************)
EXTENDS Classification, SequenceTheorems, TLAPS

\* The propagation with its proofs.
Fixpoint == INSTANCE ModRefPropagationProofs WITH Seeds <- Propagation!Summary

-----------------------------------------------------------------------------
(* The invariant.                                                          *)

\* The propagation has not begun.
Unbegun == idx = 1 /\ changed = TRUE /\ passes = 0

\* From the first phase that knows it on, the graph is that of the program's
\* calls under the names of the program, and whatever is summarised is in it.
GraphInv ==
    /\ DOMAIN callGraph \subseteq Functions
    /\ callGraph \in [DOMAIN callGraph -> SUBSET Functions]
    /\ DOMAIN ir \subseteq DOMAIN callGraph
    /\ \A f \in Names : Callees(callGraph, f) = Callees(ProgramCalls, f)
    /\ project = "built" => DOMAIN callGraph \cap Names \subseteq DOMAIN ir

\* The names with a summary are in the graph; conversely unless a phase failed.
KnownInGraph(known) ==
    /\ known \subseteq Nodes(callGraph)
    /\ ~failed => Nodes(callGraph) \subseteq known

\* What is known locally of a function under its plain name.
LocalOf(f) ==
    IF f \in Defined /\ project # "built" THEN LoopSummary(f)
    ELSE IF f \in Defined /\ failed THEN Propagation!NewSummary
    ELSE Unknown(f)

\* Under plain names ROSE has computed nothing: what there is, is swept up.
SweptInv ==
    /\ summaries \in [Known -> Propagation!Summary]
    /\ KnownInGraph(Known)
    /\ \A f \in Known \cap Names : ~failed /\ summaries[f] = Unknown(f)

SeededInv ==
    /\ local \in [DOMAIN local -> Propagation!Summary]
    /\ KnownInGraph(DOMAIN local)
    /\ DOMAIN ir \subseteq DOMAIN local
    /\ \A f \in DOMAIN local \cap Names : local[f] = LocalOf(f)

\* The list so far: components, each once, none calling a later one.
ListInv ==
    /\ sccs \in Seq(Sccs(callGraph))
    /\ CallClosed(callGraph, UNION Order!Listed)
    /\ \A i, j \in DOMAIN sccs : i < j =>
          /\ sccs[i] # sccs[j]
          /\ \A f \in sccs[i] : Callees(callGraph, f) \cap sccs[j] = {}

Running == pc \in {"while", "collapse", "push", "done"}

PhaseInv ==
    /\ ir \in Programs /\ project \in {"none", "broken", "built"} /\ failed \in BOOLEAN
    /\ pc \in {"start", "augment", "records", "seed", "order",
               "while", "collapse", "push", "done"}
    /\ pc \in {"start", "augment", "records"} => ~failed /\ summaries = <<>>
    /\ pc \in {"start", "augment", "records", "seed"} => local = <<>> /\ sccs = <<>>
    /\ ~Running => Unbegun
    /\ failed => project = "built"
    /\ pc = "start" => callGraph = <<>>
    /\ pc \in {"augment", "records", "seed"} => project = "built"
    /\ pc = "augment" => callGraph = [q \in {Qualified[f] : f \in DOMAIN ir} |-> {}]
    /\ pc \notin {"start", "augment"} => GraphInv
    /\ pc = "records" => \A f \in DOMAIN ir : Qualified[f] \in DOMAIN callGraph
    /\ pc = "seed" => SweptInv
    /\ pc \notin {"start", "augment", "records", "seed"} => SeededInv
    /\ pc = "order" => summaries = local /\ ListInv
    /\ Running => /\ Known \subseteq Nodes(callGraph)
                  /\ Known \subseteq DOMAIN local \cup DOMAIN callGraph

FixpointInv ==
    /\ Fixpoint!Inv
    /\ Fixpoint!SummariesSound
    /\ Fixpoint!SummariesPrecise
    /\ Fixpoint!PurityDecided

IInv == PhaseInv /\ (Running => FixpointInv)

-----------------------------------------------------------------------------
(* The definitions that come with the instances are those of this module.  *)

\* What the lemmas of the propagation assume.
LEMMA FixpointAssumptions ==
    Fixpoint!IsFiniteSet(Functions) /\ Propagation!Summary \subseteq Fixpoint!Summary
BY FunctionsFinite DEF Fixpoint!Summary, Propagation!Summary, Fixpoint!IsFiniteSet, IsFiniteSet

\* Call graphs.
LEMMA SameGraphs ==
    /\ \A graph : Order!Sccs(graph) = Sccs(graph) /\ Fixpoint!Sccs(graph) = Sccs(graph)
    /\ \A graph : Fixpoint!Nodes(graph) = Nodes(graph)
    /\ \A graph, f : /\ Order!Callees(graph, f) = Callees(graph, f)
                      /\ Fixpoint!Callees(graph, f) = Callees(graph, f)
    /\ \A graph, f, g : Fixpoint!Reaches(graph, f, g) <=> Reaches(graph, f, g)
    /\ Fixpoint!CallGraphOver(Functions) = CallGraphOver(Functions)
BY DEF Order!Sccs, Order!SccOf, Order!Nodes, Order!Reaches, Order!CallClosed,
       Order!Callees, Fixpoint!Sccs, Fixpoint!SccOf, Fixpoint!Nodes, Fixpoint!Reaches,
       Fixpoint!CallClosed, Fixpoint!Callees, Fixpoint!CallGraphOver,
       Sccs, SccOf, Nodes, Reaches, CallClosed, Callees, CallGraphOver

\* So what the lemmas of the propagation say of them holds here.
LEMMA GraphNames ==
    ASSUME NEW graph \in CallGraphOver(Functions)
    PROVE  /\ DOMAIN graph \subseteq Functions
           /\ Nodes(graph) \subseteq Functions
           /\ \A f : Callees(graph, f) \subseteq Nodes(graph)
           /\ Sccs(graph) \subseteq SUBSET Nodes(graph)
BY Fixpoint!GraphNames, FixpointAssumptions, SameGraphs

LEMMA ReachesSelf ==
    ASSUME NEW graph, NEW f \in Functions
    PROVE  Reaches(graph, f, f)
BY DEF Reaches

\* Summaries.
LEMMA SameSummaries ==
    /\ Fixpoint!Summary = Propagation!Summary
    /\ Fixpoint!NewSummary = Propagation!NewSummary
    /\ Fixpoint!Known = Known /\ Propagation!Known = Known
BY DEF Fixpoint!Summary, Propagation!Summary, Fixpoint!NewSummary,
       Propagation!NewSummary, Fixpoint!Known, Propagation!Known, Known

\* The steps of the propagation.
LEMMA SameSteps == Propagation!Next => Fixpoint!Next
<1>1. \A C : Propagation!IsCycle(C) = Fixpoint!IsCycle(C)
  BY DEF Propagation!IsCycle, Fixpoint!IsCycle, Propagation!Cardinality, Fixpoint!Cardinality
<1>2. Propagation!CollapseCycle => Fixpoint!CollapseCycle
  BY <1>1 DEF Propagation!CollapseCycle, Fixpoint!CollapseCycle, Propagation!inputs,
     Fixpoint!inputs, Propagation!Scc, Fixpoint!Scc, Propagation!Update, Fixpoint!Update,
     Propagation!CycleSummary, Fixpoint!CycleSummary, Propagation!Entry, Fixpoint!Entry,
     Propagation!Merge, Fixpoint!Merge, Propagation!Known, Fixpoint!Known,
     Propagation!NewSummary, Fixpoint!NewSummary
<1>3. Propagation!PushToCallers => Fixpoint!PushToCallers
  BY DEF Propagation!PushToCallers, Fixpoint!PushToCallers, Propagation!inputs,
     Fixpoint!inputs, Propagation!Scc, Fixpoint!Scc, Propagation!Update, Fixpoint!Update,
     Propagation!Entry, Fixpoint!Entry, Propagation!Merge, Fixpoint!Merge,
     Propagation!Known, Fixpoint!Known, Propagation!NewSummary, Fixpoint!NewSummary,
     Propagation!Callers, Fixpoint!Callers, Propagation!CalledMembers,
     Fixpoint!CalledMembers, Propagation!Callees, Fixpoint!Callees
<1>4. Propagation!Finalize => Fixpoint!Finalize
  BY DEF Propagation!Finalize, Fixpoint!Finalize, Propagation!inputs, Fixpoint!inputs,
     Propagation!Known, Fixpoint!Known, Propagation!Final, Fixpoint!Final
<1>5. Propagation!PassSingleton => Fixpoint!PassSingleton
  BY <1>1 DEF Propagation!PassSingleton, Fixpoint!PassSingleton, Propagation!inputs,
     Fixpoint!inputs, Propagation!Scc, Fixpoint!Scc
<1>6. Propagation!EndPass \/ Propagation!StartPass \/ Propagation!NothingToDo
         => Fixpoint!EndPass \/ Fixpoint!StartPass \/ Fixpoint!NothingToDo
  BY DEF Propagation!NothingToDo, Fixpoint!NothingToDo, Propagation!StartPass,
     Fixpoint!StartPass, Propagation!EndPass, Fixpoint!EndPass, Propagation!inputs,
     Fixpoint!inputs, Propagation!PassBound, Fixpoint!PassBound
<1> QED BY <1>2, <1>3, <1>4, <1>5, <1>6 DEF Propagation!Next, Fixpoint!Next

-----------------------------------------------------------------------------
(* The phases before the propagation.                                      *)

LEMMA ProgramFacts ==
    ASSUME ir \in Programs
    PROVE  /\ DOMAIN ir \subseteq Names /\ Names \subseteq Functions
           /\ Defined \subseteq DOMAIN ir
           /\ \A f \in DOMAIN ir : /\ ir[f].calls \subseteq Names
                                   /\ ir[f].mod \subseteq Vars /\ ir[f].ref \subseteq Vars
           /\ \A f \in DOMAIN ir : Qualified[f] \in Functions \ Names
BY ProgramsTyped, NamesAreFunctions DEF FunctionIR, Defined

\* The fields of what a phase enters.
LEMMA EntryFacts ==
    ASSUME ir \in Programs
    PROVE  /\ Propagation!NewSummary \in Propagation!Summary
           /\ \A f \in Defined : LoopSummary(f) \in Propagation!Summary
           /\ \A f : /\ Unknown(f) \in Propagation!Summary
                     /\ Unknown(f).mod = {}
                     /\ f \notin Whitelist => Unknown(f) = UnknownSummary
                     /\ f \in Whitelist => ~Unknown(f).modifiesGlobals
           /\ \A f \in Defined : /\ LoopSummary(f).mod = ir[f].mod
                                 /\ ~LoopSummary(f).modifiesGlobals
           /\ UnknownSummary \in Propagation!Summary
           /\ UnknownSummary.modifiesGlobals /\ UnknownSummary.isConservative
           /\ ~UnknownSummary.isPure /\ UnknownSummary.mod = {}
BY ProgramFacts DEF Propagation!NewSummary, Propagation!Summary, LoopSummary, Unknown,
                    UnknownSummary

\* No component is listed yet.
LEMMA EmptyList == sccs = <<>> => ListInv
<1> SUFFICES ASSUME sccs = <<>> PROVE ListInv
  OBVIOUS
<1>1. DOMAIN sccs = {} /\ sccs \in Seq(Sccs(callGraph))
  BY EmptySeq
<1>2. Order!Listed = {}
  BY <1>1 DEF Order!Listed
<1> QED BY <1>1, <1>2 DEF ListInv, CallClosed

LEMMA InitInv == Init => IInv
<1> SUFFICES ASSUME Init PROVE IInv
  OBVIOUS
<1> QED BY DEF Init, IInv, PhaseInv, Running, Unbegun

\* The graph that analyzeFromIR() builds has the calls of the program.
LEMMA FromIRKeeps == ASSUME IInv, AnalyzeFromIR PROVE IInv'
<1> USE DEF IInv
<1> DEFINE keys == DOMAIN ir \cup UNION {ir[f].calls : f \in DOMAIN ir}
<1>1. /\ pc = "start" /\ pc' = "order" /\ project \in {"none", "broken"} /\ ~failed
      /\ ir \in Programs /\ sccs = <<>> /\ Unbegun
      /\ ir' = ir /\ project' = project /\ failed' = failed /\ sccs' = sccs
      /\ idx' = idx /\ changed' = changed /\ passes' = passes
  BY DEF AnalyzeFromIR, PhaseInv, given, fixpoint, Running
<1>2. /\ callGraph' = [f \in keys |-> IF f \in DOMAIN ir THEN ir[f].calls ELSE {}]
      /\ summaries' = [f \in keys |-> IF f \in Defined THEN LoopSummary(f) ELSE Unknown(f)]
      /\ local' = summaries'
  BY DEF AnalyzeFromIR
<1>3. keys \subseteq Names /\ DOMAIN ir \subseteq keys
  BY <1>1, ProgramFacts
<1>4. \A f \in keys : callGraph'[f] \subseteq keys
  BY <1>2
<1> HIDE DEF keys
<1>5. GraphInv'
  <2>1. callGraph' \in [keys -> SUBSET Functions] /\ keys \subseteq Functions
    BY <1>1, <1>2, <1>3, ProgramFacts
  <2>2. \A f \in Names : Callees(callGraph', f) = Callees(ProgramCalls, f)
    BY <1>2, <1>3 DEF Callees, ProgramCalls
  <2>3. ProgramCalls' = ProgramCalls
    BY <1>1 DEF ProgramCalls
  <2> QED BY <1>1, <1>2, <1>3, <2>1, <2>2, <2>3 DEF GraphInv
<1>6. SeededInv'
  <2>1. Nodes(callGraph') = keys
    BY <1>2, <1>4 DEF Nodes
  <2>2. KnownInGraph(DOMAIN local)'
    BY <1>2, <2>1 DEF KnownInGraph
  <2>3. local' \in [keys -> Propagation!Summary]
    BY <1>1, <1>2, EntryFacts
  <2>4. \A f \in keys : local'[f] = LocalOf(f)'
    BY <1>1, <1>2 DEF LocalOf, Defined, LoopSummary, Unknown
  <2> QED BY <1>1, <1>2, <1>3, <2>2, <2>3, <2>4 DEF SeededInv
<1>7. ListInv'
  <2>1. (sccs = <<>>)'
    BY <1>1
  <2> QED BY <2>1, EmptyList, PTL
<1> QED BY <1>1, <1>2, <1>5, <1>6, <1>7 DEF PhaseInv, Running, Unbegun

LEMMA BuildKeeps == ASSUME IInv, BuildCallGraph PROVE IInv'
BY DEF IInv, BuildCallGraph, PhaseInv, Running, Unbegun, given, fixpoint

\* Augmented, the rebuilt graph has the calls of the program under plain names.
LEMMA AugmentKeeps == ASSUME IInv, Augment PROVE IInv'
<1> USE DEF IInv
<1> DEFINE roots == {Qualified[f] : f \in DOMAIN ir}
<1>1. /\ pc = "augment" /\ pc' = "records" /\ project = "built" /\ ~failed
      /\ ir \in Programs /\ sccs = <<>> /\ Unbegun /\ summaries = <<>> /\ local = <<>>
      /\ ir' = ir /\ project' = project /\ failed' = failed /\ sccs' = sccs
      /\ local' = local /\ summaries' = summaries
      /\ idx' = idx /\ changed' = changed /\ passes' = passes
      /\ callGraph = [q \in roots |-> {}]
  BY DEF Augment, PhaseInv, given, fixpoint, Running
<1>2. roots \subseteq Functions \ Names /\ \A f \in DOMAIN ir : Qualified[f] \in roots
  BY <1>1, ProgramFacts
<1>3. /\ \A f : Callees(callGraph, f) = {}
      /\ DOMAIN callGraph = roots
  BY <1>1 DEF Callees
<1> HIDE DEF roots
<1>4. callGraph' = [f \in roots \cup DOMAIN ir |-> IF f \in DOMAIN ir THEN ir[f].calls ELSE {}]
  BY <1>3 DEF Augment
<1>5. GraphInv'
  <2>1. callGraph' \in [roots \cup DOMAIN ir -> SUBSET Functions]
        /\ roots \cup DOMAIN ir \subseteq Functions
    BY <1>1, <1>2, <1>4, ProgramFacts
  <2>2. \A f \in Names : Callees(callGraph', f) = Callees(ProgramCalls, f)
    BY <1>2, <1>4 DEF Callees, ProgramCalls
  <2>3. ProgramCalls' = ProgramCalls
    BY <1>1 DEF ProgramCalls
  <2>4. (roots \cup DOMAIN ir) \cap Names \subseteq DOMAIN ir
    BY <1>2
  <2> QED BY <1>1, <1>4, <2>1, <2>2, <2>3, <2>4 DEF GraphInv
<1> QED BY <1>1, <1>2, <1>4, <1>5 DEF PhaseInv, Running, Unbegun

\* Nodes of the graph, in the invariant's terms.
LEMMA GraphFacts ==
    ASSUME GraphInv
    PROVE  /\ callGraph \in CallGraphOver(Functions)
           /\ Nodes(callGraph) \subseteq Functions
           /\ DOMAIN callGraph \subseteq Nodes(callGraph)
           /\ DOMAIN ir \subseteq Nodes(callGraph)
<1>1. callGraph \in CallGraphOver(Functions)
  BY DEF GraphInv, CallGraphOver
<1> QED BY <1>1, GraphNames DEF GraphInv, Nodes

\* Everything called is swept up under its plain name.
LEMMA ComputeKeeps == ASSUME IInv, ComputeLocalSummaries PROVE IInv'
<1> USE DEF IInv
<1>1. /\ pc = "records" /\ pc' = "seed" /\ project = "built" /\ ~failed
      /\ ir \in Programs /\ sccs = <<>> /\ Unbegun /\ local = <<>>
      /\ \A f \in DOMAIN ir : Qualified[f] \in DOMAIN callGraph
      /\ ir' = ir /\ project' = project /\ failed' = failed /\ sccs' = sccs
      /\ callGraph' = callGraph /\ local' = local
      /\ idx' = idx /\ changed' = changed /\ passes' = passes /\ GraphInv
  BY DEF ComputeLocalSummaries, PhaseInv, given, fixpoint, Running
<1>2. PICK records \in Recorded(Defined) : summaries' = Sweep(records)
  BY DEF ComputeLocalSummaries
<1>3. /\ records \in [DOMAIN records -> RoseRecords]
      /\ DOMAIN records \subseteq DOMAIN callGraph \ Names
  BY <1>1, ProgramFacts DEF Recorded
<1>4. summaries' = [f \in Nodes(callGraph) |->
                       IF f \in DOMAIN records THEN records[f] ELSE Unknown(f)]
  BY <1>1, <1>2, <1>3, GraphFacts DEF Sweep
<1>5. SweptInv'
  <2>1. summaries' \in [Nodes(callGraph) -> Propagation!Summary]
    BY <1>1, <1>3, <1>4, EntryFacts, RecordsAreSummaries
  <2>2. \A f \in Nodes(callGraph) \cap Names : summaries'[f] = Unknown(f)
    BY <1>3, <1>4
  <2> QED BY <1>1, <1>4, <2>1, <2>2 DEF SweptInv, KnownInGraph, Known, Unknown
<1>6. GraphInv'
  BY <1>1 DEF GraphInv, ProgramCalls
<1> QED BY <1>1, <1>5, <1>6 DEF PhaseInv, Running, Unbegun

\* If it throws, there are records under qualified names and nothing else.
LEMMA ThrowKeeps == ASSUME IInv, ComputeLocalSummariesThrows PROVE IInv'
<1> USE DEF IInv
<1>1. /\ pc = "records" /\ pc' = "seed" /\ project = "built" /\ failed' = TRUE
      /\ ir \in Programs /\ sccs = <<>> /\ Unbegun /\ local = <<>>
      /\ \A f \in DOMAIN ir : Qualified[f] \in DOMAIN callGraph
      /\ ir' = ir /\ project' = project /\ sccs' = sccs
      /\ callGraph' = callGraph /\ local' = local
      /\ idx' = idx /\ changed' = changed /\ passes' = passes /\ GraphInv
  BY DEF ComputeLocalSummariesThrows, PhaseInv, given, fixpoint, Running
<1>2. PICK D \in SUBSET Defined : summaries' \in Recorded(D)
  BY DEF ComputeLocalSummariesThrows
<1>3. /\ summaries' \in [DOMAIN summaries' -> RoseRecords]
      /\ DOMAIN summaries' \subseteq DOMAIN callGraph \ Names
  BY <1>1, <1>2, ProgramFacts DEF Recorded
<1>4. SweptInv'
  <2>1. summaries' \in [DOMAIN summaries' -> Propagation!Summary]
    BY <1>3, RecordsAreSummaries
  <2> QED BY <1>1, <1>3, <2>1, GraphFacts DEF SweptInv, KnownInGraph, Known
<1>5. GraphInv'
  BY <1>1 DEF GraphInv, ProgramCalls
<1> QED BY <1>1, <1>4, <1>5 DEF PhaseInv, Running, Unbegun

\* The seeding adds what the program declares and no record or sweep entered.
LEMMA SeedKeeps == ASSUME IInv, Seed PROVE IInv'
<1> USE DEF IInv
<1>1. /\ pc = "seed" /\ pc' = "order" /\ project = "built" /\ failed \in BOOLEAN
      /\ ir \in Programs /\ sccs = <<>> /\ Unbegun
      /\ ir' = ir /\ project' = project /\ sccs' = sccs /\ failed' = failed
      /\ callGraph' = callGraph /\ local' = summaries'
      /\ idx' = idx /\ changed' = changed /\ passes' = passes /\ GraphInv /\ SweptInv
  BY DEF Seed, PhaseInv, given, fixpoint, Running
<1>2. summaries' = [f \in Known \cup DOMAIN ir |->
           IF f \in Known THEN summaries[f]
           ELSE IF f \in Defined THEN Propagation!NewSummary ELSE Unknown(f)]
  BY DEF Seed
<1>3. SeededInv'
  <2>1. local' \in [Known \cup DOMAIN ir -> Propagation!Summary]
    BY <1>1, <1>2, EntryFacts DEF SweptInv
  <2>2. KnownInGraph(DOMAIN local)'
    BY <1>1, <1>2, GraphFacts DEF SweptInv, KnownInGraph
  <2>3. ASSUME NEW f \in (Known \cup DOMAIN ir) \cap Names PROVE local'[f] = LocalOf(f)'
    <3>1. LocalOf(f)' = LocalOf(f)
      BY <1>1 DEF LocalOf, Defined, LoopSummary, Unknown
    <3>2. CASE f \in Known
      BY <1>1, <1>2, <3>1, <3>2 DEF SweptInv, LocalOf
    <3>3. CASE f \notin Known
      <4>1. failed
        BY <1>1, <3>3, GraphFacts DEF SweptInv, KnownInGraph
      <4> QED BY <1>1, <1>2, <3>1, <3>3, <4>1 DEF LocalOf
    <3> QED BY <3>2, <3>3
  <2> QED BY <1>1, <1>2, <2>1, <2>2, <2>3 DEF SeededInv
<1>4. GraphInv'
  BY <1>1 DEF GraphInv, ProgramCalls
<1>5. ListInv'
  <2>1. (sccs = <<>>)'
    BY <1>1
  <2> QED BY <2>1, EmptyList, PTL
<1> QED BY <1>1, <1>3, <1>4, <1>5 DEF PhaseInv, Running, Unbegun

-----------------------------------------------------------------------------
(* The list of components.                                                 *)

\* Components that share a member are one.
LEMMA ComponentsApart ==
    ASSUME NEW graph \in CallGraphOver(Functions),
           NEW C \in Sccs(graph), NEW D \in Sccs(graph), C # D
    PROVE  C \cap D = {}
<1>1. /\ \A f \in C : C = Fixpoint!SccOf(graph, f)
      /\ \A f \in D : D = Fixpoint!SccOf(graph, f)
  BY Fixpoint!SccMembers, FixpointAssumptions, SameGraphs
<1> QED BY <1>1

LEMMA ListKeeps == ASSUME IInv, ListScc PROVE IInv'
<1> USE DEF IInv
<1>1. /\ pc = "order" /\ pc' = pc
      /\ ir' = ir /\ project' = project /\ failed' = failed
      /\ callGraph' = callGraph /\ local' = local /\ summaries' = summaries
      /\ idx' = idx /\ changed' = changed /\ passes' = passes
      /\ GraphInv /\ SeededInv /\ ListInv /\ summaries = local /\ Unbegun
  BY DEF ListScc, PhaseInv, given, fixpoint, Running, Order!Next, Order!List
<1>2. PICK C \in Sccs(callGraph) :
         /\ C \notin Order!Listed /\ sccs' = Append(sccs, C)
         /\ \A f \in C : Callees(callGraph, f) \subseteq C \cup UNION Order!Listed
  BY SameGraphs DEF ListScc, Order!Next, Order!List, Order!Ready
<1>3. /\ Len(sccs) \in Nat /\ DOMAIN sccs = 1..Len(sccs)
      /\ DOMAIN sccs' = 1..(Len(sccs) + 1)
      /\ \A k \in DOMAIN sccs : sccs'[k] = sccs[k] /\ sccs[k] \in Sccs(callGraph)
      /\ sccs'[Len(sccs) + 1] = C
      /\ sccs' \in Seq(Sccs(callGraph))
  BY <1>1, <1>2, AppendProperties, LenProperties DEF ListInv
<1>4. \A k \in DOMAIN sccs' : k \in DOMAIN sccs \/ k = Len(sccs) + 1
  BY <1>3
<1>5. Order!Listed' = Order!Listed \cup {C}
  BY <1>3, <1>4 DEF Order!Listed
<1>6. CallClosed(callGraph, UNION (Order!Listed \cup {C}))
  BY <1>1, <1>2 DEF ListInv, CallClosed
<1>7. ASSUME NEW k \in DOMAIN sccs', NEW l \in DOMAIN sccs', k < l
      PROVE  /\ sccs'[k] # sccs'[l]
             /\ \A f \in sccs'[k] : Callees(callGraph, f) \cap sccs'[l] = {}
  <2>1. k \in DOMAIN sccs /\ sccs'[k] = sccs[k]
    BY <1>3, <1>7
  <2>2. CASE l \in DOMAIN sccs
    BY <1>1, <1>3, <1>7, <2>1, <2>2 DEF ListInv
  <2>3. CASE l = Len(sccs) + 1
    <3>1. sccs[k] \in Order!Listed /\ sccs'[l] = C
      BY <1>3, <2>1, <2>3 DEF Order!Listed
    <3>2. \A f \in sccs[k] : Callees(callGraph, f) \subseteq UNION Order!Listed
      BY <1>1, <3>1 DEF ListInv, CallClosed
    <3>3. \A D \in Order!Listed : D \cap C = {}
      <4>1. Order!Listed \subseteq Sccs(callGraph)
        BY <1>3 DEF Order!Listed
      <4> QED BY <1>1, <1>2, <4>1, GraphFacts, ComponentsApart
    <3> QED BY <1>2, <2>1, <3>1, <3>2, <3>3
  <2> QED BY <1>4, <2>2, <2>3
<1>8. ListInv'
  BY <1>1, <1>3, <1>5, <1>6, <1>7 DEF ListInv
<1>9. GraphInv'
  BY <1>1 DEF GraphInv, ProgramCalls
<1>10. SeededInv'
  BY <1>1 DEF SeededInv, KnownInGraph, LocalOf, Defined, LoopSummary, Unknown
<1> QED BY <1>1, <1>8, <1>9, <1>10 DEF PhaseInv, Running, Unbegun

\* With all components listed the propagation begins as it assumes.
LEMMA Begins ==
    /\ GraphInv /\ SeededInv /\ ListInv /\ Unbegun
    /\ Order!Listed = Sccs(callGraph) /\ summaries = local /\ pc = "while"
    => FixpointInv
<1> SUFFICES ASSUME GraphInv, SeededInv, ListInv, Unbegun,
                    Order!Listed = Sccs(callGraph), summaries = local, pc = "while"
             PROVE  FixpointInv
  OBVIOUS
<1>1. /\ callGraph \in CallGraphOver(Functions) /\ Nodes(callGraph) \subseteq Functions
      /\ Sccs(callGraph) \subseteq SUBSET Functions
  BY GraphFacts, GraphNames
<1>2. /\ sccs \in Seq(Sccs(callGraph)) /\ Len(sccs) \in Nat /\ DOMAIN sccs = 1..Len(sccs)
      /\ \A k \in DOMAIN sccs : sccs[k] \in Sccs(callGraph)
  BY LenProperties DEF ListInv
<1>3. sccs \in Seq(SUBSET Functions)
  BY <1>1, <1>2
<1>4. DOMAIN local \subseteq Functions
  BY <1>1 DEF SeededInv, KnownInGraph
<1>5. Fixpoint!TypeOK
  BY <1>1, <1>2, <1>3, <1>4, SameGraphs, SameSummaries
     DEF Fixpoint!TypeOK, Fixpoint!PassBound, SeededInv, Known, Unbegun
<1>6. Fixpoint!OrderOK
  <2>1. \A C \in Sccs(callGraph) : \E k \in DOMAIN sccs : sccs[k] = C
    BY DEF Order!Listed
  <2>2. \A k, l \in DOMAIN sccs : sccs[k] = sccs[l] => k = l
    BY <1>2 DEF ListInv
  <2> QED BY <1>2, <2>1, <2>2, SameGraphs DEF Fixpoint!OrderOK, Fixpoint!CalleeFirst, ListInv
<1>7. Fixpoint!LoopInv
  BY <1>2 DEF Fixpoint!LoopInv, Fixpoint!LocalKept, Fixpoint!Leq, Fixpoint!PastSettled,
              Fixpoint!Past, Fixpoint!LoopControl, Unbegun
<1>8. Fixpoint!SummariesPrecise
  <2>1. ASSUME NEW f \in Known PROVE f \in Fixpoint!Reached(f)
    BY <1>4, ReachesSelf, SameGraphs DEF Fixpoint!Reached, Known
  <2> QED BY <2>1, SameSummaries DEF Fixpoint!SummariesPrecise, Fixpoint!Justified
<1> QED BY <1>5, <1>6, <1>7, <1>8
        DEF FixpointInv, Fixpoint!Inv, Fixpoint!TwoPassesSuffice, Unbegun,
            Fixpoint!SummariesSound, Fixpoint!PurityDecided

LEMMA ListedKeeps == ASSUME IInv, SccsListed PROVE IInv'
<1> USE DEF IInv
<1>1. /\ pc = "order" /\ pc' = "while" /\ Order!Listed = Sccs(callGraph)
      /\ ir' = ir /\ project' = project /\ failed' = failed
      /\ callGraph' = callGraph /\ local' = local /\ summaries' = summaries /\ sccs' = sccs
      /\ idx' = idx /\ changed' = changed /\ passes' = passes
      /\ GraphInv /\ SeededInv /\ ListInv /\ summaries = local /\ Unbegun
  BY DEF SccsListed, PhaseInv, given, fixpoint, Running
<1>2. (/\ GraphInv /\ SeededInv /\ ListInv /\ Unbegun
       /\ Order!Listed = Sccs(callGraph) /\ summaries = local /\ pc = "while")'
  <2>1. GraphInv' /\ SeededInv'
    BY <1>1 DEF GraphInv, ProgramCalls, SeededInv, KnownInGraph, LocalOf, Defined,
                LoopSummary, Unknown
  <2>2. Order!Listed' = Order!Listed
    BY <1>1 DEF Order!Listed
  <2>3. ListInv'
    BY <1>1, <2>2 DEF ListInv
  <2> QED BY <1>1, <2>1, <2>2, <2>3 DEF Unbegun
<1>3. FixpointInv'
  BY <1>2, Begins, PTL
<1>4. Known' \subseteq Nodes(callGraph') /\ Known' = DOMAIN local'
  BY <1>1 DEF SeededInv, KnownInGraph, Known
<1> QED BY <1>1, <1>2, <1>3, <1>4 DEF PhaseInv, Running

\* The propagation only adds summaries for functions that call.
LEMMA PropagationAdds ==
    ASSUME IInv, Propagate
    PROVE  /\ Running /\ Running'
           /\ ir' = ir /\ project' = project /\ failed' = failed
           /\ callGraph' = callGraph /\ local' = local /\ sccs' = sccs
           /\ Known' \subseteq Nodes(callGraph)
           /\ Known' \subseteq DOMAIN local \cup DOMAIN callGraph
<1>1. Fixpoint!Next /\ UNCHANGED <<given, failed>>
  BY SameSteps DEF Propagate
<1>2. Running
  BY <1>1 DEF Running, Fixpoint!Next, Fixpoint!NothingToDo, Fixpoint!StartPass,
     Fixpoint!CollapseCycle, Fixpoint!PassSingleton, Fixpoint!PushToCallers,
     Fixpoint!EndPass, Fixpoint!Finalize
<1>3. /\ Running' /\ callGraph' = callGraph /\ local' = local /\ sccs' = sccs
  BY <1>1 DEF Running, Fixpoint!Next, Fixpoint!NothingToDo, Fixpoint!StartPass,
     Fixpoint!CollapseCycle, Fixpoint!PassSingleton, Fixpoint!PushToCallers,
     Fixpoint!EndPass, Fixpoint!Finalize, Fixpoint!inputs
<1>4. /\ Known \subseteq Nodes(callGraph) /\ FixpointInv /\ GraphInv
      /\ Known \subseteq DOMAIN local \cup DOMAIN callGraph
  BY <1>2 DEF IInv, PhaseInv, Running
<1>5. CASE Fixpoint!CollapseCycle
  <2>1. Known' = Known \cup sccs[idx] /\ idx \in DOMAIN sccs
    BY <1>5, SameSummaries DEF Fixpoint!CollapseCycle, Fixpoint!Update, Fixpoint!Scc, Known,
       Fixpoint!Known
  <2>2. sccs[idx] \in Sccs(callGraph)
    BY <1>4, <2>1, SameGraphs DEF FixpointInv, Fixpoint!Inv, Fixpoint!OrderOK
  <2>3. sccs[idx] \subseteq DOMAIN callGraph
    BY <1>4, <1>5, <2>2, GraphFacts, SameGraphs, FixpointAssumptions, Fixpoint!CyclesCall
       DEF Fixpoint!CollapseCycle, Fixpoint!Scc
  <2> QED BY <1>1, <1>2, <1>3, <1>4, <2>1, <2>3, GraphFacts DEF given
<1>6. CASE Fixpoint!PushToCallers
  <2>1. Known' = Known \cup Fixpoint!Callers /\ Fixpoint!Callers \subseteq DOMAIN callGraph
    BY <1>6, SameSummaries DEF Fixpoint!PushToCallers, Fixpoint!Update, Known,
       Fixpoint!Known, Fixpoint!Callers
  <2> QED BY <1>1, <1>2, <1>3, <1>4, <2>1, GraphFacts DEF given
<1>7. CASE Fixpoint!NothingToDo \/ Fixpoint!StartPass \/ Fixpoint!PassSingleton
           \/ Fixpoint!EndPass \/ Fixpoint!Finalize
  <2>1. Known' = Known
    BY <1>7 DEF Fixpoint!NothingToDo, Fixpoint!StartPass, Fixpoint!PassSingleton,
       Fixpoint!EndPass, Fixpoint!Finalize, Known, Fixpoint!Known
  <2> QED BY <1>1, <1>2, <1>3, <1>4, <2>1 DEF given
<1> QED BY <1>1, <1>5, <1>6, <1>7 DEF Fixpoint!Next

\* Each step of the propagation keeps its own invariants.
LEMMA FixpointStep == FixpointInv /\ [Fixpoint!Next]_Fixpoint!vars => FixpointInv'
<1> SUFFICES ASSUME FixpointInv, [Fixpoint!Next]_Fixpoint!vars PROVE FixpointInv'
  OBVIOUS
<1> USE DEF FixpointInv
<1>1. Fixpoint!TypeOK' /\ Fixpoint!OrderOK'
  BY FixpointAssumptions, Fixpoint!TypeStep DEF Fixpoint!Inv
<1>2. Fixpoint!LoopInv' /\ Fixpoint!TwoPassesSuffice'
  BY <1>1, FixpointAssumptions, Fixpoint!LoopInvStep
<1>3. Fixpoint!SummariesSound'
  BY FixpointAssumptions, Fixpoint!SoundStep
<1>4. Fixpoint!SummariesPrecise'
  BY FixpointAssumptions, Fixpoint!PreciseStep DEF Fixpoint!Inv
<1>5. Fixpoint!PurityDecided'
  BY FixpointAssumptions, Fixpoint!PurityStep DEF Fixpoint!Inv
<1> QED BY <1>1, <1>2, <1>3, <1>4, <1>5 DEF Fixpoint!Inv

LEMMA PropagateKeeps == ASSUME IInv, Propagate PROVE IInv'
<1>1. /\ Running /\ Running' /\ Known' \subseteq Nodes(callGraph)
      /\ Known' \subseteq DOMAIN local \cup DOMAIN callGraph
      /\ ir' = ir /\ project' = project /\ failed' = failed
      /\ callGraph' = callGraph /\ local' = local
  BY PropagationAdds
<1>2. FixpointInv'
  BY <1>1, SameSteps, FixpointStep DEF IInv, Propagate
<1>3. GraphInv /\ SeededInv
  BY <1>1 DEF IInv, PhaseInv, Running
<1>4. GraphInv' /\ SeededInv'
  BY <1>1, <1>3 DEF GraphInv, ProgramCalls, SeededInv, KnownInGraph, LocalOf, Defined,
                    LoopSummary, Unknown
<1> QED BY <1>1, <1>2, <1>4 DEF IInv, PhaseInv, Running

\* Every step of the analysis keeps the invariant.
LEMMA StepInv == IInv /\ [Next]_vars => IInv'
<1> SUFFICES ASSUME IInv, [Next]_vars PROVE IInv'
  OBVIOUS
<1>1. CASE UNCHANGED vars
  <2>1. /\ ir' = ir /\ project' = project /\ failed' = failed
        /\ callGraph' = callGraph /\ local' = local /\ summaries' = summaries /\ sccs' = sccs
        /\ idx' = idx /\ changed' = changed /\ passes' = passes /\ pc' = pc
    BY <1>1 DEF vars, given, fixpoint
  <2>2. GraphInv' = GraphInv /\ SeededInv' = SeededInv /\ Unbegun' = Unbegun
    BY <2>1 DEF GraphInv, ProgramCalls, SeededInv, KnownInGraph, LocalOf, Defined,
                LoopSummary, Unknown, Unbegun
  <2>3. SweptInv' = SweptInv
    BY <2>1 DEF SweptInv, KnownInGraph, Known, Unknown
  <2>4. ListInv' = ListInv
    BY <2>1 DEF ListInv, Order!Listed
  <2>5. PhaseInv'
    BY <2>1, <2>2, <2>3, <2>4 DEF IInv, PhaseInv, Running, Known
  <2>6. Running' = Running /\ UNCHANGED Fixpoint!vars
    BY <2>1 DEF Running, Fixpoint!vars
  <2> QED BY <2>5, <2>6, FixpointStep DEF IInv
<1> QED BY <1>1, FromIRKeeps, BuildKeeps, AugmentKeeps, ComputeKeeps, ThrowKeeps, SeedKeeps,
           ListKeeps, ListedKeeps, PropagateKeeps DEF Next

LEMMA Invariance == Spec => []IInv
BY InitInv, StepInv, PTL DEF Spec

-----------------------------------------------------------------------------
(* Types.                                                                  *)

\* Nothing is in the empty map.
LEMMA EmptyMap == DOMAIN <<>> = {} /\ \A S, T : <<>> \in Seq(S) /\ <<>> \in [{} -> T]
<1>1. DOMAIN <<>> = {}
  BY EmptySeq
<1> QED BY <1>1, EmptySeq

\* The invariant holds the types of the phases and those of the propagation.
LEMMA TypesFromInv == IInv => TypeOK
<1> SUFFICES ASSUME IInv PROVE TypeOK
  OBVIOUS
<1> USE DEF IInv
<1>1. CASE Running
  <2>1. Fixpoint!TypeOK /\ GraphInv
    BY <1>1 DEF PhaseInv, Running, FixpointInv, Fixpoint!Inv
  <2>2. /\ sccs \in Seq(SUBSET Functions)
        /\ Known \subseteq Functions /\ summaries \in [Known -> Propagation!Summary]
        /\ DOMAIN local \subseteq Known /\ local \in [DOMAIN local -> Propagation!Summary]
        /\ idx \in 1..(Len(sccs) + 1)
        /\ changed \in BOOLEAN /\ passes \in 0..Propagation!PassBound
    BY <2>1, SameSummaries DEF Fixpoint!TypeOK, Fixpoint!PassBound, Propagation!PassBound
  <2> QED BY <2>1, <2>2 DEF PhaseInv, GraphInv, TypeOK
<1>2. CASE ~Running
  <2>1. Unbegun
    BY <1>2 DEF PhaseInv
  <2>2. sccs \in Seq(SUBSET Functions) /\ Len(sccs) \in Nat
    <3>1. CASE pc = "order"
      <4>1. sccs \in Seq(Sccs(callGraph)) /\ Sccs(callGraph) \subseteq SUBSET Functions
        BY <3>1, GraphFacts, GraphNames DEF PhaseInv, ListInv
      <4> QED BY <4>1, LenProperties
    <3>2. CASE pc # "order"
      BY <1>2, <3>2, EmptyMap, LenProperties DEF PhaseInv, Running
    <3> QED BY <3>1, <3>2
  <2>3. /\ DOMAIN callGraph \subseteq Functions
        /\ callGraph \in [DOMAIN callGraph -> SUBSET Functions]
    <3>1. CASE pc = "start"
      BY <3>1, EmptyMap DEF PhaseInv
    <3>2. CASE pc = "augment"
      BY <3>2, ProgramFacts DEF PhaseInv
    <3>3. CASE pc \notin {"start", "augment"}
      BY <3>3 DEF PhaseInv, GraphInv
    <3> QED BY <3>1, <3>2, <3>3
  <2>4. /\ Known \subseteq Functions /\ summaries \in [Known -> Propagation!Summary]
        /\ DOMAIN local \subseteq Known /\ local \in [DOMAIN local -> Propagation!Summary]
    <3>1. CASE pc \in {"start", "augment", "records"}
      BY <3>1, EmptyMap DEF PhaseInv, Known
    <3>2. CASE pc = "seed"
      BY <3>2, EmptyMap, GraphFacts DEF PhaseInv, SweptInv, KnownInGraph
    <3>3. CASE pc = "order"
      BY <3>3, GraphFacts DEF PhaseInv, SeededInv, KnownInGraph, Known
    <3> QED BY <1>2, <3>1, <3>2, <3>3 DEF PhaseInv, Running
  <2> QED BY <2>1, <2>2, <2>3, <2>4 DEF PhaseInv, Unbegun, TypeOK, Propagation!PassBound
<1> QED BY <1>1, <1>2

\* In every phase, on both paths and after a failure, the analysis is well-typed.
THEOREM TypesCorrect == Spec => []TypeOK
BY Invariance, TypesFromInv, PTL

-----------------------------------------------------------------------------
(* What the result means for the program.                                  *)

\* Under plain names the graph and the program have the same call chains.
LEMMA SameChains ==
    ASSUME GraphInv, ir \in Programs, NEW f \in Names, NEW g
    PROVE  /\ Reaches(ProgramCalls, f, g) <=> Reaches(callGraph, f, g)
           /\ Reaches(callGraph, f, g) => g \in Names
<1>1. Names \subseteq Functions
  BY ProgramFacts
<1>2. \A h \in Names : /\ Callees(callGraph, h) = Callees(ProgramCalls, h)
                       /\ Callees(callGraph, h) \subseteq Names
  <2>1. \A h : Callees(ProgramCalls, h) \subseteq Names
    BY ProgramFacts DEF Callees, ProgramCalls
  <2> QED BY <2>1 DEF GraphInv
<1>3. \A S : /\ CallClosed(callGraph, S) => CallClosed(ProgramCalls, S \cap Names)
             /\ CallClosed(ProgramCalls, S) => CallClosed(callGraph, S \cap Names)
  BY <1>2 DEF CallClosed
<1>4. CallClosed(callGraph, Names)
  BY <1>2 DEF CallClosed
<1>5. ASSUME Reaches(ProgramCalls, f, g), NEW S \in SUBSET Functions,
             f \in S, CallClosed(callGraph, S)
      PROVE  g \in S
  <2>1. S \cap Names \in SUBSET Functions /\ f \in S \cap Names
        /\ CallClosed(ProgramCalls, S \cap Names)
    BY <1>3, <1>5
  <2>2. g \in S \cap Names
    BY <1>5, <2>1 DEF Reaches
  <2> QED BY <2>2
<1>6. ASSUME Reaches(callGraph, f, g), NEW S \in SUBSET Functions,
             f \in S, CallClosed(ProgramCalls, S)
      PROVE  g \in S
  <2>1. S \cap Names \in SUBSET Functions /\ f \in S \cap Names
        /\ CallClosed(callGraph, S \cap Names)
    BY <1>3, <1>6
  <2>2. g \in S \cap Names
    BY <1>6, <2>1 DEF Reaches
  <2> QED BY <2>2
<1>7. Reaches(callGraph, f, g) => g \in Names
  BY <1>1, <1>4 DEF Reaches
<1> QED BY <1>5, <1>6, <1>7 DEF Reaches

\* A chain that leaves the graph is empty.
LEMMA ChainsStay ==
    ASSUME NEW graph \in CallGraphOver(Functions), NEW f \in Functions, NEW g,
           Reaches(graph, f, g), g \notin Nodes(graph)
    PROVE  f = g
<1> DEFINE S == Nodes(graph) \cup {f}
<1>1. S \in SUBSET Functions /\ f \in S /\ CallClosed(graph, S)
  BY GraphNames DEF CallClosed
<1> HIDE DEF S
<1>2. g \in S
  BY <1>1 DEF Reaches
<1> QED BY <1>2 DEF S

\* What the lemmas of the propagation leave at the end, in the program's terms.
LEMMA Outcome ==
    ASSUME IInv, pc = "done"
    PROVE  /\ ir \in Programs /\ GraphInv /\ SeededInv
           /\ project \in {"none", "broken", "built"} /\ (failed => project = "built")
           /\ Known \subseteq Nodes(callGraph) /\ summaries \in [Known -> Propagation!Summary]
           /\ Known \subseteq DOMAIN local \cup DOMAIN callGraph
           /\ \A f \in Names : \A g \in CanCall(f) \cap DOMAIN local :
                 /\ f \in Known
                 /\ LocalOf(g).mod \subseteq summaries[f].mod
                 /\ f \notin Whitelist =>
                      /\ LocalOf(g).modifiesGlobals => summaries[f].modifiesGlobals
                      /\ LocalOf(g).isConservative => summaries[f].isConservative
           /\ \A f \in Known \ Whitelist :
                 summaries[f].isPure = (summaries[f].mod = {} /\ ~summaries[f].modifiesGlobals)
<1>1. /\ ir \in Programs /\ GraphInv /\ SeededInv
      /\ project \in {"none", "broken", "built"} /\ (failed => project = "built")
      /\ Known \subseteq Nodes(callGraph) /\ FixpointInv
      /\ Known \subseteq DOMAIN local \cup DOMAIN callGraph
  BY DEF IInv, PhaseInv, Running
<1>2. summaries \in [Known -> Propagation!Summary]
  BY TypesFromInv DEF TypeOK
<1>3. ASSUME NEW f \in Names, NEW g \in CanCall(f) \cap DOMAIN local
      PROVE  /\ f \in Known
             /\ LocalOf(g).mod \subseteq summaries[f].mod
             /\ f \notin Whitelist =>
                  /\ LocalOf(g).modifiesGlobals => summaries[f].modifiesGlobals
                  /\ LocalOf(g).isConservative => summaries[f].isConservative
  <2>1. f \in Functions /\ g \in Names /\ Reaches(callGraph, f, g)
    BY <1>1, SameChains, ProgramFacts DEF CanCall
  <2>2. g \in Fixpoint!Reached(f)
    BY <2>1, SameGraphs DEF Fixpoint!Reached
  <2>3. local[g] = LocalOf(g)
    BY <1>1, <2>1 DEF SeededInv
  <2> QED BY <1>1, <2>1, <2>2, <2>3, SameSummaries DEF FixpointInv, Fixpoint!SummariesSound
<1>4. ASSUME NEW f \in Known \ Whitelist
      PROVE  summaries[f].isPure = (summaries[f].mod = {} /\ ~summaries[f].modifiesGlobals)
  <2>1. DOMAIN callGraph # {}
    BY <1>1 DEF Nodes
  <2> QED BY <1>1, <2>1, SameSummaries DEF FixpointInv, Fixpoint!PurityDecided
<1> QED BY <1>1, <1>2, <1>3, <1>4

\* Of a name that is Unseen it is known locally that nothing is known.
LEMMA UnseenIsUnknown ==
    ASSUME ir \in Programs, failed => project = "built",
           NEW g \in Unseen
    PROVE  /\ g \in Names /\ g \notin Whitelist
           /\ LocalOf(g).modifiesGlobals /\ LocalOf(g).isConservative
           /\ failed => g \in DOMAIN ir
<1>1. /\ g \in Names /\ g \notin Whitelist /\ LocalOf(g) = Unknown(g)
      /\ failed => g \in DOMAIN ir
  BY DEF Unseen, Unresolved, LocalOf
<1> QED BY <1>1, EntryFacts

\* Who can end up calling such a name is reported as one that may do anything.
LEMMA CallersOfUnseen ==
    ASSUME IInv, pc = "done", NEW f \in Names \ Whitelist, NEW g \in CanCall(f) \cap Unseen
    PROVE  /\ GetSummary(f).isConservative
           /\ GetSummary(f).modifiesGlobals
           /\ ~GetSummary(f).isPure
<1>1. /\ g \in Names /\ g \notin Whitelist
      /\ LocalOf(g).modifiesGlobals /\ LocalOf(g).isConservative
      /\ failed => g \in DOMAIN ir
  BY Outcome, UnseenIsUnknown
<1>2. CASE g \in DOMAIN local
  <2>1. f \in Known /\ summaries[f].modifiesGlobals /\ summaries[f].isConservative
    BY <1>1, <1>2, Outcome
  <2>2. ~summaries[f].isPure
    BY <2>1, Outcome
  <2> QED BY <2>1, <2>2 DEF GetSummary
<1>3. CASE g \notin DOMAIN local
  <2>1. g \notin Nodes(callGraph)
    BY <1>1, <1>3, Outcome DEF SeededInv, KnownInGraph
  <2>2. callGraph \in CallGraphOver(Functions) /\ f \in Functions /\ Reaches(callGraph, f, g)
    BY Outcome, GraphFacts, ProgramFacts, SameChains DEF CanCall
  <2>3. f = g
    BY <2>1, <2>2, ChainsStay
  <2>4. f \notin Known
    BY <2>1, <2>3, Outcome
  <2> QED BY <2>4, Outcome, EntryFacts DEF GetSummary
<1> QED BY <1>2, <1>3

\* And so is an unknown function itself, whatever the phases made of it.
LEMMA UnresolvedItself ==
    ASSUME IInv, pc = "done", NEW f \in Names \ Whitelist, f \in Unresolved
    PROVE  /\ GetSummary(f).isConservative
           /\ GetSummary(f).modifiesGlobals
           /\ ~GetSummary(f).isPure
<1>1. f \in CanCall(f)
  BY ProgramFacts, Outcome, ReachesSelf DEF CanCall
<1>2. CASE f \in Unseen
  BY <1>1, <1>2, CallersOfUnseen
<1>3. CASE f \notin Unseen
  <2>1. failed /\ project = "built" /\ f \notin DOMAIN ir
    BY <1>3, Outcome DEF Unseen, Unresolved
  <2>2. f \notin DOMAIN callGraph
    BY <2>1, Outcome DEF GraphInv
  <2>3. CASE f \in Known
    <3>1. f \in DOMAIN local
      BY <2>2, <2>3, Outcome
    <3>2. LocalOf(f) = Unknown(f)
      BY <2>1 DEF Unresolved, LocalOf
    <3>3. LocalOf(f).modifiesGlobals /\ LocalOf(f).isConservative
      BY <3>2, Outcome, EntryFacts
    <3>4. summaries[f].modifiesGlobals /\ summaries[f].isConservative
      BY <1>1, <3>1, <3>3, Outcome
    <3> QED BY <2>3, <3>4, Outcome DEF GetSummary
  <2>4. CASE f \notin Known
    BY <2>4, Outcome, EntryFacts DEF GetSummary
  <2> QED BY <2>3, <2>4
<1> QED BY <1>2, <1>3

LEMMA UnresolvedFromInv == IInv => UnresolvedIsReported
BY CallersOfUnseen, UnresolvedItself DEF UnresolvedIsReported

\* An unknown function, and every function that can end up calling one whose
\* summary says that it is unknown, is reported as one that may write anything:
\* on both paths and in every component order.  After a failed phase, unknown
\* functions that are not declared do not count against their callers.
THEOREM UnresolvedReported == Spec => []UnresolvedIsReported
BY Invariance, UnresolvedFromInv, PTL

LEMMA LoopWritesFromInv == IInv => LoopWritesReported
<1> SUFFICES ASSUME IInv, pc = "done", ~failed, NEW f \in Names \ Whitelist,
                    NEW g \in CanCall(f) \cap Defined
             PROVE  \/ ir[g].mod \subseteq GetSummary(f).mod
                    \/ GetSummary(f).isConservative /\ GetSummary(f).modifiesGlobals
  BY DEF LoopWritesReported
<1>1. CASE project # "built"
  <2>1. g \in DOMAIN local /\ LocalOf(g).mod = ir[g].mod
    BY <1>1, Outcome, EntryFacts, ProgramFacts DEF SeededInv, LocalOf
  <2> QED BY <2>1, Outcome DEF GetSummary
<1>2. CASE project = "built"
  <2>1. f \in CanCall(f) \cap Unseen
    BY <1>2, Outcome, ProgramFacts, ReachesSelf DEF CanCall, Unseen
  <2> QED BY <2>1, UnresolvedFromInv DEF UnresolvedIsReported
<1> QED BY <1>1, <1>2

\* Unless a phase failed, what the loops of a function write is in the summary of
\* everything that can end up calling it, or that summary says that nothing is known.
THEOREM LoopWrites == Spec => []LoopWritesReported
BY Invariance, LoopWritesFromInv, PTL

\* What isPure comes to on the extracted program alone: nothing that the function
\* can end up calling writes in a loop or is unknown.
PurityFromIR ==
    pc = "done" /\ project # "built" =>
        \A f \in Defined \ Whitelist :
            GetSummary(f).isPure <=>
                /\ CanCall(f) \cap Unresolved = {}
                /\ \A g \in CanCall(f) \cap Defined : ir[g].mod = {}

LEMMA PurityFromInv == IInv => PurityFromIR
<1> SUFFICES ASSUME IInv, pc = "done", project # "built", NEW f \in Defined \ Whitelist
             PROVE  GetSummary(f).isPure <=>
                       /\ CanCall(f) \cap Unresolved = {}
                       /\ \A g \in CanCall(f) \cap Defined : ir[g].mod = {}
  BY DEF PurityFromIR
<1>1. f \in Names /\ f \in Functions /\ f \in DOMAIN ir /\ ~failed /\ GraphInv /\ SeededInv
      /\ ir \in Programs
  BY Outcome, ProgramFacts
<1>2. f \in CanCall(f)
  BY <1>1, ReachesSelf DEF CanCall
<1>3. \A g \in CanCall(f) : g \in Names /\ Reaches(callGraph, f, g)
  BY <1>1, SameChains DEF CanCall
<1>4. \A g \in CanCall(f) : g \in DOMAIN local /\ local[g] = LocalOf(g)
  <2>1. \A g \in CanCall(f) : g \in Nodes(callGraph)
    BY <1>1, <1>3, GraphFacts, ChainsStay
  <2> QED BY <1>1, <1>3, <2>1 DEF SeededInv, KnownInGraph
<1>5. f \in Known /\ GetSummary(f) = summaries[f]
  BY <1>1, <1>2, <1>4, Outcome DEF GetSummary
<1>6. Fixpoint!Reached(f) = CanCall(f)
  <2>1. \A g \in Fixpoint!Reached(f) : g \in CanCall(f)
    BY <1>1, SameGraphs, SameChains DEF Fixpoint!Reached, CanCall
  <2>2. \A g \in CanCall(f) : g \in Fixpoint!Reached(f)
    BY <1>3, <1>4, SameGraphs DEF Fixpoint!Reached
  <2> QED BY <2>1, <2>2 DEF Fixpoint!Reached
<1>7. summaries[f].isPure <=>
        \A g \in CanCall(f) : LocalOf(g).mod = {} /\ ~LocalOf(g).modifiesGlobals
  <2>1. FixpointInv /\ Fixpoint!PureExactly
    BY FixpointAssumptions, Fixpoint!PurityExact
       DEF IInv, PhaseInv, Running, FixpointInv, Fixpoint!Inv
  <2>2. DOMAIN callGraph # {}
    BY <1>1 DEF GraphInv
  <2> QED BY <1>4, <1>5, <1>6, <2>1, <2>2, SameSummaries DEF Fixpoint!PureExactly
<1>8. \A g \in CanCall(f) :
         (LocalOf(g).mod = {} /\ ~LocalOf(g).modifiesGlobals)
            <=> g \notin Unresolved /\ (g \in Defined => ir[g].mod = {})
  <2> SUFFICES ASSUME NEW g \in CanCall(f)
               PROVE  (LocalOf(g).mod = {} /\ ~LocalOf(g).modifiesGlobals)
                         <=> g \notin Unresolved /\ (g \in Defined => ir[g].mod = {})
    OBVIOUS
  <2>1. CASE g \in Defined
    BY <1>1, <2>1, EntryFacts DEF LocalOf, Unresolved
  <2>2. CASE g \notin Defined
    <3>1. LocalOf(g) = Unknown(g)
      BY <2>2 DEF LocalOf
    <3> QED BY <1>1, <1>3, <2>2, <3>1, EntryFacts DEF Unresolved
  <2> QED BY <2>1, <2>2
<1> QED BY <1>5, <1>7, <1>8

-----------------------------------------------------------------------------
(* Classification: from the program to the verdicts.                       *)

\* The checker with its proofs, on the summaries of the analysis.
Scan == INSTANCE ParallelismCheckerProofs WITH
    Names <- Vars, CalleeNames <- Functions, Loops <- Nests, loop <- nest, pc <- step,
    SummaryMaps <- UNION {[D -> Propagation!Summary] : D \in SUBSET Functions},
    Trip <- 0, BaseValue <- [base \in Bases |-> 0],
    Globals <- {}, Writes <- [callee \in Functions |-> {}]

\* Classification begins after analyze(), whose result stays; inside classify()
\* the invariant of the checker holds.
VerdictInv ==
    step # "none" => pc = "done" /\ Scan!TypeOK /\ Scan!ScanInv

\* Nothing was classified before.
BeforeInv == step = "none" => verdict = "none"

AllInv == IInv /\ VerdictInv /\ BeforeInv

\* What the lemmas of the checker assume.
LEMMA ScanAssumptions ==
    /\ Nests \subseteq Scan!LoopNest
    /\ NoVar \notin Bases
    /\ Offsets \subseteq Int
    /\ 0 \in Nat /\ [base \in Bases |-> 0] \in [Bases -> Int]
    /\ [callee \in Functions |-> {}] \in [Functions -> SUBSET Vars]
    /\ \A m \in UNION {[D -> Propagation!Summary] : D \in SUBSET Functions} :
          /\ DOMAIN m \subseteq Functions
          /\ \A c \in DOMAIN m : m[c] \in Scan!Summary
    /\ \A n \in Nests : n.params \cap {} = {}
<1>1. Scan!LoopNest = Checker!LoopNest
  BY DEF Scan!LoopNest, Scan!Access, Scan!Index,
         Checker!LoopNest, Checker!Access, Checker!Index
<1>2. Scan!Summary = Propagation!Summary
  BY DEF Scan!Summary, Propagation!Summary
<1> QED BY <1>1, <1>2, NestsAreLoopNests

\* The steps of the checker.
LEMMA SameScan == Checker!Next => Scan!Next
BY DEF Checker!Next, Scan!Next, Checker!ArrayIsSerial, Scan!ArrayIsSerial,
       Checker!ArrayIsClear, Scan!ArrayIsClear, Checker!ArraysScanned, Scan!ArraysScanned,
       Checker!CallIsSerial, Scan!CallIsSerial, Checker!CallIsClear, Scan!CallIsClear,
       Checker!CallsScanned, Scan!CallsScanned, Checker!Combine, Scan!Combine,
       Checker!HasCarriedDependence, Scan!HasCarriedDependence,
       Checker!HasUnknownIndex, Scan!HasUnknownIndex,
       Checker!AffineAccesses, Scan!AffineAccesses, Checker!IsAffine, Scan!IsAffine,
       Checker!Carried, Scan!Carried, Checker!Classified, Scan!Classified,
       Checker!Interferes, Scan!Interferes, Checker!IsApproximate, Scan!IsApproximate,
       Checker!TouchesNonParameter, Scan!TouchesNonParameter,
       Checker!LoopArrays, Scan!LoopArrays, Checker!Call, Scan!Call,
       Checker!GetSummary, Scan!GetSummary, Checker!SummaryIn, Scan!SummaryIn,
       Checker!UnknownSummary, Scan!UnknownSummary,
       Checker!Combined, Scan!Combined, Checker!LooksLikeReduction, Scan!LooksLikeReduction

\* analyze() has returned.
LEMMA AnalysisIsOver == pc = "done" => ~Next
BY DEF Next, AnalyzeFromIR, BuildCallGraph, Augment, ComputeLocalSummaries,
       ComputeLocalSummariesThrows, Seed, ListScc, SccsListed, Propagate,
       Propagation!Next, Propagation!NothingToDo, Propagation!StartPass,
       Propagation!CollapseCycle, Propagation!PassSingleton, Propagation!PushToCallers,
       Propagation!EndPass, Propagation!Finalize

\* Classification changes nothing of what was analysed.
THEOREM AnalysisStays == SpecAll => Spec
<1>1. InitAll => Init
  BY DEF InitAll
<1>2. [NextAll]_allVars => [Next]_vars
  BY DEF NextAll, Analyze, TakeNest, Classify, allVars, analysis
<1> QED BY <1>1, <1>2, PTL DEF SpecAll, Spec

\* classify() starts with nothing established.
LEMMA ScanStarts == Scan!Init' => Scan!TypeOK' /\ Scan!ScanInv'
<1>1. Scan!Init => Scan!TypeOK /\ Scan!ScanInv
  BY Scan!ScanInit, ScanAssumptions
<1> QED BY <1>1, PTL

LEMMA ScanContinues ==
    Scan!TypeOK /\ Scan!ScanInv /\ [Scan!Next]_Scan!vars => Scan!TypeOK' /\ Scan!ScanInv'
<1>1. Scan!TypeOK /\ [Scan!Next]_Scan!vars => Scan!TypeOK'
  BY Scan!TypeStep, ScanAssumptions
<1>2. Scan!TypeOK /\ Scan!ScanInv /\ [Scan!Next]_Scan!vars => Scan!ScanInv'
  BY Scan!ScanStep, ScanAssumptions
<1> QED BY <1>1, <1>2

LEMMA InitAllInv == InitAll => AllInv
BY InitInv DEF InitAll, AllInv, VerdictInv, BeforeInv

LEMMA TakeKeeps == ASSUME AllInv, TakeNest PROVE VerdictInv' /\ BeforeInv'
<1>1. pc' = "done" /\ step' = "arrays" /\ summaries' = summaries
  BY DEF TakeNest, analysis, vars
<1>2. summaries \in UNION {[D -> Propagation!Summary] : D \in SUBSET Functions}
  BY TypesFromInv DEF AllInv, TypeOK
<1>3. nest' \in Nests
  BY DEF TakeNest, NestsOf
<1>4. Scan!Init'
  BY <1>1, <1>2, <1>3 DEF TakeNest, Scan!Init
<1> QED BY <1>1, <1>4, ScanStarts DEF VerdictInv, BeforeInv

LEMMA ClassifyKeeps == ASSUME AllInv, Classify PROVE VerdictInv' /\ BeforeInv'
<1>1. Scan!Next /\ pc' = pc
  BY SameScan DEF Classify, analysis, vars
<1>2. step # "none" /\ step' # "none"
  BY <1>1 DEF Scan!Next, Scan!ArrayIsSerial, Scan!ArrayIsClear, Scan!ArraysScanned,
              Scan!CallIsSerial, Scan!CallIsClear, Scan!CallsScanned, Scan!Combine,
              Scan!Classified
<1> QED BY <1>1, <1>2, ScanContinues DEF AllInv, VerdictInv, BeforeInv

LEMMA StepAllInv == AllInv /\ [NextAll]_allVars => AllInv'
<1> SUFFICES ASSUME AllInv, [NextAll]_allVars PROVE AllInv'
  OBVIOUS
<1>1. IInv'
  BY StepInv DEF AllInv, NextAll, Analyze, TakeNest, Classify, allVars, analysis
<1>2. CASE TakeNest
  BY <1>1, <1>2, TakeKeeps DEF AllInv
<1>3. CASE Classify
  BY <1>1, <1>3, ClassifyKeeps DEF AllInv
<1>4. CASE Analyze
  <2>1. Next /\ UNCHANGED classification
    BY <1>4 DEF Analyze
  <2>2. step = "none" /\ step' = "none" /\ verdict' = verdict
    BY <2>1, AnalysisIsOver DEF AllInv, VerdictInv, classification
  <2> QED BY <1>1, <2>2 DEF AllInv, VerdictInv, BeforeInv
<1>5. CASE UNCHANGED allVars
  <2>1. UNCHANGED Scan!vars /\ pc' = pc
    BY <1>5 DEF allVars, analysis, vars, classification, Scan!vars
  <2>2. step' = step /\ verdict' = verdict
    BY <2>1 DEF Scan!vars
  <2> QED BY <1>1, <2>1, <2>2, ScanContinues DEF AllInv, VerdictInv, BeforeInv
<1> QED BY <1>2, <1>3, <1>4, <1>5 DEF NextAll

\* What the properties say of a nest is what the proofs about the checker say.
LEMMA SameVerdicts ==
    /\ Scan!Transformable = Checker!Transformable
    /\ Scan!Calls = Checker!Calls /\ Scan!LoopArrays = Checker!LoopArrays
    /\ \A c : Scan!GetSummary(c) = GetSummary(c)
BY DEF Scan!Transformable, Checker!Transformable, Scan!Calls, Checker!Calls,
       Scan!LoopArrays, Checker!LoopArrays, Scan!GetSummary, Scan!SummaryIn,
       Scan!UnknownSummary, GetSummary, UnknownSummary, Known, Propagation!NewSummary

\* In a nest that may be transformed no summary stands in the way.
LEMMA SummariesOfTransformed ==
    ASSUME AllInv, Checker!Transformable, NEW c \in Checker!Calls
    PROVE  /\ pc = "done" /\ c \in Names
           /\ GetSummary(c).isConservative => GetSummary(c).isPure
           /\ GetSummary(c).isPure \/ GetSummary(c).mod \cap Checker!LoopArrays = {}
<1>1. step # "none"
  BY DEF AllInv, BeforeInv, Checker!Transformable
<1>2. pc = "done" /\ Scan!TypeOK /\ Scan!ScanInv
  BY <1>1 DEF AllInv, VerdictInv
<1>3. ~Scan!Interferes(c) /\ ~Scan!IsApproximate(c)
  BY <1>2, SameVerdicts, Scan!TransformableIsClear, ScanAssumptions
<1>4. nest \in Nests
  BY <1>2 DEF Scan!TypeOK
<1>5. c \in Names
  BY <1>4, NestsAreLoopNests DEF Checker!Calls
<1> QED BY <1>2, <1>3, <1>5, SameVerdicts DEF Scan!Interferes, Scan!IsApproximate

LEMMA HarmlessFromInv == AllInv => TransformedCallsAreHarmless
<1> SUFFICES ASSUME AllInv, Checker!Transformable, NEW c \in Checker!Calls \ Whitelist
             PROVE  /\ CanCall(c) \cap Unseen = {}
                    /\ ~failed => \A g \in CanCall(c) \cap Defined :
                                      ir[g].mod \cap Checker!LoopArrays = {}
  BY DEF TransformedCallsAreHarmless
<1>1. /\ pc = "done" /\ c \in Names
      /\ GetSummary(c).isConservative => GetSummary(c).isPure
      /\ GetSummary(c).isPure \/ GetSummary(c).mod \cap Checker!LoopArrays = {}
  BY SummariesOfTransformed
<1>2. UnresolvedIsReported /\ LoopWritesReported /\ PurityFromIR
  BY UnresolvedFromInv, LoopWritesFromInv, PurityFromInv DEF AllInv
<1>3. CanCall(c) \cap Unseen = {}
  BY <1>1, <1>2 DEF UnresolvedIsReported
<1>4. ASSUME ~failed, NEW g \in CanCall(c) \cap Defined
      PROVE  ir[g].mod \cap Checker!LoopArrays = {}
  <2>1. c \in CanCall(c)
    BY <1>1, ReachesSelf, NamesAreFunctions DEF CanCall
  <2>2. project # "built" /\ c \in Defined
    BY <1>1, <1>3, <1>4, <2>1 DEF Unseen, Unresolved
  <2>3. CASE GetSummary(c).isPure
    BY <1>1, <1>2, <1>4, <2>2, <2>3 DEF PurityFromIR
  <2>4. CASE ~GetSummary(c).isPure
    BY <1>1, <1>2, <1>4, <2>4 DEF LoopWritesReported
  <2> QED BY <2>3, <2>4
<1> QED BY <1>3, <1>4

\* A loop that gets a directive calls, whitelisted calls apart, only functions
\* that lead to no Unseen one and, unless a phase failed, to none that writes in
\* its loops an array of this loop: for every program, whitelist and loop, on
\* both paths of the analysis and in every order of components.
THEOREM CallsAreHarmless == SpecAll => []TransformedCallsAreHarmless
<1>1. AllInv => TransformedCallsAreHarmless
  BY HarmlessFromInv
<1> QED BY <1>1, InitAllInv, StepAllInv, PTL DEF SpecAll
=============================================================================
