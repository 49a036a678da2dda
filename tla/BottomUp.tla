------------------------------ MODULE BottomUp ------------------------------
(***************************************************************************)
(* propagateBottomUp() with the computeSCCs() it calls: the search of      *)
(* TarjanScc lists the components, in an order that depends on how two     *)
(* hash maps are iterated, and the fixpoint of ModRefPropagation goes      *)
(* through that list.                                                      *)
(*                                                                         *)
(* The local summaries are seeded before the search in the code.  Here     *)
(* they are chosen when it returns: the search reads none of them.         *)
(***************************************************************************)
EXTENDS ModRefPropagation, SequencesExt

CONSTANT Seedings       \* the local summaries considered for each call graph

VARIABLES
    searching,          \* computeSCCs() has not returned
    found,              \* its list, components being vectors
    index, lowlink, nextIndex, stack, onStack, frames   \* see TarjanScc

search == <<found, index, lowlink, nextIndex, stack, onStack, frames>>

Search == INSTANCE TarjanScc WITH sccs <- found

BottomUpInit ==
    /\ Search!Init
    /\ searching = TRUE
    /\ local = <<>> /\ summaries = <<>> /\ sccs = <<>>
    /\ idx = 1 /\ changed = TRUE /\ passes = 0
    /\ pc = "while"

SearchStep ==
    /\ searching
    /\ Search!Next
    /\ UNCHANGED <<searching, local, summaries, sccs, idx, changed, passes, pc>>

\* What the propagation reads of a component is who is in it.
FoundSets == [k \in DOMAIN found |-> ToSet(found[k])]

\* computeSCCs() returns once every key is visited; its TarjanState dies.  (On
\* an empty call graph it is not called, to the same effect.)
SearchReturns ==
    /\ searching
    /\ frames = <<>> /\ DOMAIN callGraph \subseteq DOMAIN index
    /\ searching' = FALSE
    /\ sccs' = FoundSets
    /\ local' \in Seedings[callGraph] /\ summaries' = local'
    /\ found' = <<>>
    /\ index' = <<>> /\ lowlink' = <<>> /\ nextIndex' = 0
    /\ stack' = <<>> /\ onStack' = {} /\ frames' = <<>>
    /\ UNCHANGED <<callGraph, idx, changed, passes, pc>>

PropagationStep ==
    /\ ~searching
    /\ Next
    /\ UNCHANGED <<searching, search>>

BottomUpNext == SearchStep \/ SearchReturns \/ PropagationStep

BottomUpVars == <<vars, searching, search>>

\* One sequential call, which is not interrupted.
BottomUpSpec == BottomUpInit /\ [][BottomUpNext]_BottomUpVars /\ WF_BottomUpVars(BottomUpNext)

-----------------------------------------------------------------------------
\* Types and bookkeeping of both parts: see TarjanScc and ModRefPropagation.
BottomUpTypeOK ==
    /\ searching \in BOOLEAN
    /\ searching => Search!TypeOK
    /\ TypeOK

\* TarjanScc: the stack and its flags agree, are in order of visit, hold every
\* activation's node, and with the listed components hold what was visited.
StackDiscipline == Search!StackDiscipline

\* TarjanScc: a stacked node's lowlink is the index of a node still stacked
\* that a call chain leads to.
LowlinkIsWitnessed == Search!LowlinkIsWitnessed

Order == INSTANCE SccOrder WITH sccs <- IF searching THEN FoundSets ELSE sccs

\* What the propagation is handed is the abstract listing, made by the search
\* one component at a time and completed by it: each component once, after all
\* the components it calls into.
ImplementsSccOrder == Order!Spec
=============================================================================
