---------------------- MODULE ParallelismCheckerProofs ----------------------
(***************************************************************************)
(* Proofs about ParallelismChecker, for every loop nest, every map of      *)
(* summaries, every trip count and every reference meaning.                *)
(***************************************************************************)
EXTENDS ParallelismChecker, TLAPS

\* What the scan has established so far, and why it ended as it did.  The two
\* first conjuncts hold in every state: a definite finding stops the scan at
\* the array or call that made it.
ScanInv ==
    /\ \A array \in LoopArrays \ toScan :
          ~HasCarriedDependence(array) /\ (HasUnknownIndex(array) => arrayUnknown)
    /\ \A n \in 1..(callIdx - 1) :
          ~Interferes(loop.calls[n]) /\ (IsApproximate(loop.calls[n]) => callUnknown)
    /\ pc \in {"calls", "combine"} => toScan = {}
    /\ pc = "combine" => callIdx \notin DOMAIN loop.calls
    /\ verdict = "SERIAL_ONLY" =>
          \/ \E array \in LoopArrays : HasCarriedDependence(array)
          \/ \E n \in DOMAIN loop.calls : Interferes(loop.calls[n])
    /\ verdict \in Verdicts \ {"SERIAL_ONLY"} =>
          toScan = {} /\ callIdx \notin DOMAIN loop.calls
    /\ Transformable => ~arrayUnknown /\ ~callUnknown

\* The argument of classify() is a loop nest.
LEMMA LoopType ==
    ASSUME TypeOK
    PROVE  /\ loop \in LoopNest
           /\ loop.calls \in Seq(CalleeNames) /\ loop.accesses \subseteq Access
           /\ DOMAIN loop.calls = 1..Len(loop.calls) /\ Len(loop.calls) \in Nat
<1>1. loop \in LoopNest
  BY LoopsAreLoopNests DEF TypeOK
<1>2. loop.calls \in Seq(CalleeNames) /\ loop.accesses \subseteq Access
  BY <1>1 DEF LoopNest
<1> QED BY <1>1, <1>2

\* The initial states are typed and nothing is established yet.
LEMMA ScanInit == Init => TypeOK /\ ScanInv
<1> SUFFICES ASSUME Init PROVE TypeOK /\ ScanInv
  OBVIOUS
<1>1. loop \in LoopNest
  BY LoopsAreLoopNests DEF Init
<1>2. loop.calls \in Seq(CalleeNames)
  BY <1>1 DEF LoopNest
<1>3. Len(loop.calls) \in Nat /\ 1 \in 1..(Len(loop.calls) + 1)
  BY <1>2
<1>4. TypeOK
  BY <1>3 DEF Init, TypeOK, LoopArrays, Verdicts
<1>5. ScanInv
  BY DEF Init, ScanInv, LoopArrays, Transformable, Verdicts
<1> QED BY <1>4, <1>5

\* Every step keeps the types.
LEMMA TypeStep == TypeOK /\ [Next]_vars => TypeOK'
<1> SUFFICES ASSUME TypeOK, [Next]_vars PROVE TypeOK'
  OBVIOUS
<1> USE DEF TypeOK, LoopArrays, Verdicts
<1>1. ASSUME NEW array \in Names, ArrayIsSerial(array) PROVE TypeOK'
  BY <1>1 DEF ArrayIsSerial, Classified
<1>2. ASSUME NEW array \in Names, ArrayIsClear(array) PROVE TypeOK'
  BY <1>2 DEF ArrayIsClear, HasUnknownIndex
<1>3. CASE ArraysScanned
  BY <1>3 DEF ArraysScanned
<1>4. CASE CallIsSerial
  BY <1>4 DEF CallIsSerial, Classified
<1>5. CASE CallIsClear
  <2>1. callIdx + 1 \in 1..(Len(loop.calls) + 1)
    BY <1>5, LoopType DEF CallIsClear
  <2> QED BY <1>5, <2>1 DEF CallIsClear, IsApproximate
<1>6. CASE CallsScanned
  BY <1>6 DEF CallsScanned
<1>7. CASE Combine
  BY <1>7 DEF Combine, Classified, Combined
<1>8. CASE UNCHANGED vars
  BY <1>8 DEF vars
<1> QED BY <1>1, <1>2, <1>3, <1>4, <1>5, <1>6, <1>7, <1>8 DEF Next

\* The tests the scan applies depend only on the arguments of classify().
LEMMA ArgumentsFixed ==
    ASSUME TypeOK, [Next]_vars
    PROVE  /\ loop' = loop /\ summaries' = summaries
           /\ LoopArrays' = LoopArrays
           /\ \A array : HasCarriedDependence(array)' <=> HasCarriedDependence(array)
           /\ \A array : HasUnknownIndex(array)' <=> HasUnknownIndex(array)
           /\ \A c : Interferes(c)' <=> Interferes(c)
           /\ \A c : IsApproximate(c)' <=> IsApproximate(c)
<1>1. loop' = loop /\ summaries' = summaries
  BY DEF Next, vars, ArrayIsSerial, ArrayIsClear, ArraysScanned, CallIsSerial,
         CallIsClear, CallsScanned, Combine
<1> QED BY <1>1 DEF LoopArrays, HasCarriedDependence, HasUnknownIndex, Interferes,
           IsApproximate, AffineAccesses, IsAffine, Carried, GetSummary, SummaryIn,
           TouchesNonParameter

\* Every step keeps what the scan has established.
LEMMA ScanStep == TypeOK /\ ScanInv /\ [Next]_vars => ScanInv'
<1> SUFFICES ASSUME TypeOK, ScanInv, [Next]_vars PROVE ScanInv'
  OBVIOUS
<1>a. /\ loop' = loop /\ LoopArrays' = LoopArrays
      /\ \A array : HasCarriedDependence(array)' <=> HasCarriedDependence(array)
      /\ \A array : HasUnknownIndex(array)' <=> HasUnknownIndex(array)
      /\ \A c : Interferes(c)' <=> Interferes(c)
      /\ \A c : IsApproximate(c)' <=> IsApproximate(c)
  BY ArgumentsFixed
<1>1. ASSUME NEW array \in Names, ArrayIsSerial(array) PROVE ScanInv'
  <2>1. array \in LoopArrays
    BY <1>1 DEF ArrayIsSerial, TypeOK
  <2> QED BY <1>a, <1>1, <2>1 DEF ArrayIsSerial, Classified, ScanInv, Transformable,
             Verdicts
<1>2. ASSUME NEW array \in Names, ArrayIsClear(array) PROVE ScanInv'
  BY <1>a, <1>2 DEF ArrayIsClear, ScanInv, Transformable, TypeOK, Verdicts
<1>3. CASE ArraysScanned
  BY <1>a, <1>3 DEF ArraysScanned, ScanInv, Transformable
<1>4. CASE CallIsSerial
  BY <1>a, <1>4 DEF CallIsSerial, Classified, Call, ScanInv, Transformable, Verdicts
<1>5. CASE CallIsClear
  <2>1. /\ callIdx \in DOMAIN loop.calls /\ ~Interferes(loop.calls[callIdx])
        /\ callUnknown' = (callUnknown \/ IsApproximate(loop.calls[callIdx]))
        /\ callIdx' = callIdx + 1 /\ pc = "calls" /\ verdict = "none"
        /\ toScan' = toScan /\ arrayUnknown' = arrayUnknown /\ pc' = pc /\ verdict' = verdict
    BY <1>5 DEF CallIsClear, Call, TypeOK, Verdicts
  <2>2. \A n \in 1..(callIdx' - 1) : n = callIdx \/ n \in 1..(callIdx - 1)
    BY <2>1, LoopType DEF TypeOK
  <2>3. \A n \in 1..(callIdx' - 1) :
           ~Interferes(loop.calls[n]) /\ (IsApproximate(loop.calls[n]) => callUnknown')
    BY <2>1, <2>2 DEF ScanInv
  <2> QED BY <1>a, <2>1, <2>3 DEF ScanInv, Transformable, Verdicts
<1>6. CASE CallsScanned
  BY <1>a, <1>6 DEF CallsScanned, ScanInv, Transformable
<1>7. CASE Combine
  <2>1. verdict' = "SERIAL_ONLY" => FALSE
    BY <1>7 DEF Combine, Classified, Combined
  <2>2. Transformable' => ~arrayUnknown /\ ~callUnknown
    BY <1>7 DEF Combine, Classified, Combined, Transformable
  <2> QED BY <1>a, <1>7, <2>1, <2>2 DEF Combine, Classified, ScanInv
<1>8. CASE UNCHANGED vars
  BY <1>a, <1>8 DEF vars, ScanInv, Transformable
<1> QED BY <1>1, <1>2, <1>3, <1>4, <1>5, <1>6, <1>7, <1>8 DEF Next

\* The invariant of the classification.
LEMMA ScanInvariant == Spec => [](TypeOK /\ ScanInv)
<1>1. TypeOK /\ ScanInv /\ [Next]_vars => (TypeOK /\ ScanInv)'
  BY TypeStep, ScanStep
<1> QED BY <1>1, ScanInit, PTL DEF Spec

\* A transformable verdict means that no test of the scan fired.
LEMMA TransformableIsClear ==
    ASSUME TypeOK, ScanInv, Transformable
    PROVE  /\ \A array \in LoopArrays :
                 ~HasCarriedDependence(array) /\ ~HasUnknownIndex(array)
           /\ \A c \in Calls : ~Interferes(c) /\ ~IsApproximate(c)
<1>1. toScan = {} /\ callIdx \notin DOMAIN loop.calls /\ ~arrayUnknown /\ ~callUnknown
  BY DEF ScanInv, Transformable, Verdicts
<1>2. DOMAIN loop.calls \subseteq 1..(callIdx - 1)
  BY <1>1, LoopType DEF TypeOK
<1> QED BY <1>1, <1>2 DEF ScanInv, Calls

\* The states of a classification are well-formed.
THEOREM TypeCorrect == Spec => []TypeOK
BY ScanInvariant, PTL

\* A loop classified PARALLEL_SAFE or REDUCTION_CANDIDATE has no loop-carried
\* conflict between its array accesses, whatever the trip count.
THEOREM SafeIsIndependent == Spec => []TransformableIsIndependent
<1>1. TypeOK /\ ScanInv => TransformableIsIndependent
  <2> SUFFICES ASSUME TypeOK, ScanInv, Transformable,
                      NEW a \in loop.accesses, NEW b \in loop.accesses,
                      NEW k \in Iterations, NEW l \in Iterations,
                      k # l, Conflict(a, k, b, l)
               PROVE  FALSE
    BY DEF TransformableIsIndependent, IterationsIndependent
  <2>1. a.array = b.array /\ (a.isWrite \/ b.isWrite) /\ Element(a, k) = Element(b, l)
    BY DEF Conflict
  <2>2. a.array \in LoopArrays
    BY DEF LoopArrays
  <2>3. ~HasCarriedDependence(a.array) /\ ~HasUnknownIndex(a.array)
    BY <2>2, TransformableIsClear
  <2>4. IsAffine(a.index) /\ IsAffine(b.index)
    BY <2>1, <2>3 DEF HasUnknownIndex
  <2>5. a.index.offset \in Int /\ b.index.offset \in Int
    BY LoopType, OffsetsAreIntegers DEF Access, Index
  <2>6. k \in Int /\ l \in Int
    BY TripCounts DEF Iterations
  <2>7. a.index.offset + k = b.index.offset + l
    BY <2>1, <2>4 DEF Element, IsAffine
  <2>8. Carried(a, b)
    BY <2>1, <2>5, <2>6, <2>7 DEF Carried
  <2> QED BY <2>1, <2>3, <2>4, <2>8 DEF HasCarriedDependence, AffineAccesses
<1> QED BY <1>1, ScanInvariant, PTL

\* If the summaries cover what the callees write, no call in a transformable
\* loop writes an array the loop subscripts.
THEOREM CallsKeepOut == Spec => []TransformableCallsKeepOut
<1>1. TypeOK /\ ScanInv => TransformableCallsKeepOut
  <2> SUFFICES ASSUME TypeOK, ScanInv, Transformable,
                      \A c \in Calls : Covers(GetSummary(c), c),
                      NEW c \in Calls, NEW v \in Writes[c], v \in LoopArrays
               PROVE  FALSE
    BY DEF TransformableCallsKeepOut
  <2>1. ~Interferes(c) /\ ~IsApproximate(c) /\ Covers(GetSummary(c), c)
    BY TransformableIsClear
  <2>2. ~GetSummary(c).isPure
    BY <2>1 DEF Covers
  <2>3. v \in GetSummary(c).mod \/ (v \in Globals /\ GetSummary(c).modifiesGlobals)
    BY <2>1, <2>2 DEF Covers, IsApproximate
  <2>4. v \in Globals => v \notin loop.params
    BY ParametersAreNotGlobals DEF TypeOK
  <2> QED BY <2>1, <2>2, <2>3, <2>4 DEF Interferes, TouchesNonParameter
<1> QED BY <1>1, ScanInvariant, PTL

\* SERIAL_ONLY is answered exactly when some array or call gives a definite
\* reason, no matter what inconclusive findings came before it.
THEOREM DefiniteWins == Spec => []DefiniteFindingWins
<1>1. TypeOK /\ ScanInv => DefiniteFindingWins
  <2> SUFFICES ASSUME TypeOK, ScanInv, pc = "done"
               PROVE  verdict = "SERIAL_ONLY" <=>
                        \/ \E array \in LoopArrays : HasCarriedDependence(array)
                        \/ \E c \in Calls : Interferes(c)
    BY DEF DefiniteFindingWins
  <2>1. CASE verdict = "SERIAL_ONLY"
    BY <2>1 DEF ScanInv, Calls
  <2>2. CASE verdict # "SERIAL_ONLY"
    <3>1. toScan = {} /\ callIdx \notin DOMAIN loop.calls
      BY <2>2 DEF ScanInv, TypeOK
    <3>2. DOMAIN loop.calls \subseteq 1..(callIdx - 1)
      BY <3>1, LoopType DEF TypeOK
    <3> QED BY <2>2, <3>1, <3>2 DEF ScanInv, Calls
  <2> QED BY <2>1, <2>2
<1> QED BY <1>1, ScanInvariant, PTL

\* A loop that calls something without a summary, or something approximated
\* that is not pure, is never transformed.
THEOREM UnresolvedRefused == Spec => []UnresolvedIsRefused
<1>1. TypeOK /\ ScanInv => UnresolvedIsRefused
  <2> SUFFICES ASSUME TypeOK, ScanInv, Transformable, NEW c \in Calls
               PROVE  /\ c \in DOMAIN summaries
                      /\ summaries[c].isConservative => summaries[c].isPure
    BY DEF UnresolvedIsRefused
  <2>1. GetSummary(c).isConservative => GetSummary(c).isPure
    BY TransformableIsClear DEF IsApproximate
  <2>2. CASE c \in DOMAIN summaries
    BY <2>1, <2>2 DEF GetSummary, SummaryIn
  <2>3. CASE c \notin DOMAIN summaries
    BY <2>1, <2>3 DEF GetSummary, SummaryIn, UnknownSummary
  <2> QED BY <2>2, <2>3
<1> QED BY <1>1, ScanInvariant, PTL

\* A refusal as serial has a reason: a conflict at the distance of two offsets,
\* which is there whenever the loop has that many iterations, or a call.
THEOREM SerialReason == Spec => []SerialHasReason
<1>1. TypeOK /\ ScanInv => SerialHasReason
  <2> SUFFICES ASSUME TypeOK, ScanInv, verdict = "SERIAL_ONLY",
                      ~ \E c \in Calls : Interferes(c)
               PROVE  \E a, b \in loop.accesses :
                         LET d == a.index.offset - b.index.offset
                         IN  /\ d > 0
                             /\ \A k \in Iterations :
                                   k + d \in Iterations => Conflict(a, k, b, k + d)
    BY DEF SerialHasReason
  <2>1. PICK array \in LoopArrays : HasCarriedDependence(array)
    BY DEF ScanInv, Calls
  <2>2. PICK x \in AffineAccesses(array), y \in AffineAccesses(array) : Carried(x, y)
    BY <2>1 DEF HasCarriedDependence
  <2>3. \A a \in AffineAccesses(array) :
           /\ a \in loop.accesses /\ a.array = array /\ IsAffine(a.index)
           /\ a.index.offset \in Int
    BY LoopType, OffsetsAreIntegers DEF AffineAccesses, Access, Index
  <2>4. ASSUME NEW a \in AffineAccesses(array), NEW b \in AffineAccesses(array),
               a.index.offset > b.index.offset, a.isWrite \/ b.isWrite,
               NEW k \in Iterations
        PROVE  Conflict(a, k, b, k + (a.index.offset - b.index.offset))
    <3>1. k \in Int
      BY TripCounts DEF Iterations
    <3>2. a.index.offset \in Int /\ b.index.offset \in Int
      BY <2>3
    <3>3. /\ a.index.base = loop.inductionVar /\ b.index.base = loop.inductionVar
          /\ a.array = b.array
      BY <2>3 DEF IsAffine
    <3> QED BY <2>4, <3>1, <3>2, <3>3 DEF Conflict, Element
  <2>5. x.index.offset # y.index.offset /\ (x.isWrite \/ y.isWrite)
    BY <2>2 DEF Carried
  <2>6. CASE x.index.offset > y.index.offset
    <3>1. x.index.offset - y.index.offset > 0
      BY <2>3, <2>6
    <3> QED BY <2>3, <2>4, <2>5, <2>6, <3>1
  <2>7. CASE y.index.offset > x.index.offset
    <3>1. y.index.offset - x.index.offset > 0
      BY <2>3, <2>7
    <3> QED BY <2>3, <2>4, <2>5, <2>7, <3>1
  <2> QED BY <2>3, <2>5, <2>6, <2>7
<1> QED BY <1>1, ScanInvariant, PTL
=============================================================================
