--------------------------- MODULE TranslatorProofs ---------------------------
(***************************************************************************)
(* What holds of the translator in use for every source file, every        *)
(* profile and every hardware.  All of it rests on one observation: the    *)
(* output is a function of the source, the location map and the profile it *)
(* was made from.                                                          *)
(***************************************************************************)
EXTENDS Translator, FiniteSetTheorems, TLAPS

Estimated == {[loopId |-> l.line, estimate |-> EstimateLoop(l)] : l \in LoopNest}

Profiles == [kind : {"absent", "unreadable", "array"}, records : Seq(Estimated)]

\* The file, what was made of it, and the profile contain nothing that does
\* not come from a loop.
InputsInv ==
    /\ hw \in Hardwares /\ source \in Sources
    /\ ir \subseteq Sources /\ built \subseteq Sources /\ profiled \subseteq Sources
    /\ instrumented \subseteq Estimated
    /\ profile \in Profiles

\* Some loop of each line.
OnePerLine(s) ==
    {m \in [Lines(s) -> Loops(s)] : \A line \in Lines(s) : m[line].line = line}

Output(b) ==
    {[line |-> line, pragma |-> BuildPragmaText(b.found[line], Decision(b.kept, b.profile, line))] :
        line \in Decided(b.kept, b.profile) \cap b.lines}

\* The output is the one of its basis.
OutputInv ==
    /\ basis.ir \in Sources /\ basis.profile \in Profiles
    /\ \/ basis.kept = <<>>
       \/ basis.kept \in OnePerLine(basis.ir) /\ basis.found \in OnePerLine(basis.ir)
    /\ target = Output(basis)

\* The calls that --instrument puts into version s when it was parsed from s.
Called(s) ==
    {[loopId |-> l.line, estimate |-> EstimateLoop(l)] :
        l \in {m \in Loops(s) :
                 \E kept \in OnePerLine(s) : kept[m.line].verdict = "PARALLEL_SAFE"}}

\* What is said to be of a version is of that version.
FreshInv ==
    /\ \A s \in Sources : built = {s} => instrumented \subseteq Called(s)
    /\ \A s \in Sources : profiled = {s} =>
          \A k \in DOMAIN profile.records : profile.records[k] \in Called(s)
    /\ basis.fresh =>
          \A k \in DOMAIN basis.profile.records : basis.profile.records[k] \in Called(basis.ir)

IInv == InputsInv /\ OutputInv /\ FreshInv

\* The loops of a source are loop nests.
LEMMA LoopsTyped == \A s \in Sources : Loops(s) \subseteq LoopNest
  BY SourcesTyped DEF Loops

\* A location map has a loop of each line, and so has a search.
LEMMA MapsHaveOnePerLine ==
  \A s : LocationMaps(s) \subseteq OnePerLine(s) /\ Searches(s) \subseteq OnePerLine(s)
  BY DEF LocationMaps, Searches, OnePerLine

-----------------------------------------------------------------------------
(* The arithmetic of the estimates.                                        *)

\* Accesses are counted in natural numbers.
LEMMA AccessesNat ==
  ASSUME NEW l \in LoopNest, NEW isWrite \in BOOLEAN
  PROVE  Accesses(l, isWrite) \in Nat
  <1> DEFINE counted == {k \in DOMAIN l.arrayAccesses : l.arrayAccesses[k].isWrite = isWrite}
  <1>1. l.arrayAccesses \in Seq(Access)
    BY DEF LoopNest
  <1>2. Len(l.arrayAccesses) \in Nat /\ DOMAIN l.arrayAccesses = 1..Len(l.arrayAccesses)
    BY <1>1
  <1>3. IsFiniteSet(1..Len(l.arrayAccesses))
    BY <1>2, FS_Interval
  <1>4. IsFiniteSet(counted)
    BY <1>2, <1>3, FS_Subset
  <1> QED
    BY <1>4, FS_CardinalityType DEF Accesses

\* Work and traffic of an estimate are proportional: a quarter of a flop per
\* byte, whatever the loop does.
LEMMA EstimateRatio ==
  ASSUME NEW l \in LoopNest
  PROVE  LET e == EstimateLoop(l)
         IN  /\ e.trips \in Int /\ e.flops \in Int
             /\ e.bytesRead \in Int /\ e.bytesWritten \in Int
             /\ e.bytesRead + e.bytesWritten = 4 * e.flops
  <1> DEFINE trips == IF l.constant THEN l.bound ELSE 1
             reads == Accesses(l, FALSE)
             writes == Accesses(l, TRUE)
  <1>0. reads \in Nat /\ writes \in Nat
    BY AccessesNat
  <1>1. trips \in Int
    BY DEF LoopNest
  <1> HIDE DEF trips, reads, writes
  <1>2. reads * 8 * trips + writes * 8 * trips = 4 * ((reads + writes) * 2 * trips)
    BY <1>0, <1>1, SMT
  <1>3. /\ (reads + writes) * 2 * trips \in Int
        /\ reads * 8 * trips \in Int /\ writes * 8 * trips \in Int
    BY <1>0, <1>1, SMT
  <1> QED
    BY <1>1, <1>2, <1>3 DEF EstimateLoop, trips, reads, writes

\* A positive amount of work does not reach a ridge above a quarter.
LEMMA BelowRidge ==
  ASSUME NEW work \in Int, NEW peak \in Int, NEW bandwidth \in Int,
         work > 0, 4 * peak > bandwidth
  PROVE  ~(work * bandwidth >= peak * (4 * work))
  <1>1. work * (4 * peak - bandwidth) > 0
    BY SMT
  <1>2. work * (4 * peak - bandwidth) = peak * (4 * work) - work * bandwidth
    BY SMT
  <1>3. work * bandwidth \in Int /\ peak * (4 * work) \in Int
    BY SMT
  <1> QED
    BY <1>1, <1>2, <1>3

AboveQuarter(h) ==
    h.peakBandwidth > 0 /\ h.peakFlops > 0 /\ 4 * h.peakFlops > h.peakBandwidth

\* No estimate reaches the ridge of such hardware.
LEMMA EstimateBelowRidge ==
  ASSUME NEW l \in LoopNest, NEW h \in Hardware, AboveQuarter(h)
  PROVE  ~Profitable(EstimateLoop(l), h)
  <1> DEFINE e == EstimateLoop(l)
             bytes == e.bytesRead + e.bytesWritten
  <1>1. e.flops \in Int /\ bytes \in Int /\ bytes = 4 * e.flops
    BY EstimateRatio, SMT
  <1>2. h.peakFlops \in Int /\ h.peakBandwidth \in Int
    BY DEF Hardware
  <1>3. CASE bytes > 0
    <2>1. e.flops > 0
      BY <1>1, <1>3
    <2>2. ~(e.flops * h.peakBandwidth >= h.peakFlops * (4 * e.flops))
      BY <2>1, <1>1, <1>2, BelowRidge DEF AboveQuarter
    <2>3. ~(e.flops * h.peakBandwidth >= h.peakFlops * bytes)
      BY <2>2, <1>1
    <2>4. ~ReachesRidge(e, h)
      <3> HIDE DEF e
      <3> QED
        BY <2>3, <1>3 DEF ReachesRidge, AboveQuarter
    <2> QED
      BY <2>4 DEF Profitable
  <1>4. CASE ~(bytes > 0)
    <2>1. ~(0 * h.peakBandwidth >= h.peakFlops * 1)
      BY <1>2 DEF AboveQuarter
    <2>2. ~ReachesRidge(e, h)
      <3> HIDE DEF e
      <3> QED
        BY <2>1, <1>4 DEF ReachesRidge, AboveQuarter
    <2> QED
      BY <2>2 DEF Profitable
  <1> QED
    BY <1>3, <1>4

-----------------------------------------------------------------------------
(* The inductive invariant.                                                *)

LEMMA InitIInv == Init => IInv
  <1> SUFFICES ASSUME Init PROVE IInv
    OBVIOUS
  <1>1. <<>> \in Seq(Estimated)
    OBVIOUS
  <1>2. NoProfile \in Profiles /\ NoProfile.records = <<>>
    BY <1>1 DEF NoProfile, Profiles
  <1>3. InputsInv
    BY <1>2 DEF Init, InputsInv
  <1>4. OutputInv
    BY <1>2 DEF Init, NoBasis, OutputInv, Output, Decided
  <1>5. FreshInv
    BY <1>2 DEF Init, NoBasis, FreshInv
  <1> QED
    BY <1>3, <1>4, <1>5 DEF IInv

\* What is offloaded depends on nothing that changes but the hardware.
LEMMA OutputStays ==
  ASSUME OutputInv, UNCHANGED <<hw, target, basis>>
  PROVE  OutputInv'
  <1>1. Output(basis)' = Output(basis)
    BY DEF Output, Decided, Decision, Offload, ProfitableByProfile, StaticallyProfitable,
           Profitable, ReachesRidge, Usable
  <1>2. OnePerLine(basis.ir)' = OnePerLine(basis.ir)
    BY DEF OnePerLine, Lines, Loops
  <1> QED
    BY <1>1, <1>2 DEF OutputInv

\* A transformation makes the output that of its basis.
LEMMA TransformKeeps ==
  ASSUME IInv, NEW p \in Profiles, NEW s \in ir,
         NEW kept \in OnePerLine(s), NEW found \in OnePerLine(s),
         NEW lines, NEW fresh \in BOOLEAN,
         fresh => \A k \in DOMAIN p.records : p.records[k] \in Called(s),
         target' = {[line |-> line, pragma |-> BuildPragmaText(found[line], Decision(kept, p, line))] :
                       line \in Decided(kept, p) \cap lines},
         basis' = [ir |-> s, kept |-> kept, found |-> found, lines |-> lines,
                   profile |-> p, fresh |-> fresh],
         ir' = {},
         UNCHANGED <<hw, source, instrumented, profile, built, profiled>>
  PROVE  IInv'
  <1>1. s \in Sources
    BY DEF IInv, InputsInv
  <1>2. InputsInv'
    BY DEF IInv, InputsInv
  <1>3. /\ basis'.ir = s /\ basis'.kept = kept /\ basis'.found = found
        /\ basis'.lines = lines /\ basis'.profile = p /\ basis'.fresh = fresh
    OBVIOUS
  <1>4. Output(basis)' = target'
    BY <1>3 DEF Output, Decided, Decision, Offload, ProfitableByProfile, StaticallyProfitable,
                Profitable, ReachesRidge, Usable
  <1>5. OnePerLine(basis.ir)' = OnePerLine(s)
    BY <1>3 DEF OnePerLine, Lines, Loops
  <1>6. OutputInv'
    BY <1>1, <1>3, <1>4, <1>5 DEF OutputInv
  <1>7. Called(basis.ir)' = Called(s)
    BY <1>3 DEF Called, OnePerLine, Lines, Loops
  <1>8. FreshInv'
    BY <1>1, <1>3, <1>7 DEF IInv, FreshInv
  <1> QED
    BY <1>2, <1>6, <1>8 DEF IInv

\* Without a profile, and with the one there is, of whatever it may be.
LEMMA TransformsKeep ==
  ASSUME IInv, TransformStatic \/ TransformWithProfile
  PROVE  IInv'
  <1>1. PICK p \in Profiles, from \in SUBSET Sources :
          /\ TransformText(p, from) \/ TransformAst(p, from)
          /\ \A s \in Sources : from = {s} =>
                \A k \in DOMAIN p.records : p.records[k] \in Called(s)
    <2>1. NoProfile \in Profiles /\ DOMAIN NoProfile.records = {}
      <3>1. <<>> \in Seq(Estimated) /\ DOMAIN <<>> = {}
        OBVIOUS
      <3> QED
        BY <3>1 DEF NoProfile, Profiles
    <2>2. /\ profile \in Profiles /\ profiled \in SUBSET Sources
          /\ \A s \in Sources : profiled = {s} =>
                \A k \in DOMAIN profile.records : profile.records[k] \in Called(s)
      BY DEF IInv, InputsInv, FreshInv
    <2>3. CASE TransformStatic
      BY <2>1, <2>3 DEF TransformStatic
    <2>4. CASE TransformWithProfile
      BY <2>2, <2>4 DEF TransformWithProfile
    <2> QED
      BY <2>3, <2>4
  <1>2. CASE TransformText(p, from)
    <2>1. PICK s \in ir : \E kept \in LocationMaps(s) :
            /\ target' = EmitTextLevelOmp(kept, p)
            /\ basis' = [ir |-> s, kept |-> kept, found |-> kept, lines |-> 1..source.length,
                         profile |-> p, fresh |-> from = {s}]
            /\ ir' = {}
            /\ UNCHANGED <<hw, source, instrumented, profile, built, profiled>>
      BY <1>2 DEF TransformText
    <2>2. PICK kept \in LocationMaps(s) :
            /\ target' = EmitTextLevelOmp(kept, p)
            /\ basis' = [ir |-> s, kept |-> kept, found |-> kept, lines |-> 1..source.length,
                         profile |-> p, fresh |-> from = {s}]
            /\ ir' = {}
            /\ UNCHANGED <<hw, source, instrumented, profile, built, profiled>>
      BY <2>1
    <2>3. s \in Sources
      BY DEF IInv, InputsInv
    <2>4. kept \in OnePerLine(s)
      BY MapsHaveOnePerLine
    <2> QED
      BY <1>1, <2>2, <2>3, <2>4, TransformKeeps DEF EmitTextLevelOmp
  <1>3. CASE TransformAst(p, from)
    <2>1. PICK s \in ir : \E kept \in LocationMaps(s), found \in Searches(s) :
            /\ target' = ApplyPragmas(kept, found, p)
            /\ basis' = [ir |-> s, kept |-> kept, found |-> found, lines |-> Lines(s),
                         profile |-> p, fresh |-> from = {s}]
            /\ ir' = {}
            /\ UNCHANGED <<hw, source, instrumented, profile, built, profiled>>
      BY <1>3 DEF TransformAst
    <2>2. PICK kept \in LocationMaps(s), found \in Searches(s) :
            /\ target' = ApplyPragmas(kept, found, p)
            /\ basis' = [ir |-> s, kept |-> kept, found |-> found, lines |-> Lines(s),
                         profile |-> p, fresh |-> from = {s}]
            /\ ir' = {}
            /\ UNCHANGED <<hw, source, instrumented, profile, built, profiled>>
      BY <2>1
    <2>3. s \in Sources
      BY DEF IInv, InputsInv
    <2>4. kept \in OnePerLine(s) /\ found \in OnePerLine(s)
      BY MapsHaveOnePerLine
    <2>5. Decided(kept, p) \cap Lines(s) = Decided(kept, p)
      BY <2>4 DEF Decided, OnePerLine
    <2>6. target' = {[line |-> line, pragma |-> BuildPragmaText(found[line], Decision(kept, p, line))] :
                         line \in Decided(kept, p) \cap Lines(s)}
      BY <2>2, <2>5 DEF ApplyPragmas
    <2>7. (from = {s}) => \A k \in DOMAIN p.records : p.records[k] \in Called(s)
      BY <1>1, <2>3
    <2> DEFINE fresh == from = {s}
    <2>8. /\ fresh \in BOOLEAN
          /\ fresh => \A k \in DOMAIN p.records : p.records[k] \in Called(s)
          /\ basis' = [ir |-> s, kept |-> kept, found |-> found, lines |-> Lines(s),
                       profile |-> p, fresh |-> fresh]
          /\ ir' = {}
          /\ UNCHANGED <<hw, source, instrumented, profile, built, profiled>>
      BY <2>2, <2>7
    <2> HIDE DEF fresh
    <2> QED
      BY <2>4, <2>6, <2>8, TransformKeeps
  <1> QED
    BY <1>1, <1>2, <1>3

\* A run of the program leaves a profile of its estimates.
LEMMA RunKeeps ==
  ASSUME IInv, profile' \in Profiles,
         \A k \in DOMAIN profile'.records : profile'.records[k] \in instrumented,
         profiled' = built,
         UNCHANGED <<hw, source, ir, instrumented, target, built, basis>>
  PROVE  IInv'
  <1>1. InputsInv'
    BY DEF IInv, InputsInv
  <1>2. OutputInv'
    BY OutputStays DEF IInv
  <1>3. Called(basis.ir)' = Called(basis.ir)
    BY DEF Called, OnePerLine, Lines, Loops
  <1>4. FreshInv'
    BY <1>3 DEF IInv, FreshInv
  <1> QED
    BY <1>1, <1>2, <1>4 DEF IInv

LEMMA StepIInv == IInv /\ [Next]_vars => IInv'
  <1> SUFFICES ASSUME IInv, [Next]_vars PROVE IInv'
    OBVIOUS
  <1>1. CASE Edit \/ LeaveOutputAlone \/ UNCHANGED vars
    <2>1. InputsInv'
      BY <1>1 DEF Edit, LeaveOutputAlone, vars, IInv, InputsInv
    <2>2. OutputInv'
      BY <1>1, OutputStays DEF Edit, LeaveOutputAlone, vars, IInv
    <2>3. UNCHANGED <<instrumented, profile, built, profiled, basis>>
      BY <1>1 DEF Edit, LeaveOutputAlone, vars
    <2>4. Called(basis.ir)' = Called(basis.ir)
      BY <2>3 DEF Called, OnePerLine, Lines, Loops
    <2>5. FreshInv'
      BY <2>3, <2>4 DEF IInv, FreshInv
    <2> QED
      BY <2>1, <2>2, <2>5 DEF IInv
  <1>2. CASE Parse
    <2>1. /\ ir' = {source} /\ target' = {} /\ basis' = NoBasis(source)
          /\ UNCHANGED <<hw, source, instrumented, profile, built, profiled>>
      BY <1>2 DEF Parse
    <2>2. InputsInv'
      BY <2>1 DEF IInv, InputsInv
    <2>3. /\ basis'.ir = source /\ basis'.kept = <<>> /\ basis'.profile = NoProfile
          /\ basis'.lines = {} /\ basis'.fresh = FALSE
      BY <2>1 DEF NoBasis
    <2>4. Output(basis)' = {}
      BY <2>3 DEF Output
    <2>5. NoProfile \in Profiles
      <3>1. <<>> \in Seq(Estimated)
        OBVIOUS
      <3> QED
        BY <3>1 DEF NoProfile, Profiles
    <2>6. OutputInv'
      BY <2>1, <2>3, <2>4, <2>5 DEF OutputInv, IInv, InputsInv
    <2>7. FreshInv'
      BY <2>1, <2>3 DEF IInv, FreshInv
    <2> QED
      BY <2>2, <2>6, <2>7 DEF IInv
  <1>3. CASE Instrument
    <2>1. PICK s \in ir : \E kept \in LocationMaps(s) :
            /\ instrumented' =
                  {[loopId |-> l.line, estimate |-> EstimateLoop(l)] :
                     l \in {m \in Loops(s) : /\ kept[m.line].verdict = "PARALLEL_SAFE"
                                             /\ m.line <= source.length}}
            /\ built' = {s, source}
      BY <1>3 DEF Instrument
    <2>2. PICK kept \in LocationMaps(s) :
            instrumented' =
              {[loopId |-> l.line, estimate |-> EstimateLoop(l)] :
                 l \in {m \in Loops(s) : /\ kept[m.line].verdict = "PARALLEL_SAFE"
                                         /\ m.line <= source.length}}
      BY <2>1
    <2>3. s \in Sources /\ Loops(s) \subseteq LoopNest /\ kept \in OnePerLine(s)
      BY LoopsTyped, MapsHaveOnePerLine DEF IInv, InputsInv
    <2>4. instrumented' \subseteq Estimated /\ instrumented' \subseteq Called(s)
      BY <2>2, <2>3 DEF Estimated, Called
    <2>5. built' = {s, source} /\ ir' = {}
          /\ UNCHANGED <<hw, source, profile, target, profiled, basis>>
      BY <2>1, <1>3 DEF Instrument
    <2>6. InputsInv'
      BY <2>3, <2>4, <2>5 DEF IInv, InputsInv
    <2>7. OutputInv'
      BY <2>5, OutputStays DEF IInv
    <2>8. \A t \in Sources : built' = {t} => t = s
      BY <2>5
    <2>9. Called(basis.ir)' = Called(basis.ir)
      BY <2>5 DEF Called, OnePerLine, Lines, Loops
    <2>10. FreshInv'
      BY <2>4, <2>5, <2>8, <2>9 DEF IInv, FreshInv
    <2> QED
      BY <2>6, <2>7, <2>10 DEF IInv
  <1>4. CASE RunProgram
    <2>1. PICK n \in 1..2 : \E records \in [1..n -> instrumented] :
             profile' = [kind |-> "array", records |-> records]
      BY <1>4 DEF RunProgram
    <2>2. PICK records \in [1..n -> instrumented] :
             profile' = [kind |-> "array", records |-> records]
      BY <2>1
    <2>3. records \in [1..n -> Estimated] /\ n \in Nat
      BY <2>2 DEF IInv, InputsInv
    <2>4. records \in Seq(Estimated)
      BY <2>3
    <2>5. profile' \in Profiles /\ profile'.records = records
      BY <2>2, <2>4 DEF Profiles
    <2> QED
      BY <2>2, <2>5, <1>4, RunKeeps DEF RunProgram
  <1>5. CASE RunProgramDropsAll \/ RunProgramKilled
    <2>1. <<>> \in Seq(Estimated) /\ DOMAIN <<>> = {}
      OBVIOUS
    <2>2. PICK kind \in {"absent", "unreadable", "array"} :
            profile' = [kind |-> kind, records |-> <<>>]
      BY <1>5 DEF RunProgramDropsAll, RunProgramKilled
    <2>3. profile' \in Profiles /\ profile'.records = <<>>
      BY <2>1, <2>2 DEF Profiles
    <2> QED
      BY <2>1, <2>3, <1>5, RunKeeps DEF RunProgramDropsAll, RunProgramKilled
  <1>6. CASE TransformStatic \/ TransformWithProfile
    BY <1>6, TransformsKeep
  <1> QED
    BY <1>1, <1>2, <1>3, <1>4, <1>5, <1>6 DEF Next

\* Every reachable output is the one of its basis.
THEOREM OutputOfBasis == Spec => []IInv
  BY InitIInv, StepIInv, PTL DEF Spec

-----------------------------------------------------------------------------
(* The properties.                                                         *)

\* A directive is on a decided line of the parsed source.
LEMMA DirectiveOfBasis ==
  ASSUME IInv, NEW d \in target
  PROVE  /\ basis.ir \in Sources
         /\ basis.kept \in OnePerLine(basis.ir) /\ basis.found \in OnePerLine(basis.ir)
         /\ d.line \in Decided(basis.kept, basis.profile) /\ d.line \in Lines(basis.ir)
         /\ d.line \in basis.lines
         /\ d.pragma = BuildPragmaText(basis.found[d.line],
                                       Decision(basis.kept, basis.profile, d.line))
  <1>1. PICK line \in Decided(basis.kept, basis.profile) \cap basis.lines :
          d = [line |-> line,
               pragma |-> BuildPragmaText(basis.found[line],
                                          Decision(basis.kept, basis.profile, line))]
    BY DEF IInv, OutputInv, Output
  <1>2. d.line = line
    BY <1>1
  <1>3. d.pragma = BuildPragmaText(basis.found[line], Decision(basis.kept, basis.profile, line))
    BY <1>1
  <1>4. line \in DOMAIN basis.kept
    BY DEF Decided
  <1>5. basis.kept # <<>>
    BY <1>4
  <1>6. basis.ir \in Sources
        /\ basis.kept \in OnePerLine(basis.ir) /\ basis.found \in OnePerLine(basis.ir)
    BY <1>5 DEF IInv, OutputInv
  <1>7. DOMAIN basis.kept = Lines(basis.ir)
    BY <1>6 DEF OnePerLine
  <1> QED
    BY <1>1, <1>2, <1>3, <1>4, <1>6, <1>7

\* Where a directive can be meant for one loop only, both maps have that loop.
LEMMA MeantIsKept ==
  ASSUME IInv, NEW d \in Meant
  PROVE  /\ d[1] \in target /\ d[2] \in Loops(basis.ir) /\ d[2] \in LoopNest
         /\ d[1].line = d[2].line
         /\ basis.kept[d[1].line] = d[2]
         /\ d[1].pragma = BuildPragmaText(d[2], Decision(basis.kept, basis.profile, d[1].line))
  <1>1. d[1] \in target /\ d[2] \in Loops(basis.ir) /\ LoopsOn(d[1].line) = {d[2]}
    BY DEF Meant
  <1> DEFINE line == d[1].line
  <1>2. /\ basis.ir \in Sources /\ line \in Lines(basis.ir)
        /\ basis.kept \in OnePerLine(basis.ir) /\ basis.found \in OnePerLine(basis.ir)
        /\ d[1].pragma = BuildPragmaText(basis.found[line],
                                         Decision(basis.kept, basis.profile, line))
    BY <1>1, DirectiveOfBasis
  <1>3. basis.kept[line] \in LoopsOn(line) /\ basis.found[line] \in LoopsOn(line)
    BY <1>2 DEF OnePerLine, LoopsOn
  <1>4. basis.kept[line] = d[2] /\ basis.found[line] = d[2]
    BY <1>1, <1>3
  <1>5. d[2].line = line
    BY <1>1 DEF LoopsOn
  <1> QED
    BY <1>1, <1>2, <1>4, <1>5, LoopsTyped

LEMMA TypeOKHolds == IInv => TypeOK
  <1> SUFFICES ASSUME IInv PROVE TypeOK
    OBVIOUS
  <1>1. \A c \in instrumented : c.estimate.trips \in Int
    BY EstimateRatio DEF IInv, InputsInv, Estimated
  <1>2. profile.kind \in {"absent", "unreadable", "array"} /\ profile.records \in Seq(Estimated)
    BY DEF IInv, InputsInv, Profiles
  <1>3. \A k \in DOMAIN profile.records : profile.records[k].loopId \in Nat
    <2> SUFFICES ASSUME NEW k \in DOMAIN profile.records
                 PROVE  profile.records[k].loopId \in Nat
      OBVIOUS
    <2>1. profile.records[k] \in Estimated
      BY <1>2
    <2> QED
      BY <2>1 DEF Estimated, LoopNest
  <1>4. ASSUME NEW d \in target
        PROVE  d.pragma.gpu \in BOOLEAN /\ LoopsOn(d.line) # {}
    <2>1. /\ d.line \in Lines(basis.ir)
          /\ d.pragma = BuildPragmaText(basis.found[d.line],
                                        Decision(basis.kept, basis.profile, d.line))
      BY DirectiveOfBasis
    <2>2. d.pragma.gpu = Offload(basis.kept, basis.profile, d.line)
      BY <2>1 DEF BuildPragmaText, Decision
    <2>3. Offload(basis.kept, basis.profile, d.line) \in BOOLEAN
      BY DEF Offload, ProfitableByProfile, StaticallyProfitable
    <2>4. LoopsOn(d.line) # {}
      BY <2>1 DEF Lines, LoopsOn
    <2> QED
      BY <2>2, <2>3, <2>4
  <1> QED
    BY <1>1, <1>2, <1>3, <1>4 DEF TypeOK, IInv, InputsInv

\* The state of the workflow is well typed, and a directive is always on a line
\* that has a loop in the parsed source.
THEOREM TypesCorrect == Spec => []TypeOK
  BY OutputOfBasis, TypeOKHolds, PTL

\* No directive is one for the GPU if the ridge is above a quarter.
NothingIsOffloaded ==
    hw.peakBandwidth > 0 /\ hw.peakFlops > 0 /\ 4 * hw.peakFlops > hw.peakBandwidth =>
        \A d \in target : ~d.pragma.gpu

LEMMA NothingIsOffloadedHolds == IInv => NothingIsOffloaded
  <1> SUFFICES ASSUME IInv, AboveQuarter(hw), NEW d \in target, d.pragma.gpu
               PROVE  FALSE
    BY DEF NothingIsOffloaded, AboveQuarter
  <1>1. hw \in Hardware
    BY HardwaresTyped DEF IInv, InputsInv
  <1> DEFINE line == d.line
  <1>2. /\ basis.ir \in Sources /\ basis.kept \in OnePerLine(basis.ir)
        /\ line \in Lines(basis.ir)
        /\ d.pragma = BuildPragmaText(basis.found[line],
                                      Decision(basis.kept, basis.profile, line))
    BY DirectiveOfBasis
  <1>3. Offload(basis.kept, basis.profile, line)
    BY <1>2 DEF BuildPragmaText, Decision
  <1>4. CASE Usable(basis.profile)
    <2>1. PICK k \in DOMAIN basis.profile.records :
            Profitable(basis.profile.records[k].estimate, hw)
      BY <1>3, <1>4 DEF Offload, ProfitableByProfile
    <2>2. basis.profile.records \in Seq(Estimated)
      BY DEF IInv, OutputInv, Profiles
    <2>3. basis.profile.records[k] \in Estimated
      BY <2>1, <2>2
    <2>4. PICK l \in LoopNest : basis.profile.records[k].estimate = EstimateLoop(l)
      BY <2>3 DEF Estimated
    <2> QED
      BY <2>1, <2>4, <1>1, EstimateBelowRidge
  <1>5. CASE ~Usable(basis.profile)
    <2>1. Profitable(EstimateLoop(basis.kept[line]), hw)
      BY <1>3, <1>5 DEF Offload, StaticallyProfitable
    <2>2. basis.kept[line] \in LoopNest
      BY <1>2, LoopsTyped DEF OnePerLine
    <2> QED
      BY <2>1, <2>2, <1>1, EstimateBelowRidge
  <1> QED
    BY <1>4, <1>5

\* On hardware with more than a quarter of a flop per byte at its ridge, the
\* default parameters among it, no program, profile or history ever makes the
\* translator offload a loop: the estimates have two operations for every eight
\* bytes, whatever the loop does.  CONTEXT.md and PRD.md say otherwise of
\* polybench_gemm.
THEOREM NothingOffloaded == Spec => []NothingIsOffloaded
  BY OutputOfBasis, NothingIsOffloadedHolds, PTL

LEMMA VerdictDecidesHolds == IInv => VerdictDecides
  <1> SUFFICES ASSUME IInv, basis.kept # <<>>, NEW l \in Loops(basis.ir),
                      \A m \in LoopsOn(l.line) : m.verdict \in Approved <=> l.verdict \in Approved
               PROVE  l.verdict \in Approved /\ l.line \in basis.lines
                         <=> \E d \in target : d.line = l.line
    BY DEF VerdictDecides
  <1>1. basis.kept \in OnePerLine(basis.ir) /\ l.line \in Lines(basis.ir)
    BY DEF IInv, OutputInv, Lines
  <1>2. basis.kept[l.line] \in LoopsOn(l.line) /\ l.line \in DOMAIN basis.kept
    BY <1>1 DEF OnePerLine, LoopsOn
  <1>3. l.verdict \in Approved <=> l.line \in Decided(basis.kept, basis.profile)
    BY <1>2 DEF Decided
  <1>4. ASSUME l.line \in Decided(basis.kept, basis.profile), l.line \in basis.lines
        PROVE  \E d \in target : d.line = l.line
    <2> DEFINE e == [line |-> l.line,
                     pragma |-> BuildPragmaText(basis.found[l.line],
                                                Decision(basis.kept, basis.profile, l.line))]
    <2>1. e \in target
      BY <1>4 DEF IInv, OutputInv, Output
    <2>2. e.line = l.line
      OBVIOUS
    <2> QED
      BY <2>1, <2>2
  <1>5. ASSUME NEW d \in target, d.line = l.line
        PROVE  l.line \in Decided(basis.kept, basis.profile) /\ l.line \in basis.lines
    BY <1>5, DirectiveOfBasis
  <1> QED
    BY <1>3, <1>4, <1>5

\* Whatever profile is used and whatever was edited meanwhile, a line whose
\* loops agree is transformed exactly when their verdict allows it.
THEOREM VerdictAlone == Spec => []VerdictDecides
  BY OutputOfBasis, VerdictDecidesHolds, PTL

LEMMA DirectiveFitsHolds == IInv => DirectiveFitsItsLoop
  <1> SUFFICES ASSUME IInv, NEW d \in Meant
               PROVE  /\ d[1].pragma.reduction <=> d[2].verdict = "REDUCTION_CANDIDATE"
                      /\ d[1].pragma.gpu =>
                            /\ d[1].pragma.size = d[2].bound
                            /\ d[1].pragma.maps.to \cup d[1].pragma.maps.from
                                    \cup d[1].pragma.maps.tofrom =
                                  Names(d[2], TRUE) \cup Names(d[2], FALSE)
    BY DEF DirectiveFitsItsLoop
  <1> DEFINE decision == Decision(basis.kept, basis.profile, d[1].line)
  <1>1. d[1].pragma = BuildPragmaText(d[2], decision) /\ basis.kept[d[1].line] = d[2]
    BY MeantIsKept
  <1>2. decision.hasReduction = (d[2].verdict = "REDUCTION_CANDIDATE")
    BY <1>1 DEF Decision
  <1>3. /\ d[1].pragma.gpu = decision.gpuProfitable /\ d[1].pragma.size = d[2].bound
        /\ d[1].pragma.reduction = decision.hasReduction
        /\ decision.gpuProfitable => d[1].pragma.maps = ClassifyArrays(d[2])
    <2> HIDE DEF decision
    <2> QED
      BY <1>1 DEF BuildPragmaText
  <1>4. ClassifyArrays(d[2]).to \cup ClassifyArrays(d[2]).from \cup ClassifyArrays(d[2]).tofrom =
          Names(d[2], TRUE) \cup Names(d[2], FALSE)
    BY DEF ClassifyArrays
  <1> QED
    BY <1>2, <1>3, <1>4

\* On both paths, for every profile and edit, a directive that can be meant for
\* one loop only has that loop's reduction, arrays and bound.
THEOREM DirectiveFits == Spec => []DirectiveFitsItsLoop
  BY OutputOfBasis, DirectiveFitsHolds, PTL

\* A profile without records, whatever became of it, is as good as none.
LEMMA LostProfile ==
  ASSUME IInv, basis.profile.records = <<>>, NEW d \in Meant
  PROVE  d[1].pragma.gpu <=> StaticallyProfitable(d[2], hw)
  <1>1. /\ basis.kept[d[1].line] = d[2]
        /\ d[1].pragma = BuildPragmaText(d[2], Decision(basis.kept, basis.profile, d[1].line))
    BY MeantIsKept
  <1>2. d[1].pragma.gpu = Offload(basis.kept, basis.profile, d[1].line)
    BY <1>1 DEF BuildPragmaText, Decision
  <1>3. ~Usable(basis.profile)
    BY DEF Usable
  <1> QED
    BY <1>1, <1>2, <1>3 DEF Offload

-----------------------------------------------------------------------------
(* Fresh profiles.                                                         *)

\* A set of positions that is not empty has a last one: what follows it is
\* minimal among what follows any of them.
LEMMA LastPosition ==
  ASSUME NEW n \in Nat, NEW K \in SUBSET (1..n), K # {}
  PROVE  \E k \in K : \A j \in K : j <= k
  <1> DEFINE After(k) == {j \in K : j > k}
             tails == {After(k) : k \in K}
  <1>0. IsFiniteSet(1..n)
    BY FS_Interval
  <1>1. IsFiniteSet(K)
    BY <1>0, FS_Subset
  <1> K \subseteq Int
    OBVIOUS
  <1>2. IsWellFoundedOn(StrictSubsetOrdering(K), SUBSET K)
    BY <1>1, FS_StrictSubsetOrderingWellFounded, FS_FiniteSubsetsOfFinite
  <1>3. tails \subseteq SUBSET K /\ tails # {}
    OBVIOUS
  <1>4. PICK T \in tails : \A U \in tails : ~(<<U, T>> \in StrictSubsetOrdering(K))
    <2> HIDE DEF tails
    <2> QED
      BY <1>2, <1>3, WFMin
  <1>5. PICK k \in K : T = After(k)
    OBVIOUS
  <1>6. ASSUME NEW j \in K, j > k PROVE FALSE
    <2>1. j \in Int /\ k \in Int
      OBVIOUS
    <2>2. j \in After(k) /\ j \notin After(j)
      BY <1>6, <2>1
    <2>3. ASSUME NEW i \in After(j) PROVE i \in After(k)
      <3>1. i \in K /\ i \in Int /\ i > j
        OBVIOUS
      <3> QED
        BY <1>6, <2>1, <3>1
    <2>4. <<After(j), After(k)>> \in StrictSubsetOrdering(K)
      BY <2>2, <2>3 DEF StrictSubsetOrdering
    <2> QED
      BY <2>4, <1>4, <1>5
  <1> QED
    BY <1>6

\* A profile of the parsed source has the static estimates of what was executed.
LEMMA FreshProfile ==
  ASSUME IInv, basis.fresh, Usable(basis.profile), NEW d \in Meant
  PROVE  d[1].pragma.gpu <=>
            /\ d[2].verdict = "PARALLEL_SAFE"
            /\ InProfile(basis.profile, d[1].line)
            /\ Profitable(EstimateLoop(d[2]), hw)
  <1> DEFINE line == d[1].line
             l == d[2]
             p == basis.profile
  <1>1. /\ d[1] \in target /\ l \in Loops(basis.ir) /\ l \in LoopNest /\ line = l.line
        /\ basis.kept[line] = l
        /\ d[1].pragma = BuildPragmaText(l, Decision(basis.kept, p, line))
    BY MeantIsKept
  <1>2. LoopsOn(line) = {l} /\ basis.kept \in OnePerLine(basis.ir) /\ line \in Lines(basis.ir)
        /\ line \in Decided(basis.kept, p)
    BY <1>1, DirectiveOfBasis DEF Meant
  <1>3. d[1].pragma.gpu <=> ProfitableByProfile(p, line)
    <2>1. d[1].pragma.gpu = Offload(basis.kept, p, line)
      BY <1>1 DEF BuildPragmaText, Decision
    <2> QED
      BY <2>1 DEF Offload
  \* All records of the line are of this loop.
  <1>4. ASSUME NEW k \in DOMAIN p.records, p.records[k].loopId = line
        PROVE  p.records[k].estimate = EstimateLoop(l) /\ l.verdict = "PARALLEL_SAFE"
    <2>1. p.records[k] \in Called(basis.ir)
      BY DEF IInv, FreshInv
    <2>2. PICK m \in Loops(basis.ir) :
            /\ p.records[k] = [loopId |-> m.line, estimate |-> EstimateLoop(m)]
            /\ \E kept \in OnePerLine(basis.ir) : kept[m.line].verdict = "PARALLEL_SAFE"
      BY <2>1 DEF Called
    <2>3. m.line = line
      BY <2>2, <1>4
    <2>4. m = l
      BY <2>3, <1>2 DEF LoopsOn
    <2>5. PICK kept \in OnePerLine(basis.ir) : kept[line].verdict = "PARALLEL_SAFE"
      BY <2>2, <2>3
    <2>6. kept[line] \in LoopsOn(line)
      BY <1>2 DEF OnePerLine, LoopsOn
    <2> QED
      BY <2>2, <2>4, <2>5, <2>6, <1>2
  <1>5. ASSUME d[1].pragma.gpu
        PROVE  /\ l.verdict = "PARALLEL_SAFE" /\ InProfile(p, line)
               /\ Profitable(EstimateLoop(l), hw)
    <2>1. PICK k \in DOMAIN p.records :
            p.records[k].loopId = line /\ Profitable(p.records[k].estimate, hw)
      BY <1>3, <1>5 DEF ProfitableByProfile
    <2>2. Profitable(EstimateLoop(l), hw) /\ l.verdict = "PARALLEL_SAFE"
      BY <2>1, <1>4
    <2> QED
      BY <2>1, <2>2 DEF InProfile
  <1>6. ASSUME InProfile(p, line), Profitable(EstimateLoop(l), hw)
        PROVE  d[1].pragma.gpu
    <2> DEFINE K == {k \in DOMAIN p.records : p.records[k].loopId = line}
    <2>1. p.records \in Seq(Estimated)
      BY DEF IInv, OutputInv, Profiles
    <2>2. Len(p.records) \in Nat /\ DOMAIN p.records = 1..Len(p.records)
      BY <2>1
    <2>3. K # {} /\ K \subseteq 1..Len(p.records)
      BY <2>2, <1>6 DEF InProfile
    <2>4. PICK k \in K : \A j \in K : j <= k
      <3> HIDE DEF K
      <3> QED
        BY <2>2, <2>3, LastPosition
    <2>5. \A j \in DOMAIN p.records : j > k => p.records[j].loopId # line
      BY <2>2, <2>4
    <2>6. Profitable(p.records[k].estimate, hw)
      BY <1>4, <1>6
    <2> QED
      BY <1>3, <2>5, <2>6 DEF ProfitableByProfile
  <1> QED
    BY <1>5, <1>6

\* A profile of the parsed source never sends a loop with a literal bound to the
\* GPU that the static estimate would not, and withholds exactly those that were
\* not executed; one without records withholds nothing.
THEOREM ProfileWithholds == Spec => []ProfileOnlyWithholds
  <1>1. IInv => ProfileOnlyWithholds
    BY LostProfile, FreshProfile DEF ProfileOnlyWithholds, StaticallyProfitable
  <1> QED
    BY OutputOfBasis, <1>1, PTL

\* On the GPU, when one trip is not enough, there are literal bounds only.
UnknownBoundsStayOff ==
    hw.minGpuTrips > 1 /\ (basis.profile.records = <<>> \/ basis.fresh) =>
        \A d \in Meant : d[1].pragma.gpu => d[2].constant

\* A loop whose bound is not a literal never goes to the GPU, however often it was
\* executed, if one trip is not enough: the calls of an instrumented program
\* carry the static estimate, which is of one trip.  README.md says that with a
\* profile measured trip counts are used.
THEOREM MeasuredTripsNeverDecide == Spec => []UnknownBoundsStayOff
  <1>1. ASSUME IInv, hw.minGpuTrips > 1, NEW l, Profitable(EstimateLoop(l), hw)
        PROVE  l.constant
    <2>1. EstimateLoop(l).trips >= hw.minGpuTrips
      BY <1>1 DEF Profitable
    <2>2. EstimateLoop(l).trips = IF l.constant THEN l.bound ELSE 1
      BY DEF EstimateLoop
    <2>3. hw.minGpuTrips \in Int
      BY <1>1, HardwaresTyped DEF IInv, InputsInv, Hardware
    <2> QED
      BY <1>1, <2>1, <2>2, <2>3
  <1>2. ASSUME IInv, hw.minGpuTrips > 1, NEW d \in Meant, d[1].pragma.gpu,
               basis.profile.records = <<>> \/ basis.fresh
        PROVE  d[2].constant
    <2>1. CASE basis.profile.records = <<>>
      BY <1>2, <2>1, LostProfile DEF StaticallyProfitable
    <2>2. CASE basis.fresh /\ Usable(basis.profile)
      <3>1. Profitable(EstimateLoop(d[2]), hw)
        BY <1>2, <2>2, FreshProfile
      <3> QED
        BY <1>1, <1>2, <3>1
    <2>3. CASE basis.profile.records # <<>> /\ ~Usable(basis.profile)
      <3>1. /\ basis.kept[d[1].line] = d[2]
            /\ d[1].pragma = BuildPragmaText(d[2],
                                Decision(basis.kept, basis.profile, d[1].line))
        BY <1>2, MeantIsKept
      <3>2. d[1].pragma.gpu = Offload(basis.kept, basis.profile, d[1].line)
        BY <3>1 DEF BuildPragmaText, Decision
      <3> QED
        BY <1>2, <2>3, <3>1, <3>2 DEF Offload, StaticallyProfitable
    <2> QED
      BY <1>2, <2>1, <2>2, <2>3
  <1>3. IInv => UnknownBoundsStayOff
    BY <1>2 DEF UnknownBoundsStayOff
  <1> QED
    BY OutputOfBasis, <1>3, PTL

-----------------------------------------------------------------------------
(* Map clauses.                                                            *)

\* The clauses of a loop sent to the GPU suffice exactly under the two
\* conditions nothing checks.
LEMMA TransfersExactly ==
  ASSUME NEW l \in LoopNest, NEW decision, decision.gpuProfitable
  PROVE  TransfersSuffice(BuildPragmaText(l, decision), l)
            <=> StaysBelowBound(l) /\ FillsItsResults(l)
  <1> DEFINE pragma == BuildPragmaText(l, decision)
             read == Names(l, FALSE)
             written == Names(l, TRUE)
             section == 0..(l.bound - 1)
  <1>1. /\ pragma.size = l.bound
        /\ pragma.maps.to = read \ written
        /\ pragma.maps.from = written \ read
        /\ pragma.maps.tofrom = read \cap written
    BY DEF BuildPragmaText, ClassifyArrays
  <1>2. \A k \in DOMAIN l.arrayAccesses : l.arrayAccesses[k] \in Access
    BY DEF LoopNest
  <1>3. \A k \in DOMAIN l.arrayAccesses :
          l.arrayAccesses[k].arrayName \in
            IF l.arrayAccesses[k].isWrite THEN written ELSE read
    <2> SUFFICES ASSUME NEW k \in DOMAIN l.arrayAccesses
                 PROVE  l.arrayAccesses[k].arrayName \in
                          IF l.arrayAccesses[k].isWrite THEN written ELSE read
      OBVIOUS
    <2>1. l.arrayAccesses[k].isWrite = TRUE \/ l.arrayAccesses[k].isWrite = FALSE
      BY <1>2 DEF Access
    <2> QED
      BY <2>1 DEF Names
  <1>4. \A k \in DOMAIN l.arrayAccesses :
          l.arrayAccesses[k].arrayName \in pragma.maps.tofrom \cup
            (IF l.arrayAccesses[k].isWrite THEN pragma.maps.from ELSE pragma.maps.to)
    <2> HIDE DEF pragma, read, written
    <2> QED
      BY <1>1, <1>3
  <1>5. (\A array \in written \ read : section \subseteq Filled(l, array)) <=> FillsItsResults(l)
    <2>1. ASSUME \A array \in written \ read : section \subseteq Filled(l, array),
                 NEW k \in DOMAIN l.arrayAccesses, l.arrayAccesses[k].isWrite,
                 ~\E j \in DOMAIN l.arrayAccesses :
                    /\ ~l.arrayAccesses[j].isWrite
                    /\ l.arrayAccesses[j].arrayName = l.arrayAccesses[k].arrayName
          PROVE  section \subseteq Filled(l, l.arrayAccesses[k].arrayName)
      <3>1. l.arrayAccesses[k].arrayName \in written
        BY <1>3, <2>1
      <3>2. l.arrayAccesses[k].arrayName \notin read
        BY <2>1 DEF Names
      <3> QED
        BY <3>1, <3>2, <2>1
    <2>2. ASSUME FillsItsResults(l), NEW array \in written \ read
          PROVE  section \subseteq Filled(l, array)
      <3>1. PICK k \in DOMAIN l.arrayAccesses :
              l.arrayAccesses[k].isWrite = TRUE /\ l.arrayAccesses[k].arrayName = array
        BY <2>2 DEF Names
      <3>2. ~\E j \in DOMAIN l.arrayAccesses :
               ~l.arrayAccesses[j].isWrite /\ l.arrayAccesses[j].arrayName = array
        <4> SUFFICES ASSUME NEW j \in DOMAIN l.arrayAccesses,
                            ~l.arrayAccesses[j].isWrite, l.arrayAccesses[j].arrayName = array
                     PROVE  FALSE
          OBVIOUS
        <4> QED
          BY <1>3, <2>2
      <3> QED
        BY <2>2, <3>1, <3>2 DEF FillsItsResults
    <2> QED
      BY <2>1, <2>2 DEF FillsItsResults
  <1> HIDE DEF pragma, read, written
  <1>6. TransfersSuffice(pragma, l) <=>
          StaysBelowBound(l) /\ \A array \in written \ read : section \subseteq Filled(l, array)
    BY <1>1, <1>4 DEF TransfersSuffice, StaysBelowBound
  <1> QED
    BY <1>5, <1>6 DEF pragma

LEMMA OffloadKeepsArraysHolds == IInv => OffloadKeepsArrays
  <1> SUFFICES ASSUME IInv, NEW d \in Meant, d[1].pragma.gpu
               PROVE  TransfersSuffice(d[1].pragma, d[2])
                         <=> StaysBelowBound(d[2]) /\ FillsItsResults(d[2])
    BY DEF OffloadKeepsArrays
  <1> DEFINE decision == Decision(basis.kept, basis.profile, d[1].line)
  <1>1. d[1].pragma = BuildPragmaText(d[2], decision) /\ d[2] \in LoopNest
    BY MeantIsKept
  <1> HIDE DEF decision
  <1>2. decision.gpuProfitable
    BY <1>1 DEF BuildPragmaText
  <1> QED
    BY <1>1, <1>2, TransfersExactly

\* Every loop that is offloaded finds and leaves its arrays right exactly if it
\* stays below its bound and fills what it only writes.
THEOREM ArraysKept == Spec => []OffloadKeepsArrays
  BY OutputOfBasis, OffloadKeepsArraysHolds, PTL

=============================================================================
