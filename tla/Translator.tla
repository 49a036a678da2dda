------------------------------ MODULE Translator ------------------------------
(***************************************************************************)
(* translator.cpp in use: the user edits a source file, instruments it,    *)
(* runs the instrumented program, and transforms the source with or        *)
(* without the profile the run left behind, in any order.                  *)
(*                                                                         *)
(* A run of the translator parses the source and reads it again for its    *)
(* output; it may be edited, or a program may end, in between.  The        *)
(* verdict of each loop is given with the loop (see ParallelismChecker).   *)
(* Everything that belongs to a loop is passed on by its location, file    *)
(* and line; the file is always the same one and is left out.  A ProgramIR *)
(* is ordered by the names of its functions, and so is every pass over the *)
(* loops.                                                                  *)
(***************************************************************************)
EXTENDS GpuSuitability, OmpCodegen, Functions

CONSTANTS
    Fns,            \* function names
    Rank,           \* their places in the order of names
    Sources,        \* the versions of the source file
    Hardwares       \* the hardware parameters used

\* LoopNest.  `column' tells loops on a line apart, which the program does not;
\* `bound' is the value of the trip bound, which it knows of literals.
Verdicts == {"PARALLEL_SAFE", "REDUCTION_CANDIDATE", "SERIAL_ONLY",
             "UNKNOWN_CONSERVATIVE"}

LoopNest == [line : Nat \ {0}, column : Nat, verdict : Verdicts,
             constant : BOOLEAN, bound : Int, arrayAccesses : Seq(Access)]

\* A source file: the outermost loops of each function, and its lines.
ASSUME SourcesTyped == Sources \subseteq [loops : [Fns -> Seq(LoopNest)], length : Nat]

ASSUME RankedOnce == Rank \in [Fns -> Nat] /\ IsInjective(Rank)

ASSUME HardwaresTyped == Hardwares \subseteq Hardware

VARIABLES
    hw,             \* opt.hw, the same in all runs
    source,         \* the source file
    ir,             \* the source a run in progress has parsed, if there is one
    instrumented,   \* calls inserted by --instrument: loop ids and estimates
    profile,        \* profile.json: "absent", "unreadable" or an "array"
    target,         \* the output of the last run: the directives
    \* history
    built,          \* the sources that were parsed for and put in the program
    profiled,       \* those of the program that left the profile
    basis           \* what `target' was made from

vars == <<hw, source, ir, instrumented, profile, target, built, profiled, basis>>

NoProfile == [kind |-> "absent", records |-> <<>>]

Loops(s) == UNION {{s.loops[f][k] : k \in DOMAIN s.loops[f]} : f \in Fns}
Lines(s) == {l.line : l \in Loops(s)}

\* Loop k of function f is entered last, or first, of the loops on its line.
IsLastThere(s, f, k) ==
    \A g \in Fns : \A j \in DOMAIN s.loops[g] :
        s.loops[g][j].line = s.loops[f][k].line => Rank[g] < Rank[f] \/ (g = f /\ j <= k)

IsFirstThere(s, f, k) ==
    \A g \in Fns : \A j \in DOMAIN s.loops[g] :
        s.loops[g][j].line = s.loops[f][k].line => Rank[f] < Rank[g] \/ (g = f /\ k <= j)

(***************************************************************************)
(* What a map keyed by location holds after all loops of version s were    *)
(* entered: of each line, the last loop of the last function.              *)
(***************************************************************************)
LocationMaps(s) ==
    {kept \in [Lines(s) -> Loops(s)] :
        \A line \in Lines(s) : \E f \in Fns : \E k \in DOMAIN s.loops[f] :
            kept[line] = s.loops[f][k] /\ kept[line].line = line /\ IsLastThere(s, f, k)}

\* What a search for the location finds in the ProgramIR: the first.
Searches(s) ==
    {found \in [Lines(s) -> Loops(s)] :
        \A line \in Lines(s) : \E f \in Fns : \E k \in DOMAIN s.loops[f] :
            found[line] = s.loops[f][k] /\ found[line].line = line /\ IsFirstThere(s, f, k)}

NoBasis(s) == [ir |-> s, kept |-> <<>>, found |-> <<>>, lines |-> {},
               profile |-> NoProfile, fresh |-> FALSE]

Init ==
    /\ hw \in Hardwares
    /\ source \in Sources
    /\ ir = {}
    /\ instrumented = {}
    /\ profile = NoProfile
    /\ target = {}
    /\ built = {} /\ profiled = {}
    /\ basis = NoBasis(source)

Edit ==
    /\ source' \in Sources \ {source}
    /\ UNCHANGED <<hw, ir, instrumented, profile, target, built, profiled, basis>>

\* ClangBridge::extractIR() and all that depends on nothing else.
Parse ==
    /\ ir = {}
    /\ ir' = {source}
    /\ target' = {}
    /\ basis' = NoBasis(source)
    /\ UNCHANGED <<hw, source, instrumented, profile, built, profiled>>

\* The run was to print what it found, or cannot write its output.
LeaveOutputAlone ==
    /\ ir # {}
    /\ ir' = {}
    /\ UNCHANGED <<hw, source, instrumented, profile, target, built, profiled, basis>>

(***************************************************************************)
(* --instrument: every loop at a location whose verdict is PARALLEL_SAFE;  *)
(* the call carries the loop's id and estimate (see Instrumentation).      *)
(***************************************************************************)
Instrument ==
    \E s \in ir : \E kept \in LocationMaps(s) :
        /\ instrumented' =
              {[loopId |-> l.line, estimate |-> EstimateLoop(l)] :
                 l \in {m \in Loops(s) : /\ kept[m.line].verdict = "PARALLEL_SAFE"
                                         /\ m.line <= source.length}}
        /\ built' = {s, source}
        /\ ir' = {}
        /\ UNCHANGED <<hw, source, profile, target, profiled, basis>>

(***************************************************************************)
(* The instrumented program (see ProfilerRuntime) executes some of its     *)
(* loops and exits; or cannot allocate a record; or is killed while it     *)
(* writes.  If it executes none it leaves the file alone.  Two records are *)
(* enough for an id to occur twice.                                        *)
(***************************************************************************)
RunProgram ==
    /\ \E n \in 1..2 : \E records \in [1..n -> instrumented] :
          profile' = [kind |-> "array", records |-> records]
    /\ profiled' = built
    /\ UNCHANGED <<hw, source, ir, instrumented, target, built, basis>>

RunProgramDropsAll ==
    /\ instrumented # {}
    /\ profile' = [kind |-> "array", records |-> <<>>]
    /\ profiled' = built
    /\ UNCHANGED <<hw, source, ir, instrumented, target, built, basis>>

RunProgramKilled ==
    /\ instrumented # {}
    /\ profile' = [kind |-> "unreadable", records |-> <<>>]
    /\ profiled' = built
    /\ UNCHANGED <<hw, source, ir, instrumented, target, built, basis>>

InProfile(p, line) == \E k \in DOMAIN p.records : p.records[k].loopId = line

\* classifyFromProfile(): the last record of a loop id counts.
ProfitableByProfile(p, line) ==
    \E k \in DOMAIN p.records :
        /\ p.records[k].loopId = line
        /\ \A j \in DOMAIN p.records : j > k => p.records[j].loopId # line
        /\ Profitable(p.records[k].estimate, hw)

\* A profile that cannot be read or has no entry is as good as none.
Usable(p) == p.kind = "array" /\ p.records # <<>>

OffloadStaticOrProfile(kept, p, line) ==
    \/ StaticallyProfitable(kept[line], hw)
    \/ Usable(p) /\ ProfitableByProfile(p, line)

Offload(kept, p, line) ==
    IF Usable(p) THEN ProfitableByProfile(p, line)
    ELSE StaticallyProfitable(kept[line], hw)

Approved == {"PARALLEL_SAFE", "REDUCTION_CANDIDATE"}

DecidedInProfile(kept, p) ==
    {line \in DOMAIN kept :
        kept[line].verdict \in Approved /\ (Usable(p) => InProfile(p, line))}

\* The locations main() enters in `decisions'; it asks for no profile.
Decided(kept, p) == {line \in DOMAIN kept : kept[line].verdict \in Approved}

Decision(kept, p, line) ==
    [gpuProfitable |-> Offload(kept, p, line),
     hasReduction |-> kept[line].verdict = "REDUCTION_CANDIDATE"]

\* With the first line below the loop.
EmitBelow(kept, p) ==
    {[line |-> line + 1, pragma |-> BuildPragmaText(kept[line], Decision(kept, p, line))] :
        line \in Decided(kept, p) \cap (1..source.length)}

\* emitTextLevelOmp(): the source is read again, and each decided line has the
\* directive of the last loop there put above it, if it is a line of the file.
EmitTextLevelOmp(kept, p) ==
    {[line |-> line, pragma |-> BuildPragmaText(kept[line], Decision(kept, p, line))] :
        line \in Decided(kept, p) \cap (1..source.length)}

\* applyPragmas(): a directive before the statement that loopMap has for the
\* location, with the arrays of the first loop there.
ApplyPragmas(kept, found, p) ==
    {[line |-> line, pragma |-> BuildPragmaText(found[line], Decision(kept, p, line))] :
        line \in Decided(kept, p)}

(***************************************************************************)
(* A transformation with the profile p, of the source text or, with        *)
(* --ast-codegen, of the AST that RoseBridge built from the ProgramIR.     *)
(***************************************************************************)
TransformText(p, profiledFrom) ==
    \E s \in ir : \E kept \in LocationMaps(s) :
        /\ target' = EmitTextLevelOmp(kept, p)
        /\ basis' = [ir |-> s, kept |-> kept, found |-> kept, lines |-> 1..source.length,
                     profile |-> p, fresh |-> profiledFrom = {s}]
        /\ ir' = {}
        /\ UNCHANGED <<hw, source, instrumented, profile, built, profiled>>

TransformAst(p, profiledFrom) ==
    \E s \in ir : \E kept \in LocationMaps(s), found \in Searches(s) :
        /\ target' = ApplyPragmas(kept, found, p)
        /\ basis' = [ir |-> s, kept |-> kept, found |-> found, lines |-> Lines(s),
                     profile |-> p, fresh |-> profiledFrom = {s}]
        /\ ir' = {}
        /\ UNCHANGED <<hw, source, instrumented, profile, built, profiled>>

\* Without --profile, and with it.
TransformStatic == TransformText(NoProfile, {}) \/ TransformAst(NoProfile, {})
TransformWithProfile == TransformText(profile, profiled) \/ TransformAst(profile, profiled)

Next ==
    \/ Edit
    \/ Parse
    \/ LeaveOutputAlone
    \/ Instrument
    \/ RunProgram
    \/ RunProgramDropsAll
    \/ RunProgramKilled
    \/ TransformStatic
    \/ TransformWithProfile

Spec == Init /\ [][Next]_vars

-----------------------------------------------------------------------------
LoopsOn(line) == {l \in Loops(basis.ir) : l.line = line}

\* A directive and the one loop it can be meant for.
Meant == {d \in target \X Loops(basis.ir) : LoopsOn(d[1].line) = {d[2]}}

\* Types.
TypeOK ==
    /\ hw \in Hardwares /\ source \in Sources
    /\ ir \cup built \cup profiled \subseteq Sources
    /\ \A c \in instrumented : c.estimate.trips \in Int
    /\ profile.kind \in {"absent", "unreadable", "array"}
    /\ \A k \in DOMAIN profile.records : profile.records[k].loopId \in Nat
    /\ \A d \in target : d.pragma.gpu \in BOOLEAN /\ LoopsOn(d.line) # {}

\* Where the loops on a line of the parsed source agree, the line is given a
\* directive exactly when their verdict allows it and the output has that line,
\* whatever the profile says, is of, or lacks: a stale or torn profile may
\* misplace a loop, never transform one.
VerdictDecides ==
    basis.kept # <<>> =>
        \A l \in Loops(basis.ir) :
            (\A m \in LoopsOn(l.line) : m.verdict \in Approved <=> l.verdict \in Approved) =>
                (l.verdict \in Approved /\ l.line \in basis.lines
                    <=> \E d \in target : d.line = l.line)

\* On both paths the directive of a loop alone on its line is its own: it has
\* a reduction exactly for a reduction, and on the GPU it maps exactly the
\* arrays the loop accesses, up to the loop's bound.
DirectiveFitsItsLoop ==
    \A d \in Meant :
        LET pragma == d[1].pragma
        IN  /\ pragma.reduction <=> d[2].verdict = "REDUCTION_CANDIDATE"
            /\ pragma.gpu =>
                  /\ pragma.size = d[2].bound
                  /\ pragma.maps.to \cup pragma.maps.from \cup pragma.maps.tofrom =
                        Names(d[2], TRUE) \cup Names(d[2], FALSE)

\* A loop that goes to the GPU finds its arrays there and leaves them right
\* exactly if it accesses nothing from its bound on and fills all that it
\* only writes: the code knows neither and takes both for granted.
OffloadKeepsArrays ==
    \A d \in Meant :
        d[1].pragma.gpu =>
            (TransfersSuffice(d[1].pragma, d[2]) <=>
                StaysBelowBound(d[2]) /\ FillsItsResults(d[2]))

\* A loop alone on its line goes to the GPU without a profile, or with one that
\* was lost or torn, exactly if the static estimate says so.  With a profile of
\* the parsed source a loop whose bound is a literal does exactly if it was
\* instrumented and executed besides: for these loops all that a profile does
\* is to keep them off the GPU.  (Of other bounds: see TranslatorProofs.)
ProfileOnlyWithholds ==
    /\ basis.profile.records = <<>> =>
          \A d \in Meant : d[1].pragma.gpu <=> StaticallyProfitable(d[2], hw)
    /\ basis.fresh /\ Usable(basis.profile) =>
          \A d \in Meant :
              d[2].constant =>
                  (d[1].pragma.gpu <=>
                      /\ d[2].verdict = "PARALLEL_SAFE"
                      /\ InProfile(basis.profile, d[1].line)
                      /\ StaticallyProfitable(d[2], hw))
=============================================================================
