# thecoolestcompiler in TLA+

`thecoolestcompiler` is a source-to-source C/C++ translator: it extracts loops
with Clang, rebuilds a skeleton of the program in ROSE, summarises what every
function may read and write, decides which loops are safe to run in parallel,
decides which of those are worth a GPU (with or without a profile), and writes
OpenMP directives.  A wrong answer is silent: a directive on a loop with a
dependence compiles, runs, and is wrong now and then.  These modules state what
each part promises and check it, on small instances with TLC and, for the parts
that carry the most weight, for all instances with TLAPS.

Paths of the source are relative to the repository (`src/ClangBridge.cpp`,
`support/profiler.c`).

## 1. The system

The translator is one sequential process that runs a pipeline
(`translator.cpp`, `main`); the profiler runtime is linked into a different
program, the instrumented one.  They meet in a file, `profile.json`, and in the
source text, which the user edits in between.

    source --ClangBridge--> ProgramIR --RoseBridge--> SgProject
                               |                         |
                               +--> InterproceduralAnalysis --> summaries
                               |                                   |
                               +----------> ParallelismChecker <---+
                                                 | verdicts by "file:line"
               --instrument: ProfilingInstrumentor  |
                     |                           v
          program + profiler.c --profile.json--> GpuSuitabilityEngine
                                                 | decisions by "file:line"
                                                 v
                                     OmpCodegen / emitTextLevelOmp --> target

| Component | State | Operations | What is hard | What makes it correct |
|---|---|---|---|---|
| `ClangBridge` | the `ProgramIR` (a map by name); while a body is walked `currentLoopIndex_`, `nestLevel_`, `inWriteContext_` | `VisitFunctionDecl`, the `Traverse...` and `Visit...` callbacks of the body visitor | flags saved and restored by hand over arbitrarily nested nodes; prototypes, definitions and overloads of one name in any order | each nest is an outermost loop with all its subscripts and calls; a subscript that is assigned is a write, and an index or a right side never; of a name declared several times the definition is what is extracted (it is not always, section 3) |
| `RoseBridge` | static `loopMap`, `funcMap`, cleared by each call | `buildROSEAST`: forward declarations, then bodies of placeholders | the rebuilt AST has no calls and no array accesses; names get a `::` prefix; of several loops at a location the map has the last | a loop of the IR finds its node |
| `InterproceduralAnalysis` | `callGraph_`, `summaries_`, `unknownSummary_`, `pureFunctions_` | `analyze` and its phases, `computeSCCs`/`tarjanDFS`, `propagateBottomUp`, `getSummary` | recursion, hash-order iteration, a fixpoint over a map changed in place, phases that throw, two name spaces | components exact and callee-first; summaries sound and not larger than need be with respect to what they are seeded with; what is unknown is never pure (what was not extracted may be, section 3); the analysis ends |
| `ParallelismChecker` | none between calls | `classify` with `checkArrayDependences`, `checkCallSiteEffects`, `detectReduction` | a definite and several inconclusive findings combine in one scan | a transformed loop has independent iterations and calls that keep out of its arrays |
| `ProfilingInstrumentor` | the lines to insert, by line | `estimateLoop`, `instrument` | loops are found again in a text that is read a second time, by line, by the letters `for` and by counting brackets | every start call has its end call below it; the calls bracket the loop they are of |
| profiler runtime | `g_records`, `g_count`, `g_capacity`, `g_atexit_registered`, the file | `profile_loop_start`, `profile_loop_end`, `profiler_write_json` at exit | growth, failing library calls, the order of exit handlers, a kill half way | the file holds what was recorded |
| `GpuSuitabilityEngine` | the hardware parameters | `classifyFromProfile`, `classifyStatic`, `classifyOne` | missing, torn or stale profiles; quotients with zero | a loop is offloaded only if the roofline says so |
| `OmpCodegen` | the ROSE AST | `buildPragmaText`, `renderMapClause`, `applyPragmas` | map clauses are always `[0:N]`; the decision is of the last loop of a location and the arrays are of the first | a directive fits the loop it precedes; an offloaded loop finds its arrays on the device and leaves them right |
| `translator` | maps keyed by location | the pipeline, `--instrument`, `--profile`, `--hw-...`, dumps | several loops share a line; a profile of an older source; an edit between the parse and the second reading | the verdict alone decides what is transformed; a profile can only withhold |

Nothing in the translator is concurrent and it persists nothing of its own, so
the hazards are those of long sequences of steps: order, partial failure, stale
values and boundaries.  The parts where something else acts in between are the
profiler runtime (exit handlers, failures, kills) and the workflow around it
(edits between instrumenting, running and transforming, and between the two
readings of the source within a run).

## 2. The modules

| Module | Stands for | Uses |
|---|---|---|
| `CallGraphs` | `callGraph_` and what the code means by reachable, component and callee-first order | |
| `SccOrder` | abstract: what `computeSCCs` promises | `CallGraphs` |
| `TarjanScc` | `computeSCCs`, `tarjanDFS` | `CallGraphs`; refines `SccOrder` |
| `ModRefPropagation` | `propagateBottomUp`, `mergeSummary` | `CallGraphs` |
| `BottomUp` | `propagateBottomUp` with the `computeSCCs` it calls | `ModRefPropagation`; composes it with `TarjanScc` by `INSTANCE`; refines `SccOrder` |
| `InterproceduralAnalysis` | `analyze`, `analyzeFromIR`, `getSummary` | composes `SccOrder` and `ModRefPropagation` by `INSTANCE` |
| `ParallelismChecker` | `classify` and its helpers | |
| `Classification` | `main` from `analyze` to `classifyAll` | `InterproceduralAnalysis`; composes it with `ParallelismChecker` by `INSTANCE` |
| `ProfilerRuntime` | `support/profiler.c` in its process | |
| `GpuSuitability` | `classifyOne`, `classifyStatic`, `estimateLoop` | |
| `OmpCodegen` | `buildPragmaText`, `renderMapClause`; external: what OpenMP does with the clauses | |
| `Translator` | runs of `main` with `emitTextLevelOmp` and `applyPragmas`, edits and profiled runs in between | `GpuSuitability`, `OmpCodegen` |
| `Instrumentation` | `instrument` with its helpers, on tokens | |
| `ClangBridge` | `extractIR`: both visitors | |
| `...Proofs` | theorems about the module they are named after | the module, `TLAPS` |
| `MC...` | small instances | the module |

Definitions keep the names of the source where there is one.  A definition that
only serves to break a property (`StartPassFromZero` in front of `StartPass`) is
a plausible bug in the definition that follows it: putting it in that
definition's place makes TLC report the property `PROJECT.json` pairs it with.
No specification uses one.

### From code to state and actions

**TarjanScc.**  The recursion of `tarjanDFS` is a stack `frames` of activations,
each with the callees it has still to look at; `index`, `lowlink`, `stack`,
`onStack` and `sccs` are the locals of `computeSCCs`.  An action is one callee
handled (`Recurse`, `BackEdge`, `SkipFinished`), a root started, or an activation
that ends, with the component it pops (`CompleteScc`) or without (`LeaveOnStack`).
The hash maps are iterated in an order nobody controls, so any remaining callee
or root may be next.

**ModRefPropagation.**  The call graph, a component list in callee-first order and
the local summaries come with the initial state: `SccOrder` says which lists are
possible, and in `BottomUp` it is the one the search has made.  `changed` and the position `idx` are those of the loops.  A component
takes two steps: a cycle is collapsed (`CollapseCycle`) or passed by
(`PassSingleton`), and then pushed into its callers (`PushToCallers`).
`Finalize` is step 3.  `passes` is not in the code; it counts iterations up to
`PassBound` so that `TwoPassesSuffice` can be stated.

**BottomUp.**  Steps of the search, then `SearchReturns` with the search's list as sets,
then steps of the propagation.  The code seeds the summaries before the search;
the search does not read them, so they are chosen when it returns, which keeps
the states of the search from being multiplied by the seedings.

**InterproceduralAnalysis.**  One action for each phase, as the phases call nothing
that could see the map half updated; a failing `computeLocalSummaries` leaves any
subset of its records behind.  The fallback is taken when there is no project or
when `buildCallGraph` throws, which it can do only before it has added anything.
Nodes of ROSE and names of Clang are different names (`Qualified`), which is
what the comment at `InterproceduralAnalysis.cpp:98` is about.  `effects` says of a
function of the program whether it does something that is not extracted; no action
reads it, only a property does.  The propagation is
`ModRefPropagation!Next`, unchanged.

**ParallelismChecker.**  One action for each array and each call site looked at, as
the scan ends at the first definite finding.  The arrays are visited in any
order (the order of a map shows only in the reason text).  Beside the code there
is a *reference meaning* of the loop, with `Trip` iterations, values for the
indices the pattern does not match, and the names each callee really writes.
The verdict is judged against it.

**Classification.**  `TakeNest` is the next turn of the loops of `classifyAll`,
`Classify` a step of `ParallelismChecker` on it, with the summaries of the analysis:
the variable `summaries` is shared.  A verdict has no influence on the next one,
so the nests are taken in any order and as often as one likes.  The `ir` of
`InterproceduralAnalysis` has the calls and arrays of a function, not its loops;
`NestsOf` are those that agree with them.

**ProfilerRuntime.**  One process from its start to its end.  Exit handlers are the
list C keeps, run last to first, and a handler of the program may run loops
again.  `malloc`, `realloc`, `atexit`, `fopen` and writing may fail, and `Kill` may
strike at any point, between opening and closing the file in particular.  `log`
is a history variable: the records stored, in order.

**Translator.**  A run of the translator is two steps, because it reads the source
twice: `Parse` (`ir` holds what was parsed) and then what the options ask for
(`Instrument`, a transformation, or neither), which reads `source` as it is by
then; edits and the ends of profiled programs may come between.  A transformation
writes the text (`EmitTextLevelOmp`) or, with `--ast-codegen`, the AST
(`ApplyPragmas`).  A map keyed by `file:line` is what is left after all loops were
entered in the order of the function names: of each line, the last loop
(`LocationMaps`).  `applyPragmas` also searches the IR for the location, which
finds the first (`Searches`).  The verdict comes with the loop.  `basis` remembers
what the output was made from.

**OmpCodegen.**  A directive is a record: for which device, which arrays in which
map clause, up to which bound, with a reduction or without.  An access knows the
elements it touches in all iterations, and whether it is made in all of them; the
code knows neither, and only the properties look at them.  `TransfersSuffice` is
OpenMP's side: sections of `to` and `tofrom` are copied in, those of `from` and
`tofrom` are copied back.

**Instrumentation.**  The text is a sequence of tokens on numbered lines.  One class
of tokens stands for all names with the letters `for` in them, because the code
searches a substring.  `Open` reads the file anew; `Wrap` and `Skip` handle one loop
of the IR each, in the order of the IR; `Rebuild` writes.  The position searches
(`Opening`, `Closing`, `BodyEnd`) are the loops over characters, stated by what they
find.  Tokens also carry what only the properties use: the loop they belong to,
and whether a statement may stand before them.  A loop is `Regular` if it shares no
line, stands in a list of statements and has a body in braces or with a single
semicolon.

**ClangBridge.**  A body is the list of its nodes in the order of Clang's walk, each
with its parent and its side of an assignment.  Clang is external: it enters
nodes and leaves them (`open`), and the action is the code of the handler on the
way in, or on the way out, with the local variable the handler keeps in between.
Compound assignments are of a class `TraverseBinaryOperator` is not called for, so
they are entered without a handler.

## 3. What the runs check

Each passing run checks a type invariant that includes the bookkeeping the code
keeps twice, and the properties below.

| Run | Instance | Shows |
|---|---|---|
| `bottom_up` | all call graphs over 3 names with all visiting orders, then no entry or one of 4 local summaries for each function (graphs with self-calls, which the propagation skips: no entries) | the stack and its flags agree and a finished component is never joined again (`StackDiscipline`, `LowlinkIsWitnessed`); the search implements `SccOrder` and ends, and its list is what the propagation gets (`ImplementsSccOrder`); from it the result is sound, precise, conservative above cycles and pure exactly when the local summaries say so; one pass reaches the fixpoint; it ends |
| `analysis` | `Classification`: a defined function, a second one that is unknown, declared or defined (and may call back), a whitelisted one the program may declare or define; a chain of three; no project, a broken or a built one; a failed phase; loops that read or write one array and call once | an unknown function is reported as one, and so is what may reach one (`UnresolvedIsReported`; on the ROSE path these are the program's own functions, too; after a failed phase only what the program declares, see `Unseen`); unless a phase failed, loop writes are reported upwards or nothing is claimed (`LoopWritesReported`); a loop that may be transformed calls, at any distance and apart from whitelisted names, nothing that is known to be unknown and, unless a phase failed, nothing that writes its arrays in a loop (`TransformedCallsAreHarmless`) |
| `checker` | all loops with up to 3 accesses and calls together, of 2 arrays, 2 bases, 2 offsets, 6 kinds of callee | a transformed loop has independent iterations and calls that keep out of its arrays, a refusal has a reason, a definite finding is never missed behind an inconclusive one |
| `profiler` | 5 records, first capacity 1, up to 3 handlers listed | the array is the log through three growths and every failure; a whole file is faithful and final; nothing `main` recorded is lost in a normal exit |
| `workflow` | three versions of a file (shifted lines, a shorter one with three loops on a line), loops that exceed their bound, fill their results in part or update in place, two GPUs, profiles of up to two records, both output paths | the verdict alone decides which lines are transformed (`VerdictDecides`); a directive has the reduction, arrays and bound of the loop it precedes (`DirectiveFitsItsLoop`); the map clauses are right exactly under two conditions nothing checks (`OffloadKeepsArrays`); of loops with a literal bound a profile only withholds some from the GPU, and a lost one does nothing (`ProfileOnlyWithholds`) |
| `instrumentation` | 864 files of two functions with loops, calls, conditions and comments in four layouts; any set of safe lines; three revisions the file may be edited into after the parse | the calls of a regular loop are above its first and below its last line (`BracketsTheLoop`); whatever the file is, each start has its end and the reverse (`EveryStartHasItsEnd`); all safe loops are found (`SafeLoopsAreFound`) |
| `extraction` | all bodies of up to 3 nodes, a loop around 4 nodes, all units of 3 declarations of 2 names | in an entry that was walked, nests, accesses and calls are what the shape of the body says (`NestsAreTheOutermostLoops`); the direct target of an assignment or increment is a write, and nothing outside of a target is (`WritesAreTargets`) |

Five runs end with a violation.  They state what a document or comment says,
and the trace is the code doing something else:

| Run | Statement | What happens |
|---|---|---|
| `prototype_hides_definition` | `ClangBridge.cpp:378`: a declaration's entry is replaced once the definition is seen | `hasBody()` is true of the prototype of a function defined later; a prototype in the main file has an entry with no loops and no calls, which counts as defined, and the definition further down in the main file is dropped |
| `write_is_not_direct_target` | `ClangBridge.cpp:13-19`: a subscript is a write if it is the direct target of `=`, `+=`, ..., `++` or `--`, and a read otherwise | `A[i] += x` records `A[i]` as a read, so a dependence through it is not seen.  The other half fails, too: in `f(A[i]) = x` and `*(p + A[i]) = x` the subscript is recorded as a write, since the flag of the left side is inherited by all but subscripts |
| `pure_has_effects` | `InterproceduralAnalysis.h:48`: pure means no side effects at all; the note at `InterproceduralAnalysis.cpp:98-116` calls a false purity a correctness bug | on the path without a ROSE project a function has the effects of its loops' subscripts and no others, so one that writes a global scalar is pure and its callers are; so it is after `computeLocalSummaries` has thrown |
| `call_to_call_dependence` | `PRD.md` REQ-P2 | a loop with one call, of a function that reads and writes a variable the loop does not subscript: what the call writes in one iteration it reads in another, and the verdict is `PARALLEL_SAFE` |
| `guard_is_lost` | `PRD.md` REQ-PR1: instrumenting does not change the output | the start call goes on a line above the loop; if the loop is the branch of an `if` without braces the call becomes the branch and the loop is executed always |

Noticed while modelling, and visible in the passing properties or the model
rather than in runs of their own:

- Of several loops on a line the verdict of the last decides, and the directive
  precedes the line, so a `SERIAL_ONLY` loop that comes first is transformed
  (`PRD.md` REQ-C5 says it stays); `VerdictDecides` therefore speaks of lines whose
  loops agree.
- On the AST path such a line has the arrays of its first loop with the decision
  of its last (`ApplyPragmas`).
- A profile holds the estimates made at translation time, with 1 for a bound that
  is not a literal.  `README.md:302-304` and `CONTEXT.md:31` say that with `--profile` such
  loops are decided by measured trip counts, which the code never does: a macro
  bound keeps a loop off the GPU with a profile as without
  (`MeasuredTripsNeverDecide`), and for literal bounds a fresh profile tells which
  loops were executed and nothing else (`ProfileOnlyWithholds`).
- Every loop has an estimated intensity of a quarter of a flop per byte, so on any
  hardware with a ridge above that, the default included, nothing is ever offloaded
  (`NothingOffloaded`).  `CONTEXT.md:31` puts the missing offload of `polybench_gemm` down
  to its macro bounds and "not because of low arithmetic intensity", and `PRD.md:235`
  has it demonstrate the GPU path; with literal bounds and a profile it
  would stay on the CPU all the same.
- Map clauses are right only if a loop stays below its bound and fills what it
  only writes (`OffloadKeepsArrays`); the bound is the right side of the loop's
  comparison whatever the operator.
- The variable of a `reduction` clause is the text of a call's first argument, or
  `<unknown>`; REQ-P5 asks for the variable that is reduced.
- A body without braces ends at the next semicolon, so in a nested statement the
  end call comes too early (`BracketsTheLoop` is about `Regular` loops).
- A whitelisted `printf` is pure although the comment at
  `InterproceduralAnalysis.cpp:29` denies it.
- A recursive cycle without effects is conservative and pure at once, and the
  checker looks at purity first (the last conjunct of `UnresolvedIsRefused`).
- When `computeLocalSummaries` throws, a function neither defined nor declared in
  the main file no longer counts as unknown to its callers (`Unseen`), and a defined
  function gets an empty summary, without even the loop writes that were extracted
  (`InterproceduralAnalysis.cpp:135-141`): this is why `LoopWritesReported` and a part of
  `TransformedCallsAreHarmless` are about runs in which no phase failed.
- Records made after the exit handler has run are in no file (`LoopsOfMainAreWritten`
  speaks of those made before).

### Bounds

Three functions give a cycle of two with a caller or a callee outside, a cycle of
three, diamonds and two roots; a fourth adds longer chains, which the proofs
cover for the propagation.  Self-calls matter to the search, where they are
included; `propagateBottomUp` skips a caller inside its own component, so after the
search of a graph with self-calls the run seeds nothing (the proofs do not
leave them out).  Two offsets and two bases give every pair of
accesses `checkArrayDependences` can tell apart; three accesses put a definite
finding after an inconclusive one.  `Trip = 4` exceeds the offset distance 2, so that
a distance can be met.  `FirstCapacity` is 1 instead of 16, so five records make the
array grow at 0, 1, 2 and 4.  Two records for one id are the smallest profile in
which the last one counts.  The three sources put every verdict, a loop that
moves to another's line, lines beyond the end of the shorter file and loops that
share a line into play.  The files of `instrumentation` are all combinations of nine
bodies, a comment after the header, a guard, what stands beside the loop and a
second function, so that the scan of one loop may run into any other text.  Bodies of three
nodes, and of four inside a loop, nest any two handlers that save the flag, with
an access below, between or after them.

### Fairness and deadlock

`BottomUp`, and in it `TarjanScc` and `ModRefPropagation`, is a call of a sequential program
that nothing interrupts and that waits for nothing: as long as a step is possible the next
one is taken, which is `WF` of the next-state relation, and with it `Terminates` and the completion in `SccOrder`
are checked.  `SccOrder` states completion itself as part of what is promised.
The other specifications have no fairness and claim no liveness: a process may be
killed and a user may stop.  All but `Translator` describe something that ends, so
`CHECK_DEADLOCK` is off for them; what must not end early is stated as a property.

## 4. What is proved

The theorems hold for every value of the constants under the named assumptions
of the modules, which TLC evaluates for its instances: function names are a
finite set, local summaries are summaries, offsets are integers, a parameter is
no global, what ROSE computes for a body is a summary, the ROSE name of a function
is no name of the program, `NoId` and `Garbage` are no loop ids, `Rank` orders the function names,
sources, files and hardware parameters are of their types, the tokens of a
file are in the order of their lines, and a file that was parsed follows the
grammar of C: its parentheses are closed and the loops of ProgramIR are there, each
a `for ( ... )` with a statement.  The last is asked only of what Clang has
parsed, not of what an edit leaves; it excludes brackets in strings, in character
constants and in comments, and loops that come out of macros, of which the scan of
the text knows nothing.

**`TarjanSccProofs`**: `TypesCorrect`, `StackIsKept`, `LowlinksAreWitnessed`,
`ListsComponents`, `ReturnsCalleeFirst`, for every finite set of functions, every call
graph and every order of visits.  The invariant `IInv` adds to the checked ones
what Tarjan's argument needs: activations are nested in the order of visit, a node
lower on the stack reaches those above it (`LowerReaches`), every stacked node
reaches the node of an activation at or below it (`HangsOnFrame`), what was looked at is visited
(`CalleesSeen`), listed components call only into listed ones (`ListedClosed`), and
the lowlink of an activation bounds every call onto the stack from its segment
(`LowlinkBounds`).  When `lowlink[node] = index[node]`, no call leaves what is popped
except into listed components; with the first two, what is popped is mutually
reachable, so it is exactly the component of `node` (`PoppedIsScc`).
`ListsComponents` is the safety part of `ImplementsSccOrder`, and `ReturnsCalleeFirst`
is the order that `ModRefPropagation` and `InterproceduralAnalysis` take for granted
of the list, so that the theorems meet.

**`ModRefPropagationProofs`**: `TypeCorrect`, `Soundness`, `Precision`, `TwoPasses`,
`CyclesShow`, `PurityIsExact`, for every finite set of functions, every graph, every
callee-first list and every partial seeding.  None of the properties is
inductive.  The strengthening `Inv` adds to the types that the component list stays
callee-first (`OrderOK`), that no local summary is ever lost (`LocalKept`), how the
flags of the loops go together (`LoopControl`), that the members of a collapsed
component have the same contents (`Cohesive`), and, the heart of it, `PastSettled`:
for every component the loop is past, each member's summary covers all its
callees'.  A merge is the least upper bound of summaries in a partial order
(`MergeUpperBound`, `MergeLeast`, `MergeAbsorbs`); from that, a component pushed into
its callers changes nothing below it, as the list is callee-first, and in the
second pass nothing at all, so `changed` stays false and `passes` at 2.  When the
loop has ended every edge is covered (`EdgesCovered`), and since reachability is
defined by closed sets, "covers the locals of g" holds of all that is reached
without an induction (`ReachedCovered`).  Precision is an invariant of its own
(`Justified` survives a merge along an edge); `PurityIsExact` needs both, and
`CyclesShow` carries the flag a collapsed cycle sets along the covered edges.

**`InterproceduralAnalysisProofs`**: `TypesCorrect`, `UnresolvedReported`, `LoopWrites`:
all of what the run checks of `analyze`, for every program and whitelist.  The
first two hold after a failed phase, too, in what they say of it: an unknown function itself is
always reported as one, its callers if the program declares it; `LoopWrites` is
about runs without a failure.  `PhaseInv` follows the phases one by one: once
it is built, the graph has the program's calls under plain names (`GraphInv`); what is
known locally under a plain name is settled by path and failure (`LocalOf`, `SeededInv`);
whatever has a summary is a node, and conversely unless a phase failed
(`KnownInGraph`); the list grows callee-first (`ListInv`).  With all components listed
this is what the propagation starts from (`Begins`), and from then on the lemmas of
`ModRefPropagationProofs`, instantiated with any summaries as seeds, keep
`FixpointInv`.  At the end, chains of calls in the graph and in the program are the
same (`SameChains`), so soundness and exactness over the graph become statements about
the program (`Outcome`); a chain that leaves the graph is empty (`ChainsStay`), and a
name without an entry gets the unknown summary.

The same module proves `CallsAreHarmless` of `Classification`, for every program,
whitelist and loop.  `AllInv` adds to the invariant of the analysis that
classification begins only after it (`AnalysisIsOver`) and that within it the
invariant of `ParallelismCheckerProofs`, instantiated with the summaries of the
analysis, holds.  In a loop that may be transformed no summary is approximate unless
it is pure, and none that is not pure reports a write to an array of the loop
(`SummariesOfTransformed`); what was not seen would be approximate and not pure
(`UnresolvedIsReported`), what is pure writes in no loop anywhere below
(`PurityFromIR`, a lemma about the loop writes that were extracted, not about side
effects), and what writes reports it (`LoopWritesReported`).  After a failed
phase the first half remains: nothing unknown that the program declares is called.
`AnalysisStays`: the composition implements the specification of the analysis, so
that all its theorems hold there.

**`ParallelismCheckerProofs`**: `TypeCorrect`, `SafeIsIndependent`, `CallsKeepOut`,
`DefiniteWins`, `SerialReason`: all of what the run checks, and `UnresolvedRefused`: a callee without a
summary, or with an approximate one that is not pure, keeps a loop from being transformed.  `ScanInv`
says what the scan has established about the arrays and calls behind it, and that
a verdict remembers its reason.  `SafeIsIndependent` then is arithmetic: with all
indices affine in the induction variable and all offsets of a written array
equal, two iterations touch different elements, for every trip count.

**`ProfilerRuntimeProofs`**: `TypeCorrect`, `ArrayIsTheLog`, `ProfileIsFaithful`,
`WholeProfileStays`, `NothingOfMainIsLost`, for every number of records, every first
capacity and every number of handlers.  `HandlerInv` (the profiler's handler is on
the list at most once, and only before it ran) is why the file is written once;
`MainInv` (unless something failed, the handler is listed, or running, or its file
is there) is why nothing is lost.

**`TranslatorProofs`**: `TypesCorrect`, `NothingOffloaded`, `VerdictAlone`,
`DirectiveFits`, `ArraysKept`, `ProfileWithholds`, `MeasuredTripsNeverDecide`: all of what the
run checks and two facts about the GPU that the documents deny, for
every set of sources and all hardware.  They rest on `OutputOfBasis`: `IInv` says
that estimates anywhere in the system come from loops (`InputsInv`), that the output
is the one of its basis (`OutputInv`), and that a profile of the parsed source has
entries of instrumented loops only (`FreshInv`).  `EstimateRatio` is the arithmetic
behind `NothingOffloaded`: work and traffic of an estimate are in the ratio 1 to 4 whatever
the loop, so a ridge point above a quarter is never reached.

**`ClangBridgeProofs`**: `TypesCorrect`, `NestsCorrect`, `WriteFlagsCorrect`, all of what the
passing run checks, for every unit of declarations and
bodies of any size and shape.  `Invariant` has two parts.  `WalkInv` is about the
recursion inside a body: the open nodes are the path from the top to the next
node, and a node that was left has nothing of what follows below it (`PathInv`); the
loops among them are the outermost of the path, so that a nest is open exactly
inside its outermost loop (`NestInv`); the one flag the handlers share, and each of the
values they saved, is what the path says of the expression at that point (`ContextInv`);
and what has been recorded is what the body has before the next node (`Holds`).  A
flag that one handler fails to restore would differ from the path at once,
while the wrong access it leads to may come much later: this is why the
property alone is not inductive.  `EntriesInv` says that each entry is of one
declaration, which one, and that it holds the whole of its body, if that declaration has one: of a
prototype that hides its definition the entry is empty.  The flag is proved equal to
`InTarget`, what the handlers make of the tree; `DirectIsInTarget` is the step from
there to what the comment asks for.

**`InstrumentationProofs`**: `TypesCorrect`, `CallsArePaired`, for every file, however
written, and every edit; `LoopsAreFound`, `CallsBracketTheLoop`, for every file that was
not edited since it was parsed.  The first two need little: the end of a header is
at or below the loop's line and the end of a body at or below that of the header,
since tokens are in the order of their lines and a missing end is that of the file
(`IInv`).  The other two rest on `FilesAreC`.  On the line of a loop there is a
`for`, so the search for the parenthesis succeeds, perhaps at that of an earlier loop of
the line, and what was opened is closed (`HeaderFound`): a safe loop is never
skipped.  If the loop shares its lines with nothing, the first `for` of its line is
its own, and so are the parenthesis and the bracket or semicolon where the scan
stops (`RegularFound`): the line after is the one below its last.  `UneditedInv` carries
this through the list: it is gone through from its start (`ListInv`), and each safe
loop behind has its calls once, a regular one around its own lines, the others
none (`CallsInv`).  Neither property holds of an edited file, where lines name other loops.

Model-checked only: what needs liveness (`Terminates`, the completion part of
`ImplementsSccOrder`).

## 5. What is not modelled

- The texts: names of induction variables and bounds, index expressions
  (`fillInductionAndBound`, `arrayBaseName`, `parseAffineIndex` as far as the text
  goes), reasons, reports, dumps, JSON syntax, command line parsing, indentation.
  An index is a base and an offset in the checker and a set of elements in the code
  generator; a profile can be read or not.
- Building the ROSE AST (`RoseBridge`): types, scopes, placeholders.  What the rest
  of the program sees of it is modelled: nodes without calls under qualified names
  (`InterproceduralAnalysis`), the last loop of a location (`Translator`).
- `#line` directives: a location is the line of the loop in the parsed version.
- Control that leaves an instrumented loop before its end call.  The runtime keeps
  nothing at a start call, so one record is missing then and no more.
- Threads in the instrumented program: it is compiled from the sequential source, and
  the runtime, which has no locks, is not linked into transformed programs.
- Overflow of the C++ stack in `tarjanDFS`: the depth a build bears is not in the
  code.
- Build files, tests, benchmarks, demo scripts.

## 6. Plan

Written so far, in this order: components and propagation (what every verdict
rests on), the checker, the analysis around them, the profiler, the workflow, the
extraction; then the code generator, the instrumentation and the two readings of
the source; then the proofs about the search for components and, on top of those about
the propagation, about the analysis as a whole; then those about the extraction and the
instrumentation, the composition of analysis and checker, and that of the search and the
propagation (`BottomUp`).  Next:

1. An abstract one-shot specification of the propagation (the summaries are the
   unions over what is reached), with `ModRefPropagation` as its refinement.
2. Threads in the profiler, if the runtime is to be linked into transformed
   programs.
