--------------------------- MODULE ProfilerRuntime ---------------------------
(***************************************************************************)
(* support/profiler.c, linked into an instrumented program: one process,   *)
(* from its start to a normal exit or a sudden end.  The program calls     *)
(* profile_loop_start and profile_loop_end around its loops; an exit       *)
(* handler writes what was recorded.                                       *)
(*                                                                         *)
(* The C library is external: exit() runs the registered handlers, the     *)
(* last one first, and one of them may run loops of the program too, as    *)
(* destructors of static objects do.  atexit, malloc, realloc, fopen and   *)
(* the writing may each fail, and the process may be killed at any point.  *)
(*                                                                         *)
(* A record is abstracted to its loop id: the numbers that go with it are  *)
(* constants of the call site.                                             *)
(***************************************************************************)
EXTENDS Naturals, SequencesExt

CONSTANTS
    LoopIds,
    NoId,           \* the id of a record whose string could not be copied
    Garbage,        \* what is in memory nobody wrote
    FirstCapacity,  \* 16 in the code
    MaxRecords,     \* bound: records stored by one process
    MaxHandlers     \* bound: exit handlers registered at a time

ASSUME CapacityPositive == FirstCapacity \in Nat \ {0}
ASSUME IdsDistinct == NoId \notin LoopIds /\ Garbage \notin LoopIds \cup {NoId}

VARIABLES
    g_records,      \* the allocated slots, numbered from 0
    g_count, g_capacity, g_atexit_registered,
    handlers,       \* exit handlers, "profiler" and "program"
    phase,          \* "running", "exiting", "handler" (one of the program's),
                    \* "flushing", "writing", "ended" or "killed"
    file,           \* the file named by $PROFILE_OUTPUT or profile.json
    \* history
    log,            \* the records the program handed over, less those dropped
    loggedInMain,   \* its length when exit() was called
    loggedAtFlush,  \* its length when the file was written
    failures        \* library calls that failed: "atexit", "fopen", "fwrite"

memory == <<g_records, g_count, g_capacity>>
exit == <<g_atexit_registered, handlers>>
marks == <<loggedInMain, loggedAtFlush>>
vars == <<memory, exit, phase, file, log, marks, failures>>

Ids == LoopIds \cup {NoId}

HandlerKinds == {"profiler", "program"}

\* What is on disk: no file, one of an earlier process, one cut short, or a
\* whole JSON array.
Files == [kind : {"absent", "old", "torn", "whole"}, records : Seq(Ids)]
File(kind, records) == [kind |-> kind, records |-> records]

Init ==
    /\ g_records = <<>> /\ g_count = 0 /\ g_capacity = 0
    /\ g_atexit_registered = FALSE
    /\ handlers \in {<<>>, <<"program">>}
    /\ phase = "running"
    /\ file \in {File("absent", <<>>), File("old", <<>>)}
    /\ log = <<>> /\ loggedInMain = 0 /\ loggedAtFlush = 0
    /\ failures = {}

\* Code of the program is running, in main or in one of its exit handlers.
InProgram == phase \in {"running", "handler"}

EnsureRegisteredEveryTime ==
    \/ /\ handlers' = Append(handlers, "profiler")
       /\ UNCHANGED <<g_atexit_registered, failures>>
    \/ /\ failures' = failures \cup {"atexit"}
       /\ UNCHANGED <<g_atexit_registered, handlers>>

EnsureRegisteredFlagOnly ==
    /\ g_atexit_registered' = TRUE
    /\ UNCHANGED <<handlers, failures>>

(***************************************************************************)
(* profiler_ensure_registered().  What atexit returns is not looked at.    *)
(***************************************************************************)
EnsureRegistered ==
    \/ /\ g_atexit_registered
       /\ UNCHANGED <<exit, failures>>
    \/ /\ ~g_atexit_registered
       /\ g_atexit_registered' = TRUE
       /\ \/ handlers' = Append(handlers, "profiler") /\ UNCHANGED failures
          \/ failures' = failures \cup {"atexit"} /\ UNCHANGED handlers

\* profile_loop_start().
LoopStart ==
    /\ InProgram
    /\ EnsureRegistered
    /\ UNCHANGED <<memory, phase, file, log, marks>>

FullLate == g_count > g_capacity

Full == g_count = g_capacity
Grown == IF g_capacity = 0 THEN FirstCapacity ELSE g_capacity * 2

\* realloc() keeps what was in the slots; the new ones are not initialised.
SlotsFresh(capacity) == [k \in 0..(capacity - 1) |-> Garbage]

Slots(capacity) ==
    [k \in 0..(capacity - 1) |->
        IF k \in DOMAIN g_records THEN g_records[k] ELSE Garbage]

(***************************************************************************)
(* profile_loop_end(): a record is stored, without its id if the string    *)
(* cannot be copied, in an array that grows when it is full; or the array  *)
(* cannot grow and the record is dropped.                                  *)
(***************************************************************************)
StoreRecord(id) ==
    /\ InProgram /\ Len(log) < MaxRecords
    /\ EnsureRegistered
    /\ g_capacity' = IF Full THEN Grown ELSE g_capacity
    /\ g_records' = [Slots(g_capacity') EXCEPT ![g_count] = id]
    /\ g_count' = g_count + 1
    /\ log' = Append(log, id)
    /\ UNCHANGED <<phase, file, marks>>

DropRecord ==
    /\ InProgram
    /\ EnsureRegistered
    /\ Full
    /\ UNCHANGED <<memory, phase, file, log, marks>>

\* The program registers a handler of its own, or finishes the construction
\* of a static object that has a destructor.
RegisterProgramHandler ==
    /\ InProgram /\ Len(handlers) < MaxHandlers
    /\ handlers' = Append(handlers, "program")
    /\ UNCHANGED <<memory, g_atexit_registered, phase, file, log, marks, failures>>

\* main returns, or exit() is called.
Exit ==
    /\ phase = "running"
    /\ phase' = "exiting"
    /\ loggedInMain' = Len(log)
    /\ UNCHANGED <<memory, exit, file, log, loggedAtFlush, failures>>

RunHandler ==
    /\ phase = "exiting" /\ handlers # <<>>
    /\ handlers' = Front(handlers)
    /\ phase' = IF Last(handlers) = "profiler" THEN "flushing" ELSE "handler"
    /\ UNCHANGED <<memory, g_atexit_registered, file, log, marks, failures>>

ProgramHandlerReturns ==
    /\ phase = "handler"
    /\ phase' = "exiting"
    /\ UNCHANGED <<memory, exit, file, log, marks, failures>>

(***************************************************************************)
(* profiler_write_json(), called by the profiler's handler.                *)
(***************************************************************************)
OpenFile ==
    /\ phase = "flushing"
    /\ file' = File("torn", <<>>)
    /\ phase' = "writing"
    /\ UNCHANGED <<memory, exit, log, marks, failures>>

OpenFails ==
    /\ phase = "flushing"
    /\ phase' = "exiting"
    /\ failures' = failures \cup {"fopen"}
    /\ UNCHANGED <<memory, exit, file, log, marks>>

AllSlots == [k \in 1..g_capacity |-> g_records[k - 1]]

Recorded == [k \in 1..g_count |-> g_records[k - 1]]

WriteJson ==
    /\ phase = "writing"
    /\ file' = File("whole", Recorded)
    /\ loggedAtFlush' = Len(log)
    /\ phase' = "exiting"
    /\ UNCHANGED <<memory, exit, log, loggedInMain, failures>>

\* The disk is full; nothing notices, and the array is not closed.
WriteFails ==
    /\ phase = "writing"
    /\ failures' = failures \cup {"fwrite"}
    /\ phase' = "exiting"
    /\ UNCHANGED <<memory, exit, file, log, marks>>

End ==
    /\ phase = "exiting" /\ handlers = <<>>
    /\ phase' = "ended"
    /\ UNCHANGED <<memory, exit, file, log, marks, failures>>

\* A signal, abort() or _exit(): no handler runs.
Kill ==
    /\ phase \notin {"ended", "killed"}
    /\ phase' = "killed"
    /\ UNCHANGED <<memory, exit, file, log, marks, failures>>

Next ==
    \/ LoopStart
    \/ \E id \in Ids : StoreRecord(id)
    \/ DropRecord
    \/ RegisterProgramHandler
    \/ Exit
    \/ RunHandler
    \/ ProgramHandlerReturns
    \/ OpenFile
    \/ OpenFails
    \/ WriteJson
    \/ WriteFails
    \/ End
    \/ Kill

Spec == Init /\ [][Next]_vars

-----------------------------------------------------------------------------
\* Types.  The slots in use are among those allocated.
TypeOK ==
    /\ g_capacity \in Nat /\ g_count \in 0..g_capacity
    /\ g_records \in [0..(g_capacity - 1) -> Ids \cup {Garbage}]
    /\ g_atexit_registered \in BOOLEAN
    /\ handlers \in Seq(HandlerKinds)
    /\ phase \in {"running", "exiting", "handler", "flushing", "writing",
                  "ended", "killed"}
    /\ file \in Files
    /\ log \in Seq(Ids)
    /\ loggedInMain \in 0..Len(log) /\ loggedAtFlush \in 0..Len(log)
    /\ failures \subseteq {"atexit", "fopen", "fwrite"}

\* However often the array grew or failed to grow, its used part is the
\* records in order: none twice, none overwritten, no slot never written.
RecordsAreTheLog == Recorded = log

\* A whole profile holds exactly the records there were when it was written.
ProfileIsTheLog ==
    file.kind = "whole" => file.records = SubSeq(log, 1, loggedAtFlush)

\* The handler is on the list at most once and never again after it ran: a
\* profile that was written is not written over by the same process.
WrittenOnce == [][file.kind = "whole" => UNCHANGED file]_vars

\* After a normal exit in which the library did not fail, the file is whole
\* and holds every record stored before exit() was called, wherever else the
\* program ran loops and registered handlers.
LoopsOfMainAreWritten ==
    phase = "ended" /\ failures = {} /\ loggedInMain > 0 =>
        file.kind = "whole" /\ loggedAtFlush >= loggedInMain
=============================================================================
