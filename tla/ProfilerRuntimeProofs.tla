------------------------ MODULE ProfilerRuntimeProofs ------------------------
(***************************************************************************)
(* Proofs about the profiling runtime, for any set of loops, any first     *)
(* capacity and any bounds.                                                *)
(***************************************************************************)
EXTENDS ProfilerRuntime, SequenceTheorems, TLAPS

(***************************************************************************)
(* The array and the log.  The types alone are not inductive: that a file  *)
(* is well formed depends on no unwritten slot being flushed, that is, on  *)
(* the used part of the array being the log.                               *)
(***************************************************************************)
Stored == TypeOK /\ RecordsAreTheLog

LEMMA RegisteringKeepsTypes ==
    ASSUME TypeOK, EnsureRegistered
    PROVE  /\ g_atexit_registered' \in BOOLEAN
           /\ handlers' \in Seq(HandlerKinds)
           /\ failures' \subseteq {"atexit", "fopen", "fwrite"}
<1>1. "profiler" \in HandlerKinds /\ handlers \in Seq(HandlerKinds)
  BY DEF HandlerKinds, TypeOK
<1>2. Append(handlers, "profiler") \in Seq(HandlerKinds)
  BY <1>1, AppendProperties
<1>3. handlers' = handlers \/ handlers' = Append(handlers, "profiler")
  BY DEF EnsureRegistered, exit
<1>4. g_atexit_registered' \in BOOLEAN
  BY DEF EnsureRegistered, exit, TypeOK
<1>5. failures' \subseteq {"atexit", "fopen", "fwrite"}
  BY DEF EnsureRegistered, TypeOK
<1> QED
  BY <1>1, <1>2, <1>3, <1>4, <1>5

\* Every record the program hands over and the array has room for, or can
\* grow for, becomes the last of its used part.
LEMMA StoreExtends ==
    ASSUME Stored, NEW id \in Ids, StoreRecord(id)
    PROVE  Stored'
<1> USE CapacityPositive
<1>1. /\ g_capacity \in Nat /\ g_count \in 0..g_capacity
      /\ g_records \in [0..(g_capacity - 1) -> Ids \cup {Garbage}]
      /\ log \in Seq(Ids)
      /\ loggedInMain \in 0..Len(log) /\ loggedAtFlush \in 0..Len(log)
  BY DEF Stored, TypeOK
<1>2. /\ g_capacity' \in Nat /\ g_count < g_capacity' /\ g_capacity <= g_capacity'
  BY <1>1 DEF StoreRecord, Full, Grown
<1>3. /\ g_records' \in [0..(g_capacity' - 1) -> Ids \cup {Garbage}]
      /\ \A k \in 0..(g_count - 1) : g_records'[k] = g_records[k]
      /\ g_records'[g_count] = id
  BY <1>1, <1>2 DEF StoreRecord, Slots
<1>4. log' \in Seq(Ids) /\ Len(log') = Len(log) + 1
  BY <1>1, AppendProperties DEF StoreRecord
<1>5. TypeOK'
  <2>1. /\ g_atexit_registered' \in BOOLEAN
        /\ handlers' \in Seq(HandlerKinds)
        /\ failures' \subseteq {"atexit", "fopen", "fwrite"}
    BY RegisteringKeepsTypes DEF Stored, StoreRecord
  <2>2. loggedInMain' \in 0..Len(log') /\ loggedAtFlush' \in 0..Len(log')
    BY <1>1, <1>4 DEF StoreRecord, marks
  <2>3. g_count' \in 0..g_capacity'
    BY <1>1, <1>2 DEF StoreRecord
  <2>4. phase' = phase /\ file' = file
    BY DEF StoreRecord
  <2> QED
    BY <1>2, <1>3, <1>4, <2>1, <2>2, <2>3, <2>4 DEF Stored, TypeOK
<1>6. Recorded' = log'
  <2>1. Recorded = log /\ Len(log) = g_count
    BY <1>1, LenProperties DEF Stored, RecordsAreTheLog, Recorded
  <2>2. g_count' = g_count + 1 /\ log' = Append(log, id)
    BY DEF StoreRecord
  <2>3. \A k \in 1..g_count : log[k] = g_records[k - 1]
    BY <2>1 DEF Recorded
  <2>4. /\ \A k \in 1..g_count : log'[k] = log[k]
        /\ log'[g_count + 1] = id
    <3>1. /\ \A k \in 1..Len(log) : Append(log, id)[k] = log[k]
          /\ Append(log, id)[Len(log) + 1] = id
      BY <1>1
    <3> QED
      BY ONLY <2>1, <2>2, <3>1
  <2>5. \A k \in 1..(g_count + 1) : log'[k] = g_records'[k - 1]
    <3> TAKE k \in 1..(g_count + 1)
    <3>1. g_count \in Nat /\ k \in 1..(g_count + 1)
      BY <1>1
    <3>2. CASE k = g_count + 1
      <4>1. k - 1 = g_count
        BY ONLY <3>1, <3>2
      <4> QED
        BY ONLY <1>3, <2>4, <3>2, <4>1
    <3>3. CASE k # g_count + 1
      <4>1. k \in 1..g_count /\ k - 1 \in 0..(g_count - 1)
        BY ONLY <3>1, <3>3
      <4> QED
        BY ONLY <1>3, <2>3, <2>4, <4>1
    <3> QED
      BY ONLY <3>2, <3>3
  <2>6. log' \in [1..(g_count + 1) -> Ids]
    BY <1>4, <2>1, LenProperties
  <2> QED
    BY <2>2, <2>5, <2>6 DEF Recorded
<1> QED
  BY <1>5, <1>6 DEF Stored, RecordsAreTheLog

LEMMA StoredInit == Init => Stored
<1> SUFFICES ASSUME Init PROVE Stored
  OBVIOUS
<1>1. log \in Seq(Ids) /\ Len(log) = 0
  BY EmptySeq DEF Init
<1>2. file \in Files
  <2>1. <<>> \in Seq(Ids)
    BY EmptySeq
  <2>2. file = File("absent", <<>>) \/ file = File("old", <<>>)
    BY DEF Init
  <2>3. File("absent", <<>>) \in Files /\ File("old", <<>>) \in Files
    BY <2>1 DEF Files, File
  <2> QED
    BY <2>2, <2>3
<1>3. handlers \in Seq(HandlerKinds)
  <2>1. <<>> \in Seq(HandlerKinds) /\ "program" \in HandlerKinds
    BY EmptySeq DEF HandlerKinds
  <2>2. Append(<<>>, "program") \in Seq(HandlerKinds)
    BY <2>1, AppendProperties
  <2>3. Append(<<>>, "program") = <<"program">>
    OBVIOUS
  <2> QED
    BY <2>1, <2>2, <2>3 DEF Init
<1>4. g_records \in [0..(g_capacity - 1) -> Ids \cup {Garbage}] /\ Recorded = log
  <2>1. 0..(0 - 1) = {} /\ 1..0 = {}
    OBVIOUS
  <2>2. <<>> = [k \in {} |-> Garbage] /\ <<>> = [k \in {} |-> g_records[k - 1]]
    OBVIOUS
  <2> QED
    BY <2>1, <2>2 DEF Init, Recorded
<1>5. g_capacity = 0 /\ g_count = 0 /\ loggedInMain = 0 /\ loggedAtFlush = 0
  BY DEF Init
<1>6. /\ g_atexit_registered \in BOOLEAN
      /\ phase = "running"
      /\ failures \subseteq {"atexit", "fopen", "fwrite"}
  BY DEF Init
<1> QED
  BY <1>1, <1>2, <1>3, <1>4, <1>5, <1>6 DEF Stored, TypeOK, RecordsAreTheLog

LEMMA StoredKept == Stored /\ [Next]_vars => Stored'
<1> SUFFICES ASSUME Stored, [Next]_vars PROVE Stored'
  OBVIOUS
<1> USE DEF Stored
<1>1. CASE LoopStart
  <2>1. TypeOK'
    BY <1>1, RegisteringKeepsTypes DEF TypeOK, LoopStart, memory, marks
  <2> QED
    BY <1>1, <2>1 DEF LoopStart, RecordsAreTheLog, Recorded, memory
<1>2. ASSUME NEW id \in Ids, StoreRecord(id) PROVE Stored'
  BY <1>2, StoreExtends
<1>3. CASE DropRecord
  <2>1. TypeOK'
    BY <1>3, RegisteringKeepsTypes DEF TypeOK, DropRecord, memory, marks
  <2> QED
    BY <1>3, <2>1 DEF DropRecord, RecordsAreTheLog, Recorded, memory
<1>4. CASE RegisterProgramHandler
  <2>1. handlers' \in Seq(HandlerKinds)
    <3>1. "program" \in HandlerKinds /\ handlers \in Seq(HandlerKinds)
      BY DEF HandlerKinds, TypeOK
    <3> QED
      BY <1>4, <3>1, AppendProperties DEF RegisterProgramHandler
  <2> QED
    BY <1>4, <2>1 DEF RegisterProgramHandler, TypeOK, RecordsAreTheLog, Recorded, memory, marks
<1>5. CASE Exit
  BY <1>5, LenProperties DEF Exit, TypeOK, RecordsAreTheLog, Recorded, memory, exit
<1>6. CASE RunHandler
  <2>1. handlers' \in Seq(HandlerKinds)
    <3>1. handlers \in Seq(HandlerKinds) /\ handlers' = SubSeq(handlers, 1, Len(handlers) - 1)
      BY <1>6 DEF RunHandler, Front, TypeOK
    <3> QED
      BY <3>1
  <2> QED
    BY <1>6, <2>1 DEF RunHandler, TypeOK, RecordsAreTheLog, Recorded, memory, marks
<1>7. CASE ProgramHandlerReturns
  BY <1>7 DEF ProgramHandlerReturns, TypeOK, RecordsAreTheLog, Recorded, memory, exit, marks
<1>8. CASE OpenFile
  <2>1. file' \in Files
    <3>1. <<>> \in Seq(Ids)
      BY EmptySeq
    <3> QED
      BY <1>8, <3>1 DEF OpenFile, File, Files
  <2> QED
    BY <1>8, <2>1 DEF OpenFile, TypeOK, RecordsAreTheLog, Recorded, memory, exit, marks
<1>9. CASE OpenFails
  BY <1>9 DEF OpenFails, TypeOK, RecordsAreTheLog, Recorded, memory, exit, marks
<1>10. CASE WriteJson
  <2>1. file' \in Files
    BY <1>10 DEF WriteJson, File, Files, TypeOK, RecordsAreTheLog
  <2>2. loggedAtFlush' \in 0..Len(log')
    BY <1>10, LenProperties DEF WriteJson, TypeOK
  <2> QED
    BY <1>10, <2>1, <2>2 DEF WriteJson, TypeOK, RecordsAreTheLog, Recorded, memory, exit
<1>11. CASE WriteFails
  BY <1>11 DEF WriteFails, TypeOK, RecordsAreTheLog, Recorded, memory, exit, marks
<1>12. CASE End
  BY <1>12 DEF End, TypeOK, RecordsAreTheLog, Recorded, memory, exit, marks
<1>13. CASE Kill
  BY <1>13 DEF Kill, TypeOK, RecordsAreTheLog, Recorded, memory, exit, marks
<1>14. CASE UNCHANGED vars
  BY <1>14 DEF vars, TypeOK, RecordsAreTheLog, Recorded, memory, exit, marks
<1> QED
  BY <1>1, <1>2, <1>3, <1>4, <1>5, <1>6, <1>7, <1>8, <1>9, <1>10, <1>11,
     <1>12, <1>13, <1>14 DEF Next

\* The types hold, and the used part of the array is the log of the records
\* that were not dropped.
THEOREM StoredAlways == Spec => []Stored
<1> QED
  BY StoredInit, StoredKept, PTL DEF Spec

\* However the array grew: its used slots are the records in order.
THEOREM ArrayIsTheLog == Spec => []RecordsAreTheLog
<1>1. Stored => RecordsAreTheLog
  BY DEF Stored
<1> QED
  BY <1>1, StoredAlways, PTL

\* Types.
THEOREM TypeCorrect == Spec => []TypeOK
<1>1. Stored => TypeOK
  BY DEF Stored
<1> QED
  BY <1>1, StoredAlways, PTL

-----------------------------------------------------------------------------
(* The file.                                                               *)

LEMMA ProfileInit == Init => ProfileIsTheLog
  BY DEF Init, ProfileIsTheLog, File

\* The log only grows, so what it was when the file was written stays.
LEMMA ProfileKept == Stored /\ ProfileIsTheLog /\ [Next]_vars => ProfileIsTheLog'
<1> SUFFICES ASSUME Stored, ProfileIsTheLog, [Next]_vars PROVE ProfileIsTheLog'
  OBVIOUS
<1>0. /\ log \in Seq(Ids) /\ loggedAtFlush \in 0..Len(log)
  BY DEF Stored, TypeOK
<1>1. CASE LoopStart
  BY <1>1 DEF LoopStart, ProfileIsTheLog, marks
<1>2. ASSUME NEW id \in Ids, StoreRecord(id) PROVE ProfileIsTheLog'
  <2>1. SubSeq(Append(log, id), 1, loggedAtFlush) = SubSeq(log, 1, loggedAtFlush)
    <3>1. Append(log, id) = log \o <<id>> /\ <<id>> \in Seq(Ids)
      BY <1>0, AppendIsConcat
    <3>2. CASE loggedAtFlush = 0
      BY <1>0, <3>2, SubSeqEmpty
    <3>3. CASE loggedAtFlush \in 1..Len(log)
      BY <1>0, <3>1, <3>3, SubSeqOfConcat1
    <3> QED
      BY <1>0, <3>2, <3>3
  <2> QED
    BY <1>2, <2>1 DEF StoreRecord, ProfileIsTheLog, marks
<1>3. CASE DropRecord
  BY <1>3 DEF DropRecord, ProfileIsTheLog, marks
<1>4. CASE RegisterProgramHandler
  BY <1>4 DEF RegisterProgramHandler, ProfileIsTheLog, marks
<1>5. CASE Exit
  BY <1>5 DEF Exit, ProfileIsTheLog
<1>6. CASE RunHandler
  BY <1>6 DEF RunHandler, ProfileIsTheLog, marks
<1>7. CASE ProgramHandlerReturns
  BY <1>7 DEF ProgramHandlerReturns, ProfileIsTheLog, marks
<1>8. CASE OpenFile
  BY <1>8 DEF OpenFile, File, ProfileIsTheLog
<1>9. CASE OpenFails
  BY <1>9 DEF OpenFails, ProfileIsTheLog, marks
<1>10. CASE WriteJson
  BY <1>0, <1>10, SubSeqFull DEF WriteJson, File, ProfileIsTheLog, Stored, RecordsAreTheLog
<1>11. CASE WriteFails
  BY <1>11 DEF WriteFails, ProfileIsTheLog, marks
<1>12. CASE End
  BY <1>12 DEF End, ProfileIsTheLog, marks
<1>13. CASE Kill
  BY <1>13 DEF Kill, ProfileIsTheLog, marks
<1>14. CASE UNCHANGED vars
  BY <1>14 DEF vars, ProfileIsTheLog, marks
<1> QED
  BY <1>1, <1>2, <1>3, <1>4, <1>5, <1>6, <1>7, <1>8, <1>9, <1>10, <1>11,
     <1>12, <1>13, <1>14 DEF Next

\* A profile that was completed is the records of its process up to then.
THEOREM ProfileIsFaithful == Spec => []ProfileIsTheLog
  BY ProfileInit, ProfileKept, StoredAlways, PTL DEF Spec

-----------------------------------------------------------------------------
(* The handler.                                                            *)

Listed(h) == \E i \in DOMAIN h : h[i] = "profiler"
ListedOnce(h) ==
    \A i, j \in DOMAIN h : h[i] = "profiler" /\ h[j] = "profiler" => i = j

\* The profiler's handler is listed only before it has run, and then once.
HandlerInv ==
    /\ ListedOnce(handlers)
    /\ Listed(handlers) =>
          /\ g_atexit_registered /\ phase \notin {"flushing", "writing"}
          /\ file.kind \in {"absent", "old"}
    /\ phase \in {"flushing", "writing"} =>
          g_atexit_registered /\ file.kind # "whole"
    /\ file.kind \notin {"absent", "old"} => g_atexit_registered

LEMMA AppendHandler ==
    ASSUME NEW h \in Seq(HandlerKinds), NEW kind \in HandlerKinds
    PROVE  /\ Listed(Append(h, kind)) <=> Listed(h) \/ kind = "profiler"
           /\ ListedOnce(h) /\ (kind = "profiler" => ~Listed(h)) =>
                  ListedOnce(Append(h, kind))
<1>1. /\ DOMAIN Append(h, kind) = 1..(Len(h) + 1) /\ DOMAIN h = 1..Len(h)
      /\ \A i \in 1..Len(h) : Append(h, kind)[i] = h[i]
      /\ Append(h, kind)[Len(h) + 1] = kind
      /\ Len(h) \in Nat
  BY AppendProperties, LenProperties
<1> QED
  BY <1>1 DEF Listed, ListedOnce

LEMMA FrontHandler ==
    ASSUME NEW h \in Seq(HandlerKinds), h # <<>>
    PROVE  /\ Listed(Front(h)) => Listed(h)
           /\ ListedOnce(h) => ListedOnce(Front(h))
           /\ ListedOnce(h) /\ Last(h) = "profiler" => Listed(h) /\ ~Listed(Front(h))
           /\ Last(h) # "profiler" /\ Listed(h) => Listed(Front(h))
<1>1. /\ Len(h) \in Nat \ {0} /\ DOMAIN h = 1..Len(h)
  BY EmptySeq, LenProperties
<1>2. /\ Len(Front(h)) = Len(h) - 1 /\ DOMAIN Front(h) = 1..(Len(h) - 1)
      /\ \A i \in 1..(Len(h) - 1) : Front(h)[i] = h[i]
      /\ Last(h) = h[Len(h)]
  BY <1>1 DEF Front, Last
<1> QED
  BY <1>1, <1>2 DEF Listed, ListedOnce

LEMMA RegisteringKeepsHandler ==
    ASSUME Stored, HandlerInv, InProgram, EnsureRegistered,
           UNCHANGED <<phase, file>>
    PROVE  HandlerInv'
<1>1. handlers \in Seq(HandlerKinds) /\ "profiler" \in HandlerKinds
  BY DEF Stored, TypeOK, HandlerKinds
<1>2. CASE UNCHANGED <<exit>>
  BY <1>2 DEF HandlerInv, exit
<1>3. CASE ~g_atexit_registered /\ g_atexit_registered' = TRUE
  <2>1. CASE handlers' = Append(handlers, "profiler")
    <3>1. ~Listed(handlers) /\ ListedOnce(handlers)
      BY <1>3 DEF HandlerInv
    <3>2. ListedOnce(handlers')
      BY <1>1, <2>1, <3>1, AppendHandler
    <3> QED
      BY <1>3, <3>2 DEF HandlerInv, InProgram
  <2>2. CASE UNCHANGED handlers
    BY <1>3, <2>2 DEF HandlerInv
  <2> QED
    BY <1>3, <2>1, <2>2 DEF EnsureRegistered
<1> QED
  BY <1>2, <1>3 DEF EnsureRegistered

LEMMA HandlerInit == Init => HandlerInv
<1> SUFFICES ASSUME Init PROVE HandlerInv
  OBVIOUS
<1>1. ~Listed(handlers) /\ ListedOnce(handlers)
  BY DEF Init, Listed, ListedOnce
<1> QED
  BY <1>1 DEF Init, HandlerInv, File

LEMMA HandlerKept == Stored /\ HandlerInv /\ [Next]_vars => HandlerInv'
<1> SUFFICES ASSUME Stored, HandlerInv, [Next]_vars PROVE HandlerInv'
  OBVIOUS
<1>0. handlers \in Seq(HandlerKinds) /\ "program" \in HandlerKinds
  BY DEF Stored, TypeOK, HandlerKinds
<1>1. CASE LoopStart
  BY <1>1, RegisteringKeepsHandler DEF LoopStart
<1>2. ASSUME NEW id \in Ids, StoreRecord(id) PROVE HandlerInv'
  BY <1>2, RegisteringKeepsHandler DEF StoreRecord
<1>3. CASE DropRecord
  BY <1>3, RegisteringKeepsHandler DEF DropRecord
<1>4. CASE RegisterProgramHandler
  BY <1>0, <1>4, AppendHandler DEF RegisterProgramHandler, HandlerInv
<1>5. CASE Exit
  BY <1>5 DEF Exit, HandlerInv, exit
<1>6. CASE RunHandler
  BY <1>0, <1>6, FrontHandler DEF RunHandler, HandlerInv
<1>7. CASE ProgramHandlerReturns
  BY <1>7 DEF ProgramHandlerReturns, HandlerInv, exit
<1>8. CASE OpenFile
  BY <1>8 DEF OpenFile, File, HandlerInv, exit
<1>9. CASE OpenFails
  BY <1>9 DEF OpenFails, HandlerInv, exit
<1>10. CASE WriteJson
  BY <1>10 DEF WriteJson, File, HandlerInv, exit
<1>11. CASE WriteFails
  BY <1>11 DEF WriteFails, HandlerInv, exit
<1>12. CASE End
  BY <1>12 DEF End, HandlerInv, exit
<1>13. CASE Kill
  BY <1>13 DEF Kill, HandlerInv, exit
<1>14. CASE UNCHANGED vars
  BY <1>14 DEF vars, HandlerInv, exit
<1> QED
  BY <1>1, <1>2, <1>3, <1>4, <1>5, <1>6, <1>7, <1>8, <1>9, <1>10, <1>11,
     <1>12, <1>13, <1>14 DEF Next

LEMMA HandlerAlways == Spec => []HandlerInv
  BY HandlerInit, HandlerKept, StoredAlways, PTL DEF Spec

\* A step that touches the file finds it incomplete.
THEOREM WholeProfileStays == Spec => WrittenOnce
<1>1. HandlerInv /\ [Next]_vars => [file.kind = "whole" => UNCHANGED file]_vars
  BY DEF Next, vars, HandlerInv, LoopStart, StoreRecord, DropRecord,
         RegisterProgramHandler, Exit, RunHandler, ProgramHandlerReturns,
         OpenFile, OpenFails, WriteJson, WriteFails, End, Kill
<1> QED
  BY <1>1, HandlerAlways, PTL DEF Spec, WrittenOnce

-----------------------------------------------------------------------------
(* A normal exit.                                                          *)

\* Unless something failed, a process that registered the handler has it on
\* its list, is running it, or has its file.
MainInv ==
    /\ log # <<>> => g_atexit_registered
    /\ phase = "running" => loggedInMain = 0 /\ file.kind # "whole"
    /\ file.kind = "whole" => loggedAtFlush >= loggedInMain
    /\ failures = {} /\ g_atexit_registered /\ phase # "killed" =>
          \/ Listed(handlers)
          \/ phase \in {"flushing", "writing"}
          \/ file.kind = "whole"
    /\ phase = "ended" => handlers = <<>>

LEMMA RegisteringKeepsMain ==
    ASSUME Stored, MainInv, InProgram, EnsureRegistered,
           UNCHANGED <<phase, file, marks>>
    PROVE  MainInv' /\ g_atexit_registered'
<1>1. handlers \in Seq(HandlerKinds) /\ "profiler" \in HandlerKinds
  BY DEF Stored, TypeOK, HandlerKinds
<1>2. g_atexit_registered'
  BY DEF EnsureRegistered, exit
<1>3. CASE g_atexit_registered
  BY <1>2, <1>3 DEF EnsureRegistered, MainInv, InProgram, exit, marks
<1>4. CASE handlers' = Append(handlers, "profiler")
  BY <1>1, <1>2, <1>4, AppendHandler DEF MainInv, InProgram, marks
<1>5. CASE failures' # {}
  BY <1>2, <1>5 DEF MainInv, InProgram, marks
<1> QED
  BY <1>2, <1>3, <1>4, <1>5 DEF EnsureRegistered

LEMMA MainInit == Init => MainInv
  BY DEF Init, MainInv, File

LEMMA MainKept == Stored /\ HandlerInv /\ MainInv /\ [Next]_vars => MainInv'
<1> SUFFICES ASSUME Stored, HandlerInv, MainInv, [Next]_vars PROVE MainInv'
  OBVIOUS
<1>0. /\ handlers \in Seq(HandlerKinds) /\ "program" \in HandlerKinds
      /\ loggedInMain \in 0..Len(log) /\ Len(log) \in Nat
  BY LenProperties DEF Stored, TypeOK, HandlerKinds
<1>1. CASE LoopStart
  BY <1>1, RegisteringKeepsMain DEF LoopStart
<1>2. ASSUME NEW id \in Ids, StoreRecord(id) PROVE MainInv'
  BY <1>2, RegisteringKeepsMain DEF StoreRecord
<1>3. CASE DropRecord
  BY <1>3, RegisteringKeepsMain DEF DropRecord
<1>4. CASE RegisterProgramHandler
  BY <1>0, <1>4, AppendHandler DEF RegisterProgramHandler, MainInv, InProgram, marks
<1>5. CASE Exit
  BY <1>0, <1>5 DEF Exit, MainInv, exit
<1>6. CASE RunHandler
  BY <1>0, <1>6, FrontHandler DEF RunHandler, MainInv, marks
<1>7. CASE ProgramHandlerReturns
  BY <1>7 DEF ProgramHandlerReturns, MainInv, exit, marks
<1>8. CASE OpenFile
  BY <1>8 DEF OpenFile, File, MainInv, exit, marks
<1>9. CASE OpenFails
  BY <1>9 DEF OpenFails, MainInv, exit, marks
<1>10. CASE WriteJson
  BY <1>0, <1>10 DEF WriteJson, File, MainInv, exit
<1>11. CASE WriteFails
  BY <1>11 DEF WriteFails, MainInv, exit, marks
<1>12. CASE End
  BY <1>12 DEF End, MainInv, exit, marks
<1>13. CASE Kill
  BY <1>13 DEF Kill, MainInv, exit, marks
<1>14. CASE UNCHANGED vars
  BY <1>14 DEF vars, MainInv, exit, marks
<1> QED
  BY <1>1, <1>2, <1>3, <1>4, <1>5, <1>6, <1>7, <1>8, <1>9, <1>10, <1>11,
     <1>12, <1>13, <1>14 DEF Next

\* After a normal exit without a failure of the library, nothing recorded
\* before exit() is missing from the file.
THEOREM NothingOfMainIsLost == Spec => []LoopsOfMainAreWritten
<1>1. Stored /\ MainInv => LoopsOfMainAreWritten
  <2> SUFFICES ASSUME Stored, MainInv, phase = "ended", failures = {}, loggedInMain > 0
               PROVE  file.kind = "whole" /\ loggedAtFlush >= loggedInMain
    BY DEF LoopsOfMainAreWritten
  <2>1. log # <<>>
    BY EmptySeq DEF Stored, TypeOK
  <2>2. ~Listed(handlers)
    BY DEF MainInv, Listed
  <2> QED
    BY <2>1, <2>2 DEF MainInv
<1> QED
  BY <1>1, MainInit, MainKept, HandlerAlways, StoredAlways, PTL DEF Spec
=============================================================================
