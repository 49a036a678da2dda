------------------------- MODULE InstrumentationProofs -------------------------
(***************************************************************************)
(* Whatever file is instrumented, and whatever it was when it was parsed:  *)
(* the calls come in pairs, the start above the end.  Of a file that was   *)
(* not edited since, all loops at safe locations are found, and what is    *)
(* written regularly is enclosed.                                          *)
(***************************************************************************)
EXTENDS Instrumentation, FiniteSetTheorems, WellFoundedInduction, TLAPS

\* What is read and written is a file, and the calls are in its lines.
FilesInv ==
    /\ file \in Files \cup Revisions /\ parsed \in Files \cup Revisions
    /\ text \in Files \cup Revisions
    /\ phase \in {"parsed", "inserting", "written", "stub"}
    /\ todo \in Seq(Entries)
    /\ phase \in {"inserting", "written"} =>
          /\ before \in [1..Length -> Seq(Nat)]
          /\ after \in [1..Length -> Seq(Nat)]

IInv == FilesInv /\ EveryStartHasItsEnd

\* What is assumed of each file.
LEMMA FileFacts ==
  ASSUME NEW f \in Files \cup Revisions
  PROVE  /\ f \in SourceFile
         /\ f.length \in Nat /\ f.tokens \in Seq(Token)
         /\ \A i, j \in DOMAIN f.tokens : i <= j => f.tokens[i].line <= f.tokens[j].line
         /\ \A i \in DOMAIN f.tokens : f.tokens[i].line \in 1..f.length
         /\ \A i \in DOMAIN f.loops : f.loops[i].id \in Nat /\ f.loops[i].line \in Nat \ {0}
  <1>1. f \in SourceFile /\ WellFormed(f)
    BY FilesWellFormed
  <1>2. f.length \in Nat /\ f.tokens \in Seq(Token) /\ f.loops \in Seq([id : Nat, line : Nat])
    BY <1>1 DEF SourceFile
  <1>3. ASSUME NEW i \in DOMAIN f.loops
        PROVE  f.loops[i].id \in Nat /\ f.loops[i].line \in Nat \ {0}
    <2> DEFINE E == [id : Nat, line : Nat]
    <2>1. f.loops[i] \in E
      <3> HIDE DEF E
      <3>1. f.loops \in Seq(E)
        BY <1>2 DEF E
      <3> QED
        BY <3>1
    <2>2. f.loops[i].line >= 1
      BY <1>1 DEF WellFormed
    <2> QED
      BY <2>1, <2>2
  <1> QED
    BY <1>1, <1>2, <1>3 DEF WellFormed

LEMMA SeqOf ==
  ASSUME NEW X, NEW Y, NEW s \in Seq(X), \A i \in DOMAIN s : s[i] \in Y
  PROVE  s \in Seq(Y)
  <1>1. /\ Len(s) \in Nat /\ DOMAIN s = 1..Len(s)
        /\ s = [i \in 1..Len(s) |-> s[i]]
    OBVIOUS
  <1>2. [i \in 1..Len(s) |-> s[i]] \in Seq(Y)
    BY <1>1
  <1> QED
    BY <1>1, <1>2

\* One more call on a line.
LEMMA CallAdded ==
  ASSUME NEW s \in Seq(Nat), NEW id \in Nat
  PROVE  {Append(s, id)[i] : i \in DOMAIN Append(s, id)} = {s[i] : i \in DOMAIN s} \cup {id}
  <1>1. /\ DOMAIN Append(s, id) = 1..(Len(s) + 1) /\ DOMAIN s = 1..Len(s) /\ Len(s) \in Nat
        /\ Append(s, id)[Len(s) + 1] = id
        /\ \A i \in 1..Len(s) : Append(s, id)[i] = s[i]
    OBVIOUS
  <1>2. \A i \in 1..(Len(s) + 1) : i \in 1..Len(s) \/ i = Len(s) + 1
    BY <1>1
  <1>3. 1..Len(s) \subseteq 1..(Len(s) + 1) /\ Len(s) + 1 \in 1..(Len(s) + 1)
    BY <1>1
  <1>4. {Append(s, id)[i] : i \in 1..(Len(s) + 1)} = {s[i] : i \in 1..Len(s)} \cup {id}
    BY <1>1, <1>2, <1>3
  <1> QED
    BY <1>1, <1>4

-----------------------------------------------------------------------------
(* The scan goes down the text only.                                       *)

LEMMA HeaderBelow ==
  ASSUME FilesInv, NEW loop \in Entries, NEW close \in Header(loop)
  PROVE  /\ loop.line \in 1..Length /\ loop.id \in Nat
         /\ close \in Positions /\ Tokens[close].line >= loop.line
  <1>1. /\ Length \in Nat /\ Tokens \in Seq(Token)
        /\ \A i, j \in Positions : i <= j => Tokens[i].line <= Tokens[j].line
        /\ \A i \in Positions : Tokens[i].line \in 1..Length
    BY FileFacts DEF FilesInv, Tokens, Length, Positions
  <1>2. loop.id \in Nat /\ loop.line \in Nat \ {0}
    BY FileFacts DEF FilesInv, Entries
  <1>3. PICK open \in Opening(loop.line) : close \in Closing(open, "(", ")")
    BY DEF Header
  <1>4. loop.line <= Length
    BY DEF Header
  <1>5. open \in Searched(loop.line) /\ open \in Positions
    BY DEF Opening, First, Are
  <1>6. Tokens[open].line >= loop.line
    <2> DEFINE fors == {k \in Are("for") \cup Are("perform") : Tokens[k].line = loop.line}
    <2>1. CASE fors = {}
      BY <1>5, <2>1 DEF Searched
    <2>2. CASE fors # {}
      <3>1. PICK j \in fors : j <= open
        BY <1>5, <2>2 DEF Searched
      <3>2. j \in Positions /\ Tokens[j].line = loop.line
        BY DEF Are
      <3> QED
        BY <1>1, <1>5, <3>1, <3>2
    <2> QED
      BY <2>1, <2>2
  <1>7. close \in Positions /\ close >= open
    BY <1>3 DEF Closing, First
  <1>8. Positions \subseteq Int
    BY <1>1 DEF Positions
  <1>9. Tokens[open].line <= Tokens[close].line
    BY <1>1, <1>5, <1>7, <1>8
  <1>10. Tokens[open].line \in Int /\ Tokens[close].line \in Int
    BY <1>1, <1>5, <1>7
  <1> QED
    BY <1>1, <1>2, <1>4, <1>6, <1>7, <1>9, <1>10

LEMMA EndBelow ==
  ASSUME FilesInv, NEW line \in 1..Length,
         NEW close \in Positions, Tokens[close].line >= line,
         NEW end \in EndLines(line, close)
  PROVE  end \in 1..Length /\ end >= line
  <1>1. /\ Length \in Nat /\ Tokens \in Seq(Token)
        /\ \A i, j \in Positions : i <= j => Tokens[i].line <= Tokens[j].line
        /\ \A i \in Positions : Tokens[i].line \in 1..Length
    BY FileFacts DEF FilesInv, Tokens, Length, Positions
  <1>2. Positions \subseteq Int
    BY <1>1 DEF Positions
  <1>3. ASSUME NEW k \in BodyEnd(close) PROVE k \in Positions /\ close <= k
    <2>1. CASE Tokens[close + 1].text = "{"
      <3>1. k \in Positions /\ k >= close + 1
        BY <2>1 DEF BodyEnd, Closing, First
      <3> QED
        BY <3>1, <1>2
    <2>2. CASE Tokens[close + 1].text # "{"
      <3>1. k \in Positions /\ k > close
        BY <2>2 DEF BodyEnd, First, Are
      <3> QED
        BY <3>1, <1>2
    <2> QED
      BY <2>1, <2>2
  <1>4. end = line \/ end = Length \/ \E k \in BodyEnd(close) : end = Tokens[k].line
    BY DEF EndLines
  <1>5. ASSUME NEW k \in BodyEnd(close)
        PROVE  Tokens[k].line \in 1..Length /\ Tokens[k].line >= line
    <2>1. Tokens[close].line <= Tokens[k].line
      BY <1>1, <1>3
    <2>2. Tokens[k].line \in 1..Length /\ Tokens[close].line \in Int
      BY <1>1, <1>3
    <2> QED
      BY <2>1, <2>2
  <1> QED
    BY <1>1, <1>4, <1>5

-----------------------------------------------------------------------------
(* The inductive invariant.                                                *)

LEMMA InitIInv == Init => IInv
  <1> SUFFICES ASSUME Init PROVE IInv
    OBVIOUS
  <1>1. FilesInv
    BY DEF Init, FilesInv
  <1>2. EveryStartHasItsEnd
    BY DEF Init, EveryStartHasItsEnd
  <1> QED
    BY <1>1, <1>2 DEF IInv

LEMMA OpenKeeps == ASSUME IInv, Open PROVE IInv'
  <1>1. /\ text' = file /\ todo' = parsed.loops /\ phase' = "inserting"
        /\ before' = [line \in 1..file.length |-> <<>>] /\ after' = before'
        /\ UNCHANGED <<file, parsed, safe>>
    BY DEF Open
  <1>2. Length' = file.length
    BY <1>1 DEF Length
  <1>3. todo' \in Seq(Entries)'
    <2>1. parsed \in SourceFile
      BY FileFacts DEF IInv, FilesInv
    <2>2. parsed.loops \in Seq([id : Nat, line : Nat])
      BY <2>1 DEF SourceFile
    <2>3. parsed.loops \in Seq(Entries)
      BY <2>2, SeqOf DEF Entries
    <2>4. Entries' = Entries
      BY <1>1 DEF Entries
    <2> QED
      BY <1>1, <2>3, <2>4
  <1>4. FilesInv'
    BY <1>1, <1>2, <1>3 DEF IInv, FilesInv
  <1>5. \A line \in DOMAIN before' : Calls(before', line) = {} /\ Calls(after', line) = {}
    BY <1>1 DEF Calls
  <1>6. EveryStartHasItsEnd'
    BY <1>1, <1>5 DEF EveryStartHasItsEnd, Calls
  <1> QED
    BY <1>4, <1>6 DEF IInv

LEMMA WrapKeeps == ASSUME IInv, Wrap PROVE IInv'
  <1> DEFINE loop == Head(todo)
  <1>1. PICK close \in Header(loop) : \E end \in EndLines(loop.line, close) :
          /\ before' = [before EXCEPT ![loop.line] = Append(@, loop.id)]
          /\ after' = [after EXCEPT ![end] = Append(@, loop.id)]
    BY DEF Wrap
  <1>2. PICK end \in EndLines(loop.line, close) :
          /\ before' = [before EXCEPT ![loop.line] = Append(@, loop.id)]
          /\ after' = [after EXCEPT ![end] = Append(@, loop.id)]
    BY <1>1
  <1>3. /\ phase = "inserting" /\ todo # <<>> /\ todo' = Tail(todo)
        /\ UNCHANGED <<file, parsed, safe, text, phase>>
    BY DEF Wrap
  <1>4. todo \in Seq(Entries)
    BY DEF IInv, FilesInv
  <1>5. loop \in Entries /\ Tail(todo) \in Seq(Entries)
    BY <1>3, <1>4
  <1> HIDE DEF loop
  <1>6. /\ loop.line \in 1..Length /\ loop.id \in Nat
        /\ close \in Positions /\ Tokens[close].line >= loop.line
    BY <1>5, HeaderBelow DEF IInv
  <1>7. end \in 1..Length /\ end >= loop.line
    BY <1>6, EndBelow DEF IInv
  <1>8. /\ Length \in Nat /\ Length' = Length /\ Entries' = Entries
        /\ before \in [1..Length -> Seq(Nat)] /\ after \in [1..Length -> Seq(Nat)]
    <2>1. Length \in Nat
      BY FileFacts DEF IInv, FilesInv, Length
    <2> QED
      BY <1>3, <2>1 DEF IInv, FilesInv, Length, Entries
  <1>9. /\ before' \in [1..Length -> Seq(Nat)]
        /\ Calls(before', loop.line) = Calls(before, loop.line) \cup {loop.id}
        /\ \A n \in 1..Length : n # loop.line => Calls(before', n) = Calls(before, n)
    <2>1. before' \in [1..Length -> Seq(Nat)] /\ before'[loop.line] = Append(before[loop.line], loop.id)
      BY <1>2, <1>6, <1>8
    <2>2. \A n \in 1..Length : n # loop.line => before'[n] = before[n]
      BY <1>2, <1>8
    <2>3. PICK s \in Seq(Nat) : s = before[loop.line]
      BY <1>6, <1>8
    <2>4. Calls(before', loop.line) = {Append(s, loop.id)[i] : i \in DOMAIN Append(s, loop.id)}
      BY <2>1, <2>3 DEF Calls
    <2>5. Calls(before, loop.line) = {s[i] : i \in DOMAIN s}
      BY <2>3 DEF Calls
    <2>6. Calls(before', loop.line) = Calls(before, loop.line) \cup {loop.id}
      BY <1>6, <2>4, <2>5, CallAdded
    <2>7. ASSUME NEW n \in 1..Length, n # loop.line PROVE Calls(before', n) = Calls(before, n)
      BY <2>2, <2>7 DEF Calls
    <2> QED
      BY <2>1, <2>6, <2>7
  <1>10. /\ after' \in [1..Length -> Seq(Nat)]
        /\ Calls(after', end) = Calls(after, end) \cup {loop.id}
        /\ \A n \in 1..Length : n # end => Calls(after', n) = Calls(after, n)
    <2>1. after' \in [1..Length -> Seq(Nat)] /\ after'[end] = Append(after[end], loop.id)
      BY <1>2, <1>7, <1>6, <1>8
    <2>2. \A n \in 1..Length : n # end => after'[n] = after[n]
      BY <1>2, <1>8
    <2>3. PICK s \in Seq(Nat) : s = after[end]
      BY <1>7, <1>6, <1>8
    <2>4. Calls(after', end) = {Append(s, loop.id)[i] : i \in DOMAIN Append(s, loop.id)}
      BY <2>1, <2>3 DEF Calls
    <2>5. Calls(after, end) = {s[i] : i \in DOMAIN s}
      BY <2>3 DEF Calls
    <2>6. Calls(after', end) = Calls(after, end) \cup {loop.id}
      BY <1>6, <2>4, <2>5, CallAdded
    <2>7. ASSUME NEW n \in 1..Length, n # end PROVE Calls(after', n) = Calls(after, n)
      BY <2>2, <2>7 DEF Calls
    <2> QED
      BY <2>1, <2>6, <2>7
  <1>11. FilesInv'
    BY <1>3, <1>5, <1>8, <1>9, <1>10 DEF IInv, FilesInv
  <1>12. ASSUME NEW line \in 1..Length, NEW id \in Calls(before', line)
         PROVE  \E e \in 1..Length : e >= line /\ id \in Calls(after', e)
    <2>1. CASE id \in Calls(before, line)
      <3>1. PICK e \in 1..Length : e >= line /\ id \in Calls(after, e)
        BY <1>3, <1>8, <2>1 DEF IInv, EveryStartHasItsEnd
      <3> QED
        BY <1>10, <3>1
    <2>2. CASE id \notin Calls(before, line)
      <3>1. line = loop.line /\ id = loop.id
        BY <1>9, <1>12, <2>2
      <3> QED
        BY <1>7, <1>10, <3>1
    <2> QED
      BY <2>1, <2>2
  <1>13. ASSUME NEW e \in 1..Length, NEW id \in Calls(after', e)
         PROVE  \E line \in 1..Length : line <= e /\ id \in Calls(before', line)
    <2>1. CASE id \in Calls(after, e)
      <3>1. PICK line \in 1..Length : line <= e /\ id \in Calls(before, line)
        BY <1>3, <1>8, <2>1 DEF IInv, EveryStartHasItsEnd
      <3> QED
        BY <1>9, <3>1
    <2>2. CASE id \notin Calls(after, e)
      <3>1. e = end /\ id = loop.id
        BY <1>10, <1>13, <2>2
      <3> QED
        BY <1>6, <1>7, <1>9, <3>1
    <2> QED
      BY <2>1, <2>2
  <1>14. DOMAIN before' = 1..Length /\ DOMAIN after' = 1..Length
    BY <1>9, <1>10
  <1>15. EveryStartHasItsEnd'
    BY <1>12, <1>13, <1>14 DEF EveryStartHasItsEnd
  <1> QED
    BY <1>11, <1>15 DEF IInv

LEMMA StepIInv == IInv /\ [Next]_vars => IInv'
  <1> SUFFICES ASSUME IInv, [Next]_vars PROVE IInv'
    OBVIOUS
  <1>1. CASE Edit \/ CannotOpen \/ UNCHANGED vars
    <2>1. /\ UNCHANGED <<parsed, text, todo, before, after>>
          /\ file' \in Files \cup Revisions
          /\ phase' = phase \/ phase' = "stub"
      BY <1>1 DEF Edit, CannotOpen, vars, IInv, FilesInv
    <2>2. FilesInv'
      BY <2>1 DEF IInv, FilesInv, Entries, Length
    <2>3. EveryStartHasItsEnd'
      BY <2>1 DEF IInv, EveryStartHasItsEnd, Calls
    <2> QED
      BY <2>2, <2>3 DEF IInv
  <1>2. CASE Open
    BY <1>2, OpenKeeps
  <1>3. CASE Wrap
    BY <1>3, WrapKeeps
  <1>4. CASE Skip \/ Rebuild
    <2>1. /\ UNCHANGED <<file, parsed, text, before, after>> /\ phase = "inserting"
          /\ phase' \in {"inserting", "written"}
          /\ todo' = todo \/ (todo # <<>> /\ todo' = Tail(todo))
      BY <1>4 DEF Skip, Rebuild
    <2>2. Entries' = Entries /\ todo \in Seq(Entries)
      BY <2>1 DEF Entries, IInv, FilesInv
    <2>3. todo' \in Seq(Entries)
      BY <2>1, <2>2
    <2>4. FilesInv'
      BY <2>1, <2>2, <2>3 DEF IInv, FilesInv, Length
    <2>5. EveryStartHasItsEnd'
      BY <2>1 DEF IInv, EveryStartHasItsEnd, Calls
    <2> QED
      BY <2>4, <2>5 DEF IInv
  <1> QED
    BY <1>1, <1>2, <1>3, <1>4 DEF Next

LEMMA Inductive == Spec => []IInv
  BY InitIInv, StepIInv, PTL DEF Spec

\* No file and no edit between the parse and the instrumentation leaves a
\* profile_loop_end without a profile_loop_start above it, or a start without
\* an end below.
THEOREM CallsArePaired == Spec => []EveryStartHasItsEnd
  <1>1. IInv => EveryStartHasItsEnd
    BY DEF IInv
  <1> QED
    BY Inductive, <1>1, PTL

\* The calls are in lines of the file and are of loops that were parsed.
THEOREM TypesCorrect == Spec => []TypeOK
  <1>1. IInv => TypeOK
    <2> SUFFICES ASSUME IInv PROVE TypeOK
      OBVIOUS
    <2>1. {file, parsed, text} \subseteq SourceFile
      BY FileFacts DEF IInv, FilesInv
    <2>2. \A i \in DOMAIN todo : todo[i] \in Entries
      BY DEF IInv, FilesInv
    <2> QED
      BY <2>1, <2>2 DEF IInv, FilesInv, TypeOK
  <1> QED
    BY Inductive, <1>1, PTL

-----------------------------------------------------------------------------
(* The loops of a file that was not edited.                                *)

\* A set of naturals has a least element.
LEMMA Least ==
  ASSUME NEW S \in SUBSET Nat, S # {}
  PROVE  \E k \in S : \A j \in S : k <= j
  <1>1. \E R : IsWellFoundedOn(R, Nat) /\ \A i, j \in Nat : i < j => <<i, j>> \in R
    <2>1. IsWellFoundedOn(OpToRel(<, Nat), Nat)
      BY NatLessThanWellFounded
    <2>2. \A i, j \in Nat : i < j => <<i, j>> \in OpToRel(<, Nat)
      BY DEF OpToRel
    <2> QED
      BY <2>1, <2>2
  <1>2. PICK R : IsWellFoundedOn(R, Nat) /\ \A i, j \in Nat : i < j => <<i, j>> \in R
    BY <1>1
  <1>3. S \subseteq Nat /\ IsWellFoundedOn(R, Nat)
    BY <1>2
  <1>4. PICK k \in S : \A j \in S : ~(<<j, k>> \in R)
    BY ONLY <1>3, S # {}, WFMin, Zenon
  <1>5. \A j \in S : k \in Nat /\ j \in Nat /\ ~(j < k)
    BY <1>2, <1>4
  <1> QED
    BY <1>4, <1>5

LEMMA FirstOfSome ==
  ASSUME NEW S \in SUBSET Nat, S # {}
  PROVE  First(S) # {}
  BY Least DEF First

LEMMA FirstIs ==
  ASSUME NEW S \in SUBSET Nat, NEW k \in S, \A j \in S : k <= j
  PROVE  First(S) = {k}
  <1>1. \A i \in S : (\A j \in S : i <= j) <=> i = k
    OBVIOUS
  <1> QED
    BY ONLY <1>1, k \in S DEF First

LEMMA LastIs ==
  ASSUME NEW S \in SUBSET Nat, NEW k \in S, \A j \in S : j <= k
  PROVE  Last(S) = {k}
  <1>1. \A i \in S : (\A j \in S : j <= i) <=> i = k
    OBVIOUS
  <1> QED
    BY ONLY <1>1, k \in S DEF Last

LEMMA TextFacts ==
  ASSUME text \in Files \cup Revisions
  PROVE  /\ Length \in Nat /\ Len(Tokens) \in Nat /\ Positions = 1..Len(Tokens)
         /\ Positions \subseteq Nat
         /\ \A i, j \in Positions : i <= j => Tokens[i].line <= Tokens[j].line
         /\ \A i \in Positions : Tokens[i].line \in 1..Length
  <1>1. /\ Length \in Nat /\ Tokens \in Seq(Token)
        /\ \A i, j \in Positions : i <= j => Tokens[i].line <= Tokens[j].line
        /\ \A i \in Positions : Tokens[i].line \in 1..Length
    BY FileFacts DEF Tokens, Length, Positions
  <1>2. Len(Tokens) \in Nat /\ Positions = 1..Len(Tokens)
    BY <1>1 DEF Positions
  <1> QED
    BY <1>1, <1>2

\* The scan for the closing bracket ends where the bracket is closed.
LEMMA ClosingIs ==
  ASSUME text \in Files \cup Revisions, NEW open \in Positions, NEW k \in Positions,
         NEW left, NEW right, ClosedBy(Tokens, open, k, left, right)
  PROVE  Closing(open, left, right) = {k}
  <1> DEFINE S == {j \in Positions : j >= open /\ Depth(Tokens, open, j, left, right) = 0}
  <1>1. Positions \subseteq Nat
    BY TextFacts
  <1>2. k \in S
    BY <1>1 DEF ClosedBy
  <1>3. ASSUME NEW j \in S PROVE k <= j
    <2>1. j \in Nat /\ k \in Nat /\ open \in Nat
      BY <1>1
    <2>2. j \notin open..(k - 1)
      BY DEF ClosedBy
    <2> QED
      BY <2>1, <2>2
  <1>4. S \in SUBSET Nat
    BY <1>1
  <1> HIDE DEF S
  <1>5. First(S) = {k}
    BY ONLY <1>2, <1>3, <1>4, FirstIs
  <1> QED
    BY <1>5 DEF Closing, S

\* Where the loops of a parsed file are.
LEMMA LoopFacts ==
  ASSUME text \in Files, NEW i \in DOMAIN text.loops
  PROVE  \E first, close, last \in Positions :
            IsFor(Tokens, text.loops[i], first, close, last)
  BY FilesAreC DEF Positions, Tokens

\* At a safe location the end of a header is found: whatever else is on the
\* line, there is a parenthesis after its first "for", and it is closed.
LEMMA HeaderFound ==
  ASSUME text \in Files, NEW i \in DOMAIN text.loops, text.loops[i].line \in safe
  PROVE  Header(text.loops[i]) # {}
  <1> DEFINE loop == text.loops[i]
             fors == {k \in Are("for") \cup Are("perform") : Tokens[k].line = loop.line}
  <1>1. /\ Positions \subseteq Nat /\ Length \in Nat
        /\ \A k \in Positions : Tokens[k].line \in 1..Length
    BY TextFacts
  <1>2. PICK first, close, last \in Positions : IsFor(Tokens, loop, first, close, last)
    BY LoopFacts
  <1> HIDE DEF loop
  <1>3. PICK open \in first..close : Tokens[open].text = "(" /\ ClosedBy(Tokens, open, close, "(", ")")
    BY <1>2 DEF IsFor
  <1>4. loop.line <= Length
    <2>1. loop.line = Tokens[first].line /\ Tokens[first].line \in 1..Length
      BY <1>1, <1>2 DEF IsFor
    <2> QED
      BY ONLY <1>1, <2>1
  <1>5. first \in fors
    BY <1>2 DEF IsFor, Are
  <1>6. open \in Positions /\ first <= open
    <2>1. Len(Tokens) \in Nat /\ Positions = 1..Len(Tokens)
      BY TextFacts
    <2> QED
      BY <1>3, <2>1
  <1>7. open \in Searched(loop.line) \cap Are("(")
    BY <1>3, <1>5, <1>6 DEF Searched, Are
  <1>8. Searched(loop.line) \cap Are("(") \in SUBSET Nat
    BY <1>1 DEF Are
  <1>9. Opening(loop.line) # {}
    BY <1>7, <1>8, FirstOfSome DEF Opening
  <1>10. PICK o \in Opening(loop.line) : o \in Positions /\ Tokens[o].text = "("
    BY <1>9 DEF Opening, First, Are
  <1>11. PICK k \in Positions : ClosedBy(Tokens, o, k, "(", ")")
    BY <1>10, FilesAreC DEF Positions, Tokens
  <1>12. Closing(o, "(", ")") = {k}
    BY <1>10, <1>11, ClosingIs
  <1>13. loop.line \in safe
    BY DEF loop
  <1>14. k \in Header(loop)
    BY <1>4, <1>10, <1>12, <1>13 DEF Header
  <1> QED
    BY <1>14 DEF loop

\* What the scan finds of a loop that is written regularly.
LEMMA RegularFound ==
  ASSUME text \in Files, NEW i \in DOMAIN text.loops, Regular(text.loops[i].id)
  PROVE  \E first, last \in Positions :
            /\ First(Own(text.loops[i].id)) = {first} /\ Tokens[first].line = text.loops[i].line
            /\ Last(Own(text.loops[i].id)) = {last}
            /\ \A close \in Header(text.loops[i]) : \A end \in EndLines(text.loops[i].line, close) :
                  end = Tokens[last].line
  <1> DEFINE loop == text.loops[i]
             own == Own(loop.id)
             fors == {k \in Are("for") \cup Are("perform") : Tokens[k].line = loop.line}
  <1>1. /\ Positions \subseteq Nat /\ Len(Tokens) \in Nat /\ Positions = 1..Len(Tokens)
    BY TextFacts
  <1>2. PICK first, close, last \in Positions : IsFor(Tokens, loop, first, close, last)
    BY LoopFacts
  <1>3. Regular(loop.id)
    OBVIOUS
  <1> HIDE DEF loop
  <1>4. /\ first \in Nat /\ close \in Nat /\ last \in Nat /\ first < close /\ close < last
        /\ Tokens[first].text = "for" /\ Tokens[first].line = loop.line
    BY <1>1, <1>2 DEF IsFor
  <1>5. own = first..last
    <2>1. first..last \subseteq Positions
      BY ONLY <1>1, <1>4, first \in Positions, last \in Positions
    <2>2. \A k \in Positions : Tokens[k].loop = loop.id <=> k \in first..last
      BY <1>2 DEF IsFor, Positions
    <2> QED
      BY <2>1, <2>2 DEF Own
  <1>6. first \in own /\ last \in own /\ own \in SUBSET Nat
    BY ONLY <1>4, <1>5
  <1>7. First(own) = {first}
    <2>1. \A k \in own : first <= k
      BY ONLY <1>4, <1>5
    <2> HIDE DEF own
    <2> QED
      BY ONLY <1>6, <2>1, FirstIs
  <1>8. Last(own) = {last}
    <2>1. \A k \in own : k <= last
      BY ONLY <1>4, <1>5
    <2> HIDE DEF own
    <2> QED
      BY ONLY <1>6, <2>1, LastIs
  <1>9. PICK open \in first..close :
          /\ Tokens[open].text = "(" /\ ClosedBy(Tokens, open, close, "(", ")")
          /\ \A k \in first..(open - 1) : Tokens[k].text # "("
    BY <1>2 DEF IsFor
  <1>10. open \in Positions /\ open \in Nat /\ first <= open
    BY ONLY <1>1, <1>4, first \in Positions, close \in Positions, open \in first..close
  \* Nothing but the loop is on its first line.
  <1>11. first \in fors /\ \A k \in fors : first <= k
    <2>1. first \in fors
      BY <1>4 DEF Are
    <2>2. ASSUME NEW k \in fors PROVE first <= k
      <3>1. k \in Positions /\ Tokens[k].line = Tokens[first].line
        BY <1>4 DEF Are
      <3>2. k \in own
        BY <1>3, <1>6, <3>1 DEF Regular
      <3> QED
        BY ONLY <1>4, <1>5, <3>2
    <2> QED
      BY <2>1, <2>2
  <1>12. Opening(loop.line) = {open}
    <2> DEFINE S == Searched(loop.line) \cap Are("(")
    <2>1. open \in S
      BY <1>9, <1>10, <1>11 DEF Searched, Are
    <2>2. ASSUME NEW k \in S PROVE open <= k
      <3>1. k \in Positions /\ Tokens[k].text = "(" /\ \E j \in fors : j <= k
        BY <1>11 DEF Searched, Are
      <3>2. PICK j \in fors : j <= k
        BY <3>1
      <3>3. j \in Nat /\ k \in Nat /\ first <= j
        BY <1>1, <1>11, <3>1 DEF Are
      <3>4. first <= k
        BY ONLY <1>4, <3>2, <3>3
      <3>5. k \notin first..(open - 1)
        BY <1>9, <3>1
      <3> QED
        BY ONLY <1>4, <1>10, <3>3, <3>4, <3>5
    <2>3. S \in SUBSET Nat
      BY <1>1 DEF Are
    <2> HIDE DEF S
    <2>4. First(S) = {open}
      BY ONLY <2>1, <2>2, <2>3, FirstIs
    <2> QED
      BY <2>4 DEF Opening, S
  <1>13. Closing(open, "(", ")") = {close}
    BY <1>9, <1>10, ClosingIs
  <1>14. \A c \in Header(loop) : c = close
    BY <1>12, <1>13 DEF Header
  <1>15. close # Len(Tokens) /\ close + 1 \in Positions /\ close + 1 \in first..last
    BY ONLY <1>1, <1>4, last \in Positions
  \* The body begins behind the header.
  <1>16. BodyEnd(close) = {last}
    <2>1. CASE Tokens[close + 1].text = "{"
      <3>1. ClosedBy(Tokens, close + 1, last, "{", "}")
        BY <1>2, <2>1 DEF IsFor
      <3>2. Closing(close + 1, "{", "}") = {last}
        <4> DEFINE left == "{"
                   right == "}"
        <4>1. ClosedBy(Tokens, close + 1, last, left, right)
          BY <3>1
        <4> HIDE DEF left, right
        <4>2. Closing(close + 1, left, right) = {last}
          BY ONLY <1>15, <4>1, ClosingIs, text \in Files, last \in Positions
        <4> QED
          BY ONLY <4>2 DEF left, right
      <3> QED
        BY <2>1, <3>2 DEF BodyEnd
    <2>2. CASE Tokens[close + 1].text # "{"
      <3> DEFINE S == {k \in Are(";") : k > close}
      <3>1. Body(loop.id) = (close + 1)..last
        <4>1. \A k \in first..last : Tokens[k].header <=> k <= close
          BY <1>2 DEF IsFor
        <4>2. Body(loop.id) = {k \in first..last : ~(k <= close)}
          BY <1>5, <4>1 DEF Body
        <4> QED
          BY ONLY <1>4, <4>2
      <3>2. First(Body(loop.id)) = {close + 1} /\ Last(Body(loop.id)) = {last}
        <4>1. /\ Body(loop.id) \in SUBSET Nat
              /\ close + 1 \in Body(loop.id) /\ last \in Body(loop.id)
              /\ \A k \in Body(loop.id) : close + 1 <= k /\ k <= last
          BY ONLY <1>4, <3>1
        <4> QED
          BY ONLY <4>1, FirstIs, LastIs
      <3>3. close + 1 \notin Are("{")
        BY <2>2 DEF Are
      <3>4. Body(loop.id) \cap Are(";") = {last}
        BY <1>3, <3>2, <3>3 DEF Regular
      <3>5. last \in S
        <4>1. last \in Are(";") /\ last > close
          BY ONLY <1>4, <3>4
        <4> QED
          BY ONLY <4>1
      <3>6. ASSUME NEW k \in S PROVE last <= k
        <4> HIDE DEF S
        <4>1. k \in Are(";") /\ k > close /\ k \in Nat
          BY <1>1 DEF Are, S
        <4>2. k \in Nat /\ close \in Nat /\ last \in Nat /\ k > close
          BY ONLY <1>4, <4>1
        <4>3. CASE k < last
          <5>1. k \in (close + 1)..last
            BY ONLY <4>2, <4>3
          <5>2. k \in {last}
            BY ONLY <3>1, <3>4, <4>1, <5>1
          <5> QED
            BY ONLY <5>2, <4>2
        <4>4. CASE ~(k < last)
          BY ONLY <4>2, <4>4
        <4> QED
          BY ONLY <4>3, <4>4
      <3>7. S \in SUBSET Nat
        BY <1>1 DEF Are
      <3> HIDE DEF S
      <3>8. First(S) = {last}
        BY ONLY <3>5, <3>6, <3>7, FirstIs
      <3> QED
        BY <2>2, <3>8 DEF BodyEnd, S
    <2> QED
      BY <2>1, <2>2
  <1>17. \A c \in Header(loop) : \A end \in EndLines(loop.line, c) : end = Tokens[last].line
    <2>1. EndLines(loop.line, close) = {Tokens[last].line}
      BY <1>15, <1>16 DEF EndLines
    <2> QED
      BY <1>14, <2>1
  <1> QED
    BY <1>4, <1>7, <1>8, <1>17 DEF loop

-----------------------------------------------------------------------------
(* Each loop is looked at once.                                            *)

\* How many loops of ProgramIR are behind the scan.
Handled == Len(parsed.loops) - Len(todo)

\* The list is gone through from its start.
ListInv ==
    /\ parsed \in Files
    /\ phase \in {"inserting", "written"} =>
          /\ Len(todo) <= Len(parsed.loops)
          /\ \A i \in DOMAIN todo : todo[i] = parsed.loops[Handled + i]
    /\ phase = "written" => todo = <<>>

\* The calls of a loop at a safe location, when it has been looked at, are
\* where they should be.
CallsOf(loop, handled) ==
    IF handled /\ loop.line \in safe
    THEN /\ loop.line \in DOMAIN before
         /\ \A line \in DOMAIN before :
               Times(loop.id, before[line]) = IF line = loop.line THEN 1 ELSE 0
         /\ Regular(loop.id) => \A line \in DOMAIN before :
               Times(loop.id, after[line]) =
                  IF \E k \in Last(Own(loop.id)) : Tokens[k].line = line THEN 1 ELSE 0
    ELSE \A line \in DOMAIN before :
            Times(loop.id, before[line]) = 0 /\ Times(loop.id, after[line]) = 0

CallsInv ==
    phase \in {"inserting", "written"} /\ Unedited =>
        \A i \in DOMAIN parsed.loops : CallsOf(parsed.loops[i], i <= Handled)

UneditedInv == IInv /\ ListInv /\ CallsInv

LEMMA TimesFacts ==
  ASSUME NEW s \in Seq(Nat), NEW id
  PROVE  /\ Times(id, s) \in Nat
         /\ Times(id, s) = 0 <=> id \notin {s[i] : i \in DOMAIN s}
         /\ IsFiniteSet({i \in DOMAIN s : s[i] = id})
  <1>1. Len(s) \in Nat /\ DOMAIN s = 1..Len(s)
    OBVIOUS
  <1>2. IsFiniteSet(1..Len(s))
    BY <1>1, FS_Interval
  <1>3. IsFiniteSet({i \in DOMAIN s : s[i] = id})
    BY <1>1, <1>2, FS_Subset
  <1>4. Times(id, s) = 0 <=> {i \in DOMAIN s : s[i] = id} = {}
    BY <1>3, FS_EmptySet DEF Times
  <1> QED
    BY <1>3, <1>4, FS_CardinalityType DEF Times

LEMMA TimesOfNone == \A id : Times(id, <<>>) = 0
  <1>1. <<>> \in Seq(Nat) /\ DOMAIN <<>> = {}
    OBVIOUS
  <1>2. \A id : id \notin {<<>>[i] : i \in DOMAIN <<>>}
    BY <1>1
  <1> QED
    BY <1>1, <1>2, TimesFacts

LEMMA TimesAppend ==
  ASSUME NEW s \in Seq(Nat), NEW x \in Nat, NEW id
  PROVE  Times(id, Append(s, x)) = Times(id, s) + (IF x = id THEN 1 ELSE 0)
  <1> DEFINE S == {i \in DOMAIN s : s[i] = id}
             n == Len(s) + 1
  <1>1. /\ DOMAIN Append(s, x) = DOMAIN s \cup {n} /\ n \notin DOMAIN s
        /\ Append(s, x)[n] = x
        /\ \A i \in DOMAIN s : Append(s, x)[i] = s[i]
    <2>1. /\ DOMAIN Append(s, x) = 1..n /\ DOMAIN s = 1..Len(s) /\ Len(s) \in Nat
          /\ Append(s, x)[n] = x
          /\ \A i \in 1..Len(s) : Append(s, x)[i] = s[i]
      OBVIOUS
    <2>2. 1..n = (1..Len(s)) \cup {n} /\ n \notin 1..Len(s)
      BY ONLY <2>1
    <2> QED
      BY ONLY <2>1, <2>2
  <1>2. IsFiniteSet(S) /\ Times(id, s) = Cardinality(S) /\ Times(id, s) \in Nat
    BY TimesFacts DEF Times
  <1> HIDE DEF n
  <1>3. {i \in DOMAIN Append(s, x) : Append(s, x)[i] = id} = IF x = id THEN S \cup {n} ELSE S
    BY ONLY <1>1
  <1>4. n \notin S
    BY <1>1
  <1> HIDE DEF S
  <1>5. Cardinality(S \cup {n}) = Cardinality(S) + 1
    BY <1>2, <1>4, FS_AddElement
  <1>6. Times(id, Append(s, x)) = Cardinality(IF x = id THEN S \cup {n} ELSE S)
    BY <1>3 DEF Times
  <1>7. CASE x = id
    BY ONLY <1>2, <1>5, <1>6, <1>7
  <1>8. CASE x # id
    BY ONLY <1>2, <1>6, <1>8
  <1> QED
    BY ONLY <1>7, <1>8

LEMMA OpenCounts == ASSUME UneditedInv, Open PROVE ListInv' /\ CallsInv'
  <1>1. /\ text' = file /\ todo' = parsed.loops /\ phase' = "inserting"
        /\ before' = [line \in 1..file.length |-> <<>>] /\ after' = before'
        /\ parsed' = parsed /\ safe' = safe
    BY DEF Open
  <1>2. parsed \in Files /\ parsed.loops \in Seq([id : Nat, line : Nat])
    <2>1. parsed \in Files
      BY DEF UneditedInv, ListInv
    <2>2. parsed \in SourceFile
      BY <2>1, FileFacts
    <2> QED
      BY <2>1, <2>2 DEF SourceFile
  <1>3. Len(parsed.loops) \in Nat /\ DOMAIN parsed.loops = 1..Len(parsed.loops)
    BY <1>2
  <1>4. Handled' = 0
    BY <1>1, <1>3 DEF Handled
  <1>5. ListInv'
    BY <1>1, <1>2, <1>3, <1>4 DEF ListInv
  <1>6. ASSUME NEW i \in DOMAIN parsed.loops PROVE CallsOf(parsed.loops[i], i <= Handled)'
    <2>1. ~(i <= Handled')
      BY <1>3, <1>4
    <2>2. \A line \in DOMAIN before' :
             Times(parsed.loops[i].id, before'[line]) = 0 /\ Times(parsed.loops[i].id, after'[line]) = 0
      BY <1>1, TimesOfNone
    <2> QED
      BY <1>1, <2>1, <2>2 DEF CallsOf
  <1>7. CallsInv'
    BY <1>1, <1>6 DEF CallsInv
  <1> QED
    BY <1>5, <1>7

\* The loop looked at in a step is the first that is left.
LEMMA HeadOfList ==
  ASSUME UneditedInv, phase = "inserting", todo # <<>>, todo' = Tail(todo),
         phase' = phase, parsed' = parsed
  PROVE  /\ Handled \in Nat /\ Handled' = Handled + 1
         /\ Handled + 1 \in DOMAIN parsed.loops
         /\ Head(todo) = parsed.loops[Handled + 1]
         /\ DOMAIN parsed.loops \subseteq Nat
         /\ \A i \in DOMAIN parsed.loops : /\ i # Handled + 1 => (i <= Handled' <=> i <= Handled)
                                           /\ i # Handled + 1 => parsed.loops[i].id # Head(todo).id
         /\ ListInv'
  <1>1. todo \in Seq(Entries) /\ parsed \in Files
    BY DEF UneditedInv, IInv, FilesInv, ListInv
  <1>2. parsed \in SourceFile /\ WellFormed(parsed)
    BY <1>1, FilesWellFormed
  <1>3. parsed.loops \in Seq([id : Nat, line : Nat])
    BY <1>2 DEF SourceFile
  <1>4. Len(parsed.loops) \in Nat /\ DOMAIN parsed.loops = 1..Len(parsed.loops)
    BY <1>3
  <1>5. /\ Len(todo) \in Nat /\ Len(todo) >= 1 /\ DOMAIN todo = 1..Len(todo)
        /\ Head(todo) = todo[1]
        /\ Len(todo') = Len(todo) - 1 /\ DOMAIN todo' = 1..(Len(todo) - 1)
        /\ \A i \in 1..(Len(todo) - 1) : todo'[i] = todo[i + 1]
    BY <1>1
  <1>6. Len(todo) <= Len(parsed.loops) /\ \A i \in DOMAIN todo : todo[i] = parsed.loops[Handled + i]
    BY DEF UneditedInv, ListInv
  <1>7. /\ Handled = Len(parsed.loops) - Len(todo)
        /\ Handled' = Len(parsed.loops) - Len(todo')
    BY DEF Handled
  <1>8. Handled \in Nat /\ Handled' = Handled + 1 /\ Handled + 1 \in DOMAIN parsed.loops
    BY ONLY <1>4, <1>5, <1>6, <1>7
  <1>9. 1 \in DOMAIN todo
    BY ONLY <1>5
  <1>10. Head(todo) = parsed.loops[Handled + 1]
    BY ONLY <1>5, <1>6, <1>9
  <1>11. ASSUME NEW i \in DOMAIN parsed.loops, i # Handled + 1
         PROVE  (i <= Handled' <=> i <= Handled) /\ parsed.loops[i].id # Head(todo).id
    <2>1. i <= Handled' <=> i <= Handled
      BY ONLY <1>4, <1>8, <1>11
    <2>2. parsed.loops[i].id # parsed.loops[Handled + 1].id
      BY <1>2, <1>8, <1>11 DEF WellFormed
    <2> QED
      BY <1>10, <2>1, <2>2
  <1>12. ListInv'
    <2>1. \A i \in DOMAIN todo' : todo'[i] = parsed.loops[Handled' + i]
      <3> TAKE i \in DOMAIN todo'
      <3>1. i \in Nat /\ i + 1 \in DOMAIN todo /\ todo'[i] = todo[i + 1]
        BY ONLY <1>5
      <3>2. Handled' + i = Handled + (i + 1)
        BY ONLY <1>8, <3>1
      <3> QED
        BY ONLY <1>6, <3>1, <3>2
    <2>2. Len(todo') <= Len(parsed.loops)
      BY ONLY <1>4, <1>5, <1>6
    <2> QED
      BY <1>1, <2>1, <2>2 DEF ListInv
  <1>13. DOMAIN parsed.loops \subseteq Nat
    BY ONLY <1>4
  <1> QED
    BY <1>8, <1>10, <1>11, <1>12, <1>13

LEMMA WrapCounts == ASSUME UneditedInv, Wrap PROVE ListInv' /\ CallsInv'
  <1> DEFINE h == Handled + 1
  <1>0. PICK loop : loop = Head(todo)
    OBVIOUS
  <1>1. /\ phase = "inserting" /\ todo # <<>> /\ todo' = Tail(todo)
        /\ UNCHANGED <<file, parsed, safe, text, phase>>
    BY DEF Wrap
  <1>2a. PICK close \in Header(loop) : \E end \in EndLines(loop.line, close) :
          /\ before' = [before EXCEPT ![loop.line] = Append(@, loop.id)]
          /\ after' = [after EXCEPT ![end] = Append(@, loop.id)]
    BY <1>0 DEF Wrap
  <1>2. PICK end \in EndLines(loop.line, close) :
          /\ before' = [before EXCEPT ![loop.line] = Append(@, loop.id)]
          /\ after' = [after EXCEPT ![end] = Append(@, loop.id)]
    BY <1>2a
  <1>3. /\ Handled \in Nat /\ Handled' = h /\ h \in DOMAIN parsed.loops /\ h \in Nat
        /\ loop = parsed.loops[h]
        /\ \A i \in DOMAIN parsed.loops : i # h => /\ i <= Handled' <=> i <= Handled
                                                   /\ parsed.loops[i].id # loop.id
        /\ ListInv'
    BY <1>0, <1>1, HeadOfList
  <1>4. /\ loop \in Entries /\ IInv /\ FilesInv
        /\ before \in [1..Length -> Seq(Nat)] /\ after \in [1..Length -> Seq(Nat)]
    BY <1>1, <1>3 DEF UneditedInv, IInv, FilesInv, Entries
  <1> HIDE DEF h
  <1>5. /\ loop.line \in 1..Length /\ loop.id \in Nat
        /\ close \in Positions /\ Tokens[close].line >= loop.line
    BY <1>4, HeaderBelow
  <1>6. end \in 1..Length
    BY <1>4, <1>5, EndBelow
  <1>7. /\ DOMAIN before' = 1..Length /\ DOMAIN before = 1..Length
        /\ \A id : \A line \in 1..Length :
              Times(id, before'[line]) =
                 Times(id, before[line]) + (IF line = loop.line /\ id = loop.id THEN 1 ELSE 0)
    <2>1. /\ DOMAIN before' = 1..Length /\ DOMAIN before = 1..Length
          /\ before'[loop.line] = Append(before[loop.line], loop.id)
          /\ \A line \in 1..Length : line # loop.line => before'[line] = before[line]
      BY <1>2, <1>4, <1>5
    <2>2. ASSUME NEW id, NEW line \in 1..Length
          PROVE  Times(id, before'[line]) =
                    Times(id, before[line]) + (IF line = loop.line /\ id = loop.id THEN 1 ELSE 0)
      <3>1. before[line] \in Seq(Nat)
        BY <1>4
      <3>2. Times(id, before[line]) \in Nat
        BY <3>1, TimesFacts
      <3>3. CASE line = loop.line
        <4>1. Times(id, Append(before[line], loop.id)) =
                 Times(id, before[line]) + (IF loop.id = id THEN 1 ELSE 0)
          BY <1>5, <3>1, TimesAppend
        <4> QED
          BY ONLY <2>1, <3>3, <4>1
      <3>4. CASE line # loop.line
        BY <2>1, <3>2, <3>4
      <3> QED
        BY <3>3, <3>4
    <2> QED
      BY <2>1, <2>2
  <1>8. \A id : \A line \in 1..Length :
           Times(id, after'[line]) =
              Times(id, after[line]) + (IF line = end /\ id = loop.id THEN 1 ELSE 0)
    <2>1. /\ after'[end] = Append(after[end], loop.id)
          /\ \A line \in 1..Length : line # end => after'[line] = after[line]
      BY <1>2, <1>4, <1>6
    <2> TAKE id
    <2> TAKE line \in 1..Length
    <2>2. after[line] \in Seq(Nat)
      BY <1>4
    <2>3. Times(id, after[line]) \in Nat
      BY <2>2, TimesFacts
    <2>4. CASE line = end
      <3>1. Times(id, Append(after[line], loop.id)) =
               Times(id, after[line]) + (IF loop.id = id THEN 1 ELSE 0)
        BY <1>5, <2>2, TimesAppend
      <3> QED
        BY ONLY <2>1, <2>4, <3>1
    <2>5. CASE line # end
      BY <2>1, <2>3, <2>5
    <2> QED
      BY <2>4, <2>5
  <1>9. \A id : \A line \in 1..Length : Times(id, before[line]) \in Nat /\ Times(id, after[line]) \in Nat
    BY <1>4, TimesFacts
  <1>10. /\ Unedited' <=> Unedited
         /\ Tokens' = Tokens /\ \A id : (Regular(id)' <=> Regular(id)) /\ Last(Own(id))' = Last(Own(id))
    BY <1>1 DEF Unedited, Tokens, Regular, Own, Body, Are, Positions, First, Last
  <1>11. ASSUME Unedited, NEW i \in DOMAIN parsed.loops
         PROVE  CallsOf(parsed.loops[i], i <= Handled)'
    <2> DEFINE this == parsed.loops[i]
    <2>1. CallsOf(this, i <= Handled)
      BY <1>1, <1>11 DEF UneditedInv, CallsInv
    <2>2. CASE i # h
      <3>1. (i <= Handled' <=> i <= Handled) /\ this.id # loop.id
        BY <1>3, <2>2
      <3> HIDE DEF this
      <3>2. \A line \in 1..Length : /\ Times(this.id, before'[line]) = Times(this.id, before[line])
                                    /\ Times(this.id, after'[line]) = Times(this.id, after[line])
        <4> TAKE line \in 1..Length
        <4>1. /\ Times(this.id, before'[line]) = Times(this.id, before[line]) + 0
              /\ Times(this.id, after'[line]) = Times(this.id, after[line]) + 0
          BY ONLY <1>7, <1>8, <3>1, line \in 1..Length
        <4>2. Times(this.id, before[line]) \in Nat /\ Times(this.id, after[line]) \in Nat
          BY ONLY <1>9, line \in 1..Length
        <4> QED
          BY ONLY <4>1, <4>2
      <3>3. (CallsOf(this, i <= Handled))' <=> CallsOf(this, i <= Handled)
        BY <1>1, <1>7, <1>10, <3>1, <3>2 DEF CallsOf, this
      <3> QED
        BY <1>1, <2>1, <3>3 DEF this
    <2>3. CASE i = h
      <3>1. this = loop /\ i <= Handled' /\ ~(i <= Handled)
        BY <1>3, <2>3 DEF h
      <3> HIDE DEF this
      <3>2. \A line \in 1..Length : Times(loop.id, before[line]) = 0 /\ Times(loop.id, after[line]) = 0
        BY <1>7, <2>1, <3>1 DEF CallsOf
      <3>3. loop.line \in safe
        BY <1>2 DEF Header
      <3>4. \A line \in 1..Length : Times(loop.id, before'[line]) = IF line = loop.line THEN 1 ELSE 0
        BY <1>7, <3>2
      <3>5. \A line \in 1..Length : Times(loop.id, after'[line]) = IF line = end THEN 1 ELSE 0
        BY <1>8, <3>2
      <3>6. ASSUME Regular(loop.id), NEW line \in 1..Length
            PROVE  line = end <=> \E k \in Last(Own(loop.id)) : Tokens[k].line = line
        <4>1. text \in Files /\ i \in DOMAIN text.loops /\ loop = text.loops[i]
          BY <1>3, <1>11, <2>3 DEF Unedited, UneditedInv, ListInv
        <4>2. PICK last \in Positions :
                 /\ Last(Own(loop.id)) = {last}
                 /\ \A c \in Header(loop) : \A e \in EndLines(loop.line, c) : e = Tokens[last].line
          BY <3>6, <4>1, RegularFound
        <4>3. end = Tokens[last].line
          BY <4>2
        <4> QED
          BY ONLY <4>2, <4>3
      <3>7. CallsOf(loop, i <= Handled)'
        <4>1. (i <= Handled)' /\ loop.line \in safe' /\ loop.line \in DOMAIN before'
          BY <1>1, <1>5, <1>7, <3>1, <3>3
        <4>2. \A line \in DOMAIN before' :
                 Times(loop.id, before'[line]) = IF line = loop.line THEN 1 ELSE 0
          BY <1>7, <3>4
        <4>3. Regular(loop.id)' => \A line \in DOMAIN before' :
                 Times(loop.id, after'[line]) =
                    IF \E k \in Last(Own(loop.id))' : Tokens'[k].line = line THEN 1 ELSE 0
          <5> SUFFICES ASSUME Regular(loop.id), NEW line \in 1..Length
                       PROVE  Times(loop.id, after'[line]) =
                                 IF \E k \in Last(Own(loop.id)) : Tokens[k].line = line THEN 1 ELSE 0
            BY <1>7, <1>10
          <5>1. line = end <=> \E k \in Last(Own(loop.id)) : Tokens[k].line = line
            BY <3>6
          <5>2. Times(loop.id, after'[line]) = IF line = end THEN 1 ELSE 0
            BY <3>5
          <5> QED
            BY ONLY <5>1, <5>2
        <4> QED
          BY <4>1, <4>2, <4>3 DEF CallsOf
      <3>8. parsed'.loops[i] = loop
        BY <1>1, <3>1 DEF this
      <3> QED
        BY <3>7, <3>8
    <2> QED
      BY <2>2, <2>3
  <1>12. CallsInv'
    BY <1>1, <1>10, <1>11 DEF CallsInv
  <1> QED
    BY <1>3, <1>12

\* The calls of a loop depend on what is inserted, the text and the locations.
LEMMA SameCalls ==
  ASSUME NEW loop, NEW handled, UNCHANGED <<safe, text, before, after>>
  PROVE  CallsOf(loop, handled)' <=> CallsOf(loop, handled)
  <1>1. /\ Tokens' = Tokens /\ (Regular(loop.id)' <=> Regular(loop.id))
        /\ Last(Own(loop.id))' = Last(Own(loop.id))
    BY DEF Tokens, Regular, Own, Body, Are, Positions, First, Last
  <1> QED
    BY <1>1 DEF CallsOf

\* Only a loop that is not at a safe location is passed by.
LEMMA SkipCounts == ASSUME UneditedInv, Skip PROVE ListInv' /\ CallsInv'
  <1>1. /\ phase = "inserting" /\ todo # <<>> /\ todo' = Tail(todo)
        /\ Header(Head(todo)) = {}
        /\ UNCHANGED <<file, parsed, safe, text, before, after, phase>>
    BY DEF Skip
  <1>2. /\ Handled \in Nat /\ Handled' = Handled + 1 /\ Handled + 1 \in DOMAIN parsed.loops
        /\ Head(todo) = parsed.loops[Handled + 1]
        /\ \A i \in DOMAIN parsed.loops : i # Handled + 1 => (i <= Handled' <=> i <= Handled)
        /\ ListInv'
    BY <1>1, HeadOfList
  <1>3. Unedited' <=> Unedited
    BY <1>1 DEF Unedited
  <1>4. ASSUME Unedited, NEW i \in DOMAIN parsed.loops
        PROVE  CallsOf(parsed.loops[i], i <= Handled)'
    <2>1. CallsOf(parsed.loops[i], i <= Handled)
      BY <1>1, <1>4 DEF UneditedInv, CallsInv
    <2>2. CASE i # Handled + 1
      <3>1. PICK loop, handled : loop = parsed.loops[i] /\ handled = (i <= Handled)
        OBVIOUS
      <3>2. parsed'.loops[i] = loop /\ (i <= Handled' <=> handled)
        BY <1>1, <1>2, <2>2, <3>1
      <3>3. CallsOf(loop, handled)'
        BY <1>1, <2>1, <3>1, SameCalls
      <3> QED
        BY <3>2, <3>3 DEF CallsOf
    <2>3. CASE i = Handled + 1
      <3>1. text \in Files /\ i \in DOMAIN text.loops /\ text.loops[i] = parsed.loops[i]
        BY <1>4 DEF Unedited, UneditedInv, ListInv
      <3>2. Header(text.loops[i]) = {}
        BY <1>1, <1>2, <2>3, <3>1
      <3>3. parsed.loops[i].line \notin safe
        BY <3>1, <3>2, HeaderFound
      <3> QED
        BY <1>1, <2>1, <3>3 DEF CallsOf
    <2> QED
      BY <2>2, <2>3
  <1>5. CallsInv'
    BY <1>1, <1>3, <1>4 DEF CallsInv
  <1> QED
    BY <1>2, <1>5

LEMMA InitUnedited == Init => UneditedInv
  <1> SUFFICES ASSUME Init PROVE UneditedInv
    OBVIOUS
  <1>1. ListInv /\ CallsInv
    BY DEF Init, ListInv, CallsInv
  <1> QED
    BY <1>1, InitIInv DEF UneditedInv

LEMMA StepUnedited == UneditedInv /\ [Next]_vars => UneditedInv'
  <1> SUFFICES ASSUME UneditedInv, [Next]_vars PROVE UneditedInv'
    OBVIOUS
  <1>1. IInv'
    BY StepIInv DEF UneditedInv
  <1>2. CASE Edit \/ CannotOpen
    <2>1. parsed' = parsed /\ phase' \in {"parsed", "stub"}
      BY <1>2 DEF Edit, CannotOpen
    <2>2. ListInv' /\ CallsInv'
      BY <2>1 DEF UneditedInv, ListInv, CallsInv
    <2> QED
      BY <1>1, <2>2 DEF UneditedInv
  <1>3. CASE Open
    BY <1>1, <1>3, OpenCounts DEF UneditedInv
  <1>4. CASE Wrap
    BY <1>1, <1>4, WrapCounts DEF UneditedInv
  <1>5. CASE Skip
    BY <1>1, <1>5, SkipCounts DEF UneditedInv
  <1>6. CASE Rebuild \/ UNCHANGED vars
    <2>1. /\ UNCHANGED <<parsed, safe, text, todo, before, after>>
          /\ \/ phase = "inserting" /\ phase' = "written" /\ todo = <<>>
             \/ phase' = phase
      BY <1>6 DEF Rebuild, vars
    <2>2. Handled' = Handled /\ (Unedited' <=> Unedited)
      BY <2>1 DEF Handled, Unedited
    <2>3. ListInv'
      BY <2>1, <2>2 DEF UneditedInv, ListInv
    <2>4. ASSUME phase \in {"inserting", "written"}, Unedited, NEW i \in DOMAIN parsed.loops
          PROVE  CallsOf(parsed.loops[i], i <= Handled)'
      <3>1. CallsOf(parsed.loops[i], i <= Handled)
        BY <2>4 DEF UneditedInv, CallsInv
      <3>2. PICK loop, handled : loop = parsed.loops[i] /\ handled = (i <= Handled)
        OBVIOUS
      <3>3. parsed'.loops[i] = loop /\ (i <= Handled)' = handled
        BY <2>1, <2>2, <3>2
      <3>4. CallsOf(loop, handled)'
        BY <2>1, <3>1, <3>2, SameCalls
      <3> QED
        BY <3>3, <3>4
    <2>5. CallsInv'
      BY <2>1, <2>2, <2>4 DEF CallsInv
    <2> QED
      BY <1>1, <2>3, <2>5 DEF UneditedInv
  <1> QED
    BY <1>2, <1>3, <1>4, <1>5, <1>6 DEF Next

LEMMA UneditedInductive == Spec => []UneditedInv
  BY InitUnedited, StepUnedited, PTL DEF Spec

\* When the output is written every loop has been looked at.
LEMMA AtEnd ==
  ASSUME UneditedInv, Finished, Unedited, NEW loop \in Entries
  PROVE  /\ CallsOf(loop, TRUE)
         /\ text \in Files /\ \E i \in DOMAIN text.loops : loop = text.loops[i]
         /\ DOMAIN before = 1..Length
         /\ \A line \in 1..Length : before[line] \in Seq(Nat)
  <1>1. PICK i \in DOMAIN parsed.loops : loop = parsed.loops[i]
    BY DEF Entries
  <1>2. phase = "written" /\ parsed \in Files /\ todo = <<>> /\ text = parsed
    BY DEF Finished, Unedited, UneditedInv, ListInv
  <1>3. i <= Handled
    <2>1. parsed \in SourceFile
      BY <1>2, FileFacts
    <2>2. parsed.loops \in Seq([id : Nat, line : Nat])
      BY <2>1 DEF SourceFile
    <2>3. i \in 1..Len(parsed.loops) /\ Len(parsed.loops) \in Nat /\ Len(todo) = 0
      BY <1>2, <2>2
    <2> QED
      BY ONLY <2>3 DEF Handled
  <1>4. CallsOf(loop, i <= Handled)
    BY <1>1, <1>2 DEF UneditedInv, CallsInv
  <1>5. CallsOf(loop, TRUE)
    BY <1>3, <1>4 DEF CallsOf
  <1>6. before \in [1..Length -> Seq(Nat)]
    BY <1>2 DEF UneditedInv, IInv, FilesInv
  <1> QED
    BY <1>1, <1>2, <1>5, <1>6

\* In every file that was parsed and not edited since, each loop at a safe
\* location gets its calls exactly once and no other loop gets any, whatever
\* else is on its line.
THEOREM LoopsAreFound == Spec => []SafeLoopsAreFound
  <1>1. UneditedInv => SafeLoopsAreFound
    <2> SUFFICES ASSUME UneditedInv, Finished, Unedited, NEW loop \in Entries
                 PROVE  Cardinality({line \in DOMAIN before : loop.id \in Calls(before, line)}) =
                           IF loop.line \in safe THEN 1 ELSE 0
      BY DEF SafeLoopsAreFound
    <2>1. /\ CallsOf(loop, TRUE) /\ DOMAIN before = 1..Length
          /\ \A line \in 1..Length : before[line] \in Seq(Nat)
      BY AtEnd
    <2>2. \A line \in 1..Length :
             loop.id \in Calls(before, line) <=> Times(loop.id, before[line]) # 0
      BY <2>1, TimesFacts DEF Calls
    <2> DEFINE S == {line \in DOMAIN before : loop.id \in Calls(before, line)}
    <2>3. CASE loop.line \in safe
      <3>1. /\ loop.line \in 1..Length
            /\ \A line \in 1..Length : Times(loop.id, before[line]) = IF line = loop.line THEN 1 ELSE 0
        BY <2>1, <2>3 DEF CallsOf
      <3>2. S = {loop.line}
        BY <2>1, <2>2, <3>1
      <3> QED
        BY <2>3, <3>2, FS_Singleton
    <2>4. CASE loop.line \notin safe
      <3>1. \A line \in 1..Length : Times(loop.id, before[line]) = 0
        BY <2>1, <2>4 DEF CallsOf
      <3>2. S = {}
        BY <2>1, <2>2, <3>1
      <3> QED
        BY <2>4, <3>2, FS_EmptySet
    <2> QED
      BY <2>3, <2>4
  <1> QED
    BY UneditedInductive, <1>1, PTL

\* In such a file the calls of a loop that is written regularly enclose it:
\* the scan stops at the loop's own parenthesis and at the end of its body.
THEOREM CallsBracketTheLoop == Spec => []BracketsTheLoop
  <1>1. UneditedInv => BracketsTheLoop
    <2> SUFFICES ASSUME UneditedInv, Finished, Unedited, NEW loop \in Entries,
                        loop.line \in safe, Regular(loop.id), NEW line \in DOMAIN before
                 PROVE  /\ Times(loop.id, before[line]) =
                              IF \E k \in First(Own(loop.id)) : Tokens[k].line = line THEN 1 ELSE 0
                        /\ Times(loop.id, after[line]) =
                              IF \E k \in Last(Own(loop.id)) : Tokens[k].line = line THEN 1 ELSE 0
      BY DEF BracketsTheLoop
    <2>1. CallsOf(loop, TRUE)
      BY AtEnd
    <2>2. PICK i \in DOMAIN text.loops : text \in Files /\ loop = text.loops[i]
      BY AtEnd
    <2>3. PICK first \in Positions : First(Own(loop.id)) = {first} /\ Tokens[first].line = loop.line
      BY <2>2, RegularFound
    <2>4. Times(loop.id, before[line]) = IF line = loop.line THEN 1 ELSE 0
      BY <2>1 DEF CallsOf
    <2>5. Times(loop.id, after[line]) =
             IF \E k \in Last(Own(loop.id)) : Tokens[k].line = line THEN 1 ELSE 0
      BY <2>1 DEF CallsOf
    <2>6. line = loop.line <=> \E k \in First(Own(loop.id)) : Tokens[k].line = line
      BY ONLY <2>3
    <2> QED
      BY ONLY <2>4, <2>5, <2>6
  <1> QED
    BY UneditedInductive, <1>1, PTL
=============================================================================
