---------------------------- MODULE Instrumentation ----------------------------
(***************************************************************************)
(* ProfilingInstrumentor::instrument(): the source file is read a second   *)
(* time and lines with calls are put before and after each loop that was   *)
(* classified PARALLEL_SAFE, found again in the text by its line number.   *)
(*                                                                         *)
(* The text is a sequence of tokens on numbered lines; white space is only *)
(* what separates them.  "for" is looked for as a substring: "perform"     *)
(* stands for all names that contain it, "x" for all other names and "//"  *)
(* for a comment without brackets, semicolons or such a name in it.  What  *)
(* the calls say is left out, but for the loop they are of.                *)
(***************************************************************************)
EXTENDS Integers, Sequences, FiniteSets

CONSTANTS
    Files,          \* versions of the source file that are parsed
    Revisions       \* what an edit may leave instead

(***************************************************************************)
(* Of a token the code sees `text' and `line'.  The properties also know   *)
(* which outermost loop it is part of (0: of none), whether in the loop's  *)
(* header, and whether a statement may stand right before it.              *)
(***************************************************************************)
Texts == {"for", "perform", "x", "if", "(", ")", "{", "}", ";", "//"}

Token == [text : Texts, line : Nat, loop : Nat, header : BOOLEAN, list : BOOLEAN]

\* ProgramIR has the outermost loops, ordered by the names of the functions.
SourceFile == [tokens : Seq(Token), length : Nat, loops : Seq([id : Nat, line : Nat])]

WellFormed(f) ==
    /\ \A i, j \in DOMAIN f.tokens : i <= j => f.tokens[i].line <= f.tokens[j].line
    /\ \A i \in DOMAIN f.tokens : f.tokens[i].line \in 1..f.length
    /\ \A i, j \in DOMAIN f.loops : f.loops[i].id = f.loops[j].id => i = j
    /\ \A i \in DOMAIN f.loops : f.loops[i].line >= 1

ASSUME FilesWellFormed == \A f \in Files \cup Revisions : f \in SourceFile /\ WellFormed(f)

\* How many more brackets are opened than closed from position `open' to k.
Depth(tokens, open, k, left, right) ==
    Cardinality({i \in open..k : tokens[i].text = left})
        - Cardinality({i \in open..k : tokens[i].text = right})

\* The bracket at position `open' is closed by the one at k.
ClosedBy(tokens, open, k, left, right) ==
    /\ open <= k /\ Depth(tokens, open, k, left, right) = 0
    /\ \A j \in open..(k - 1) : Depth(tokens, open, j, left, right) # 0

\* From `first' to `last' the tokens are the loop, up to `close' its header:
\* for ( ... ) and then a statement, which may be one in braces.
IsFor(tokens, loop, first, close, last) ==
    /\ tokens[first].text = "for" /\ tokens[first].line = loop.line
    /\ first < close /\ close < last
    /\ \A k \in DOMAIN tokens : tokens[k].loop = loop.id <=> k \in first..last
    /\ \A k \in first..last : tokens[k].header <=> k <= close
    /\ \E open \in first..close :
          /\ tokens[open].text = "(" /\ ClosedBy(tokens, open, close, "(", ")")
          /\ \A k \in first..(open - 1) : tokens[k].text # "("
    /\ tokens[close + 1].text = "{" => ClosedBy(tokens, close + 1, last, "{", "}")

\* What Clang has parsed follows the grammar: parentheses are closed and the
\* loops of ProgramIR are there.  A file that was edited since need not.
ASSUME FilesAreC ==
    \A f \in Files :
        /\ \A open \in DOMAIN f.tokens : f.tokens[open].text = "(" =>
              \E k \in DOMAIN f.tokens : ClosedBy(f.tokens, open, k, "(", ")")
        /\ \A i \in DOMAIN f.loops : \E first, close, last \in DOMAIN f.tokens :
              IsFor(f.tokens, f.loops[i], first, close, last)

VARIABLES
    file,           \* the file on disk
    parsed,         \* the file as it was when ProgramIR was extracted
    safe,           \* parallelSafeLoopLocations: lines
    text,           \* what instrument() has read
    todo,           \* the loops still to be looked at
    before, after,  \* insertBefore, insertAfter: the loops of the calls, by line
    phase           \* "parsed", "inserting", "written" or "stub"

vars == <<file, parsed, safe, text, todo, before, after, phase>>

Init ==
    /\ file \in Files
    /\ parsed = file
    /\ safe \in SUBSET {file.loops[i].line : i \in DOMAIN file.loops}
    /\ text = file
    /\ todo = <<>>
    /\ before = <<>> /\ after = <<>>
    /\ phase = "parsed"

Edit ==
    /\ phase = "parsed"
    /\ file' \in Revisions
    /\ UNCHANGED <<parsed, safe, text, todo, before, after, phase>>

\* With the lines there were when the file was parsed.
OpenAsParsed ==
    /\ phase = "parsed"
    /\ text' = file
    /\ todo' = parsed.loops
    /\ before' = [line \in 1..parsed.length |-> <<>>]
    /\ after' = before'
    /\ phase' = "inserting"
    /\ UNCHANGED <<file, parsed, safe>>

\* The source is read again, or cannot be: then the output is an #include.
Open ==
    /\ phase = "parsed"
    /\ text' = file
    /\ todo' = parsed.loops
    /\ before' = [line \in 1..file.length |-> <<>>]
    /\ after' = before'
    /\ phase' = "inserting"
    /\ UNCHANGED <<file, parsed, safe>>

CannotOpen ==
    /\ phase = "parsed"
    /\ phase' = "stub"
    /\ UNCHANGED <<file, parsed, safe, text, todo, before, after>>

-----------------------------------------------------------------------------
(* The scan of the text.                                                   *)

Tokens == text.tokens
Length == text.length
Positions == DOMAIN Tokens
Are(t) == {k \in Positions : Tokens[k].text = t}

\* The first of some positions, if there are any.
First(S) == {k \in S : \A j \in S : k <= j}

\* Where the opening parenthesis is searched: from the first "for" of the line
\* on, or from the start of the line.
Searched(line) ==
    LET fors == {k \in Are("for") \cup Are("perform") : Tokens[k].line = line}
    IN  IF fors = {} THEN {k \in Positions : Tokens[k].line >= line}
        ELSE {k \in Positions : \E j \in fors : j <= k}

Opening(line) == First(Searched(line) \cap Are("("))

\* Without the depth.
FirstClosing(open, left, right) == First({k \in Are(right) : k >= open})

\* The bracket that closes the one at position `open'.
Closing(open, left, right) ==
    First({k \in Positions : k >= open /\ Depth(Tokens, open, k, left, right) = 0})

\* Where the body ends: with its closing brace, or else the next semicolon.
BodyEnd(close) ==
    IF Tokens[close + 1].text = "{" THEN Closing(close + 1, "{", "}")
    ELSE First({k \in Are(";") : k > close})

\* With the first line for an end that is not found.
EndLinesAtTop(line, close) ==
    IF close = Len(Tokens) THEN {line}
    ELSE LET ends == {Tokens[k].line : k \in BodyEnd(close)}
         IN  IF ends = {} THEN {1} ELSE ends

\* The line of the call after the loop (one of them).  An end that is not
\* found is that of the file; a header at the very end has no body.
EndLines(line, close) ==
    IF close = Len(Tokens) THEN {line}
    ELSE LET ends == {Tokens[k].line : k \in BodyEnd(close)}
         IN  IF ends = {} THEN {Length} ELSE ends

\* With one line too few.
HeaderBeforeLast(loop) ==
    IF loop.line \in safe /\ loop.line < Length
    THEN UNION {Closing(open, "(", ")") : open \in Opening(loop.line)}
    ELSE {}

\* The end of the header, for the loops that are to be instrumented.
Header(loop) ==
    IF loop.line \in safe /\ loop.line <= Length
    THEN UNION {Closing(open, "(", ")") : open \in Opening(loop.line)}
    ELSE {}

Wrap ==
    /\ phase = "inserting" /\ todo # <<>>
    /\ LET loop == Head(todo) IN
       \E close \in Header(loop) : \E end \in EndLines(loop.line, close) :
          /\ before' = [before EXCEPT ![loop.line] = Append(@, loop.id)]
          /\ after' = [after EXCEPT ![end] = Append(@, loop.id)]
    /\ todo' = Tail(todo)
    /\ UNCHANGED <<file, parsed, safe, text, phase>>

Skip ==
    /\ phase = "inserting" /\ todo # <<>>
    /\ Header(Head(todo)) = {}
    /\ todo' = Tail(todo)
    /\ UNCHANGED <<file, parsed, safe, text, before, after, phase>>

\* The lines are written with the insertions between them.
Rebuild ==
    /\ phase = "inserting" /\ todo = <<>>
    /\ phase' = "written"
    /\ UNCHANGED <<file, parsed, safe, text, todo, before, after>>

Next == Edit \/ Open \/ CannotOpen \/ Wrap \/ Skip \/ Rebuild

Spec == Init /\ [][Next]_vars

-----------------------------------------------------------------------------
Entries == {parsed.loops[i] : i \in DOMAIN parsed.loops}
Times(id, calls) == Cardinality({i \in DOMAIN calls : calls[i] = id})
Calls(at, line) == {at[line][i] : i \in DOMAIN at[line]}
Last(S) == {k \in S : \A j \in S : j <= k}

\* What loop `id' really consists of.
Own(id) == {k \in Positions : Tokens[k].loop = id}
Body(id) == {k \in Own(id) : ~Tokens[k].header}

\* It shares no line with anything else, stands in a list of statements, and
\* its body is in braces or has no semicolon but the one that ends it.
Regular(id) ==
    /\ \A k \in Positions \ Own(id) : \A j \in Own(id) : Tokens[k].line # Tokens[j].line
    /\ \A k \in First(Own(id)) : Tokens[k].list
    /\ \/ First(Body(id)) \subseteq Are("{")
       \/ Body(id) \cap Are(";") = Last(Body(id))

Finished == phase = "written"
Unedited == text = parsed

\* Types.
TypeOK ==
    /\ {file, parsed, text} \subseteq SourceFile
    /\ phase \in {"parsed", "inserting", "written", "stub"}
    /\ \A i \in DOMAIN todo : todo[i] \in Entries
    /\ phase \in {"inserting", "written"} =>
          /\ before \in [1..Length -> Seq(Nat)]
          /\ after \in [1..Length -> Seq(Nat)]

\* The calls of a loop that is written regularly are on the line above its
\* first and the line below its last, and nowhere else.
BracketsTheLoop ==
    Finished /\ Unedited =>
        \A loop \in Entries : loop.line \in safe /\ Regular(loop.id) =>
            \A line \in DOMAIN before :
                /\ Times(loop.id, before[line]) =
                      IF \E k \in First(Own(loop.id)) : Tokens[k].line = line THEN 1 ELSE 0
                /\ Times(loop.id, after[line]) =
                      IF \E k \in Last(Own(loop.id)) : Tokens[k].line = line THEN 1 ELSE 0

\* However the file is written and whatever it was when it was parsed: a start
\* call has an end call below it and an end call a start call above, so that
\* the output never records an end that was not begun in the text before.
EveryStartHasItsEnd ==
    phase \in {"inserting", "written"} =>
        /\ \A line \in DOMAIN before : \A id \in Calls(before, line) :
              \E end \in DOMAIN after : end >= line /\ id \in Calls(after, end)
        /\ \A end \in DOMAIN after : \A id \in Calls(after, end) :
              \E line \in DOMAIN before : line <= end /\ id \in Calls(before, line)

\* In the file that was parsed exactly the loops at safe locations are found,
\* each once, wherever they stand on their lines.
SafeLoopsAreFound ==
    Finished /\ Unedited =>
        \A loop \in Entries :
            Cardinality({line \in DOMAIN before : loop.id \in Calls(before, line)}) =
                IF loop.line \in safe THEN 1 ELSE 0

-----------------------------------------------------------------------------
(* What a document says and the code does not do.                          *)

\* PRD.md, REQ-PR1: instrumentation "does not modify the program's observable
\* output".  A call put before a loop that is the branch of an `if' becomes
\* the branch, and the loop is executed always.
GuardsStay ==
    Finished /\ Unedited =>
        \A loop \in Entries : \A k \in First(Own(loop.id)) :
            (/\ loop.id \in Calls(before, Tokens[k].line)
             /\ \A j \in 1..(k - 1) : Tokens[j].line < Tokens[k].line) => Tokens[k].list
=============================================================================
