--------------------------- MODULE MCInstrumentation ---------------------------
(***************************************************************************)
(* Files of two functions: the first with one outermost loop, free or the   *)
(* branch of an `if', around one or two statements that may be loops and    *)
(* conditions themselves; the second, first by name, with a simple loop.    *)
(* Each is written in several layouts.                                      *)
(***************************************************************************)
EXTENDS Instrumentation

Mark(t, inParens) ==
    [text |-> t, loop |-> 0, header |-> FALSE, list |-> FALSE, parens |-> inParens]
Plain(texts) == [i \in DOMAIN texts |-> Mark(texts[i], FALSE)]

InList(s) == [s EXCEPT ![1].list = TRUE]
Simple == Plain(<<"x", ";">>)
Call == Plain(<<"perform", "(", ")", ";">>)
ForHeader == <<Mark("for", FALSE), Mark("(", TRUE), Mark(";", TRUE), Mark(";", TRUE), Mark(")", FALSE)>>
For(s) == ForHeader \o s
If(s) == Plain(<<"if", "(", ")">>) \o s
Close == InList(Plain(<<"}">>))
Block(s) == Plain(<<"{">>) \o InList(s) \o Close
Block2(s, t) == Plain(<<"{">>) \o InList(s) \o InList(t) \o Close

Bodies ==
    <<Simple, Call, If(Simple), For(Simple), Block(Simple), Block2(Call, Simple),
      Block(If(Block(Simple))), For(Block2(Simple, Simple)), If(Block2(Call, Simple))>>

\* An outermost loop; its header may be followed by a comment.
Loop(id, noted, body) ==
    LET rest == IF noted THEN Plain(<<"//">>) \o body ELSE body
    IN  [i \in DOMAIN ForHeader |-> [ForHeader[i] EXCEPT !.loop = id, !.header = TRUE]]
            \o [i \in DOMAIN rest |-> [rest[i] EXCEPT !.loop = id]]

Function(body) == Plain(<<"x", "(", ")", "{">>) \o body \o Close

\* The first function: the loop alone, after a call, before a statement.
Places(loop) ==
    <<InList(loop), InList(Call) \o InList(loop), InList(loop) \o InList(Simple)>>

Second(loop) == InList(IF loop THEN Loop(2, FALSE, Block(Simple)) ELSE Simple)

(***************************************************************************)
(* Layouts: whether the line ends after position i.                        *)
(***************************************************************************)
Layouts == <<"spread", "braceBelow", "compact", "perLoop">>

EndsLine(layout, s, i) ==
    \/ s[i].text = "//"
    \/ i < Len(s) /\ s[i + 1].text = "x" /\ s[i].text = "}" /\ i + 3 <= Len(s) /\ s[i + 2].text = "("
    \/ /\ layout \in {"spread", "braceBelow"}
       /\ \/ s[i].text \in {";", "{", "}"} /\ ~s[i].parens
          \/ s[i].text = ")" /\ i < Len(s) /\ s[i + 1].text \in {"x", "perform", "for", "if"}
    \/ layout = "braceBelow" /\ i < Len(s) /\ s[i + 1].text = "{"
    \/ layout = "perLoop" /\ i < Len(s) /\ s[i + 1].text = "for"

Written(layout, s, top) ==
    LET line == [i \in DOMAIN s |-> top + Cardinality({j \in 1..(i - 1) : EndsLine(layout, s, j)})]
        token == [i \in DOMAIN s |->
                     [text |-> s[i].text, line |-> line[i], loop |-> s[i].loop,
                      header |-> s[i].header, list |-> s[i].list]] \o <<>>
        at(id) == {line[i] : i \in {j \in DOMAIN s : s[j].loop = id /\ s[j].text = "for" /\ s[j].header}}
        entries(id) == IF at(id) = {} THEN <<>>
                       ELSE <<[id |-> id, line |-> CHOOSE n \in at(id) : TRUE]>>
    IN  [tokens |-> token, length |-> line[Len(s)], loops |-> entries(2) \o entries(1)]

\* The file with number n: a choice of each, in a mixed radix.
Content(n) ==
    LET loop == Loop(1, n % 2 = 1, Bodies[1 + ((n \div 2) % 9)])
        first == Places(IF (n \div 18) % 2 = 1 THEN If(loop) ELSE loop)[1 + ((n \div 36) % 3)]
        second == Second((n \div 108) % 2 = 1)
    IN  Written(Layouts[1 + (n \div 216)], Function(first) \o Function(second), 1)

MCFiles == {Content(n) : n \in 0..863}

\* After an edit: shifted, or cut down to a loop that has lost its brackets.
MCRevisions ==
    {Written("spread", Function(InList(Loop(1, FALSE, Block(Simple)))), 2),
     Written("compact", Plain(<<"for", "(", "x">>), 1),
     Written("spread", Plain(<<"x", ";", "for", "(", ")", "{", "x", ";">>), 1)}
=============================================================================
