--------------------------- MODULE JsonObfuscator ---------------------------
(***************************************************************************)
(* The obfuscator of JSON tags: a scanner that looks at one byte at a time *)
(* and a jsonObfuscator that follows its opcodes, replaces the values it   *)
(* must not show by "?" and keeps those of some keys.  One obfuscator      *)
(* serves all the spans, one after the other.                              *)
(*                                                                         *)
(* A document arrives lexeme by lexeme; the bytes of a lexeme are taken in *)
(* one step, since nothing happens in between.  A byte is a string of one  *)
(* character, "~" standing for a control character and "1" and "2" for     *)
(* the digits that are not 0.  undo and redo have no caller.               *)
(***************************************************************************)
EXTENDS Integers, Sequences, SequencesExt

CONSTANTS
    Lexemes,        \* name of a lexeme -> its bytes
    Weight,         \* what a lexeme counts against the bound
    Incomplete,     \* lexemes that break off: the last ones of a document
    Keepers,        \* keys whose values are kept
    MaxWeight,      \* bound: weight of the lexemes in all documents
    MaxDocuments,   \* bound
    GoOn            \* bound: documents may follow one that was refused

VARIABLES
    o,              \* the jsonObfuscator, with buf and out of the current call
    doc,            \* the lexemes of the current document
    result,         \* the last document, its output, and whether it was accepted
    clean,          \* no document was refused so far
    fed, ended      \* the weight of the lexemes, and how many documents there were

vars == <<o, doc, result, clean, fed, ended>>

Digits == {"0", "1", "2"}
Hex == Digits \union {"a", "e", "f"}
isSpace(c) == c = " "

-----------------------------------------------------------------------------
(* The scanner.  A state returns the scanner and an opcode.                 *)

reset == [step |-> "BeginValue", parseState |-> <<>>, endTop |-> FALSE, err |-> FALSE]

\* Opcodes are the strings after "scan" of their names, as states are those after
\* "state" or, on the stack, after "parse".
Return(s, step, op) == [s |-> [s EXCEPT !.step = step], op |-> op]
Stay(s, op) == [s |-> s, op |-> op]
Error(s) == [s |-> [s EXCEPT !.step = "Error", !.err = TRUE], op |-> "Error"]

SetTop(s, p) == [s EXCEPT !.parseState[Len(s.parseState)] = p]
pushParseState(s, p) == [s EXCEPT !.parseState = Append(@, p)]
popParseState(s) ==
    LET left == Front(s.parseState)
    IN  [s EXCEPT !.parseState = left,
                  !.step = IF left = <<>> THEN "EndTop" ELSE "EndValue",
                  !.endTop = @ \/ left = <<>>]

LiteralStart ==
    [c \in {"q", "-", "0", "1", "2", "t", "f", "n"} |->
        CASE c = "q" -> "InString" [] c = "-" -> "Neg" [] c = "0" -> "0"
          [] c \in {"1", "2"} -> "1" [] c = "t" -> "T" [] c = "f" -> "F" [] c = "n" -> "N"]

stateBeginValue(s, c) ==
    CASE isSpace(c) -> Stay(s, "SkipSpace")
      [] c = "{" -> Return(pushParseState(s, "ObjectKey"), "BeginStringOrEmpty", "BeginObject")
      [] c = "[" -> Return(pushParseState(s, "ArrayValue"), "BeginValueOrEmpty", "BeginArray")
      [] c \in DOMAIN LiteralStart -> Return(s, LiteralStart[c], "BeginLiteral")
      [] OTHER -> Error(s)

stateBeginString(s, c) ==
    CASE isSpace(c) -> Stay(s, "SkipSpace")
      [] c = "q" -> Return(s, "InString", "BeginLiteral")
      [] OTHER -> Error(s)

\* A new document may follow in the same tag.
stateEndTop(s, c) == IF isSpace(c) THEN Stay(s, "End") ELSE stateBeginValue(reset, c)

\* A comma in an object may be followed by its end.
AfterMemberOrEnd == "BeginStringOrEmpty"
AfterMember == "BeginString"

stateEndValue(s, c) ==
    LET n == Len(s.parseState)
        in == s.parseState[n]
    IN  CASE n = 0 -> stateEndTop([s EXCEPT !.step = "EndTop", !.endTop = TRUE], c)
          [] n > 0 /\ isSpace(c) -> Return(s, "EndValue", "SkipSpace")
          [] n > 0 /\ in = "ObjectKey" /\ c = ":" ->
                Return(SetTop(s, "ObjectValue"), "BeginValue", "ObjectKey")
          [] n > 0 /\ in = "ObjectValue" /\ c = "," ->
                Return(SetTop(s, "ObjectKey"), AfterMember, "ObjectValue")
          [] n > 0 /\ in = "ObjectValue" /\ c = "}" -> Stay(popParseState(s), "EndObject")
          [] n > 0 /\ in = "ArrayValue" /\ c = "," -> Return(s, "BeginValue", "ArrayValue")
          [] n > 0 /\ in = "ArrayValue" /\ c = "]" -> Stay(popParseState(s), "EndArray")
          [] OTHER -> Error(s)

stateBeginValueOrEmpty(s, c) ==
    IF c = "]" THEN stateEndValue(s, c) ELSE stateBeginValue(s, c)

stateBeginStringOrEmpty(s, c) ==
    IF c = "}" THEN stateEndValue(SetTop(s, "ObjectValue"), c) ELSE stateBeginString(s, c)

Continue(s, step) == Return(s, step, "Continue")

stateInString(s, c) ==
    CASE c = "q" -> Continue(s, "EndValue")
      [] c = "\\" -> Continue(s, "InStringEsc")
      [] c = "~" -> Error(s)
      [] OTHER -> Continue(s, "InString")

EscapeNext == [InStringEscU |-> "InStringEscU1", InStringEscU1 |-> "InStringEscU12",
               InStringEscU12 |-> "InStringEscU123", InStringEscU123 |-> "InString"]
stateInStringEsc(s, c) ==
    CASE c \in {"n", "t", "f", "r", "\\", "q"} -> Continue(s, "InString")
      [] c = "u" -> Continue(s, "InStringEscU")
      [] OTHER -> Error(s)
stateInStringEscU(s, c) == IF c \in Hex THEN Continue(s, EscapeNext[s.step]) ELSE Error(s)

\* Where a number goes on from a state; where it cannot go on it ends, if a
\* number may end there.
NumberNext(step, c) ==
    CASE step = "Neg" /\ c = "0" -> "0"
      [] step \in {"Neg", "1"} /\ c \in {"1", "2"} -> "1"
      [] step = "1" /\ c = "0" -> "1"
      [] step \in {"0", "1"} /\ c = "." -> "Dot"
      [] step \in {"Dot", "Dot0"} /\ c \in Digits -> "Dot0"
      [] step \in {"0", "1", "Dot0"} /\ c = "e" -> "E"
      [] step = "E" /\ c \in {"+", "-"} -> "ESign"
      [] step \in {"E", "ESign", "E0"} /\ c \in Digits -> "E0"
      [] step \in {"0", "1", "Dot0", "E0"} -> "ends"
      [] OTHER -> "error"
stateNumber(s, c) ==
    LET to == NumberNext(s.step, c)
    IN  CASE to = "ends" -> stateEndValue(s, c)
          [] to = "error" -> Error(s)
          [] OTHER -> Continue(s, to)

\* true, false and null: the letter a state expects and the state after it.
Words == [T |-> <<"r", "Tr">>, Tr |-> <<"u", "Tru">>, Tru |-> <<"e", "EndValue">>,
          F |-> <<"a", "Fa">>, Fa |-> <<"l", "Fal">>, Fal |-> <<"s", "Fals">>,
          Fals |-> <<"e", "EndValue">>,
          N |-> <<"u", "Nu">>, Nu |-> <<"l", "Nul">>, Nul |-> <<"l", "EndValue">>]
stateWord(s, c) == IF c = Words[s.step][1] THEN Continue(s, Words[s.step][2]) ELSE Error(s)

step(s, c) ==
    CASE s.step = "BeginValue" -> stateBeginValue(s, c)
      [] s.step = "BeginValueOrEmpty" -> stateBeginValueOrEmpty(s, c)
      [] s.step = "BeginString" -> stateBeginString(s, c)
      [] s.step = "BeginStringOrEmpty" -> stateBeginStringOrEmpty(s, c)
      [] s.step = "EndValue" -> stateEndValue(s, c)
      [] s.step = "EndTop" -> stateEndTop(s, c)
      [] s.step = "InString" -> stateInString(s, c)
      [] s.step = "InStringEsc" -> stateInStringEsc(s, c)
      [] s.step \in DOMAIN EscapeNext -> stateInStringEscU(s, c)
      [] s.step \in DOMAIN Words -> stateWord(s, c)
      [] s.step = "Error" -> Stay(s, "Error")
      [] OTHER -> stateNumber(s, c)

\* eof fails.
eofFails(s) == s.err \/ (~s.endTop /\ ~step(s, " ").s.endTop)

-----------------------------------------------------------------------------
(* The jsonObfuscator.                                                      *)

setKey(p) ==
    LET n == Len(p.closures)
    IN  [p EXCEPT !.key = n = 0 \/ p.closures[n], !.wiped = FALSE]

Write(p, c) == [p EXCEPT !.out = Append(@, c)]

\* The last closure is never taken off.
popClosure(p) == IF Len(p.closures) > 1 THEN [p EXCEPT !.closures = Front(@)] ELSE p

\* A value has ended; depth is the one before it was closed.
keepingEndsAtValue(p, depth) == IF depth <= p.keepDepth THEN [p EXCEPT !.keeping = FALSE] ELSE p
keepingEnds(p, depth) == IF depth < p.keepDepth THEN [p EXCEPT !.keeping = FALSE] ELSE p

\* strings.Trim
KeyName(p) ==
    LET inside == {i \in DOMAIN p.buf : p.buf[i] # "q"}
    IN  IF inside = {} THEN <<>> ELSE SubSeq(p.buf, Min(inside), Max(inside))

\* The body of the loop of obfuscate, for the byte c.
obfuscateByte(q, c) ==
    LET r == step(q.scan, c)
        p == [q EXCEPT !.scan = r.s]
        depth == Len(p.closures)
    IN  CASE r.op = "BeginObject" ->
                Write(setKey([p EXCEPT !.closures = Append(@, TRUE)]), c)
          [] r.op = "BeginArray" ->
                Write(setKey([p EXCEPT !.closures = Append(@, FALSE)]), c)
          [] r.op \in {"EndArray", "EndObject"} ->
                Write(keepingEnds(setKey(popClosure(p)), depth), c)
          [] r.op \in {"ObjectValue", "ArrayValue"} -> Write(keepingEnds(setKey(p), depth), c)
          [] r.op \in {"BeginLiteral", "Continue"} ->
                CASE p.key -> Write([p EXCEPT !.buf = Append(@, c)], c)
                  [] ~p.key /\ p.keeping -> Write(p, c)
                  [] ~p.key /\ ~p.keeping /\ ~p.wiped -> Write([p EXCEPT !.wiped = TRUE], "?")
                  [] OTHER -> p
          [] r.op = "ObjectKey" ->
                LET keeps == ~p.keeping /\ KeyName(p) \in Keepers
                IN  Write([p EXCEPT !.keeping = @ \/ keeps,
                                    !.keepDepth = IF keeps THEN depth + 1 ELSE @,
                                    !.buf = <<>>, !.key = FALSE], c)
          [] r.op = "SkipSpace" -> p
          [] r.op = "Error" -> Write(p, "...")
          [] OTHER -> Write(p, c)

newJSONObfuscator ==
    [scan |-> reset, closures |-> <<>>, key |-> FALSE, wiped |-> FALSE, keeping |-> FALSE,
     keepDepth |-> 0, buf |-> <<>>, out |-> <<>>]

NoResult == [doc |-> <<>>, out |-> <<>>, accepted |-> TRUE]

\* A call returns; the next one resets the scanner and has its own buffers.
Finish(p, document, accepted) ==
    /\ o' = [p EXCEPT !.scan = reset, !.buf = <<>>, !.out = <<>>]
    /\ result' = [doc |-> document, out |-> p.out, accepted |-> accepted]
    /\ clean' = (clean /\ accepted)
    /\ doc' = <<>>
    /\ ended' = ended + 1

Init ==
    /\ o = newJSONObfuscator
    /\ doc = <<>>
    /\ result = NoResult
    /\ clean = TRUE
    /\ fed = 0
    /\ ended = 0

\* Digits after a number that can go on are part of it.
Separate(name) ==
    doc # <<>> /\ Lexemes[name][1] \in Digits =>
        LET last == Lexemes[Last(doc)] IN Last(last) \notin Digits \/ last = <<"0">>

\* Any lexeme may come anywhere.
Feed(name) ==
    /\ fed + Weight[name] <= MaxWeight
    /\ ended < MaxDocuments
    /\ Separate(name)
    /\ doc # <<>> => Last(doc) \notin Incomplete
    /\ doc = <<>> => clean \/ GoOn
    /\ fed' = fed + Weight[name]
    /\ LET p == FoldLeft(LAMBDA q, c : IF q.scan.err THEN q ELSE obfuscateByte(q, c),
                         o, Lexemes[name])
       IN  IF p.scan.err
           THEN Finish(p, Append(doc, name), FALSE)
           ELSE /\ o' = p
                /\ doc' = Append(doc, name)
                /\ result' = NoResult
                /\ UNCHANGED <<clean, ended>>

\* The end of the tag, which is not empty.
EndOfInput ==
    /\ doc # <<>>
    /\ LET fails == eofFails(o.scan)
       IN  Finish(IF fails THEN Write(o, "...") ELSE o, doc, ~fails)
    /\ UNCHANGED fed

Next == EndOfInput \/ \E name \in DOMAIN Lexemes : Feed(name)

Spec == Init /\ [][Next]_vars

-----------------------------------------------------------------------------
(* A reference: the grammar of JSON over lexemes, by recursive descent.  A   *)
(* value ends before the lexeme "at" and reads "out" when it is obfuscated.  *)

Closed(at, out) == [ok |-> TRUE, at |-> at, out |-> out]
NotJson == [ok |-> FALSE, at |-> 0, out |-> <<>>]
Is(ts, i, c) == i <= Len(ts) /\ Lexemes[ts[i]] = <<c>>
IsString(ts, i) == i <= Len(ts) /\ Lexemes[ts[i]][1] = "q"
Complete(ts, i) == i <= Len(ts) /\ ts[i] \notin Incomplete
IsLiteral(ts, i) ==
    Complete(ts, i) /\ ~\E c \in {"{", "}", "[", "]", ":", ","} : Is(ts, i, c)

RECURSIVE ValueAt(_, _, _), MembersAt(_, _, _), ItemsAt(_, _, _)
ValueAt(ts, i, keep) ==
    CASE Is(ts, i, "{") /\ Is(ts, i + 1, "}") -> Closed(i + 2, <<"{", "}">>)
      [] Is(ts, i, "{") /\ ~Is(ts, i + 1, "}") ->
            LET m == MembersAt(ts, i + 1, keep) IN [m EXCEPT !.out = <<"{">> \o @]
      [] Is(ts, i, "[") /\ Is(ts, i + 1, "]") -> Closed(i + 2, <<"[", "]">>)
      [] Is(ts, i, "[") /\ ~Is(ts, i + 1, "]") ->
            LET m == ItemsAt(ts, i + 1, keep) IN [m EXCEPT !.out = <<"[">> \o @]
      [] IsLiteral(ts, i) -> Closed(i + 1, IF keep THEN Lexemes[ts[i]] ELSE <<"?">>)
      [] OTHER -> NotJson
MembersAt(ts, i, keep) ==
    IF ~(IsString(ts, i) /\ Complete(ts, i) /\ Is(ts, i + 1, ":")) THEN NotJson ELSE
    LET keeps == SelectSeq(Lexemes[ts[i]], LAMBDA c : c # "q") \in Keepers
        v == ValueAt(ts, i + 2, keep \/ keeps)
        out == Lexemes[ts[i]] \o <<":">> \o v.out
    IN  CASE v.ok /\ Is(ts, v.at, "}") -> Closed(v.at + 1, Append(out, "}"))
          [] v.ok /\ Is(ts, v.at, ",") ->
                LET m == MembersAt(ts, v.at + 1, keep) IN [m EXCEPT !.out = out \o <<",">> \o @]
          [] OTHER -> NotJson
ItemsAt(ts, i, keep) ==
    LET v == ValueAt(ts, i, keep)
    IN  CASE v.ok /\ Is(ts, v.at, "]") -> Closed(v.at + 1, Append(v.out, "]"))
          [] v.ok /\ Is(ts, v.at, ",") ->
                LET m == ItemsAt(ts, v.at + 1, keep) IN [m EXCEPT !.out = v.out \o <<",">> \o @]
          [] OTHER -> NotJson

\* One or more values.
RECURSIVE ValuesAt(_, _)
ValuesAt(ts, i) ==
    LET v == ValueAt(ts, i, FALSE)
    IN  IF ~v.ok \/ v.at > Len(ts) THEN v
        ELSE LET rest == ValuesAt(ts, v.at) IN [rest EXCEPT !.out = v.out \o @]
Reference(ts) == ValuesAt(SelectSeq(ts, LAMBDA name : name # "space"), 1)

\* Every value of the document is an object or an array.
RECURSIVE CompositeAt(_, _)
CompositeAt(ts, i) ==
    \/ i > Len(ts)
    \/ /\ Is(ts, i, "{") \/ Is(ts, i, "[")
       /\ CompositeAt(ts, ValueAt(ts, i, FALSE).at)
Composite(ts) == CompositeAt(SelectSeq(ts, LAMBDA name : name # "space"), 1)

-----------------------------------------------------------------------------
(* Properties.                                                              *)

AsReference ==
    result.accepted /\ Composite(result.doc) =>
        SelectSeq(result.out, LAMBDA c : c # " ") = Reference(result.doc).out

\* The scanner, with its change that lets several values follow each other in
\* one tag, accepts a document exactly if it is a sequence of JSON values.
ScannerAcceptsJson == result.doc # <<>> => (result.accepted <=> Reference(result.doc).ok)

\* As long as no document was refused, the state that the obfuscator carries from
\* one document to the next does not change what it makes of a document of objects
\* and arrays: what is outside the kept keys is replaced, value by value, and the
\* rest is copied.  Documents with other values at the top level are left out, but
\* may come before: after an object the code takes such a value for a key.
ObfuscatedAsSpecified == clean => AsReference

\* "It is safe to accept the output, even if partial": a document that is
\* refused has no influence on how later ones are obfuscated.
RefusedDocumentsAreSafe == AsReference
=============================================================================
