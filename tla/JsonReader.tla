----------------------------- MODULE JsonReader -----------------------------
(***************************************************************************)
(* Json::Reader (jsoncpp.cpp), which the manager reads a request's body    *)
(* with: parse(), from a text to a Value, with the comments it collects    *)
(* and where it stops after an error.                                      *)
(*                                                                         *)
(* e is what a parse does not change: the text, the Features, whether it   *)
(* collects comments.  s is what it does: current_, the token read last,   *)
(* the root, the errors, commentsBefore_, lastValue_ (a path from the      *)
(* root) and lastValueEnd_, and how readValue came back.  nodes_ is the    *)
(* path of the current value.                                              *)
(***************************************************************************)
EXTENDS JsonText

CONSTANT StackLimit \* stackLimit_g

ASSUME ReaderAssumption == StackLimit \in Nat \ {0}

\* What decodeString and decodeNumber refuse.
Refused == BadTexts \cup {HalfText}

All == [allowComments |-> TRUE, strictRoot |-> FALSE, allowDroppedNulls |-> FALSE, allowNumericKeys |-> FALSE]
StrictMode == [All EXCEPT !.allowComments = FALSE, !.strictRoot = TRUE]

TokenOf(shape) ==
  CASE shape = "{" -> "ObjectBegin" [] shape = "}" -> "ObjectEnd"
    [] shape = "[" -> "ArrayBegin"  [] shape = "]" -> "ArrayEnd"
    [] shape = "," -> "ArraySeparator" [] shape = ":" -> "MemberSeparator"
    [] shape = "string" -> "String" [] shape = "number" -> "Number"
    [] shape \in {"true", "false", "null"} -> "Literal"
    [] shape \in {"/*", "//"} -> "Comment"
    [] OTHER -> "Error"

\* Reader does not know -Infinity: the minus is a number, and the rest no token.
MinusApart(text) ==
  FlattenSeq([i \in DOMAIN text |->
                IF text[i][1] = "-Inf" THEN <<<<"number", "-">>, <<"junk", "">>>> ELSE <<text[i]>>])

\* Mutant: a // comment goes on to the end of the text.
BugLineEndNever(text, i) == Len(text)

\* Where skipSpaces stops, and where a // comment ends.
SkipSpaces(text, i) == Min({j \in i .. Len(text) : text[j][1] # "newline"} \cup {Len(text) + 1})
LineEnd(text, i) == Min({j \in i .. Len(text) : text[j][1] = "newline"} \cup {Len(text)})

\* readComment, addComment: to the value before, if the comment is on its line and, in a
\* block, stays on it, or to the next.
SameLine(e, s, i, comment) ==
  s.lastEnd # 0 /\ (\A j \in s.lastEnd .. i - 1 : ~HasNewLine(e.text[j])) /\ ~HasNewLine(comment)
AddComment(e, s, i, comment) ==
  IF ~e.collect THEN s
  ELSE IF SameLine(e, s, i, comment)
    THEN [s EXCEPT !.root = With(@, s.last, SetComment(At(@, s.last), <<comment>>, "commentAfterOnSameLine"))]
    ELSE [s EXCEPT !.before = Append(@, comment)]

\* A lexeme that begins at i and ends at end; a // comment takes the rest of its line in.
Content(text, i, end) == IF end > i /\ text[i + 1][1] # "newline" THEN "more" ELSE text[i][2]

Take(e, s, i, end) ==
  LET shape == e.text[i][1]
      content == Content(e.text, i, end)
      r == [s EXCEPT !.pos = end + 1,
                     !.token = <<TokenOf(shape), IF TokenOf(shape) = "Literal" THEN shape ELSE content>>]
  IN IF shape \in {"/*", "//"} THEN AddComment(e, r, i, <<shape, content>>) ELSE r

TakeFrom(e, s, i) ==
  IF i > Len(e.text) THEN [s EXCEPT !.pos = i, !.token = <<"EndOfStream", "">>]
  ELSE Take(e, s, i, IF e.text[i][1] = "//" THEN LineEnd(e.text, i) ELSE i)

ReadToken(e, s) == TakeFrom(e, s, SkipSpaces(e.text, s.pos))

RECURSIVE ReadPastComments(_, _)
ReadPastComments(e, s) ==
  LET r == ReadToken(e, s) IN IF r.token[1] = "Comment" THEN ReadPastComments(e, r) ELSE r

SkipCommentTokens(e, s) == IF e.features.allowComments THEN ReadPastComments(e, s) ELSE ReadToken(e, s)

AddError(s) == [s EXCEPT !.ok = FALSE, !.errors = @ + 1]

RECURSIVE RecoverFromError(_, _, _)
RecoverFromError(e, s, until) ==
  LET r == ReadToken(e, s)
  IN IF r.token[1] \in {until, "EndOfStream"} THEN [r EXCEPT !.ok = FALSE]
                                             ELSE RecoverFromError(e, r, until)

AddErrorAndRecover(e, s, until) == RecoverFromError(e, AddError(s), until)

Throw(s) == [s EXCEPT !.ok = FALSE, !.thrown = TRUE]

SetCurrent(s, path, type, payload) ==
  [s EXCEPT !.root = With(@, path, SwapPayload(At(@, path), type, payload)), !.ok = TRUE]

\* decodeNumber and decodeString, as far as they refuse a text or not.
Decode(s, path, type) ==
  IF s.token[2] \in Refused THEN AddError(s) ELSE SetCurrent(s, path, type, s.token[2])

TakeComments(e, s, path) ==
  IF e.collect /\ s.before # <<>>
    THEN [s EXCEPT !.root = With(@, path, SetComment(At(@, path), s.before, "commentBefore")), !.before = <<>>]
    ELSE s

\* The value of the member is there, as null, before it is read.
Enter(s, path) == [s EXCEPT !.root = With(@, path, At(@, path))]

RECURSIVE ReadValue(_, _, _), ReadMembers(_, _, _, _), ReadElements(_, _, _, _)

\* readObject behind the value of a member, and the separator behind that: final is the first
\* token that is no comment.
BehindSeparator(e, final, path, name) ==
  IF final.token[1] = "ObjectEnd" THEN final ELSE ReadMembers(e, final, path, name)

Separate(e, comma, path, name) ==
  CASE comma.token[1] \in {"ObjectEnd", "ArraySeparator"} -> BehindSeparator(e, comma, path, name)
    [] comma.token[1] = "Comment" -> BehindSeparator(e, ReadPastComments(e, comma), path, name)
    [] OTHER -> AddErrorAndRecover(e, comma, "ObjectEnd")

BehindMember(e, v, path, name) ==
  IF v.ok THEN Separate(e, ReadToken(e, v), path, name)
  ELSE IF v.thrown THEN v
  ELSE RecoverFromError(e, v, "ObjectEnd")

\* ... behind the name of a member
ReadMember(e, colon, path, name) ==
  LET child == Append(path, name)
  IN IF colon.token[1] # "MemberSeparator" THEN AddErrorAndRecover(e, colon, "ObjectEnd")
     ELSE BehindMember(e, ReadValue(e, Enter(colon, child), child), path, name)

\* ... from the name n of a member on; last is the name before
ReadName(e, n, path, last) ==
  LET kind == n.token[1]
      numericKey == kind = "Number" /\ e.features.allowNumericKeys
  IN IF kind = "ObjectEnd" /\ last = "" THEN n
     ELSE IF (kind = "String" \/ numericKey) /\ n.token[2] \notin Refused
       THEN IF numericKey THEN Throw(n) ELSE ReadMember(e, ReadToken(e, n), path, n.token[2])
     ELSE AddErrorAndRecover(e, n, "ObjectEnd")

ReadMembers(e, s, path, last) == ReadName(e, ReadPastComments(e, s), path, last)

\* readArray from the element index on.
BehindElement(e, next, path, index) ==
  CASE next.token[1] = "ArrayEnd" -> next
    [] next.token[1] = "ArraySeparator" -> ReadElements(e, next, path, index + 1)
    [] OTHER -> AddErrorAndRecover(e, next, "ArrayEnd")

ReadElement(e, v, path, index) ==
  IF v.ok THEN BehindElement(e, ReadPastComments(e, v), path, index)
  ELSE IF v.thrown THEN v
  ELSE RecoverFromError(e, v, "ArrayEnd")

ReadElements(e, s, path, index) ==
  LET child == Append(path, index)
  IN ReadElement(e, ReadValue(e, Enter(s, child), child), path, index)

ReadObject(e, s, path) == ReadMembers(e, SetCurrent(s, path, "object", EmptyObject), path, "")

ClosesAtOnce(text, i) == i <= Len(text) /\ text[i][1] = "]"
ReadArray(e, s, path) ==
  LET a == SetCurrent(s, path, "array", EmptyArray)
  IN IF ClosesAtOnce(e.text, SkipSpaces(e.text, s.pos)) THEN ReadToken(e, a) ELSE ReadElements(e, a, path, 0)

\* ... with the comments before it taken; dropped is a null that is not there.
Dropped(e, kind) == kind \in {"ArraySeparator", "ObjectEnd", "ArrayEnd"} /\ e.features.allowDroppedNulls
ReadByKind(e, t, path, kind) ==
  CASE kind = "ObjectBegin" -> ReadObject(e, t, path)
    [] kind = "ArrayBegin"  -> ReadArray(e, t, path)
    [] kind = "Number"      -> Decode(t, path, "number")
    [] kind = "String"      -> Decode(t, path, "string")
    [] kind = "Literal"     -> SetCurrent(t, path, t.token[2], "")
    [] Dropped(e, kind)     -> SetCurrent([t EXCEPT !.pos = @ - 1], path, "null", "")
    [] OTHER                -> AddError(t)

\* ... which becomes lastValue_, even after an error
Known(e, kind) == kind \in {"ObjectBegin", "ArrayBegin", "Number", "String", "Literal"} \/ Dropped(e, kind)
Remember(e, v, path, kind) ==
  IF e.collect /\ Known(e, kind) /\ ~v.thrown THEN [v EXCEPT !.last = path, !.lastEnd = v.pos] ELSE v

ReadFrom(e, t, path) == Remember(e, ReadByKind(e, t, path, t.token[1]), path, t.token[1])

\* Mutant: the nesting is not looked at.
BugReadValueDeeper(e, s, path) == ReadFrom(e, TakeComments(e, SkipCommentTokens(e, s), path), path)

ReadValue(e, s, path) ==
  IF Len(path) + 1 > StackLimit THEN Throw(s)
  ELSE ReadFrom(e, TakeComments(e, SkipCommentTokens(e, s), path), path)

\* Reader::parse; the errors are those after it, and a root there was is forgotten.
Start == [pos |-> 1, token |-> <<"EndOfStream", "">>, root |-> NullValue, errors |-> 0,
          before |-> <<>>, last |-> <<>>, lastEnd |-> 0, ok |-> TRUE, thrown |-> FALSE]

TakeLast(e, r) ==
  IF e.collect /\ r.before # <<>> THEN [r EXCEPT !.root = SetComment(@, r.before, "commentAfter")] ELSE r

CheckRoot(e, c) == IF e.features.strictRoot /\ ~IsContainer(c.root) THEN AddError(c) ELSE c

Finish(e, v) ==
  IF v.thrown THEN v ELSE CheckRoot(e, TakeLast(e, [SkipCommentTokens(e, v) EXCEPT !.ok = v.ok]))

Parse(text, features, collectComments) ==
  LET e == [text |-> MinusApart(text), features |-> features, collect |-> collectComments /\ features.allowComments]
  IN Finish(e, ReadValue(e, Start, <<>>))

(***************************************************************************)
(* The texts parse() takes, said without reading them in order.  A value   *)
(* may have comments before it, and so may a name; comments may follow a   *)
(* value in a container.  What is not in the grammar of JSON: a separator  *)
(* is whatever stands behind a comment; a name "" may have a separator     *)
(* behind its value and nothing more.                                      *)
(***************************************************************************)
IsComment(l) == l[1] \in {"/*", "//"}

\* As deep as a value is nested, and as the brackets of a text are at most.
RECURSIVE Levels(_)
Levels(v) ==
  1 + (CASE Type(v) = "array"  -> Max({0} \cup {Levels(Payload(v)[i]) : i \in DOMAIN Payload(v)})
         [] Type(v) = "object" -> Max({0} \cup {Levels(Payload(v)[n]) : n \in DOMAIN Payload(v)})
         [] OTHER -> 0)
Brackets(text) ==
  LET Count(shapes, k) == Cardinality({i \in 1 .. k : text[i][1] \in shapes})
  IN Max({Count({"[", "{"}, k) - Count({"]", "}"}, k) : k \in 0 .. Len(text)})

\* What is left of a text without ends of lines and what // takes in.
Visible(text) ==
  LET Hidden(j) == \/ text[j][1] = "newline"
                   \/ \E i \in 1 .. j - 1 : text[i][1] = "//" /\ \A k \in i + 1 .. j : text[k][1] # "newline"
      kept == SelectSeq([j \in DOMAIN text |-> j], LAMBDA j : ~Hidden(j))
  IN [n \in DOMAIN kept |-> text[kept[n]]]

AllComments(t) == \A i \in DOMAIN t : IsComment(t[i])
IsScalar(l) == (l[1] \in {"string", "number"} /\ l[2] \notin Refused) \/ l[1] \in {"true", "false", "null"}
IsName(l) == l[1] = "string" /\ l[2] \notin Refused

RECURSIVE IsValue(_), IsMembers(_), IsElements(_)

IsBare(t) ==
  \/ Len(t) = 1 /\ IsScalar(t[1])
  \/ Len(t) > 1 /\ t[1][1] = "[" /\ t[Len(t)][1] = "]"
     /\ (Len(t) = 2 \/ IsElements(SubSeq(t, 2, Len(t) - 1)))
  \/ Len(t) > 1 /\ t[1][1] = "{" /\ t[Len(t)][1] = "}"
     /\ LET m == SubSeq(t, 2, Len(t) - 1) IN AllComments(m) \/ IsMembers(m)

IsValue(t) == \E i \in 0 .. Len(t) - 1 : AllComments(SubSeq(t, 1, i)) /\ IsBare(SubSeq(t, i + 1, Len(t)))

IsElements(t) ==
  \E i \in 1 .. Len(t) :
    /\ IsValue(SubSeq(t, 1, i))
    /\ \E j \in i .. Len(t) :
         /\ AllComments(SubSeq(t, i + 1, j))
         /\ \/ j = Len(t)
            \/ t[j + 1][1] = "," /\ IsElements(SubSeq(t, j + 2, Len(t)))

IsMembers(t) ==
  \E c \in 0 .. Len(t) - 3 :
    /\ AllComments(SubSeq(t, 1, c)) /\ IsName(t[c + 1]) /\ t[c + 2][1] = ":"
    /\ \E i \in c + 3 .. Len(t) :
         /\ IsValue(SubSeq(t, c + 3, i))
         /\ \E j \in i .. Len(t) :
              /\ AllComments(SubSeq(t, i + 1, j))
              /\ \/ j = Len(t)
                 \/ LET rest == SubSeq(t, j + 2, Len(t))
                    IN /\ t[j + 1][1] = "," \/ (j > i /\ t[j + 1][1] # "}" /\ ~IsComment(t[j + 1]))
                       /\ IsMembers(rest) \/ (t[c + 1][2] = "" /\ AllComments(rest))

\* Reader takes a text, and has no error to tell of, exactly if it begins with a value.
Begins(text) == LET t == Visible(MinusApart(text)) IN \E i \in 1 .. Len(t) : IsValue(SubSeq(t, 1, i))
=============================================================================
