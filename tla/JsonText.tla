------------------------------ MODULE JsonText ------------------------------
(***************************************************************************)
(* What the readers and writers of the JSON library (jsoncpp.cpp) have in  *)
(* common: a text, cut into lexemes; and a Value with its comments.        *)
(*                                                                         *)
(* A lexeme is <<shape, content>>.  Blanks are left out but for the end of *)
(* a line; "//" takes what follows it on its line into the comment.        *)
(***************************************************************************)
EXTENDS Integers, Sequences, SequencesExt

Shapes == {"{", "}", "[", "]", ",", ":", "string", "number", "true", "false", "null",
           "/*", "//", "newline", "junk",
           "quoted",  \* 'a'
           "NaN",     \* one of the special floats
           "-Inf",    \* -Infinity, or no more of it than -I
           "'*"}      \* '*a*/

\* The content of a block comment that goes over lines, none of which begins with a slash.
Lines == "c\nc"
HasNewLine(lexeme) == lexeme[1] = "newline" \/ lexeme[2] = Lines

\* Texts of strings and numbers that no reader can decode, and one that only sscanf can.
BadTexts == {"\\x", "-e"}
HalfText == "1e"

\* A C string ends at a NUL; NulName is a name with one in it.
NulName == "a\\0b"
CStr(name) == IF name = NulName THEN "a" ELSE name

\* The order of CZString, in which a map has its members.
NameOrder == <<"", "a", NulName, "b">>

(***************************************************************************)
(* A Value: its type, its payload (a text, a sequence of Values, or a      *)
(* function from names to Values) and its comments by CommentPlacement.    *)
(***************************************************************************)
Placements == {"commentBefore", "commentAfterOnSameLine", "commentAfter"}
NoComments == [p \in Placements |-> <<>>]

Node(type, payload) == <<type, payload, NoComments>>
NullValue == Node("null", "")
Type(v) == v[1]
Payload(v) == v[2]
Comments(v) == v[3]
IsContainer(v) == Type(v) \in {"array", "object"}

\* Value::swapPayload leaves the comments where they are.
SwapPayload(v, type, payload) == <<type, payload, Comments(v)>>

\* Value::setComment
SetComment(v, text, placement) == <<Type(v), Payload(v), [Comments(v) EXCEPT ![placement] = text]>>

\* Children by index, from 0, or by name; what operator[] does not find it makes null.
Child(v, key) ==
  IF Type(v) = "array" THEN IF key < Len(Payload(v)) THEN Payload(v)[key + 1] ELSE NullValue
                       ELSE IF key \in DOMAIN Payload(v) THEN Payload(v)[key] ELSE NullValue

WithChild(v, key, w) ==
  IF Type(v) = "array"
    THEN SwapPayload(v, "array", [i \in 1 .. IF key < Len(Payload(v)) THEN Len(Payload(v)) ELSE key + 1 |->
                                    IF i = key + 1 THEN w ELSE Child(v, i - 1)])
    ELSE SwapPayload(v, "object", [n \in DOMAIN Payload(v) \cup {key} |->
                                     IF n = key THEN w ELSE Payload(v)[n]])

RECURSIVE At(_, _), With(_, _, _)
At(v, path) == IF path = <<>> THEN v ELSE At(Child(v, Head(path)), Tail(path))
With(v, path, w) ==
  IF path = <<>> THEN w ELSE WithChild(v, Head(path), With(Child(v, Head(path)), Tail(path), w))

EmptyArray == <<>>
EmptyObject == [n \in {} |-> NullValue]
=============================================================================
