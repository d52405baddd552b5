----------------------------- MODULE JsonWriter -----------------------------
(***************************************************************************)
(* The writers of the JSON library (jsoncpp.cpp), from a Value to a text:  *)
(* FastWriter; StyledWriter; and the two that write to a stream,           *)
(* StyledStreamWriter and the one StreamWriterBuilder makes.  Blanks are   *)
(* left out, but ends of lines count, for where a // comment ends.         *)
(***************************************************************************)
EXTENDS JsonText

CONSTANT LongArray \* elements that do not fit on a line

ASSUME WriterAssumption == LongArray \in Nat

Lex(shape) == <<shape, "">>

\* getMemberNames() is in the order of the map, in which every writer writes.
MemberNames(v) == SelectSeq(NameOrder, LAMBDA n : n \in DOMAIN Payload(v))

ScalarText(v) == IF Type(v) \in {"string", "number"} THEN <<<<Type(v), Payload(v)>>>> ELSE <<Lex(Type(v))>>

HasComment(v, placement) == Comments(v)[placement] # <<>>
HasCommentForValue(v) == \E p \in Placements : HasComment(v, p)
IsEmpty(v) == Payload(v) \in {EmptyArray, EmptyObject}

\* Mutant: the comments of a value are put one behind the other.
BugCommentTextJoined(comments) == comments

\* Between two comments of one value there is the end of line of the first, if it is a
\* // comment; setComment has taken away the last one.
CommentText(comments) ==
  FlattenSeq([i \in DOMAIN comments |->
                IF i < Len(comments) /\ comments[i][1] = "//" THEN <<comments[i], Lex("newline")>>
                                                              ELSE <<comments[i]>>])

(***************************************************************************)
(* FastWriter::writeValue                                                  *)
(***************************************************************************)
Joined(texts) == FlattenSeq([i \in DOMAIN texts |-> IF i = 1 THEN texts[i] ELSE <<Lex(",")>> \o texts[i]])

RECURSIVE FastWrite(_, _)
FastWrite(v, dropNulls) ==
  CASE Type(v) = "array" ->
         <<Lex("[")>> \o Joined([i \in DOMAIN Payload(v) |-> FastWrite(Payload(v)[i], dropNulls)]) \o <<Lex("]")>>
    [] Type(v) = "object" ->
         LET names == MemberNames(v)
         IN <<Lex("{")>>
            \o Joined([i \in DOMAIN names |->
                         <<<<"string", names[i]>>, Lex(":")>> \o FastWrite(Payload(v)[names[i]], dropNulls)])
            \o <<Lex("}")>>
    [] Type(v) = "null" /\ dropNulls -> <<>>
    [] OTHER -> ScalarText(v)

(***************************************************************************)
(* The other writers put an array on one line only if isMultilineArray     *)
(* says so; all of its elements are then scalars or empty.                 *)
(***************************************************************************)
IsMultilineArray(v) ==
  \/ Len(Payload(v)) >= LongArray
  \/ \E i \in DOMAIN Payload(v) :
       LET child == Payload(v)[i] IN (IsContainer(child) /\ ~IsEmpty(child)) \/ HasCommentForValue(child)

EmptyText(v) == IF Type(v) = "array" THEN <<Lex("["), Lex("]")>> ELSE <<Lex("{"), Lex("}")>>
Flat(v) == IF IsContainer(v) THEN EmptyText(v) ELSE ScalarText(v)

(***************************************************************************)
(* StyledWriter: d is document_.                                           *)
(***************************************************************************)
WriteIndent(d) == IF d = <<>> \/ Last(d)[1] \in {":", "newline"} THEN d ELSE Append(d, Lex("newline"))

WriteCommentBefore(d, v) ==
  IF ~HasComment(v, "commentBefore") THEN d
  ELSE WriteIndent(Append(d, Lex("newline"))) \o CommentText(Comments(v)["commentBefore"]) \o <<Lex("newline")>>

WriteCommentAfter(d, v) ==
  LET same == d \o CommentText(Comments(v)["commentAfterOnSameLine"])
  IN IF ~HasComment(v, "commentAfter") THEN same
     ELSE Append(same, Lex("newline")) \o CommentText(Comments(v)["commentAfter"]) \o <<Lex("newline")>>

RECURSIVE StyledValue(_, _), StyledMembers(_, _, _), StyledElements(_, _, _)

StyledMembers(d, v, i) ==
  LET names == MemberNames(v)
      child == Payload(v)[names[i]]
      named == WriteIndent(WriteCommentBefore(d, child)) \o <<<<"string", CStr(names[i])>>, Lex(":")>>
      valued == StyledValue(named, child)
  IN IF i = Len(names) THEN WriteCommentAfter(valued, child)
                       ELSE StyledMembers(WriteCommentAfter(Append(valued, Lex(",")), child), v, i + 1)

StyledElements(d, v, i) ==
  LET child == Payload(v)[i]
      valued == StyledValue(WriteIndent(WriteCommentBefore(d, child)), child)
  IN IF i = Len(Payload(v)) THEN WriteCommentAfter(valued, child)
                            ELSE StyledElements(WriteCommentAfter(Append(valued, Lex(",")), child), v, i + 1)

StyledValue(d, v) ==
  IF ~IsContainer(v) \/ IsEmpty(v) THEN d \o Flat(v)
  ELSE IF Type(v) = "object"
    THEN Append(WriteIndent(StyledMembers(Append(WriteIndent(d), Lex("{")), v, 1)), Lex("}"))
  ELSE IF IsMultilineArray(v)
    THEN Append(WriteIndent(StyledElements(Append(WriteIndent(d), Lex("[")), v, 1)), Lex("]"))
  ELSE d \o <<Lex("[")>> \o Joined([i \in DOMAIN Payload(v) |-> Flat(Payload(v)[i])]) \o <<Lex("]")>>

StyledWrite(v) == Append(WriteCommentAfter(StyledValue(WriteCommentBefore(<<>>, v), v), v), Lex("newline"))

(***************************************************************************)
(* The stream writers: w is what is written, and indented_.  k is what     *)
(* they differ in: StyledStreamWriter has no choice.                       *)
(***************************************************************************)
StyledStream == [indent |-> TRUE, comments |-> TRUE, allMultiline |-> FALSE, dropNulls |-> FALSE, built |-> FALSE]

\* StreamWriterBuilder::newStreamWriter
Built(indent, comments, dropNulls) ==
  [indent |-> indent, comments |-> comments, allMultiline |-> comments, dropNulls |-> dropNulls, built |-> TRUE]

\* Without an indentation there are no ends of lines either.
NewLine(k, w) == IF k.indent THEN [w EXCEPT !.out = Append(@, Lex("newline"))] ELSE w
EnsureIndent(k, w) == IF w.indented THEN w ELSE NewLine(k, w)
Push(w, text) == [w EXCEPT !.out = @ \o text]
PushIndented(k, w, text) == [Push(EnsureIndent(k, w), text) EXCEPT !.indented = FALSE]

StreamCommentBefore(k, w, v) ==
  IF ~k.comments \/ ~HasComment(v, "commentBefore") THEN w
  ELSE PushIndented(k, w, CommentText(Comments(v)["commentBefore"]))

StreamCommentAfter(k, w, v) ==
  LET same == Push(w, CommentText(Comments(v)["commentAfterOnSameLine"]))
      after == IF HasComment(v, "commentAfter")
                 THEN Push(NewLine(k, same), CommentText(Comments(v)["commentAfter"])) ELSE same
  IN IF ~k.comments THEN w ELSE IF k.built THEN after ELSE [after EXCEPT !.indented = FALSE]

StreamFlat(k, v) == IF Type(v) = "null" /\ k.dropNulls THEN <<>> ELSE Flat(v)
StreamName(k, name) == <<"string", IF k.built THEN name ELSE CStr(name)>>

RECURSIVE StreamValue(_, _, _), StreamMembers(_, _, _, _), StreamElements(_, _, _, _)

StreamMembers(k, w, v, i) ==
  LET names == MemberNames(v)
      child == Payload(v)[names[i]]
      named == PushIndented(k, StreamCommentBefore(k, w, child), <<StreamName(k, names[i])>>)
      valued == StreamValue(k, Push(named, <<Lex(":")>>), child)
  IN IF i = Len(names) THEN StreamCommentAfter(k, valued, child)
                       ELSE StreamMembers(k, StreamCommentAfter(k, Push(valued, <<Lex(",")>>), child), v, i + 1)

StreamElements(k, w, v, i) ==
  LET child == Payload(v)[i]
      placed == EnsureIndent(k, StreamCommentBefore(k, w, child))
      valued == [StreamValue(k, [placed EXCEPT !.indented = TRUE], child) EXCEPT !.indented = FALSE]
  IN IF i = Len(Payload(v)) THEN StreamCommentAfter(k, valued, child)
                            ELSE StreamElements(k, StreamCommentAfter(k, Push(valued, <<Lex(",")>>), child), v, i + 1)

StreamValue(k, w, v) ==
  IF ~IsContainer(v) \/ IsEmpty(v) THEN Push(w, StreamFlat(k, v))
  ELSE IF Type(v) = "object"
    THEN PushIndented(k, StreamMembers(k, PushIndented(k, w, <<Lex("{")>>), v, 1), <<Lex("}")>>)
  ELSE IF k.allMultiline \/ IsMultilineArray(v)
    THEN PushIndented(k, StreamElements(k, PushIndented(k, w, <<Lex("[")>>), v, 1), <<Lex("]")>>)
  ELSE Push(w, <<Lex("[")>> \o Joined([i \in DOMAIN Payload(v) |-> StreamFlat(k, Payload(v)[i])]) \o <<Lex("]")>>)

StreamWrite(k, v) ==
  LET w == EnsureIndent(k, StreamCommentBefore(k, [out |-> <<>>, indented |-> TRUE], v))
      r == StreamCommentAfter(k, StreamValue(k, [w EXCEPT !.indented = TRUE], v), v)
  IN IF k.built THEN r.out ELSE Append(r.out, Lex("newline"))

-----------------------------------------------------------------------------
\* A value without its comments.
RECURSIVE Bare(_)
Bare(v) ==
  CASE Type(v) = "array" -> Node("array", [i \in DOMAIN Payload(v) |-> Bare(Payload(v)[i])])
    [] Type(v) = "object" -> Node("object", [n \in DOMAIN Payload(v) |-> Bare(Payload(v)[n])])
    [] OTHER -> Node(Type(v), Payload(v))

RECURSIVE Parts(_)
Parts(v) ==
  {v} \cup (CASE Type(v) = "array" -> UNION {Parts(Payload(v)[i]) : i \in DOMAIN Payload(v)}
              [] Type(v) = "object" -> UNION {Parts(Payload(v)[n]) : n \in DOMAIN Payload(v)}
              [] OTHER -> {})

NoNulName(v) == \A u \in Parts(v) : Type(u) = "object" => NulName \notin DOMAIN Payload(u)
NoLineComment(v) ==
  \A u \in Parts(v), p \in Placements : \A i \in DOMAIN Comments(u)[p] : Comments(u)[p][i][1] # "//"

\* The readers give a commentAfter to the root alone.
NoInnerAfter(v) == \A u \in Parts(v) \ {v} : ~HasComment(u, "commentAfter")

\* What is behind a value on its line ends on it.
NoLinesAfter(v) ==
  \A u \in Parts(v) : \A i \in DOMAIN Comments(u)["commentAfterOnSameLine"] :
    ~HasNewLine(Comments(u)["commentAfterOnSameLine"][i])

\* Null that leaves nothing behind when it is dropped: the whole, or all of an array.
NoLoneNull(v) ==
  /\ Type(v) # "null"
  /\ \A u \in Parts(v) : Type(u) = "array" /\ Len(Payload(u)) = 1 => Type(Payload(u)[1]) # "null"
=============================================================================
