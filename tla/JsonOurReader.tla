--------------------------- MODULE JsonOurReader ---------------------------
(***************************************************************************)
(* OurReader (jsoncpp.cpp), which a CharReaderBuilder makes: "exact copy   *)
(* of Reader", with more features.  It is translated on its own, so that   *)
(* the copy can be held against the original; what is taken from           *)
(* JsonReader is what the two have word for word.                          *)
(***************************************************************************)
EXTENDS JsonReader

\* CharReaderBuilder::setDefaults and strictMode
Defaults == [allowComments |-> TRUE, strictRoot |-> FALSE, allowDroppedNulls |-> FALSE,
             allowNumericKeys |-> FALSE, allowSingleQuotes |-> FALSE, failIfExtra |-> FALSE,
             rejectDupKeys |-> FALSE, allowSpecialFloats |-> FALSE]
OurStrictMode == [Defaults EXCEPT !.allowComments = FALSE, !.strictRoot = TRUE,
                                  !.failIfExtra = TRUE, !.rejectDupKeys = TRUE]

OurTokenOf(f, shape) ==
  CASE shape = "quoted" -> IF f.allowSingleQuotes THEN "String" ELSE "Error"
    [] shape = "NaN"    -> IF f.allowSpecialFloats THEN "Literal" ELSE "Error"
    [] shape = "-Inf"   -> IF f.allowSpecialFloats THEN "Literal" ELSE "Error"
    [] shape = "'*"     -> IF f.allowSingleQuotes THEN "Error" ELSE "Comment"
    [] OTHER            -> TokenOf(shape)

OurTake(e, s, i, end) ==
  LET shape == e.text[i][1]
      kind == OurTokenOf(e.features, shape)
      content == IF kind = "Literal" THEN shape ELSE Content(e.text, i, end)
      r == [s EXCEPT !.pos = end + 1, !.token = <<kind, content>>]
  IN IF kind # "Comment" THEN r
     ELSE IF shape = "'*" /\ e.collect /\ SameLine(e, r, i, <<shape, content>>) THEN Throw(r)
     ELSE AddComment(e, r, i, <<shape, content>>)

OurTakeFrom(e, s, i) ==
  IF i > Len(e.text) THEN [s EXCEPT !.pos = i, !.token = <<"EndOfStream", "">>]
  ELSE OurTake(e, s, i, IF e.text[i][1] = "//" THEN LineEnd(e.text, i) ELSE i)

OurReadToken(e, s) == OurTakeFrom(e, s, SkipSpaces(e.text, s.pos))

RECURSIVE OurPastComments(_, _), OurRecover(_, _, _)
OurPastComments(e, s) ==
  LET r == OurReadToken(e, s)
  IN IF r.token[1] = "Comment" /\ ~r.thrown THEN OurPastComments(e, r) ELSE r

\* Mutant: comments are skipped where they are not allowed.
BugOurSkipCommentsAlways(e, s) == OurPastComments(e, s)

OurSkipComments(e, s) == IF e.features.allowComments THEN OurPastComments(e, s) ELSE OurReadToken(e, s)

OurRecover(e, s, until) ==
  LET r == OurReadToken(e, s)
  IN IF r.thrown \/ r.token[1] \in {until, "EndOfStream"} THEN [r EXCEPT !.ok = FALSE]
                                                          ELSE OurRecover(e, r, until)

OurFail(e, s, until) == IF s.thrown THEN s ELSE OurRecover(e, AddError(s), until)

\* setComment takes no comment that begins with a quote; it looks no further.
Unfit(e, s) == e.collect /\ s.before # <<>> /\ s.before[1][1] = "'*"

OurDecode(s, path, type) ==
  IF s.token[2] \in BadTexts THEN AddError(s) ELSE SetCurrent(s, path, type, s.token[2])

RECURSIVE OurReadValue(_, _, _), OurMembers(_, _, _, _), OurElements(_, _, _, _)

OurBehindSeparator(e, final, path, name) ==
  IF final.thrown \/ final.token[1] = "ObjectEnd" THEN final ELSE OurMembers(e, final, path, name)

OurSeparate(e, comma, path, name) ==
  CASE comma.token[1] \in {"ObjectEnd", "ArraySeparator"} \/ (comma.token[1] = "Comment" /\ comma.thrown) ->
         OurBehindSeparator(e, comma, path, name)
    [] comma.token[1] = "Comment" /\ ~comma.thrown -> OurBehindSeparator(e, OurPastComments(e, comma), path, name)
    [] OTHER -> OurFail(e, comma, "ObjectEnd")

OurBehindMember(e, v, path, name) ==
  IF v.ok THEN OurSeparate(e, OurReadToken(e, v), path, name)
  ELSE IF v.thrown THEN v
  ELSE OurRecover(e, v, "ObjectEnd")

OurMember(e, colon, path, name) ==
  LET child == Append(path, name)
  IN IF \/ colon.token[1] # "MemberSeparator"
        \/ e.features.rejectDupKeys /\ name \in DOMAIN Payload(At(colon.root, path))
       THEN OurFail(e, colon, "ObjectEnd")
     ELSE OurBehindMember(e, OurReadValue(e, Enter(colon, child), child), path, name)

OurName(e, n, path, last) ==
  LET kind == n.token[1]
      key == kind = "String" \/ (kind = "Number" /\ e.features.allowNumericKeys)
  IN IF n.thrown \/ (kind = "ObjectEnd" /\ last = "") THEN n
     ELSE IF key /\ n.token[2] \notin BadTexts THEN OurMember(e, OurReadToken(e, n), path, n.token[2])
     ELSE OurFail(e, n, "ObjectEnd")

OurMembers(e, s, path, last) == OurName(e, OurPastComments(e, s), path, last)

OurBehindElement(e, next, path, index) ==
  IF next.thrown \/ next.token[1] = "ArrayEnd" THEN next
  ELSE IF next.token[1] = "ArraySeparator" THEN OurElements(e, next, path, index + 1)
  ELSE OurFail(e, next, "ArrayEnd")

OurElement(e, v, path, index) ==
  IF v.thrown THEN v
  ELSE IF v.ok THEN OurBehindElement(e, OurPastComments(e, v), path, index)
  ELSE OurRecover(e, v, "ArrayEnd")

OurElements(e, s, path, index) ==
  LET child == Append(path, index)
  IN OurElement(e, OurReadValue(e, Enter(s, child), child), path, index)

OurReadArray(e, s, path) ==
  LET a == SetCurrent(s, path, "array", EmptyArray)
  IN IF ClosesAtOnce(e.text, SkipSpaces(e.text, s.pos)) THEN OurReadToken(e, a) ELSE OurElements(e, a, path, 0)

OurReadByKind(e, t, path, kind) ==
  CASE kind = "ObjectBegin" -> OurMembers(e, SetCurrent(t, path, "object", EmptyObject), path, "")
    [] kind = "ArrayBegin"  -> OurReadArray(e, t, path)
    [] kind = "Number"      -> OurDecode(t, path, "number")
    [] kind = "String"      -> OurDecode(t, path, "string")
    [] kind = "Literal"     -> SetCurrent(t, path, t.token[2], "")
    [] Dropped(e, kind)     -> SetCurrent([t EXCEPT !.pos = @ - 1], path, "null", "")
    [] OTHER                -> AddError(t)

OurReadFrom(e, t, path) == Remember(e, OurReadByKind(e, t, path, t.token[1]), path, t.token[1])

OurTakeComments(e, r, path) ==
  IF r.thrown THEN r
  ELSE IF Unfit(e, r) THEN Throw(r)
  ELSE OurReadFrom(e, TakeComments(e, r, path), path)

OurReadValue(e, s, path) ==
  IF Len(path) + 1 > StackLimit THEN Throw(s) ELSE OurTakeComments(e, OurSkipComments(e, s), path)

\* failIfExtra lets a token pass that is none, unless strictRoot is set too.
Extra(f, token) == f.failIfExtra /\ token # "EndOfStream" /\ (f.strictRoot \/ token # "Error")

OurFinish(e, r) ==
  IF r.thrown THEN Throw(r)
  ELSE IF Extra(e.features, r.token[1]) THEN AddError(r)
  ELSE IF Unfit(e, r) THEN Throw(r)
  ELSE CheckRoot(e, TakeLast(e, r))

OurReadRest(e, v) == IF v.thrown THEN v ELSE OurFinish(e, [OurSkipComments(e, v) EXCEPT !.ok = v.ok])

OurParse(text, f, collectComments) ==
  LET e == [text |-> text, features |-> f, collect |-> collectComments /\ f.allowComments]
  IN OurReadRest(e, OurReadValue(e, Start, <<>>))

-----------------------------------------------------------------------------
\* Without what is new in OurReader, and but for keys that are numbers, numbers sscanf
\* takes half of, a minus before an I, which is no number to it, and the single quote that falls through into a comment, the copy
\* makes the same of a text as the original.
SameFeatures(f) == [allowSingleQuotes |-> FALSE, failIfExtra |-> FALSE, rejectDupKeys |-> FALSE,
                    allowSpecialFloats |-> FALSE] @@ f
Common(text, f) ==
  /\ ~f.allowNumericKeys
  /\ \A i \in DOMAIN text : text[i][1] \notin {"'*", "-Inf"} /\ text[i] # <<"number", HalfText>>
=============================================================================
