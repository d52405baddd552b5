----------------------------- MODULE MCLibraries ----------------------------
(***************************************************************************)
(* The libraries the program is built with, side by side: the hash table,  *)
(* the timeout queue, the parts of the JSON library, and the program's own *)
(* readers of a step's data and of a request.  One part runs, the others   *)
(* stand still.  The part "read" types a text, "number", "string",         *)
(* "comment" and "path" the pieces of one, "write" has a Value given;      *)
(* "step" and "request" write theirs, and read it.                         *)
(***************************************************************************)
EXTENDS HashTable, TimeoutQueue, JsonOurReader, JsonWriter, JsonValue, JsonNumber, JsonString,
        StepData, HttpParser

CONSTANTS MaxText, MaxNumber, MaxString, MaxComment, MaxExponent, Precision

VARIABLES part, text, value, number, pieces, comment

typed == <<text, value, number, pieces, comment>>
jsonVars == <<valueVars, typed>>
vars == <<part, tableVars, queueVars, dataVars, httpVars, jsonVars>>

\* hash codes that meet in a bucket of one size and part in another
Hashes == [k \in Keys |-> CASE k = "a" -> 0 [] k = "b" -> 3 [] k = "c" -> 7]
Sizes == <<2, 3, 5>>

Assigned == {NullValue, Node("number", "1"), Node("object", EmptyObject)}
TwoNames == {"a", NulName}

Letters == {LF, CR, SP, Colon, "G", "/", "v", "a", "b"}

-----------------------------------------------------------------------------
Word == <<"string", "a">>
Remark(shape) == <<shape, "c">>
Lexemes == {Lex(s) : s \in {"{", "}", "[", "]", ",", ":", "true", "newline", "junk", "-Inf"}}
           \cup {Word, <<"string", "">>, <<"string", "\\x">>, <<"number", "1">>, <<"number", HalfText>>}
           \cup {Remark(s) : s \in {"/*", "//", "'*"}} \cup {<<"/*", Lines>>}

\* A comment of a line hides no comment of more than one: that would end in its midst.
IsText(t) ==
  \A i \in DOMAIN t : t[i][1] = "//" => \A k \in i + 1 .. LineEnd(t, i) : t[k][2] # Lines

\* Texts that lead to where a short one does not come.
Seeds == {<<Lex("{"), Word, Lex(":"), Remark("/*"), <<"number", "1">>, Lex(",")>>,
          <<Lex("{"), Word, Lex(":"), Lex("null"), Lex(","), Word, Lex(":"), Lex("true"), Lex("}")>>,
          <<Lex("["), Lex("["), Lex("]"), Remark("//"), Lex("newline"), Lex(","), <<"number", "1">>, Lex("]")>>,
          <<Lex("{"), Word, Lex(":"), Lex("["), Word, Lex("]"), Remark("/*"), Lex("}"), Remark("//")>>}

ReadAs(t) == IsText(t) /\ text' = t /\ UNCHANGED <<part, tableVars, queueVars, dataVars, httpVars, valueVars, value, number, pieces, comment>>
Read ==
  /\ part = "read"
  /\ \/ text \notin Seeds /\ Len(text) < MaxText /\ \E l \in Lexemes : ReadAs(Append(text, l))
     \/ text \in Seeds /\ \E i \in DOMAIN text :
          \/ ReadAs(RemoveAt(text, i))
          \/ \E l \in Lexemes : ReadAs([text EXCEPT ![i] = l]) \/ ReadAs(InsertAt(text, i, l))

\* Values three deep, with comments at all of their nodes, and where they end a line.
Comments1 == {<<Remark("/*")>>, <<Remark("//")>>, <<<<"/*", Lines>>>>}
Leaves == {NullValue, Node("number", "1"), Node("array", EmptyArray)}
Commented(v) ==
  {v} \cup {SetComment(v, c, p) : c \in Comments1, p \in {"commentBefore", "commentAfterOnSameLine"}}
      \cup {SetComment(v, <<Remark("//"), Remark("/*")>>, "commentBefore")}
Others == {Node("number", "1"), SetComment(NullValue, <<Remark("//")>>, "commentBefore")}
Around(v) ==
  {Node("array", <<v>>)} \cup {Node("array", <<v, w>>) : w \in Others}
  \cup {Node("object", [n \in {x} |-> v]) : x \in {"", NulName}}
  \cup {Node("object", [n \in {"a", "b"} |-> IF n = "a" THEN v ELSE Node("number", "1")])}

Depth(v) == IF ~IsContainer(v) \/ IsEmpty(v) THEN 0 ELSE 1
Deep(v) == Depth(v) = 1 /\ \E u \in Parts(v) \ {v} : Depth(u) = 1

Write ==
  /\ part = "write"
  /\ \/ Comments(value) = NoComments /\ value' \in Commented(value)
     \/ ~Deep(value) /\ value' \in Around(value)
  /\ UNCHANGED <<part, tableVars, queueVars, dataVars, httpVars, valueVars, text, number, pieces, comment>>

Characters == {"0", "1", "2", "3", "4", "6", "-", "+", ".", "e"}
WholeToken == ReadNumber(number) = Len(number) + 1
TypeNumber ==
  /\ part = "number" /\ Len(number) < MaxNumber /\ (number # <<>> => WholeToken)
  /\ \E c \in IF number = <<>> THEN Characters \ {"+", ".", "e"} ELSE Characters : number' = Append(number, c)
  /\ Parts10(number').exponent >= -MaxExponent
  /\ UNCHANGED <<part, tableVars, queueVars, dataVars, httpVars, valueVars, text, value, pieces, comment>>

\* Code points at the ends of ranges, and bytes that are none of a character's.
Points == {0, 8, 31, 32, 34, 47, 92, 127, 128, 2047, 2048, 55295, 57344, 65533, 65535, 65536, 128512, 1114111}
RawBytes == {128, 194, 224, 237, 240, 247, 255}
Pieces == {CodePointToUTF8(p) : p \in Points} \cup {<<b>> : b \in RawBytes}
AreCharacters == \A i \in DOMAIN pieces : pieces[i] \in {CodePointToUTF8(p) : p \in Points}
TypeString ==
  /\ part = "string" /\ Len(pieces) < MaxString /\ \E p \in Pieces : pieces' = Append(pieces, p)
  /\ UNCHANGED <<part, tableVars, queueVars, dataVars, httpVars, valueVars, text, value, number, comment>>

TypeComment ==
  /\ part = "comment" /\ Len(comment) < MaxComment
  /\ \E c \in {Slash, Star, NewLineByte, CarriageReturn, LetterU} : comment' = Append(comment, c)
  /\ UNCHANGED <<part, tableVars, queueVars, dataVars, httpVars, valueVars, text, value, number, pieces>>

\* A step's data: a few pieces of every kind, and each escape for the first.
Escape(x, high, low) == <<EscapeMark, x, high, low>>
Few == {<<c>> : c \in {EscapeMark, 120, 52, 100}}
       \cup {Escape(120, h, l) : h, l \in {48, 97, 102}} \cup {Escape(88, 48, 48)}
       \cup {<<EscapeMark, 120>>, <<EscapeMark, 120, 52>>}
Written == {written[k].as : k \in DOMAIN written}
UseStep ==
  /\ part = "step"
  /\ \/ /\ Len(written) < IF Written \subseteq Few THEN MaxString ELSE 2
        /\ \E p \in Few \cup IF written = <<>> THEN {Escape(120, h, l) : h, l \in HexDigit} ELSE {} : WritePiece(p)
     \/ \E stray \in {NUL, 1, 255} : TakeEscape(stray)
     \/ TakeByte
  /\ UNCHANGED <<part, tableVars, queueVars, httpVars, jsonVars>>

\* A request with headers of three names, with and without a blank and a value.
Requests == [method : {<<"G">>}, target : {<<"/", Colon>>}, version : {<<"v">>}, ended : LineEnds]
Fields == [name : {<<>>, <<"a">>, <<"b">>}, blank : {<<>>, <<SP>>}, value : {<<>>, <<"v">>, <<Colon>>}]
UseRequest ==
  /\ part = "request"
  /\ \/ \E a \in Requests : WriteRequest(a)
     \/ Len(fields) < MaxString /\ \E f \in Fields : WriteField(f)
     \/ CallParse
     \/ ReadRequestLine \/ SkipLine \/ TakeLine \/ ThrowAtLine
  /\ UNCHANGED <<part, tableVars, queueVars, dataVars, jsonVars>>

PathArguments == ({"array"} \X (Indices \cup {10, 23})) \cup ({"object"} \X {<<"a">>, <<"a", "1">>, <<"a", Nul, "b">>})
TypePath ==
  /\ part = "path" /\ Len(pieces) < MaxString
  /\ \E a \in PathArguments, given \in BOOLEAN : pieces' = Append(pieces, <<a, given>>)
  /\ UNCHANGED <<part, tableVars, queueVars, dataVars, httpVars, valueVars, text, value, number, comment>>

UseTable == part = "table" /\ TableNext /\ UNCHANGED <<part, queueVars, dataVars, httpVars, jsonVars>>
UseQueue == part = "queue" /\ QueueNext /\ UNCHANGED <<part, tableVars, dataVars, httpVars, jsonVars>>
UseValue == part = "value" /\ ValueNext /\ UNCHANGED <<part, tableVars, queueVars, dataVars, httpVars, typed>>

Init ==
  /\ TableInit /\ QueueInit /\ DataInit /\ HttpInit /\ ValueInit
  /\ part \in {"table", "queue", "value", "read", "write", "number", "string", "comment", "step", "request", "path"}
  /\ part # "table" => primeindex = 1
  /\ text \in IF part = "read" THEN {<<>>} \cup Seeds ELSE {<<>>}
  /\ value \in IF part = "write" THEN Leaves ELSE {NullValue}
  /\ number = <<>> /\ pieces = <<>> /\ comment = <<Slash>>

Next == UseTable \/ UseQueue \/ UseValue \/ Read \/ Write \/ TypeNumber \/ TypeString \/ TypeComment
        \/ UseStep \/ UseRequest \/ TypePath

Spec == Init /\ [][Next]_vars

-----------------------------------------------------------------------------
Features == {All, StrictMode, [All EXCEPT !.allowDroppedNulls = TRUE]}

Taken(r) == /\ r.thrown => Brackets(text) >= StackLimit
            /\ ~r.thrown => (r.ok <=> r.errors = 0) /\ (r.ok <=> Begins(text)) /\ Levels(r.root) <= StackLimit

\* Reader takes a text, and tells of no error, exactly if the text begins with a value of the
\* grammar it follows; whatever it has to recover from.  It throws only at a text nested as
\* deep as its limit, and no Value it makes is nested deeper (readValue, readObject, readArray and recoverFromError, jsoncpp.cpp:394-473, 690-782, 980-1010).
TextsTaken == part = "read" => Taken(Parse(text, All, TRUE))

SameRoot(strict, r) == strict.ok => r.ok /\ Bare(r.root) = Bare(strict.root)

\* OurReader, with the features of Reader, makes the same of every text: the same Value, the
\* same comments in the same places, the same number of errors, and it stops at the same
\* lexeme ("exact copy of Reader", jsoncpp.cpp:1060), but for what Common names; and a text it takes in strict mode it
\* takes in any, for the same Value, and Reader does.
ReadersAgree ==
  part = "read" =>
    /\ \A f \in Features : Common(text, f) => OurParse(text, SameFeatures(f), TRUE) = Parse(text, f, TRUE)
    /\ Common(text, All) => SameRoot(OurParse(text, OurStrictMode, TRUE), Parse(text, All, TRUE))

Holds(r, v, comments) == r.ok /\ (IF comments THEN r.root ELSE Bare(r.root)) = (IF comments THEN v ELSE Bare(v))
ReadsAs(t, dropped, v, comments) == Holds(Parse(t, [All EXCEPT !.allowDroppedNulls = dropped], TRUE), v, comments)

Commenting(v) == IF ~NoNulName(v) THEN {} ELSE {StyledWrite(v), StreamWrite(StyledStream, v)}
Plain(v, dropNulls) ==
  IF dropNulls /\ ~NoLoneNull(v) THEN {} ELSE {FastWrite(v, dropNulls), StreamWrite(Built(FALSE, FALSE, dropNulls), v)}
OnOneLine(v) == IF ~NoLineComment(v) THEN {} ELSE {StreamWrite(Built(FALSE, TRUE, FALSE), v)}

WriteAndRead(v) ==
  /\ \A t \in Commenting(v) \cup {StreamWrite(Built(TRUE, TRUE, FALSE), v)} : ReadsAs(t, FALSE, v, NoInnerAfter(v) /\ NoLinesAfter(v))
  /\ \A dropNulls \in BOOLEAN : \A t \in Plain(v, dropNulls) : ReadsAs(t, dropNulls, Bare(v), TRUE)
  /\ \A t \in OnOneLine(v) : ReadsAs(t, FALSE, v, FALSE)

\* What a writer writes the reader reads: a Value with its comments, each where it was, from
\* the three that write them, and without, from the others; for a Value as it is seen by its
\* size and its subscripts.  Except for names cut at a NUL by the two older writers, for
\* nulls dropped where nothing else is left, for what a // comment hides when no lines are
\* written, and for a commentAfter of what is not the root, and a comment of several lines
\* behind a value, which come to stand elsewhere; and what is nested deeper than the
\* reader goes it refuses (jsoncpp.cpp:4532-5330 with 394-782).
WrittenReadsBack ==
  /\ part = "write" => WriteAndRead(value)
  /\ part = "value" /\ Levels(root) <= StackLimit => WriteAndRead(Observe(root))

\* KeepsNumber and ConvertsExactly (JsonNumber), also of integers a program has put into a
\* Value of the other type.
BothTypes(v) ==
  {v} \cup IF v[1] = "real" THEN {}
           ELSE {<<t, v[2]>> : t \in {u \in {"int", "uint"} : v[2] \in IF u = "int" THEN minLargestInt .. maxLargestInt
                                                                                   ELSE 0 .. maxLargestUInt}}
NumbersKept ==
  part = "number" /\ number # <<>> /\ WholeToken =>
    /\ KeepsNumber(number, Precision)
    /\ LET v == DecodeNumber(number) IN v # None => \A w \in BothTypes(v) : ConvertsExactly(w)

\* ReadsBack and KeepsComment (JsonString).
StringsKept ==
  /\ part = "string" => ReadsBack(FlattenSeq(pieces), AreCharacters)
  /\ part = "comment" => KeepsComment(comment)

\* A token of a text stands for what was written: a number read is that number and written it
\* reads back, a string or a comment comes back as it was (jsoncpp.cpp:784-949, 4260-4513).
TokensKept == NumbersKept /\ StringsKept

\* CallsAsPromised, ComparesAndResolves and PathsRead (JsonValue): after any calls a Value holds
\* what it promises, is in order with others, and is found by the paths that lead to it.
ValuesAsPromised ==
  /\ part = "value" => CallsAsPromised /\ ComparesAndResolves
  /\ part = "path" => PathsRead([k \in DOMAIN pieces |-> pieces[k][1]], [k \in DOMAIN pieces |-> pieces[k][2]])
=============================================================================
