----------------------------- MODULE HttpParser -----------------------------
(***************************************************************************)
(* httpparser::parse (httpparser.C) of a request that someone has written  *)
(* header by header; the loop takes a line a turn.  A character is a       *)
(* string of one; LF, CR and SP stand for theirs.                          *)
(***************************************************************************)
EXTENDS Integers, Sequences, FiniteSetsExt

CONSTANT Alphabet \* the characters of a request

LF == "\n"
CR == "\r"
SP == " "
Colon == ":"

ASSUME HttpAssumption == {LF, CR, SP, Colon} \subseteq Alphabet

VARIABLES
  str,       \* the request
  asked,     \* history: its method and target, and what its lines end with
  fields,    \* history: the headers it was written with, and where each begins
  parsing,   \* "not" while it is written, "called", "lines" in the loop, "thrown"
  pos1,      \* where the loop goes on, counted from 1
  m_type, m_url, m_headers

httpVars == <<str, asked, fields, parsing, pos1, m_type, m_url, m_headers>>

Text == Seq(Alphabet)
Without(t, characters) == \A n \in DOMAIN t : t[n] \notin characters
LineEnds == {<<CR, LF>>, <<LF>>}
Asked == [method : {t \in Text : Without(t, {SP, LF})}, target : {t \in Text : Without(t, {SP, LF})},
          version : {t \in Text : Without(t, {LF})}, ended : LineEnds]
Field == [name : {t \in Text : Without(t, {Colon, LF})}, blank : {<<>>, <<SP>>},
          value : {t \in Text : Without(t, {LF})}]

Nothing == [method |-> <<>>, target |-> <<>>, version |-> <<>>, ended |-> <<>>]

HttpInit ==
  /\ str = <<>> /\ asked = Nothing /\ fields = <<>> /\ parsing = "not" /\ pos1 = 1
  /\ m_type = <<>> /\ m_url = <<>> /\ m_headers = <<>>

UnparsedVars == <<pos1, m_type, m_url, m_headers>>

WriteRequest(a) ==
  /\ asked = Nothing
  /\ str' = a.method \o <<SP>> \o a.target \o <<SP>> \o a.version \o a.ended
  /\ asked' = a
  /\ UNCHANGED <<fields, parsing, UnparsedVars>>

LineOf(f) == f.name \o <<Colon>> \o f.blank \o f.value

WriteField(f) ==
  /\ parsing = "not" /\ asked # Nothing
  /\ str' = str \o LineOf(f) \o asked.ended
  /\ fields' = Append(fields, [at |-> Len(str) + 1, as |-> f])
  /\ UNCHANGED <<asked, parsing, UnparsedVars>>

\* An empty line ends the headers, and parse is called.
CallParse ==
  /\ parsing = "not" /\ asked # Nothing
  /\ str' = str \o asked.ended
  /\ parsing' = "called"
  /\ UNCHANGED <<asked, fields, UnparsedVars>>

\* text.find(c, from): npos is 0
PlacesOf(text, c, from) == {n \in from .. Len(text) : text[n] = c}
Find(text, c, from) == IF PlacesOf(text, c, from) = {} THEN 0 ELSE Min(PlacesOf(text, c, from))

\* m_type and m_url: the second with the blank behind it
RequestLine == IF Find(str, LF, 1) = 0 THEN str ELSE SubSeq(str, 1, Find(str, LF, 1) - 1)

ReadRequestLine ==
  /\ parsing = "called"
  /\ LET header == RequestLine
         pos4 == Find(header, SP, 1)
         pos5 == Find(header, SP, pos4 + 1)
     IN /\ m_type' = IF pos4 = 0 THEN <<>> ELSE SubSeq(header, 1, pos4 - 1)
        /\ m_url' = IF pos4 = 0 \/ pos5 = 0 THEN <<>> ELSE SubSeq(header, pos4 + 1, pos5)
  /\ pos1' = Find(str, LF, 1) + 1
  /\ parsing' = "lines"
  /\ UNCHANGED <<str, asked, fields, m_headers>>

\* Mutant: the value begins at the blank.
BugValueOf(line) == SubSeq(line, Find(line, Colon, 1) + 1, Len(line))

\* substr(pos3 + 2, ...), which throws where the line ends with its colon
ValueOf(line) == SubSeq(line, Find(line, Colon, 1) + 2, Len(line))
Throws(line) == Find(line, Colon, 1) = Len(line) /\ line # <<>>

\* m_headers.insert keeps what is there.
Inserted(key, value) ==
  [k \in DOMAIN m_headers \cup {key} |-> IF k \in DOMAIN m_headers THEN m_headers[k] ELSE value]

\* A turn of the loop, at each line that ends, those of a body too
pos2 == Find(str, LF, pos1)
Line == SubSeq(str, pos1, pos2 - 1)
AtLine == parsing = "lines" /\ pos2 # 0

SkipLine ==
  /\ AtLine /\ Find(Line, Colon, 1) = 0
  /\ pos1' = pos2 + 1
  /\ UNCHANGED <<str, asked, fields, parsing, m_type, m_url, m_headers>>

TakeLine ==
  /\ AtLine /\ Find(Line, Colon, 1) # 0 /\ ~Throws(Line)
  /\ m_headers' = Inserted(SubSeq(Line, 1, Find(Line, Colon, 1) - 1), ValueOf(Line))
  /\ pos1' = pos2 + 1
  /\ UNCHANGED <<str, asked, fields, parsing, m_type, m_url>>

ThrowAtLine ==
  /\ AtLine /\ Throws(Line)
  /\ parsing' = "thrown"
  /\ UNCHANGED <<str, asked, fields, UnparsedVars>>

HttpNext ==
  \/ \E a \in Asked : WriteRequest(a)
  \/ \E f \in Field : WriteField(f)
  \/ CallParse
  \/ ReadRequestLine \/ SkipLine \/ TakeLine \/ ThrowAtLine

HttpSpec == HttpInit /\ [][HttpNext]_httpVars

-----------------------------------------------------------------------------
Parsed == parsing = "lines" /\ pos2 = 0

\* What stands behind the colon of a header, and what is left of it.
BehindColon(f) == f.blank \o f.value \o SubSeq(asked.ended, 1, Len(asked.ended) - 1)
Lost(k) == BehindColon(fields[k].as) = <<>>
First(k) == \A m \in 1 .. k - 1 : fields[m].as.name # fields[k].as.name

\* Of a request whose headers are each written with a colon and a blank, the parser finds the
\* method, the target with a blank, and of each name the first header, its value with a CR;
\* one without the blank loses a character; and it throws only, and always, where a line ends
\* with the colon of a header that has no value (httpparser.C:10-38).
RequestsParsed ==
  /\ Parsed \/ parsing = "thrown" =>
       /\ m_type = asked.method /\ m_url = asked.target \o <<SP>>
       /\ parsing = "thrown" <=> \E k \in DOMAIN fields : Lost(k)
  /\ Parsed =>
       /\ DOMAIN m_headers = {fields[k].as.name : k \in DOMAIN fields}
       /\ \A k \in DOMAIN fields : First(k) => m_headers[fields[k].as.name] = Tail(BehindColon(fields[k].as))
=============================================================================
