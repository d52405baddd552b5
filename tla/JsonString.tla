----------------------------- MODULE JsonString -----------------------------
(***************************************************************************)
(* The strings and the comments of the JSON library (jsoncpp.cpp), byte by *)
(* byte: from a Value's UTF-8 to the quoted text of the writers, and from  *)
(* a text to the bytes the readers make of it.                             *)
(***************************************************************************)
EXTENDS Integers, Sequences, SequencesExt, FiniteSets, FiniteSetsExt

Quote == 34
SingleQuote == 39
Slash == 47
Backslash == 92
Star == 42
NewLineByte == 10
CarriageReturn == 13
LetterU == 117

\* \b \f \n \r \t: the letter behind the backslash and the byte it stands for
ShortEscapes == {<<98, 8>>, <<102, 12>>, <<110, 10>>, <<114, 13>>, <<116, 9>>, <<Quote, Quote>>,
                 <<Backslash, Backslash>>}
Bits(n, low, count) == (n \div 2^low) % 2^count

\* codePointToUTF8
CodePointToUTF8(cp) ==
  LET Next6(low) == 128 + Bits(cp, low, 6)
  IN CASE cp < 128 -> <<cp>>
       [] cp \in 128 .. 2047 -> <<192 + Bits(cp, 6, 5), Next6(0)>>
       [] cp \in 2048 .. 65535 -> <<224 + Bits(cp, 12, 4), Next6(6), Next6(0)>>
       [] cp \in 65536 .. 1114111 -> <<240 + Bits(cp, 18, 3), Next6(12), Next6(6), Next6(0)>>
       [] OTHER -> <<>>

Surrogates == 55296 .. 57343
Replacement == 65533

(***************************************************************************)
(* The writers.  utf8ToCodepoint: the code point at i, and the last byte   *)
(* it takes.  It looks at how many bytes there are, never at whether they  *)
(* may follow: it takes a quote for one.                                   *)
(***************************************************************************)
BytesOf(first) == IF first < 128 THEN 1 ELSE IF first < 224 THEN 2 ELSE IF first < 240 THEN 3
                  ELSE IF first < 248 THEN 4 ELSE 0
Smallest(count) == CASE count = 2 -> 128 [] count = 3 -> 2048 [] count = 4 -> 65536

Utf8ToCodepoint(bytes, i) ==
  LET count == BytesOf(bytes[i])
      lead == CASE count = 2 -> Bits(bytes[i], 0, 5) [] count = 3 -> Bits(bytes[i], 0, 4)
                [] count = 4 -> Bits(bytes[i], 0, 3)
      calculated == FoldLeft(LAMBDA n, b : 64 * n + Bits(b, 0, 6), lead, SubSeq(bytes, i + 1, i + count - 1))
      valid == calculated >= Smallest(count) /\ ~(count = 3 /\ calculated \in Surrogates)
  IN IF count = 1 THEN [cp |-> bytes[i], last |-> i]
     ELSE IF count = 0 \/ Len(bytes) - i + 1 < count THEN [cp |-> Replacement, last |-> i]
     ELSE [cp |-> IF valid THEN calculated ELSE Replacement, last |-> i + count - 1]

HexDigits == <<48, 49, 50, 51, 52, 53, 54, 55, 56, 57, 97, 98, 99, 100, 101, 102>>
ToHex16Bit(x) == [k \in 1 .. 4 |-> HexDigits[Bits(x, 16 - 4 * k, 4) + 1]]
UnicodeEscape(x) == <<Backslash, LetterU>> \o ToHex16Bit(x)

Escaped(cp) ==
  IF cp \in 32 .. 127 THEN <<cp>>
  ELSE IF cp < 65536 THEN UnicodeEscape(cp)
  ELSE UnicodeEscape(Bits(cp - 65536, 10, 22) + 55296) \o UnicodeEscape(Bits(cp, 0, 10) + 56320)

\* valueToQuotedStringN, from the byte i on; a string that is not empty is always escaped,
\* since isAnyCharRequiredQuoting says so of every byte of ASCII and of every other, where
\* char is signed.
RECURSIVE QuotedFrom(_, _)
QuotedFrom(bytes, i) ==
  LET short == {e \in ShortEscapes : e[2] = bytes[i]}
      c == Utf8ToCodepoint(bytes, i)
  IN IF i > Len(bytes) THEN <<>>
     ELSE IF short # {} THEN <<Backslash, (CHOOSE e \in short : TRUE)[1]>> \o QuotedFrom(bytes, i + 1)
     ELSE Escaped(c.cp) \o QuotedFrom(bytes, c.last + 1)

ValueToQuotedString(bytes) == <<Quote>> \o QuotedFrom(bytes, 1) \o <<Quote>>

(***************************************************************************)
(* The readers.  readString: where the token that begins at 1 ends, or 0   *)
(* if there is no quote to end it.                                         *)
(***************************************************************************)
RECURSIVE StringEnd(_, _, _)
StringEnd(text, i, quote) ==
  IF i > Len(text) THEN 0
  ELSE IF text[i] = Backslash THEN StringEnd(text, i + 2, quote)
  ELSE IF text[i] = quote THEN i ELSE StringEnd(text, i + 1, quote)

ReadString(text) == StringEnd(text, 2, Quote)
OurReadString(text) == StringEnd(text, 2, Quote)
OurReadStringSingleQuote(text) == StringEnd(text, 2, SingleQuote)

\* decodeUnicodeEscapeSequence: the number of the four digits from i on, or -1
HexValue(c) == CASE c \in 48 .. 57 -> c - 48 [] c \in 97 .. 102 -> c - 87 [] c \in 65 .. 70 -> c - 55
                 [] OTHER -> -1
DecodeUnicodeEscapeSequence(text, i, end) ==
  IF end - i < 4 \/ (\E k \in i .. i + 3 : HexValue(text[k]) = -1) THEN -1
  ELSE FoldLeft(LAMBDA n, c : 16 * n + HexValue(c), 0, SubSeq(text, i, i + 3))

\* decodeUnicodeCodePoint: the code point, and where it goes on; what follows the first half
\* of a surrogate pair is taken for its second, whatever it is
IsHigh(unicode) == unicode \in 55296 .. 56319
\* Mutant: the halves of a pair change places.
BugPairedLow(high, low) == 65536 + 1024 * Bits(low, 0, 10) + Bits(high, 0, 10)
Paired(high, low) == 65536 + 1024 * Bits(high, 0, 10) + Bits(low, 0, 10)

DecodeUnicodeCodePoint(text, i, end) ==
  LET unicode == DecodeUnicodeEscapeSequence(text, i, end)
      low == IF end - (i + 4) < 6 \/ text[i + 4] # Backslash \/ text[i + 5] # LetterU THEN -1
             ELSE DecodeUnicodeEscapeSequence(text, i + 6, end)
  IN IF unicode = -1 \/ ~IsHigh(unicode) THEN [cp |-> unicode, next |-> i + 4]
     ELSE [cp |-> IF low = -1 THEN -1 ELSE Paired(unicode, low), next |-> i + 10]

\* decodeString, from i on, of a token whose last quote is at end: the bytes, or Bad as
\* their last if it refuses the string
Bad == -1
ReadEscapes == ShortEscapes \cup {<<Slash, Slash>>}

RECURSIVE DecodeFrom(_, _, _)
DecodeFrom(text, i, end) ==
  LET escape == {e \in ReadEscapes : e[1] = text[i + 1]}
      u == DecodeUnicodeCodePoint(text, i + 2, end)
  IN IF i = end THEN <<>>
     ELSE IF text[i] # Backslash THEN <<text[i]>> \o DecodeFrom(text, i + 1, end)
     ELSE IF i + 1 = end THEN <<Bad>>
     ELSE IF escape # {} THEN <<(CHOOSE e \in escape : TRUE)[2]>> \o DecodeFrom(text, i + 2, end)
     ELSE IF text[i + 1] # LetterU \/ u.cp = -1 THEN <<Bad>>
     ELSE CodePointToUTF8(u.cp) \o DecodeFrom(text, u.next, end)

DecodeString(token) == DecodeFrom(token, 2, Len(token))
OurDecodeString(token) == DecodeFrom(token, 2, Len(token))

(***************************************************************************)
(* readComment, of a text that begins with a slash: where the comment      *)
(* ends, or 0 if it is none; and what addComment and setComment keep.      *)
(***************************************************************************)
ByteAt(text, i) == IF i \in DOMAIN text THEN text[i] ELSE 0

\* readCStyleComment: behind the first */, or, if there is none, at the end of a text whose
\* last byte happens to be a slash
StarSlash(text) == {i \in 3 .. Len(text) - 1 : text[i] = Star /\ text[i + 1] = Slash}
CStyleEnd(text) == IF StarSlash(text) # {} THEN Min(StarSlash(text)) + 1
                   ELSE IF Len(text) > 2 /\ Last(text) = Slash THEN Len(text) ELSE 0

\* readCppStyleComment: behind the end of the line, however that is written
IsLineEnd(text, i) == text[i] \in {NewLineByte, CarriageReturn}
CppStyleEnd(text) ==
  LET end == Min({i \in 3 .. Len(text) : IsLineEnd(text, i)} \cup {Max({2, Len(text)})})
  IN IF ByteAt(text, end) = CarriageReturn /\ ByteAt(text, end + 1) = NewLineByte THEN end + 1 ELSE end

ReadComment(text) == CASE ByteAt(text, 2) = Star  -> CStyleEnd(text)
                       [] ByteAt(text, 2) = Slash -> CppStyleEnd(text)
                       [] OTHER -> 0

NormalizeEOL(text) ==
  FlattenSeq([i \in DOMAIN text |->
                IF text[i] = CarriageReturn
                  THEN IF ByteAt(text, i + 1) = NewLineByte THEN <<>> ELSE <<NewLineByte>>
                  ELSE <<text[i]>>])

\* Value::setComment
WithoutLastEnd(comment) == IF Last(comment) = NewLineByte THEN Front(comment) ELSE comment
KeptComment(text) == WithoutLastEnd(NormalizeEOL(SubSeq(text, 1, ReadComment(text))))

-----------------------------------------------------------------------------
\* What a writer makes of a string is ASCII, and a token of a string the readers take,
\* whatever the bytes; and they make the same string of it, if it was one of characters,
\* which are quoted as they are, in short, by number or as a surrogate pair (4355-4508,
\* 858-978 of jsoncpp.cpp, and the copy of it in OurReader).  OurReader makes the same of it
\* between single quotes, unless there is one in it.
ReadsBack(bytes, areCharacters) ==
  LET token == ValueToQuotedString(bytes)
      single == <<SingleQuote>> \o QuotedFrom(bytes, 1) \o <<SingleQuote>>
      decoded == DecodeString(token)
  IN /\ Range(token) \subseteq 32 .. 127
     /\ ReadString(token) = Len(token) /\ OurReadString(token) = Len(token)
     /\ SingleQuote \notin Range(bytes) => OurReadStringSingleQuote(single) = Len(single)
     /\ \A d \in {decoded, OurDecodeString(token), OurDecodeString(single)} : Bad \notin Range(d)
     /\ areCharacters => {decoded, OurDecodeString(token), OurDecodeString(single)} = {bytes}

\* A comment the readers take ends where it ought to, and one that ends with its line is
\* kept as one line, so that nothing of it is left when it is written in front of a value
\* (566-654, 3919-3929).
KeepsComment(text) ==
  LET end == ReadComment(text)
      kept == KeptComment(text)
  IN end # 0 =>
       /\ CarriageReturn \notin Range(kept)
       /\ text[2] = Slash => NewLineByte \notin Range(kept)
       /\ text[2] = Star => /\ text[end] = Slash
                            /\ \A i \in 3 .. end - 2 : ~(text[i] = Star /\ text[i + 1] = Slash)
=============================================================================
