----------------------------- MODULE JsonNumber -----------------------------
(***************************************************************************)
(* The numbers of the JSON library (jsoncpp.cpp): from a text to a Value,  *)
(* from a Value to an integer type, and back to a text.                    *)
(*                                                                         *)
(* A text is a sequence of characters.  A number is <<type, n>>, where n   *)
(* counts halves if the type is "real".  The widths are scaled down: a     *)
(* double is a whole number of halves with at most Mantissa binary digits  *)
(* before zeros, so that, as in the code, it tells all values of Int and   *)
(* UInt apart and rounds maxInt64 and maxUInt64 up to powers of two; one   *)
(* of 2^DoubleBits halves is infinite.  The buffer a real is written to is *)
(* as scarce as the one of 36 characters is for doubles: it holds all      *)
(* digits that tell one from another, but not all of the largest.          *)
(***************************************************************************)
EXTENDS Integers, Sequences, SequencesExt, FiniteSets, FiniteSetsExt

CONSTANTS IntBits, LargestBits, Mantissa, DoubleBits, BufferSize

ASSUME NumberAssumption ==
  /\ {IntBits, LargestBits, Mantissa, DoubleBits, BufferSize} \subseteq Nat \ {0}
  /\ IntBits < Mantissa /\ Mantissa < LargestBits - 1 /\ LargestBits + 1 < DoubleBits

minInt == -(2^(IntBits - 1))
maxInt == 2^(IntBits - 1) - 1
maxUInt == 2^IntBits - 1
minLargestInt == -(2^(LargestBits - 1))
maxLargestInt == 2^(LargestBits - 1) - 1
maxLargestUInt == 2^LargestBits - 1

Digits == <<"0", "1", "2", "3", "4", "5", "6", "7", "8", "9">>
DigitValue(c) == SelectInSeq(Digits, LAMBDA d : d = c) - 1
IsDigit(c) == DigitValue(c) >= 0
CharAt(text, i) == IF i \in DOMAIN text THEN text[i] ELSE ""

(***************************************************************************)
(* readNumber: where the token ends, if its first character is at 1.       *)
(***************************************************************************)
DigitsEnd(text, i) == Min({j \in i .. Len(text) : ~IsDigit(text[j])} \cup {Max({i, Len(text) + 1})})

ExponentEnd(text, i) ==
  IF CharAt(text, i) # "e" THEN i
  ELSE DigitsEnd(text, IF CharAt(text, i + 1) \in {"+", "-"} THEN i + 2 ELSE i + 1)

ReadNumber(text) ==
  LET i == DigitsEnd(text, 2)
  IN ExponentEnd(text, IF CharAt(text, i) = "." THEN DigitsEnd(text, i + 1) ELSE i)

\* OurReader's, which looks for -Infinity first
OurReadNumber(text, checkInf) == IF checkInf /\ CharAt(text, 2) = "I" THEN 3 ELSE ReadNumber(text)

(***************************************************************************)
(* What the standard library reads a text as: the nearest double.          *)
(***************************************************************************)
Step(n) == CHOOSE s \in {2^k : k \in 0 .. 30 - Mantissa} :
             n < s * 2^Mantissa /\ (s = 1 \/ n >= (s \div 2) * 2^Mantissa)

\* n in units, ties to even
RoundedBy(n, unit) ==
  LET twice == 2 * (n % unit)
  IN IF twice > unit \/ (twice = unit /\ (n \div unit) % 2 = 1) THEN n \div unit + 1 ELSE n \div unit

\* of num/den halves
InSteps(num, step, den) == RoundedBy(num, step * den) * step
Nearest(num, den) == InSteps(num, Step(num \div den), den)

Double(n) == IF n < 0 THEN -Nearest(-2 * n, 1) ELSE Nearest(2 * n, 1)

Value10(digits) == FoldLeft(LAMBDA n, d : 10 * n + DigitValue(d), 0, digits)

IsNegative(text) == CharAt(text, 1) = "-"
Unsigned(text) == IF IsNegative(text) THEN Tail(text) ELSE text

\* The parts of a token: the digits without the point, how many stand behind it, the exponent;
\* e is where the exponent begins.
PartsAt(t, e) ==
  LET mantissa == SubSeq(t, 1, e - 1)
      exponent == SelectSeq(SubSeq(t, e, Len(t)), IsDigit)
  IN [digits |-> SelectSeq(mantissa, IsDigit),
      fraction |-> IF Contains(mantissa, ".") THEN e - SelectInSeq(mantissa, LAMBDA c : c = ".") - 1 ELSE 0,
      exponent |-> IF CharAt(t, e + 1) = "-" THEN -Value10(exponent) ELSE Value10(exponent),
      half |-> e <= Len(t) /\ exponent = <<>>]
PartsOf(t) == PartsAt(t, IF Contains(t, "e") THEN SelectInSeq(t, LAMBDA c : c = "e") ELSE Len(t) + 1)
Parts10(token) == PartsOf(Unsigned(token))

Infinity == 2^DoubleBits
IsInfinite(v) == v[1] = "real" /\ v[2] \in {Infinity, -Infinity}

\* 10^k is more than 2^(3k).
Halves(p) ==
  LET k == p.exponent - p.fraction
      n == 2 * Value10(p.digits)
      half == IF 3 * k >= DoubleBits THEN IF n = 0 THEN 0 ELSE Infinity
              ELSE IF k >= 0 THEN Nearest(n * 10^k, 1) ELSE Nearest(n, 10^(-k))
  IN Min({half, Infinity})

None == <<"none", 0>>

\* decodeDouble: Reader's stream refuses an exponent without digits, and a number larger than
\* any double; OurReader's sscanf takes what is before the exponent, and infinity.
Real(negative, p) == <<"real", IF negative THEN -Halves(p) ELSE Halves(p)>>
RealUnless(refused, real, ours) == IF refused \/ (IsInfinite(real) /\ ~ours) THEN None ELSE real
RealOf(negative, p, ours) == RealUnless(p.digits = <<>> \/ (p.half /\ ~ours), Real(negative, p), ours)
DecodeDouble(token) == RealOf(IsNegative(token), Parts10(token), FALSE)
OurDecodeDouble(token) == RealOf(IsNegative(token), Parts10(token), TRUE)

(***************************************************************************)
(* decodeNumber, with decodeDouble for what is not an integer or too large *)
(* for one.  OurReader negates minLargestInt, which is undefined; it is    *)
(* taken to wrap, and makes the limit Reader has.                          *)
(***************************************************************************)
TooLarge == -1
\* Mutant: the last digit is not looked at.
BugExceedsOne(value, digit, isLast, limit) ==
  value > limit \div 10 \/ (value = limit \div 10 /\ ~isLast)

Exceeds(value, digit, isLast, limit) ==
  value > limit \div 10 \/ (value = limit \div 10 /\ (~isLast \/ digit > limit % 10))

Accumulate(digits, limit) ==
  LET Next10(value, i) ==
        LET digit == DigitValue(digits[i])
        IN IF value = TooLarge \/ Exceeds(value, digit, i = Len(digits), limit) THEN TooLarge
           ELSE value * 10 + digit
  IN FoldLeftDomain(Next10, 0, digits)

Typed(isNegative, value) ==
  IF isNegative THEN <<"int", -value>> ELSE IF value <= maxInt THEN <<"int", value>> ELSE <<"uint", value>>

DecodedAs(isNegative, value, real) == IF value = TooLarge THEN real ELSE Typed(isNegative, value)

Decoded(token, real) ==
  LET t == Unsigned(token)
      limit == IF IsNegative(token) THEN maxLargestInt + 1 ELSE maxLargestUInt
  IN IF \E i \in DOMAIN t : ~IsDigit(t[i]) THEN real
     ELSE DecodedAs(IsNegative(token), Accumulate(t, limit), real)

DecodeNumber(token) == Decoded(token, DecodeDouble(token))
OurDecodeNumber(token) == Decoded(token, OurDecodeDouble(token))

(***************************************************************************)
(* isInt() and its like, asInt() and its like.  A conversion gives the set *)
(* of what it may return: none if it throws, anything if it is undefined.  *)
(***************************************************************************)
Targets == {"Int", "UInt", "Int64", "UInt64"}
Lowest(t) == IF t = "Int" THEN minInt ELSE IF t = "Int64" THEN minLargestInt ELSE 0
Highest(t) == CASE t = "Int" -> maxInt [] t = "UInt" -> maxUInt
                [] t = "Int64" -> maxLargestInt [] t = "UInt64" -> maxLargestUInt

\* For the 64-bit types the limit, rounded up to a double, is already too large.
BelowLimit(t, h) == IF t \in {"Int", "UInt"} THEN h <= 2 * Highest(t) ELSE h < Double(Highest(t))

IsIntegral(h) == h % 2 = 0

Is(t, v) ==
  IF v[1] = "real" THEN v[2] >= 2 * Lowest(t) /\ BelowLimit(t, v[2]) /\ IsIntegral(v[2])
                   ELSE v[2] \in Lowest(t) .. Highest(t)

\* InRange, whose comparison turns the limits into doubles
InRange(h, t) == h >= Double(Lowest(t)) /\ h <= Double(Highest(t))

Truncated(h) == IF h < 0 THEN -(-h \div 2) ELSE h \div 2
Cast(h, t) == LET all == Lowest(t) .. Highest(t) IN IF Truncated(h) \in all THEN {Truncated(h)} ELSE all

As(t, v) == IF v[1] = "real" THEN IF InRange(v[2], t) THEN Cast(v[2], t) ELSE {}
                             ELSE IF Is(t, v) THEN {v[2]} ELSE {}

AsDouble(v) == IF v[1] = "real" THEN v[2] ELSE Double(v[2])
AsBool(v) == v[2] # 0

\* isConvertibleTo, to a type of Value
IsConvertibleTo(type, v) ==
  CASE type = "intValue"  -> Is("Int", v) \/ (v[1] = "real" /\ InRange(v[2], "Int"))
    [] type = "uintValue" -> Is("UInt", v) \/ (v[1] = "real" /\ InRange(v[2], "UInt"))
    [] type = "nullValue" -> AsDouble(v) = 0
    [] type \in {"realValue", "booleanValue", "stringValue"} -> TRUE
    [] OTHER -> FALSE

(***************************************************************************)
(* valueToString; a real with a number of significant digits, or of        *)
(* decimal places                                                          *)
(***************************************************************************)
DigitChar(d) == Digits[d + 1]
Size10(n) == CHOOSE k \in 1 .. 10 : n < 10^k /\ (k = 1 \/ n >= 10^(k - 1))
UintToString(n) == LET k == Size10(n) IN [i \in 1 .. k |-> DigitChar((n \div 10^(k - i)) % 10)]

WithoutZeros(text) ==
  SubSeq(text, 1, Max({i \in DOMAIN text : text[i] # "0"} \cup {0}))

\* A number of tenths, without a point if it is whole.
Decimal(tenths) ==
  UintToString(tenths \div 10) \o IF tenths % 10 = 0 THEN <<>> ELSE <<".", DigitChar(tenths % 10)>>

\* %.Pg, of tenths
WithExponent(exponent, first, fraction) ==
  <<first>> \o (IF fraction = <<>> THEN <<>> ELSE <<".">> \o fraction)
            \o <<"e", "+", DigitChar(exponent \div 10), DigitChar(exponent % 10)>>

SignificantOf(rounded, p) ==
  IF Size10(rounded) - 2 < p THEN Decimal(rounded)
  ELSE WithExponent(Size10(rounded) - 2, Head(UintToString(rounded)), WithoutZeros(Tail(UintToString(rounded))))

Cut(n, unit) == RoundedBy(n, unit) * unit
Significant(tenths, p) == SignificantOf(Cut(tenths, 10^Max({0, Size10(tenths) - p})), p)

\* %.Pf
Places(tenths, p) ==
  IF p = 0 THEN UintToString(RoundedBy(tenths, 10))
  ELSE UintToString(tenths \div 10) \o <<".", DigitChar(tenths % 10)>> \o [i \in 1 .. p - 1 |-> "0"]

\* fixZerosInTheEnd: from the back, every zero that does not stand behind a point, but the
\* one at the very front
FixZerosInTheEnd(text) ==
  LET zeros == {i \in 2 .. Len(text) : \A j \in i .. Len(text) : text[j] = "0"}
      gone == {i \in zeros : text[i - 1] # "."}
  IN SubSeq(text, 1, Len(text) - Cardinality(gone))

WithPoint(text) == IF Contains(text, ".") \/ Contains(text, "e") THEN text ELSE text \o <<".", "0">>

\* What snprintf is to print is cut at the end of the buffer, but len is the length of all
\* of it, and the passes over the text run on behind the buffer: there is no telling.
Undefined == <<"undefined">>
Signed(h, text) == IF h < 0 THEN <<"-">> \o text ELSE text
Buffered(printed, text) == IF Len(printed) < BufferSize /\ Len(text) < BufferSize THEN text ELSE Undefined

RealToString(h, precision, precisionType) ==
  LET tenths == 5 * (IF h < 0 THEN -h ELSE h)
      significant == Signed(h, Significant(tenths, precision))
      places == Signed(h, Places(tenths, precision))
  IN IF h \in {Infinity, -Infinity} THEN Signed(h, <<"1", "e", "+", "9", "9", "9", "9">>)
     ELSE IF precisionType = "significantDigits" THEN Buffered(significant, WithPoint(significant))
     ELSE Buffered(places, WithPoint(FixZerosInTheEnd(places)))

ValueToString(v, precision, precisionType) ==
  IF v[1] = "real" THEN RealToString(v[2], precision, precisionType)
  ELSE IF v[2] < 0 THEN <<"-">> \o UintToString(-v[2]) ELSE UintToString(v[2])

-----------------------------------------------------------------------------
\* The grammar of numbers in JSON.
IsNumber(text) ==
  LET t == Unsigned(text)
      whole == Min({i \in DOMAIN t : ~IsDigit(t[i])} \cup {Len(t) + 1})
      p == Parts10(text)
  IN /\ IsDigit(CharAt(t, 1)) /\ (t[1] = "0" => whole = 2)
     /\ ReadNumber(text) = Len(text) + 1
     /\ CharAt(t, whole) = "." => p.fraction > 0
     /\ ~p.half

\* What a text of that grammar stands for.
MeantWhole(n) ==
  IF n \notin minLargestInt .. maxLargestUInt THEN <<"real", Double(n)>>
  ELSE IF n <= maxInt THEN <<"int", n>> ELSE <<"uint", n>>
MeantBy(negative, p) == MeantWhole(IF negative THEN -Value10(p.digits) ELSE Value10(p.digits))
Meant(text) ==
  IF Contains(text, ".") \/ Contains(text, "e") THEN Real(IsNegative(text), Parts10(text))
                                                ELSE MeantBy(IsNegative(text), Parts10(text))

\* A text that is a number is read whole and as that number, exactly unless a double has to
\* do (readNumber, decodeNumber, decodeDouble, jsoncpp.cpp:656-848 and 1641-1857).  What a
\* reader has made of a text at all is not changed when it is written, with as many digits
\* as a double needs, and read again: neither the number, nor that it is real (4255-4345).
\* Except for numbers larger than any double, which Reader refuses (849); and for those of
\* which the buffer of 36 characters does not hold all digits before the point with the
\* decimal places that are asked for (4300-4318): what is written of them is undefined.
ReadNumberBy(text, ours) ==
  IF ours THEN OurDecodeNumber(SubSeq(text, 1, OurReadNumber(text, TRUE) - 1))
          ELSE DecodeNumber(SubSeq(text, 1, ReadNumber(text) - 1))

HasRoom(h, places) == (IF h < 0 THEN 1 ELSE 0) + Size10(Truncated(IF h < 0 THEN -h ELSE h)) + 1 + places < BufferSize

KeepsWhenWritten(v, ours, precision) ==
  /\ ReadNumberBy(ValueToString(v, precision, "significantDigits"), ours) = v
  /\ \A p \in 1 .. precision :
       v[1] # "real" \/ IsInfinite(v) \/ HasRoom(v[2], p) =>
         ReadNumberBy(ValueToString(v, p, "decimalPlaces"), ours) = v

KeepsAs(text, v, ours, precision) ==
  /\ IsNumber(text) =>
       /\ ReadNumber(text) = Len(text) + 1
       /\ v = Meant(text) \/ (v = None /\ IsInfinite(Meant(text)) /\ ~ours)
  /\ v # None => KeepsWhenWritten(v, ours, precision)

KeepsNumber(text, precision) == \A ours \in BOOLEAN : KeepsAs(text, ReadNumberBy(text, ours), ours, precision)

\* Of a number that is said to be of a type, the conversion to it is exact; one that can be
\* converted is cut at the point, and isConvertibleTo says which can.  Only for the double
\* the limit of a 64-bit type is rounded up to does the range check pass what no cast can
\* (InRange, asInt64 and asUInt64, jsoncpp.cpp:2552-2559, 3202-3238).
ConvertsExactly(v) ==
  /\ \A t \in Targets :
       LET exact == IF v[1] = "real" THEN Truncated(v[2]) ELSE v[2]
       IN /\ Is(t, v) => As(t, v) = {exact} /\ Double(exact) = AsDouble(v)
          /\ \/ As(t, v) \subseteq {exact}
             \/ v = <<"real", 2 * (Highest(t) + 1)>> /\ t \in {"Int64", "UInt64"}
  /\ IsConvertibleTo("intValue", v) = (As("Int", v) # {})
  /\ IsConvertibleTo("uintValue", v) = (As("UInt", v) # {})
=============================================================================
