------------------------------ MODULE StepData ------------------------------
(***************************************************************************)
(* What TStep::init (step.C) makes of the CDATA of a step: the bytes a     *)
(* send step sends, and those whose number a recv step expects.  Someone   *)
(* writes the CDATA piece by piece, and the loop takes it a byte or an     *)
(* escape a turn.  A byte is its number; the text ends with a NUL, as a C  *)
(* string does.                                                            *)
(***************************************************************************)
EXTENDS Integers, Sequences, FiniteSetsExt

VARIABLES
  pValue,   \* the CDATA
  written,  \* history: the pieces it was written in, and where each begins
  nextByte, \* where the loop is: its i, counted from 1
  m_data,   \* m_data.content, as far as m_data.length
  furthest  \* history: the furthest byte of pValue the loop has looked at

dataVars == <<pValue, written, nextByte, m_data, furthest>>

NUL == 0
Byte == 1 .. 255
EscapeMark == 92
LettersX == {120, 88}
HexDigit == (48 .. 57) \cup (97 .. 102) \cup (65 .. 70)

\* A byte as itself, as \x and two digits of a hexadecimal number, or as the beginning of that.
PlainPieces == {<<c>> : c \in Byte}
EscapePieces == {<<EscapeMark, x, h, l>> : x \in LettersX, h \in HexDigit, l \in HexDigit}
BrokenPieces == {<<EscapeMark, x>> : x \in LettersX} \cup {<<EscapeMark, x, h>> : x \in LettersX, h \in HexDigit}
WholePieces == PlainPieces \cup EscapePieces
DataPieces == WholePieces \cup BrokenPieces

DataInit == pValue = <<>> /\ written = <<>> /\ nextByte = 1 /\ m_data = <<>> /\ furthest = 0

\* Only the last piece can break off.
Unbroken(k) == written[k].as \in WholePieces
WritePiece(p) ==
  /\ nextByte = 1
  /\ written # <<>> => Unbroken(Len(written))
  /\ pValue' = pValue \o p
  /\ written' = Append(written, [at |-> Len(pValue) + 1, as |-> p])
  /\ UNCHANGED <<nextByte, m_data, furthest>>

\* What lies behind the NUL is not the text's.
ReadAt(k, stray) == IF k \in DOMAIN pValue THEN pValue[k] ELSE IF k = Len(pValue) + 1 THEN NUL ELSE stray

IsEscape(k) == pValue[k] = EscapeMark /\ ReadAt(k + 1, NUL) \in LettersX

\* Mutant: the value of the digits.
NibbleOf(c) == CASE c \in 48 .. 57 -> c - 48 [] c \in 97 .. 102 -> c - 87 [] c \in 65 .. 70 -> c - 55 [] OTHER -> 0
BugEscapedByteOfDigits(high, low) == NibbleOf(high) * 16 + NibbleOf(low)

\* not the value of the two digits, but sixteen times the one character and the other, in a char
EscapedByte(high, low) == (high * 16 + low) % 256

\* The turns of the loop, at an escape and at any other byte
InLoop == nextByte \in DOMAIN pValue

TakeEscape(stray) ==
  /\ InLoop /\ IsEscape(nextByte)
  /\ m_data' = Append(m_data, EscapedByte(ReadAt(nextByte + 2, stray), ReadAt(nextByte + 3, stray)))
  /\ nextByte' = nextByte + 4
  /\ furthest' = nextByte + 3
  /\ UNCHANGED <<pValue, written>>

TakeByte ==
  /\ InLoop /\ ~IsEscape(nextByte)
  /\ m_data' = Append(m_data, pValue[nextByte])
  /\ nextByte' = nextByte + 1
  /\ furthest' = IF pValue[nextByte] = EscapeMark THEN nextByte + 1 ELSE nextByte
  /\ UNCHANGED <<pValue, written>>

DataNext ==
  \/ \E p \in DataPieces : WritePiece(p)
  \/ \E stray \in Byte \cup {NUL} : TakeEscape(stray)
  \/ TakeByte

DataSpec == DataInit /\ [][DataNext]_dataVars

\* m_data.content as sendMsg and TTCPStep::recv take it: a C string
AsString(bytes) ==
  LET ends == {k \in DOMAIN bytes : bytes[k] = NUL}
  IN IF ends = {} THEN bytes ELSE SubSeq(bytes, 1, Min(ends) - 1)

-----------------------------------------------------------------------------
\* A backslash before an x cannot be written, nor an escape that breaks off.
Writable ==
  /\ \A k \in DOMAIN written : Unbroken(k)
  /\ \A k \in 1 .. Len(written) - 1 : ~(written[k].as = <<EscapeMark>> /\ written[k + 1].as[1] \in LettersX)

\* A step of as many bytes as it is written with, each as itself or as an escape, counts as that
\* many when the answer is compared (tcpstep.C:137-147), whatever the digits are, and the bytes
\* written as themselves are those: an escape is taken for another byte than it says, but never
\* for the NUL that would end the rest (step.C:85-98).
CountsAsWritten ==
  Writable /\ nextByte > Len(pValue) =>
    /\ Len(AsString(m_data)) = Len(written)
    /\ \A k \in DOMAIN written : Len(written[k].as) = 1 => AsString(m_data)[k] = written[k].as[1]

\* The content and its NUL fit where they are put, and nothing behind the NUL of the text is
\* looked at unless the text ends with the \x itself (step.C:84-98).
StaysInside ==
  /\ Len(m_data) <= Len(pValue)
  /\ furthest <= Len(pValue) + 1 \/ (Len(pValue) > 1 /\ IsEscape(Len(pValue) - 1))

\* What TStep::init makes of a step's data is as long as it was meant, and the loop keeps to
\* its text and its buffer but for a text that breaks off behind an \x (step.C:80-98).
StepDataCounted == CountsAsWritten /\ StaysInside
=============================================================================
