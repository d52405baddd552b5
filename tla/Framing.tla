------------------------------- MODULE Framing -------------------------------
(***************************************************************************)
(* How a CSocket cuts what it reads into answers: read_cb (socketpool.C)   *)
(* and receiveHttpResponse (protocol.C), on sequences of bytes.  A byte is *)
(* "r", "n" or "0", as the marks need, or "x" for any other; the words     *)
(* that are looked for, `Content-Length' and `chunked', are one byte each, *)
(* "L" and "C".  Positions count from 0, as evbuffer_search does.          *)
(***************************************************************************)
EXTENDS Integers, Sequences, FiniteSetsExt

Byte == {"r", "n", "0", "x", "L", "C"}
CrLf == <<"r", "n">>
HeaderMark == CrLf \o CrLf
LastChunk == CrLf \o <<"0">> \o CrLf \o CrLf

\* evbuffer_search: the first place at or after `from', or -1.
Search(b, what, from) ==
  LET at == {i \in from .. Len(b) - Len(what) : SubSeq(b, i + 1, i + Len(what)) = what}
  IN IF at = {} THEN -1 ELSE Min(at)

Drained(b, k) == SubSeq(b, k + 1, Len(b))

\* A bug to try: a word with one byte before it does not count either.
BugReceiveOneTooFew(b) ==
  LET length == Search(b, <<"L">>, 0)
  IN IF Search(b, HeaderMark, 0) < 0 \/ length <= 1 THEN -1 ELSE 1

\* TAppProtocolTable::receiveHttpResponse: how much of the buffer is an answer,
\* or -1.  A word at the very beginning of the buffer does not count as found.
ReceiveHttpResponse(b) ==
  LET length == Search(b, <<"L">>, 0)
      end    == Search(b, LastChunk, 0)
  IN IF Search(b, HeaderMark, 0) < 0 THEN -1
     ELSE IF length > 0 THEN (IF Search(b, CrLf, length) > 0 THEN 1 ELSE -1)
     ELSE IF Search(b, <<"C">>, 0) > 0 /\ end >= 0 THEN end + Len(LastChunk)
     ELSE -1

\* What read_cb moves to readbuff of what has been read: all but the last byte.
Kept(read) == SubSeq(read, 1, Len(read) - 1)
=============================================================================
