---------------------------- MODULE MCTcpSession ----------------------------
(***************************************************************************)
(* Small instances of TcpSession.  Workers are numbers, None being 0.      *)
(***************************************************************************)
EXTENDS TcpSession

\* task/testTCP.xml and task/testTCP2.xml
OneExchange == <<"send", "recv">>
\* Two exchanges in a row: what an unread event meets is a send step.
TwoExchanges == <<"send", "recv", "send", "recv">>

\* An answer with a Content-Length, three bytes before it, and a body: an answer
\* without one ends in the header mark, which its last byte is needed for.
Sized == {<<"x", "x", "x", "L">> \o HeaderMark \o <<"x">>}
\* One with a body of nine bytes, two of which at a time may be read on their own:
\* a read of one byte adds nothing to readbuff.
Long == {<<"x", "x", "x", "x", "x", "L">> \o HeaderMark
           \o <<"x", "x", "x", "x", "x", "x", "x", "x", "x">>}
\* The answer task/testTCP.xml expects: a header, a chunk, the last chunk.
Chunked == {<<"x", "C">> \o HeaderMark \o <<"x">> \o LastChunk}
=============================================================================
