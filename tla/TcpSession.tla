----------------------------- MODULE TcpSession -----------------------------
(***************************************************************************)
(* The transactions of a TCP script: the send and recv steps (tcpstep.C)   *)
(* and the callbacks of a CSocket (socketpool.C), which cut the bytes they *)
(* read into answers as Framing says.  The workers share the steps of the  *)
(* script.  cps_map gives each worker a connection of its own, and a new   *)
(* test gives it the next one, whatever the worker is doing.  The          *)
(* callbacks of all connections run in the one thread of a CSocketPool.    *)
(***************************************************************************)
EXTENDS Transaction, Framing

CONSTANTS Answers,       \* what the peer may answer: sequences of Byte
          Expected,      \* lengths the CDATA of the recv steps may have
          MaxSplits,     \* bound: reads of a connection that end inside an answer
          NewTests,      \* bound: tests that come after the first
          Faults         \* what else may go wrong with a connection

ASSUME PeerAssumption ==
  /\ Answers \subseteq Seq(Byte) \ {<<>>} /\ Answers # {}
  /\ Expected \subseteq Nat /\ MaxSplits \in Nat /\ NewTests \in Nat
  /\ Faults \subseteq {"close"}

\* A connection is named by its worker and by the test it was made for.
Socket == Workers \X (0 .. NewTests)
NoSocket == <<None, 0>>

VARIABLES expected,      \* the length of the recv steps' m_data
          mSock,         \* m_cSocket of each step, shared by the workers
          test,          \* cps_map: the test each worker's connection is of
          trans,         \* tTransation of each connection, 0 until it is set
          wire,          \* what the peer has sent and nobody has read
          readbuff,      \* what has been read and not been drained
          splits, heard, \* history: reads inside an answer, events made
          link,          \* the connection: open, reading off, or off
          cb,            \* the callback in progress: its event, and for whom
          replaced,      \* history: a new test came while a transaction ran
          refused,       \* history: the transaction's queue has refused an event
          undefined      \* tTransation has been used before it was set

peer == <<wire, readbuff, splits, heard, link>>
vars == <<expected, engine, mSock, test, trans, peer, cb, replaced, refused, undefined>>

NoCallback == [sock |-> NoSocket, target |-> 0, event |-> NoEvent]
Sock(w) == <<w, test[w]>>

Init ==
  /\ InitEngine /\ expected \in Expected
  /\ mSock = [k \in Steps |-> NoSocket] /\ test = [w \in Workers |-> 0]
  /\ trans = [s \in Socket |-> 0]
  /\ wire = [s \in Socket |-> <<>>] /\ readbuff = [s \in Socket |-> <<>>]
  /\ splits = [s \in Socket |-> 0] /\ heard = [s \in Socket |-> 0]
  /\ link = [s \in Socket |-> "open"] /\ cb = NoCallback
  /\ replaced = [w \in Workers |-> FALSE] /\ refused = [w \in Workers |-> FALSE]
  /\ undefined = FALSE

At(w, place) == pc[w] = place /\ ~undefined
-----------------------------------------------------------------------------
(* The manager, runTask and the steps                                      *)

\* initConnect for a new TCP test: a connection out of a new pool takes the
\* place of the worker's, although its transaction may go on.
Reconnect(w) ==
  /\ ~undefined /\ test[w] < NewTests
  /\ test' = [test EXCEPT ![w] = @ + 1]
  /\ replaced' = [replaced EXCEPT ![w] = @ \/ pc[w] # "new"]
  /\ UNCHANGED <<expected, engine, mSock, trans, peer, cb, refused, undefined>>

New(w) ==
  /\ ~undefined /\ NewTransaction(w)
  /\ refused' = [refused EXCEPT ![w] = FALSE]
  /\ UNCHANGED <<expected, mSock, test, trans, peer, cb, replaced, undefined>>

\* A bug to try: the connection is not told of its transaction.
BugInstallNothing(w) ==
  /\ At(w, "install") /\ GoTo(w, "event")
  /\ UNCHANGED <<expected, mSock, test, trans, peer, cb, replaced, refused, undefined>>

\* cSocket->setTransation(pTrans)
Install(w) ==
  /\ At(w, "install") /\ GoTo(w, "event")
  /\ trans' = [trans EXCEPT ![Sock(w)] = n[w]]
  /\ UNCHANGED <<expected, mSock, test, peer, cb, replaced, refused, undefined>>

\* onEvent takes the next event, or goes on without one.
Turn(w) ==
  /\ ~undefined /\ (TakeEvent(w) \/ GoOnWithout(w))
  /\ UNCHANGED <<expected, mSock, test, trans, peer, cb, replaced, refused, undefined>>

\* TTCPStep::send looks its connection up under the mutex ...
LookUp(w) ==
  /\ At(w, "send") /\ GoTo(w, "write")
  /\ mSock' = [mSock EXCEPT ![cur[w]] = Sock(w)]
  /\ UNCHANGED <<expected, test, trans, peer, cb, replaced, refused, undefined>>

\* CSocket::sendMsg, which reports no failure its caller would look at, and the
\* answer it will get.  A byte is sent with the request it answers.
SendMsg(s, r) ==
  \E answer \in Answers :
    wire' = IF link[s] = "off" THEN wire
            ELSE [wire EXCEPT ![s] = @ \o [i \in DOMAIN answer |-> [byte |-> answer[i], of |-> r]]]

\* ... and uses what the step's member holds after it has been released.
Write(w) ==
  /\ At(w, "write") /\ Succeed(w)
  /\ SendMsg(mSock[cur[w]], OwnRequest(w))
  /\ UNCHANGED <<expected, mSock, test, trans, readbuff, splits, heard, link, cb, replaced, refused, undefined>>

\* Both ask the connection the map has now for its transaction.
SupRecv(w) ==
  /\ At(w, "suprecv") /\ GoTo(w, "recv")
  /\ mSock' = [mSock EXCEPT ![cur[w]] = Sock(w)]
  /\ undefined' = (trans[Sock(w)] = 0)
  /\ UNCHANGED <<expected, test, trans, peer, cb, replaced, refused>>

\* TTCPStep::recv with an event; a NULL one is dereferenced at once, and there
\* is no step from that state.
RecvData(w) ==
  /\ At(w, "recv") /\ ev[w].kind = "data" /\ cur[w] > 1
  /\ mSock' = [mSock EXCEPT ![cur[w]] = mSock[cur[w] - 1]]
  /\ undefined' = (trans[Sock(w)] = 0)
  /\ IF ev[w].fits THEN Succeed(w) ELSE End(w)
  /\ UNCHANGED <<expected, test, trans, peer, cb, replaced, refused>>

RecvOther(w) ==
  /\ At(w, "recv") /\ ev[w].kind = "error" /\ End(w)
  /\ UNCHANGED <<expected, mSock, test, trans, peer, cb, replaced, refused, undefined>>
-----------------------------------------------------------------------------
(* The callbacks of a connection                                           *)

\* The event is on its way to the transaction the connection has now, if any.
CallBack(s, e) ==
  /\ undefined' = (trans[s] = 0)
  /\ cb' = IF trans[s] = 0 THEN cb ELSE [sock |-> s, target |-> trans[s], event |-> e]

DataEvent(length, r) == [kind |-> "data", fits |-> length = expected, of |-> r]

\* A read takes all there is, unless it comes in the middle of an answer.
ReadLengths(s) == {Len(wire[s])} \cup (IF splits[s] < MaxSplits THEN 1 .. Len(wire[s]) ELSE {})

\* read_cb and, when something is added to readbuff, buffer_add_cb
Receive(s) ==
  /\ ~undefined /\ cb = NoCallback /\ wire[s] # <<>> /\ link[s] = "open"
  /\ \E k \in ReadLengths(s) :
       LET added == Kept([i \in 1 .. k |-> wire[s][i].byte])
           buffer == readbuff[s] \o added
           found == IF added = <<>> THEN -1 ELSE ReceiveHttpResponse(buffer)
       IN /\ wire' = [wire EXCEPT ![s] = SubSeq(@, k + 1, Len(@))]
          /\ splits' = IF k < Len(wire[s]) THEN [splits EXCEPT ![s] = @ + 1] ELSE splits
          /\ IF found < 0
             THEN /\ readbuff' = [readbuff EXCEPT ![s] = buffer]
                  /\ UNCHANGED <<heard, cb, undefined>>
             ELSE /\ readbuff' = [readbuff EXCEPT ![s] = Drained(buffer, found)]
                  /\ heard' = [heard EXCEPT ![s] = @ + 1]
                  /\ CallBack(s, DataEvent(found, wire[s][k].of))
  /\ UNCHANGED <<expected, engine, mSock, test, trans, link, replaced, refused>>

\* error_cb: libevent calls it when a read finds the connection closed, and
\* turns reading off; and again when a later write fails, and turns writing off.
Fail(s, now) ==
  /\ ~undefined /\ cb = NoCallback
  /\ link' = [link EXCEPT ![s] = now]
  /\ wire' = [wire EXCEPT ![s] = <<>>]
  /\ CallBack(s, ErrorEvent(NoRequest))
  /\ UNCHANGED <<expected, engine, mSock, test, trans, readbuff, splits, heard, replaced, refused>>

CloseRead(s) ==
  /\ "close" \in Faults /\ s[2] <= test[s[1]]
  /\ link[s] = "open" /\ Fail(s, "noread")

FailWrite(s) == link[s] = "noread" /\ wire[s] # <<>> /\ Fail(s, "off")

\* tTransation->pushEvent
PushEvent ==
  /\ ~undefined /\ cb # NoCallback
  /\ msgs' = Pushed(cb.sock[1], cb.target, cb.event)
  /\ refused' = [refused EXCEPT ![cb.sock[1]] =
                   @ \/ (cb.target = n[cb.sock[1]] /\ Len(msgs[cb.sock[1]]) >= QueueCapacity)]
  /\ cb' = NoCallback
  /\ UNCHANGED <<pc, n, cur, isSend, ev, expected, mSock, test, trans, peer, replaced, undefined>>
-----------------------------------------------------------------------------
Worker(w) == \/ New(w) \/ Install(w) \/ Turn(w)
             \/ LookUp(w) \/ Write(w) \/ SupRecv(w) \/ RecvData(w) \/ RecvOther(w)

Next == \/ \E w \in Workers : Worker(w) \/ Reconnect(w)
        \/ \E s \in Socket : Receive(s) \/ CloseRead(s) \/ FailWrite(s)
        \/ PushEvent

Spec == Init /\ [][Next]_vars

\* The threads run, and what the peer answers is read on an open connection.
FairSpec == /\ Spec /\ WF_vars(PushEvent)
            /\ \A w \in Workers : WF_vars(Worker(w))
            /\ \A s \in Socket : WF_vars(Receive(s))
-----------------------------------------------------------------------------
(* Properties                                                              *)

TypeOK ==
  /\ EngineTypeOK({"write"}) /\ expected \in Expected
  /\ mSock \in [Steps -> Socket \cup {NoSocket}]
  /\ test \in [Workers -> 0 .. NewTests]
  /\ trans \in [Socket -> 0 .. MaxTrans]
  /\ wire \in [Socket -> Seq([byte : Byte, of : Request])]
  /\ readbuff \in [Socket -> Seq(Byte)]
  /\ splits \in [Socket -> 0 .. MaxSplits] /\ heard \in [Socket -> Nat]
  /\ link \in [Socket -> {"open", "noread", "off"}]
  /\ cb \in [sock : Socket \cup {NoSocket}, target : 0 .. MaxTrans, event : Event]
  /\ replaced \in [Workers -> BOOLEAN] /\ refused \in [Workers -> BOOLEAN]
  /\ undefined \in BOOLEAN

\* The connections a worker has had are open, and their answers were read whole.
Steady(w) == \A s \in {w} \X (0 .. test[w]) : link[s] = "open" /\ splits[s] = 0

\* "recv event can not be null" (transaction.C:72): TTCPStep::recv, which asks
\* for the event's type at once (tcpstep.C:119), has one as long as the
\* connection is open and answers are read whole, although onEvent goes by the
\* turn kept in isSend and not by what the event is.
RecvHasEvent == \A w \in Workers : pc[w] = "recv" /\ Steady(w) => ev[w] # NoEvent

\* What a recv step checks is the answer to the send step before it, of this
\* transaction and no earlier one, although the callback reads the connection's
\* transaction and pushes the event while the worker goes on, and although
\* readbuff still has most of every earlier answer (protocol.C:61).
OwnAnswer ==
  \A w \in Workers :
    pc[w] = "recv" /\ ev[w].kind = "data" /\ (\A s \in Socket : splits[s] = 0) =>
      ev[w].of = [by |-> w, n |-> n[w], step |-> cur[w] - 1]

\* Between two transactions of a worker nothing is under way: no answer is
\* unread, no event unread and no callback unfinished, so that none of it can
\* reach the next transaction.
QuietBetween ==
  \A w \in Workers : pc[w] \in {"new", "install"} /\ Steady(w) =>
    /\ \A s \in {w} \X (0 .. test[w]) : wire[s] = <<>>
    /\ msgs[w] = <<>> /\ cb.sock[1] # w

\* A request goes out on the connection of the worker that makes it: the steps
\* are shared, and script.h:4 asks for a thread-safe script.
OwnConnection ==
  \A s \in Socket : \A a \in 1 .. Len(wire[s]) : wire[s][a].of.by = s[1]

\* The turn to wait, which is no turn as long as there is no event.
Waits(w) == pc[w] = "event" /\ ~isSend[w] /\ msgs[w] = <<>>

\* A transaction never waits for an event that its full queue has refused
\* (pushEvent's result is ignored: socketpool.C:172, 216): pieces of answers and
\* failures may be more than the queue holds, but then it holds one for each step
\* that is left, as long as the script has no more steps than the queue has places.
NeverMissed == Len(Script) <= QueueCapacity => \A w \in Workers : ~(refused[w] /\ Waits(w))

\* tTransation is used before it is set (socketpool.C:172, 216, tcpstep.C:132,
\* 170) only when a new test replaced the connection of a running transaction
\* (manager.C:158), or a connection failed that no transaction had used yet.
UndefinedOnlyWhen ==
  undefined => \/ \E w \in Workers : replaced[w]
               \/ \E s \in Socket : link[s] = "noread" /\ trans[s] = 0

\* How far from its beginning an answer has the word it is framed by, at least.
Lead == Min({Search(a, <<w>>, 0) : a \in Answers, w \in {"L", "C"}} \ {-1})

\* The transaction waits on a connection that has nothing left to say and finds no
\* more answers: a byte of readbuff goes with each (protocol.C:61), and when the
\* length word is the first one left it is not found any more (protocol.C:55).
Deaf(w) == /\ Waits(w) /\ cb = NoCallback
           /\ \E t \in 0 .. test[w] : heard[<<w, t>>] >= Lead /\ wire[<<w, t>>] = <<>>

\* A transaction comes to an end, or is defined no more, or its connections have
\* closed or had an answer in pieces, or it waits on one that finds no more answers.
\* There is no timeout (tcpstep.C:175, socketpool.C:300).
EveryTransactionEnds ==
  \A w \in Workers :
    pc[w] # "new" ~> pc[w] = "new" \/ undefined \/ ~Steady(w) \/ Deaf(w)

\* task/testTCP.xml expects a chunked answer by its whole length: a transaction
\* whose peer gives just that answer gets to its end.
ExpectedAnswerEnds ==
  \A w \in Workers : pc[w] # "new" ~> pc[w] = "new"
=============================================================================
