---------------------------- MODULE HttpSession -----------------------------
(***************************************************************************)
(* The transactions of an HTTP script: the send and recv steps and the     *)
(* callbacks of THTTPStep (httpstep.C).  Each worker has an event base     *)
(* that only send() dispatches, in the worker's own thread: the callbacks  *)
(* of its connections run there.  cps_map gives each worker a              *)
(* CHttpConnection of its own when a test that asks for HTTP has come, and *)
(* a new one with each later test, whatever the worker is doing; the old   *)
(* one goes on on the same base.  What the workers share is the members of *)
(* the steps.  libevent's part is its own: which callbacks a request may   *)
(* come to, and in which order.                                            *)
(***************************************************************************)
EXTENDS Transaction

CONSTANT Tests  \* bound: tests that make connections

ASSUME TestsAssumption == Tests \in Nat

\* Scripts as those under task/: a send step, the recv step of its answer, and so on.
\* In another one a request may be made while an earlier one is still under way.
Exchanges ==
  \A k \in Steps : IF k % 2 = 1 THEN Script[k] = "send" /\ k < Len(Script) ELSE Script[k] = "recv"
ASSUME ExchangesAssumption == Exchanges

\* A CHttpConnection is named by its worker and by the test it was made for.
Connection == Workers \X (1 .. Tests)
NoConnection == <<None, 0>>

VARIABLES
  method,         \* each send step: what its m_header asks for
  mBase, mConn,   \* each step: whose m_base, and which m_connection, it has
  prefixed,       \* each step: how often m_host has got its "http://", to 2
  test,           \* cps_map: the test each worker's connection is of, 0 for none
  using,          \* cHttpConn of each worker's last send
  target,         \* each CHttpConnection: m_tTransation, 0 until it is set,
  conn, dns,      \* m_connection and m_dnsbase,
  linked, freed,  \* whether it is connected, and has lost its first m_dnsbase,
  asked,          \* the request under way
  lost,           \* each worker: its transaction waits for an event in vain
  undefined       \* the program has done what C++ or libevent leaves open, or ended

SendSteps == {k \in Steps : Script[k] = "send"}
Methods == {"request", "other", "none", "throws"}

members == <<mBase, mConn, prefixed>>
map == <<test, using>>
http == <<conn, dns, linked, freed>>
vars == <<engine, method, members, map, target, http, asked, lost, undefined>>

Init ==
  /\ InitEngine
  /\ method \in [SendSteps -> Methods]
  /\ mBase = [k \in Steps |-> None] /\ mConn = [k \in Steps |-> NoConnection]
  /\ prefixed = [k \in Steps |-> 0]
  /\ test = [w \in Workers |-> 0] /\ using = [w \in Workers |-> NoConnection]
  /\ target = [c \in Connection |-> 0]
  /\ conn = [c \in Connection |-> "null"] /\ dns = [c \in Connection |-> "null"]
  /\ linked = [c \in Connection |-> FALSE] /\ freed = [c \in Connection |-> FALSE]
  /\ asked = [c \in Connection |-> NoRequest] /\ lost = [w \in Workers |-> FALSE]
  /\ undefined = FALSE

At(w, place) == pc[w] = place /\ ~undefined

Undefined(w) ==
  /\ undefined' = TRUE
  /\ UNCHANGED <<engine, members, http, asked, lost>>
-----------------------------------------------------------------------------
(* The manager, runTask and THTTPStep::send                                *)

\* initHttpConnect for a new test.  m_connection is not initialised: it is NULL
\* or anything.
Reconnect(w) ==
  /\ ~undefined /\ test[w] < Tests
  /\ test' = [test EXCEPT ![w] = @ + 1]
  /\ \E any \in {"null", "garbage"} : conn' = [conn EXCEPT ![<<w, test[w] + 1>>] = any]
  /\ UNCHANGED <<engine, method, members, using, target, dns, linked, freed, asked, lost, undefined>>

\* cHttpConn->m_tTransation = pTrans, if there is one
Install(w) ==
  /\ At(w, "install") /\ GoTo(w, "event")
  /\ target' = IF test[w] = 0 THEN target ELSE [target EXCEPT ![<<w, test[w]>>] = n[w]]
  /\ UNCHANGED <<method, members, map, http, asked, lost, undefined>>

\* There is no connection for this worker: the transaction ends.
EndWithout(w) ==
  /\ At(w, "send") /\ test[w] = 0 /\ End(w)
  /\ UNCHANGED <<method, members, map, target, http, asked, lost, undefined>>

\* m_base is set, a new evdns base takes the place of the last one, which goes
\* on living, and m_host gets a prefix, one more each time the step is run.
SetBase(w) ==
  /\ At(w, "send") /\ test[w] > 0 /\ GoTo(w, "connect")
  /\ using' = [using EXCEPT ![w] = <<w, test[w]>>]
  /\ mBase' = [mBase EXCEPT ![cur[w]] = w]
  /\ dns' = [dns EXCEPT ![<<w, test[w]>>] =
               IF conn[<<w, test[w]>>] = "null" THEN "first" ELSE "later"]
  /\ prefixed' = [prefixed EXCEPT ![cur[w]] = IF @ = 2 THEN 2 ELSE @ + 1]
  /\ UNCHANGED <<method, mConn, test, target, conn, linked, freed, asked, lost, undefined>>

\* The first send of a connection makes it, to the host of "http://" m_host:
\* that of a host with two prefixes is "http".
Connect(w) ==
  /\ At(w, "connect")
  /\ IF \/ conn[using[w]] = "garbage"
        \/ conn[using[w]] = "null" /\ mBase[cur[w]] # w
     THEN Undefined(w)
     ELSE /\ GoTo(w, "request")
          /\ mConn' = [mConn EXCEPT ![cur[w]] = using[w]]
          /\ conn' = [conn EXCEPT ![using[w]] =
                        IF @ # "null" THEN @
                        ELSE IF prefixed[cur[w]] = 1 THEN "right" ELSE "wrong"]
          /\ UNCHANGED <<mBase, prefixed, dns, linked, freed, asked, lost, undefined>>
  /\ UNCHANGED <<method, map, target>>

\* httpparser::parse, out of which a header without a value throws, which nobody
\* catches, and evhttp_make_request on what m_connection holds by now.  A GET or
\* a POST is taken over or refused, which nobody looks at; another method makes
\* no request; a header without a method ends the transaction.
MakeRequest(w) ==
  /\ At(w, "request")
  /\ IF \/ mConn[cur[w]] # using[w] \/ method[cur[w]] = "throws"
        \/ method[cur[w]] = "request" /\ freed[using[w]] /\ ~linked[using[w]]
     THEN Undefined(w)
     ELSE /\ UNCHANGED <<members, http, undefined>>
          /\ \/ /\ method[cur[w]] = "none" /\ End(w)
                /\ UNCHANGED <<asked, lost>>
             \/ /\ method[cur[w]] = "request" /\ GoTo(w, "dispatch")
                /\ asked' = [asked EXCEPT ![using[w]] = OwnRequest(w)] /\ UNCHANGED lost
             \/ /\ method[cur[w]] \in {"request", "other"} /\ GoTo(w, "dispatch")
                /\ lost' = [lost EXCEPT ![w] = TRUE] /\ UNCHANGED asked
  /\ UNCHANGED <<method, map, target>>

\* event_base_dispatch(m_base)
Dispatch(w) ==
  /\ At(w, "dispatch")
  /\ IF mBase[cur[w]] # w
     THEN Undefined(w)
     ELSE GoTo(w, "loop") /\ UNCHANGED <<members, http, asked, lost, undefined>>
  /\ UNCHANGED <<method, map, target>>

\* The loop is left: send() has succeeded, whatever has happened in it.
LeaveLoop(w) ==
  /\ At(w, "left") /\ Succeed(w)
  /\ UNCHANGED <<method, members, map, target, http, asked, lost, undefined>>
-----------------------------------------------------------------------------
(* The callbacks of a connection, one chain of them for each way a request *)
(* may end.  All of them call event_base_loopexit for the worker's base,   *)
(* which the connections it has had share.                                 *)

\* ClosedCallback: the name server base that m_dnsbase names by now goes.  The
\* connection was made with the first one and resolves its host with it again.
Close(c) ==
  /\ freed' = [freed EXCEPT ![c] = @ \/ dns[c] = "first"]
  /\ dns' = [dns EXCEPT ![c] = "null"]
  /\ linked' = [linked EXCEPT ![c] = FALSE]

ExitLoop(c) ==
  /\ At(c[1], "loop") /\ pc' = [pc EXCEPT ![c[1]] = "left"]
  /\ asked' = [asked EXCEPT ![c] = NoRequest]
  /\ UNCHANGED <<n, cur, isSend, ev, method, members, map, target, conn>>

\* m_tTransation->pushEvent: a connection that has come in the middle of a
\* transaction has none.
Push(c, e) ==
  /\ msgs' = IF target[c] = 0 THEN msgs ELSE Pushed(c[1], target[c], e)
  /\ undefined' = (target[c] = 0)

\* A bug to try: ReadCallback does not leave the loop.
BugRespondStays(c) ==
  /\ At(c[1], "loop") /\ asked[c] # NoRequest
  /\ Push(c, [kind |-> "data", fits |-> TRUE, of |-> asked[c]])
  /\ asked' = [asked EXCEPT ![c] = NoRequest]
  /\ linked' = [linked EXCEPT ![c] = TRUE]
  /\ UNCHANGED <<pc, n, cur, isSend, ev, method, members, map, target, conn, dns, freed, lost>>

\* ReadCallback with a response; a connection that is not kept alive has been
\* closed before.
Respond(c) ==
  /\ asked[c] # NoRequest /\ ExitLoop(c)
  /\ \E fits \in BOOLEAN : Push(c, [kind |-> "data", fits |-> fits, of |-> asked[c]])
  /\ \/ Close(c)
     \/ linked' = [linked EXCEPT ![c] = TRUE] /\ UNCHANGED <<dns, freed>>
  /\ UNCHANGED lost

\* ReadCallback with a response code of 0: there was no connection to be had.
FailConnect(c) ==
  /\ asked[c] # NoRequest /\ ~linked[c] /\ ExitLoop(c)
  /\ Push(c, ErrorEvent(asked[c]))
  /\ UNCHANGED <<dns, linked, freed, lost>>

\* A bug to try: after an error there is an event for NULL, too.
BugFailRequestPushes(c) ==
  /\ asked[c] # NoRequest /\ ExitLoop(c) /\ Close(c)
  /\ Push(c, ErrorEvent(NoRequest))
  /\ UNCHANGED lost

\* ErrorCallback (a timeout, an end of file, an invalid header ...), then
\* ClosedCallback, then ReadCallback with NULL: there is no event.
FailRequest(c) ==
  /\ asked[c] # NoRequest /\ ExitLoop(c) /\ Close(c)
  /\ lost' = [lost EXCEPT ![c[1]] = TRUE]
  /\ UNCHANGED <<msgs, undefined>>

\* The server closes a connection on which nothing has been asked.  The loop is
\* left even when a request is under way on the connection that came after it.
CloseIdle(c) ==
  /\ asked[c] = NoRequest /\ linked[c] /\ ExitLoop(c) /\ Close(c)
  /\ lost' = [lost EXCEPT ![c[1]] = @ \/ \E t \in 1 .. Tests : asked[<<c[1], t>>] # NoRequest]
  /\ UNCHANGED <<msgs, undefined>>
-----------------------------------------------------------------------------
(* onEvent and THTTPStep::recv                                             *)

\* onEvent takes the next event, or goes on without one.
Turn(w) ==
  /\ ~undefined /\ (TakeEvent(w) \/ GoOnWithout(w))
  /\ UNCHANGED <<method, members, map, target, http, asked, lost, undefined>>

\* suprecv() does nothing.  A NULL event is dereferenced at once, and there is
\* no step from that state.
Recv(w) ==
  /\ At(w, "suprecv") /\ ev[w] # NoEvent
  /\ IF ev[w].kind = "data" /\ ev[w].fits THEN Succeed(w) ELSE End(w)
  /\ UNCHANGED <<method, members, map, target, http, asked, lost, undefined>>
-----------------------------------------------------------------------------
Worker(w) == \/ /\ ~undefined /\ NewTransaction(w)
                /\ UNCHANGED <<method, members, map, target, http, asked, lost, undefined>>
             \/ Install(w) \/ Turn(w) \/ Recv(w) \/ EndWithout(w)
             \/ SetBase(w) \/ Connect(w) \/ MakeRequest(w) \/ Dispatch(w) \/ LeaveLoop(w)

CallBack(c) == Respond(c) \/ FailConnect(c) \/ FailRequest(c)

Next == \/ \E w \in Workers : Worker(w) \/ Reconnect(w)
        \/ \E c \in Connection : CallBack(c) \/ CloseIdle(c)

Spec == Init /\ [][Next]_vars

\* The threads run; a request that is under way ends in one way or another, as
\* libevent gives up on it after a time.
FairSpec == /\ Spec /\ \A w \in Workers : WF_vars(Worker(w))
            /\ \A c \in Connection : WF_vars(CallBack(c))
-----------------------------------------------------------------------------
(* Properties                                                              *)

TypeOK ==
  /\ EngineTypeOK({"connect", "request", "dispatch", "loop", "left"})
  /\ method \in [SendSteps -> Methods]
  /\ mBase \in [Steps -> Workers \cup {None}]
  /\ mConn \in [Steps -> Connection \cup {NoConnection}] /\ prefixed \in [Steps -> 0 .. 2]
  /\ test \in [Workers -> 0 .. Tests] /\ using \in [Workers -> Connection \cup {NoConnection}]
  /\ target \in [Connection -> 0 .. MaxTrans]
  /\ conn \in [Connection -> {"null", "garbage", "right", "wrong"}]
  /\ dns \in [Connection -> {"null", "first", "later"}]
  /\ linked \in [Connection -> BOOLEAN] /\ freed \in [Connection -> BOOLEAN]
  /\ asked \in [Connection -> Request \cup {NoRequest}]
  /\ lost \in [Workers -> BOOLEAN] /\ undefined \in BOOLEAN

\* "recv event can not be null" (transaction.C:72): THTTPStep::recv, which
\* reads the event's code at once (httpstep.C:154), always has one.
RecvHasEvent == \A w \in Workers : pc[w] = "suprecv" => ev[w] # NoEvent

\* What a recv step checks is the answer to the send step before it, of this
\* transaction and no other, however the earlier requests of the connection
\* ended: the event loop is entered and left once for every request.
OwnAnswer ==
  \A w \in Workers :
    pc[w] = "suprecv" => ev[w].of = [by |-> w, n |-> n[w], step |-> cur[w] - 1]

\* A transaction comes to an end unless no event will come for its request.
EveryTransactionEnds ==
  \A w \in Workers : pc[w] # "new" ~> pc[w] = "new" \/ lost[w] \/ undefined
=============================================================================
