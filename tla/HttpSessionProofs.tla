------------------------- MODULE HttpSessionProofs --------------------------
(***************************************************************************)
(* What HttpSession promises for any number of workers, transactions and   *)
(* tests: every variable keeps its type, a recv step has an event, and it  *)
(* is the answer to the request of its own send step.                      *)
(***************************************************************************)
EXTENDS HttpSession, TransactionProofs

Places == {"connect", "request", "dispatch", "loop", "left"}

Sends(w) == cur[w] % 2 = 1

\* What a step leaves alone of another worker.
Same(v) == /\ SameEngine(v) /\ using'[v] = using[v]
           /\ \A c \in Connection : c[1] = v => asked'[c] = asked[c]

\* The queue of w holds at most an event, and it is about r.
Answered(w, r) ==
  msgs[w] = <<>> \/ \E e \in Event : msgs[w] = <<e>> /\ e.kind # "none" /\ e.of = r

\* One request of w at most is under way.  When its transaction is past the event
\* loop, a connection of an earlier test has closed and the loop has been left
\* without the event: the transaction goes no further than to wait for it.
AskedInv(w) ==
  /\ \A c, d \in Connection :
       c[1] = w /\ d[1] = w /\ asked[c] # NoRequest /\ asked[d] # NoRequest => c = d
  /\ \A c \in Connection : c[1] = w /\ asked[c] # NoRequest =>
       \/ pc[w] \in {"dispatch", "loop"} /\ asked[c] = OwnRequest(w)
       \/ pc[w] = "left" /\ msgs[w] = <<>>
       \/ pc[w] = "event" /\ ~Sends(w) /\ msgs[w] = <<>>
  /\ using[w] # NoConnection => using[w][1] = w
  /\ pc[w] \in Places => using[w] \in Connection

\* Where w is in its step, what its turn is and what its queue holds: an event
\* comes only out of the event loop, which a send step leaves after one.
TurnInv(w) ==
  /\ pc[w] = "install" => cur[w] = 1
  /\ pc[w] = "send" \/ pc[w] \in Places => Sends(w)
  /\ pc[w] = "suprecv" => ~Sends(w)
  /\ pc[w] # "recv"
  /\ Sends(w) =>
       /\ pc[w] \in {"install", "event"} => isSend[w] /\ msgs[w] = <<>>
       /\ pc[w] \in {"send", "connect", "request", "dispatch", "loop"} => ~isSend[w] /\ msgs[w] = <<>>
       /\ pc[w] = "left" => ~isSend[w] /\ Answered(w, OwnRequest(w))
  /\ ~Sends(w) =>
       /\ pc[w] = "event" => ~isSend[w] /\ Answered(w, PreviousRequest(w))
       /\ pc[w] = "suprecv" => /\ isSend[w] /\ msgs[w] = <<>>
                               /\ ev[w].kind # "none" /\ ev[w].of = PreviousRequest(w)

TypeInv == TypeOK /\ EngineInv(Places)
IInv == TypeInv /\ \A w \in Workers : TurnInv(w) /\ AskedInv(w)
-----------------------------------------------------------------------------
\* In a script of exchanges odd steps send and even ones receive (task/kaoshi2.xml).
LEMMA Parity ==
  ASSUME TypeInv, NEW w \in Workers
  PROVE  /\ cur[w] \in Steps /\ cur[w] \in Nat /\ 1 \in Steps /\ 1 % 2 = 1 /\ n[w] \in Nat
         /\ Script[cur[w]] = IF Sends(w) THEN "send" ELSE "recv"
         /\ Sends(w) => cur[w] + 1 \in Steps /\ (cur[w] + 1) % 2 # 1 /\ cur[w] < Len(Script)
         /\ ~Sends(w) => (cur[w] + 1) % 2 = 1
<1>1. cur[w] \in Steps /\ Steps = 1 .. Len(Script) /\ Len(Script) \in Nat \ {0} /\ n[w] \in Nat
  BY StepNumbers, BoundAssumption DEF TypeInv, EngineInv, EngineTypeOK
<1>2. IF cur[w] % 2 = 1 THEN Script[cur[w]] = "send" /\ cur[w] < Len(Script) ELSE Script[cur[w]] = "recv"
  BY <1>1, ExchangesAssumption DEF Exchanges
<1>3. cur[w] \in Nat /\ (cur[w] % 2 = 1 => (cur[w] + 1) % 2 # 1) /\ (cur[w] % 2 # 1 => (cur[w] + 1) % 2 = 1)
  BY <1>1
<1> QED
  BY <1>1, <1>2, <1>3 DEF Sends

\* A connection is a worker's, and none of them is NoConnection (mptthreadpool.C:279-283).
LEMMA ConnectionTypes ==
  /\ NoConnection \notin Connection
  /\ \A c \in Connection : c[1] \in Workers
  /\ \A w \in Workers : \A t \in 0 .. Tests :
       t # 0 => <<w, t>> \in Connection /\ <<w, t>>[1] = w
BY WorkersAssumption, TestsAssumption DEF Connection, NoConnection

\* What a worker has not been touched by stays as it is.
LEMMA OthersKeep ==
  ASSUME NEW v \in Workers, Same(v), TurnInv(v), AskedInv(v)
  PROVE  TurnInv(v)' /\ AskedInv(v)'
<1>1. /\ pc'[v] = pc[v] /\ n'[v] = n[v] /\ cur'[v] = cur[v] /\ isSend'[v] = isSend[v]
      /\ ev'[v] = ev[v] /\ msgs'[v] = msgs[v] /\ using'[v] = using[v]
      /\ \A c \in Connection : c[1] = v => asked'[c] = asked[c]
  BY DEF Same, SameEngine
<1>2. TurnInv(v)'
  BY <1>1 DEF TurnInv, Answered, OwnRequest, PreviousRequest, Sends, Places
<1>3. AskedInv(v)'
  BY <1>1 DEF AskedInv, OwnRequest, Sends, Places
<1> QED
  BY <1>2, <1>3

\* What libevent and the callbacks do to a queue and to the request under way
\* (httpstep.C:166-213).
LEMMA CallBackEffect ==
  ASSUME TypeInv, NEW c \in Connection, CallBack(c) \/ CloseIdle(c)
  PROVE  /\ pc[c[1]] = "loop" /\ pc' = [pc EXCEPT ![c[1]] = "left"]
         /\ asked' = [asked EXCEPT ![c] = NoRequest]
         /\ UNCHANGED <<n, cur, isSend, ev, method, members, map, target, conn>>
         /\ undefined' \in BOOLEAN
         /\ \/ msgs' = msgs
            \/ /\ asked[c] # NoRequest
               /\ \E e \in Event : /\ e.kind # "none" /\ e.of = asked[c]
                                   /\ msgs' = Pushed(c[1], target[c], e)
<1>1. asked[c] \in Request \cup {NoRequest} /\ undefined \in BOOLEAN
  BY DEF TypeInv, TypeOK
<1>2. CASE Respond(c)
  <2>1. PICK fits \in BOOLEAN : Push(c, [kind |-> "data", fits |-> fits, of |-> asked[c]])
    BY <1>2 DEF Respond
  <2> DEFINE e == [kind |-> "data", fits |-> fits, of |-> asked[c]]
  <2>2. e \in Event /\ e.kind # "none" /\ e.of = asked[c]
    BY <1>1, EventTypes
  <2>3. (msgs' = msgs \/ msgs' = Pushed(c[1], target[c], e)) /\ undefined' \in BOOLEAN
    BY <2>1 DEF Push
  <2> HIDE DEF e
  <2> QED
    BY <1>2, <2>2, <2>3 DEF Respond, ExitLoop, At
<1>3. CASE FailConnect(c)
  <2>1. ErrorEvent(asked[c]) \in Event /\ ErrorEvent(asked[c]).kind # "none" /\ ErrorEvent(asked[c]).of = asked[c]
    BY <1>1, EventTypes DEF ErrorEvent
  <2>2. (msgs' = msgs \/ msgs' = Pushed(c[1], target[c], ErrorEvent(asked[c]))) /\ undefined' \in BOOLEAN
    BY <1>3 DEF FailConnect, Push
  <2> QED
    BY <1>3, <2>1, <2>2 DEF FailConnect, ExitLoop, At
<1>4. CASE FailRequest(c) \/ CloseIdle(c)
  BY <1>1, <1>4 DEF FailRequest, CloseIdle, ExitLoop, At
<1> QED
  BY <1>2, <1>3, <1>4 DEF CallBack

\* Every action is one worker's, or that of the callbacks in its event loop: the
\* others, and their connections, are left alone (httpstep.C:87-213).
LEMMA OneWorker ==
  ASSUME IInv, NEW w \in Workers,
         \/ Worker(w) \/ Reconnect(w)
         \/ \E c \in Connection : c[1] = w /\ (CallBack(c) \/ CloseIdle(c))
  PROVE  \A v \in Workers \ {w} : Same(v)
<1> USE DEF IInv, TypeInv
<1>0. AskedInv(w) /\ NoConnection \notin Connection
  BY ConnectionTypes
<1>a. ASSUME UNCHANGED <<using, asked>>, \A v \in Workers \ {w} : SameEngine(v)
      PROVE  \A v \in Workers \ {w} : Same(v)
  BY <1>a DEF Same
<1>b. ASSUME UNCHANGED <<engine, using, asked>> PROVE \A v \in Workers \ {w} : Same(v)
  BY <1>b DEF Same, SameEngine, engine
<1>1. CASE NewTransaction(w) /\ UNCHANGED <<using, asked>>
  BY <1>1, <1>a, NewKeeps
<1>2. CASE Install(w)
  BY <1>2, <1>a, GoToKeeps DEF Install, At, map
<1>3. CASE Turn(w)
  BY <1>3, <1>a, TakeKeeps, GoOnKeeps DEF Turn, map
<1>4. CASE Recv(w)
  BY <1>4, <1>a, SucceedKeeps, EndKeeps DEF Recv, At, map
<1>5. CASE EndWithout(w)
  BY <1>5, <1>a, EndKeeps DEF EndWithout, map
<1>6. CASE SetBase(w)
  <2>1. \A v \in Workers \ {w} : SameEngine(v)
    BY <1>6, GoToKeeps DEF SetBase, At, Places
  <2>2. asked' = asked /\ \A v \in Workers \ {w} : using'[v] = using[v]
    BY <1>6 DEF SetBase, TypeOK
  <2> QED
    BY <2>1, <2>2 DEF Same
<1>7. CASE Connect(w)
  <2>1. UNCHANGED <<using, asked>> /\ (UNCHANGED engine \/ (GoTo(w, "request") /\ pc[w] = "connect"))
    BY <1>7 DEF Connect, Undefined, At, map
  <2> QED
    BY <1>a, <1>b, <2>1, GoToKeeps DEF Places
<1>8. CASE MakeRequest(w)
  <2>1. /\ UNCHANGED using /\ (asked' = asked \/ asked' = [asked EXCEPT ![using[w]] = OwnRequest(w)])
        /\ UNCHANGED engine \/ End(w) \/ (GoTo(w, "dispatch") /\ pc[w] = "request")
    BY <1>8 DEF MakeRequest, Undefined, At, map
  <2>2. \A v \in Workers \ {w} : SameEngine(v)
    BY <2>1, GoToKeeps, EndKeeps DEF SameEngine, Places, engine
  <2>3. \A c \in Connection : c[1] # w => asked'[c] = asked[c]
    <3>1. asked \in [Connection -> Request \cup {NoRequest}]
      BY DEF TypeOK
    <3>2. \A c \in Connection : c[1] # w => c # using[w]
      BY <1>0 DEF AskedInv
    <3> QED
      BY <2>1, <3>1, <3>2
  <2> QED
    BY <2>1, <2>2, <2>3 DEF Same
<1>9. CASE Dispatch(w)
  <2>1. UNCHANGED <<using, asked>> /\ (UNCHANGED engine \/ (GoTo(w, "loop") /\ pc[w] = "dispatch"))
    BY <1>9 DEF Dispatch, Undefined, At, map
  <2> QED
    BY <1>a, <1>b, <2>1, GoToKeeps DEF Places
<1>10. CASE LeaveLoop(w)
  BY <1>10, <1>a, SucceedKeeps DEF LeaveLoop, At, map
<1>11. CASE Reconnect(w)
  BY <1>11, <1>b DEF Reconnect
<1>12. ASSUME NEW c \in Connection, c[1] = w, CallBack(c) \/ CloseIdle(c)
       PROVE  \A v \in Workers \ {w} : Same(v)
  <2>1. /\ pc' = [pc EXCEPT ![w] = "left"] /\ asked' = [asked EXCEPT ![c] = NoRequest]
        /\ UNCHANGED <<n, cur, isSend, ev, using>>
        /\ \/ msgs' = msgs
           \/ \E e \in Event : msgs' = Pushed(w, target[c], e)
    BY <1>12, CallBackEffect DEF map
  <2>2. \A v \in Workers \ {w} : msgs'[v] = msgs[v]
    BY <2>1, PushedTypes DEF EngineInv, EngineTypeOK
  <2>3. \A v \in Workers \ {w} : SameEngine(v)
    BY <2>1, <2>2 DEF SameEngine, EngineInv, EngineTypeOK
  <2>4. \A d \in Connection : d[1] # w => asked'[d] = asked[d]
    BY <1>12, <2>1 DEF TypeOK
  <2> QED
    BY <2>1, <2>3, <2>4 DEF Same
<1> QED
  BY <1>1, <1>2, <1>3, <1>4, <1>5, <1>6, <1>7, <1>8, <1>9, <1>10, <1>11, <1>12 DEF Worker, map

\* At the start no worker has a transaction and no connection (socketpool.C:252-254).
LEMMA InitInv == Init => IInv
<1> SUFFICES ASSUME Init PROVE IInv
  OBVIOUS
<1>1. EngineInv(Places)
  BY InitKeeps DEF Init
<1>2. TypeOK
  <2>1. EngineTypeOK({"connect", "request", "dispatch", "loop", "left"})
    BY <1>1 DEF EngineInv, Places
  <2>2. 0 \in 0 .. MaxTrans /\ 0 \in 0 .. Tests
    BY BoundAssumption, TestsAssumption
  <2>3. /\ mBase \in [Steps -> Workers \cup {None}]
        /\ mConn \in [Steps -> Connection \cup {NoConnection}] /\ prefixed \in [Steps -> 0 .. 2]
    BY DEF Init
  <2>4. /\ test \in [Workers -> 0 .. Tests]
        /\ using \in [Workers -> Connection \cup {NoConnection}]
        /\ target \in [Connection -> 0 .. MaxTrans]
        /\ asked \in [Connection -> Request \cup {NoRequest}]
    BY <2>2 DEF Init
  <2>5. /\ conn \in [Connection -> {"null", "garbage", "right", "wrong"}]
        /\ dns \in [Connection -> {"null", "first", "later"}]
        /\ linked \in [Connection -> BOOLEAN] /\ freed \in [Connection -> BOOLEAN]
        /\ lost \in [Workers -> BOOLEAN] /\ undefined \in BOOLEAN
    BY DEF Init
  <2>6. method \in [SendSteps -> Methods]
    BY DEF Init
  <2> QED
    BY <2>1, <2>3, <2>4, <2>5, <2>6 DEF TypeOK
<1>3. \A w \in Workers : TurnInv(w) /\ AskedInv(w)
  BY DEF Init, InitEngine, TurnInv, AskedInv, Places
<1> QED
  BY <1>1, <1>2, <1>3 DEF IInv, TypeInv

\* Every handler keeps the types (httpstep.C:87-213, transaction.C:48-105).
LEMMA StepType == TypeInv /\ [Next]_vars => TypeInv'
<1> SUFFICES ASSUME TypeInv, [Next]_vars PROVE TypeInv'
  OBVIOUS
<1> USE DEF TypeInv
<1>0. /\ EngineInv(Places)' => EngineTypeOK({"connect", "request", "dispatch", "loop", "left"})'
      /\ \A w \in Workers : pc[w] # "new" => OwnRequest(w) \in Request
  BY DEF EngineInv, Places, EngineTypeOK, OwnRequest, Request
<1>1. ASSUME NEW w \in Workers, NewTransaction(w),
             UNCHANGED <<method, members, map, target, http, asked, lost, undefined>>
      PROVE  TypeInv'
  BY <1>0, <1>1, NewKeeps DEF TypeOK, members, http, map
<1>2. ASSUME NEW w \in Workers, Install(w) PROVE TypeInv'
  <2>1. EngineInv(Places)'
    BY <1>2, GoToKeeps DEF Install, At
  <2>2. n[w] \in 0 .. MaxTrans
    BY DEF EngineInv, EngineTypeOK
  <2>3. target' \in [Connection -> 0 .. MaxTrans]
    BY <1>2, <2>2 DEF Install, TypeOK
  <2> QED
    BY <1>0, <1>2, <2>1, <2>3 DEF Install, TypeOK, members, http, map
<1>3. ASSUME NEW w \in Workers, Turn(w) PROVE TypeInv'
  <2>1. EngineInv(Places)'
    BY <1>3, TakeKeeps, GoOnKeeps DEF Turn
  <2> QED
    BY <1>0, <1>3, <2>1 DEF Turn, TypeOK, members, http, map
<1>4. ASSUME NEW w \in Workers, Recv(w) \/ LeaveLoop(w) \/ EndWithout(w) PROVE TypeInv'
  <2>1. EngineInv(Places)'
    BY <1>4, SucceedKeeps, EndKeeps DEF Recv, LeaveLoop, EndWithout, At
  <2> QED
    BY <1>0, <1>4, <2>1 DEF Recv, LeaveLoop, EndWithout, TypeOK, members, http, map
<1>5. ASSUME NEW w \in Workers, SetBase(w) PROVE TypeInv'
  <2>1. EngineInv(Places)'
    BY <1>5, GoToKeeps DEF SetBase, At, Places
  <2>2. cur[w] \in Steps /\ prefixed[cur[w]] \in 0 .. 2 /\ test[w] \in 0 .. Tests
    BY DEF EngineInv, EngineTypeOK, TypeOK
  <2>3. prefixed' \in [Steps -> 0 .. 2]
    BY <1>5, <2>2 DEF SetBase, TypeOK
  <2>4. <<w, test[w]>> \in Connection
    BY <1>5, <2>2, ConnectionTypes, TestsAssumption DEF SetBase
  <2>5. /\ using' \in [Workers -> Connection \cup {NoConnection}]
        /\ dns' \in [Connection -> {"null", "first", "later"}]
        /\ mBase' \in [Steps -> Workers \cup {None}]
    BY <1>5, <2>4 DEF SetBase, TypeOK
  <2> QED
    BY <1>0, <1>5, <2>1, <2>3, <2>5 DEF SetBase, TypeOK
<1>6. ASSUME NEW w \in Workers, Connect(w) PROVE TypeInv'
  <2>1. CASE Undefined(w)
    BY <1>0, <1>6, <2>1
       DEF Connect, Undefined, TypeOK, members, http, map, engine, EngineInv, EngineTypeOK
  <2>2. CASE ~Undefined(w)
    <3>1. EngineInv(Places)'
      BY <1>6, <2>2, GoToKeeps DEF Connect, At, Places
    <3>2. cur[w] \in Steps /\ using[w] \in Connection \cup {NoConnection}
      BY DEF EngineInv, EngineTypeOK, TypeOK
    <3>3. mConn' \in [Steps -> Connection \cup {NoConnection}]
      BY <1>6, <2>2, <3>2 DEF Connect, TypeOK
    <3>4. conn' \in [Connection -> {"null", "garbage", "right", "wrong"}]
      BY <1>6, <2>2 DEF Connect, TypeOK
    <3> QED
      BY <1>0, <1>6, <2>2, <3>1, <3>3, <3>4 DEF Connect, TypeOK, map
  <2> QED
    BY <2>1, <2>2
<1>7. ASSUME NEW w \in Workers, MakeRequest(w) PROVE TypeInv'
  <2>1. CASE Undefined(w)
    BY <1>0, <1>7, <2>1
       DEF MakeRequest, Undefined, TypeOK, members, http, map, engine, EngineInv, EngineTypeOK
  <2>2. CASE ~Undefined(w)
    <3>1. EngineInv(Places)'
      BY <1>7, <2>2, GoToKeeps, EndKeeps DEF MakeRequest, At, Places
    <3>2. OwnRequest(w) \in Request
      BY <1>0, <1>7 DEF MakeRequest, At
    <3>3. asked' \in [Connection -> Request \cup {NoRequest}] /\ lost' \in [Workers -> BOOLEAN]
      BY <1>7, <2>2, <3>2 DEF MakeRequest, TypeOK
    <3>4. UNCHANGED <<method, members, map, target, http, undefined>>
      BY <1>7, <2>2 DEF MakeRequest
    <3> QED
      BY <1>0, <3>1, <3>3, <3>4 DEF TypeOK, members, http, map
  <2> QED
    BY <2>1, <2>2
<1>8. ASSUME NEW w \in Workers, Dispatch(w) PROVE TypeInv'
  <2>1. CASE Undefined(w)
    BY <1>0, <1>8, <2>1
       DEF Dispatch, Undefined, TypeOK, members, http, map, engine, EngineInv, EngineTypeOK
  <2>2. CASE ~Undefined(w)
    <3>1. EngineInv(Places)'
      BY <1>8, <2>2, GoToKeeps DEF Dispatch, At, Places
    <3> QED
      BY <1>0, <1>8, <2>2, <3>1 DEF Dispatch, TypeOK, members, http, map
  <2> QED
    BY <2>1, <2>2
<1>9. ASSUME NEW c \in Connection, CallBack(c) \/ CloseIdle(c) PROVE TypeInv'
  <2>0. c[1] \in Workers
    BY ConnectionTypes
  <2>1. EngineInv(Places)'
    <3>1. msgs' \in [Workers -> Seq(Event)]
      BY <1>9, <2>0, CallBackEffect, PushedTypes DEF EngineInv, EngineTypeOK
    <3>2. pc[c[1]] = "loop" /\ pc' = [pc EXCEPT ![c[1]] = "left"] /\ UNCHANGED <<n, cur, isSend, ev>>
      BY <1>9, CallBackEffect
    <3> QED
      BY <3>1, <3>2 DEF EngineInv, EngineTypeOK, Places
  <2>2. /\ dns' \in [Connection -> {"null", "first", "later"}]
        /\ linked' \in [Connection -> BOOLEAN] /\ freed' \in [Connection -> BOOLEAN]
        /\ lost' \in [Workers -> BOOLEAN]
    BY <1>9 DEF TypeOK, CallBack, CloseIdle, Respond, FailConnect, FailRequest, Close
  <2>3. asked' \in [Connection -> Request \cup {NoRequest}]
    BY <1>9, CallBackEffect DEF TypeOK
  <2> QED
    BY <1>0, <1>9, <2>1, <2>2, <2>3, CallBackEffect DEF TypeOK, members, map
<1>10. ASSUME NEW w \in Workers, Reconnect(w) PROVE TypeInv'
  <2>1. EngineInv(Places)'
    BY <1>10 DEF Reconnect, engine, EngineInv, EngineTypeOK
  <2>2. test' \in [Workers -> 0 .. Tests]
    <3>1. test[w] + 1 \in 0 .. Tests
      BY <1>10, TestsAssumption DEF Reconnect, TypeOK
    <3> QED
      BY <1>10, <3>1 DEF Reconnect, TypeOK
  <2>3. conn' \in [Connection -> {"null", "garbage", "right", "wrong"}]
    BY <1>10 DEF Reconnect, TypeOK
  <2> QED
    BY <1>0, <1>10, <2>1, <2>2, <2>3 DEF Reconnect, TypeOK, members
<1>11. CASE UNCHANGED vars
  BY <1>0, <1>11 DEF vars, engine, members, http, map, TypeOK, EngineInv, EngineTypeOK
<1> QED
  BY <1>1, <1>2, <1>3, <1>4, <1>5, <1>6, <1>7, <1>8, <1>9, <1>10, <1>11 DEF Next, Worker

\* Every handler keeps its worker's turn: a send step leaves the loop with an event
\* at most, which the recv step after it takes (httpstep.C:32-166,
\* transaction.C:54-82).
LEMMA StepTurn ==
  ASSUME IInv, NEW w \in Workers,
         \/ Worker(w) \/ Reconnect(w)
         \/ \E c \in Connection : c[1] = w /\ (CallBack(c) \/ CloseIdle(c))
  PROVE  TurnInv(w)' /\ AskedInv(w)'
<1> USE DEF IInv, TypeInv
<1> DEFINE Idle == \A c \in Connection : c[1] = w => asked[c] = NoRequest
<1>0. /\ TurnInv(w) /\ AskedInv(w) /\ cur[w] \in Steps /\ n[w] \in Nat
      /\ 1 \in Steps /\ 1 % 2 = 1
      /\ Script[cur[w]] = IF Sends(w) THEN "send" ELSE "recv"
      /\ Sends(w) => cur[w] + 1 \in Steps /\ (cur[w] + 1) % 2 # 1 /\ cur[w] < Len(Script)
      /\ ~Sends(w) => (cur[w] + 1) % 2 = 1
  BY Parity
<1>a. \/ Idle \/ pc[w] \in {"dispatch", "loop", "left"}
      \/ pc[w] = "event" /\ ~Sends(w) /\ msgs[w] = <<>>
  BY <1>0 DEF AskedInv
<1>b. ASSUME Idle, asked' = asked, using' = using,
             pc'[w] \in Places => pc[w] \in Places
      PROVE  AskedInv(w)'
  BY <1>0, <1>b DEF AskedInv
<1>1. CASE NewTransaction(w) /\ UNCHANGED <<map, asked>>
  <2>1. pc[w] = "new" /\ Idle
    BY <1>1, <1>a DEF NewTransaction
  <2>2. /\ pc'[w] = "install" /\ n'[w] = n[w] + 1 /\ cur'[w] = 1 /\ isSend'[w] /\ msgs'[w] = <<>>
    BY <1>1, NewKeeps
  <2>3. AskedInv(w)'
    BY <1>1, <1>b, <2>1, <2>2 DEF Places, map
  <2> QED
    BY <1>0, <2>2, <2>3 DEF TurnInv, Places, Sends
<1>2. CASE Install(w)
  <2>1. /\ pc[w] = "install" /\ pc'[w] = "event" /\ asked' = asked /\ using' = using
        /\ n' = n /\ cur' = cur /\ isSend' = isSend /\ ev' = ev /\ msgs' = msgs
    BY <1>2, GoToKeeps DEF Install, At, map
  <2>2. AskedInv(w)'
    BY <1>a, <1>b, <2>1 DEF Places
  <2> QED
    BY <1>0, <2>1, <2>2 DEF TurnInv, Places, Sends
<1>3. CASE Turn(w)
  <2>1. UNCHANGED <<using, asked>> /\ pc[w] = "event"
    BY <1>3 DEF Turn, TakeEvent, GoOnWithout, map
  <2>2. CASE TakeEvent(w)
    <3>1. /\ n' = n /\ cur' = cur /\ isSend'[w] /\ msgs[w] # <<>>
          /\ ev'[w] = Head(msgs[w]) /\ msgs'[w] = Tail(msgs[w])
          /\ pc'[w] = IF Script[cur[w]] = "send" THEN "send" ELSE "suprecv"
      BY <2>2, TakeKeeps
    <3>2. ~Sends(w) /\ Answered(w, PreviousRequest(w)) /\ Idle
      BY <1>0, <1>a, <2>1, <3>1 DEF TurnInv
    <3>3. ev'[w].kind # "none" /\ ev'[w].of = PreviousRequest(w) /\ msgs'[w] = <<>>
      <4>1. PICK e \in Event : msgs[w] = <<e>> /\ e.kind # "none" /\ e.of = PreviousRequest(w)
        BY <3>1, <3>2 DEF Answered
      <4>2. Head(<<e>>) = e /\ Tail(<<e>>) = <<>>
        OBVIOUS
      <4> QED
        BY <3>1, <4>1, <4>2, ZenonT(30)
    <3>4. pc'[w] = "suprecv" /\ PreviousRequest(w)' = PreviousRequest(w)
      BY <1>0, <3>1, <3>2 DEF PreviousRequest
    <3>5. AskedInv(w)'
      BY <1>b, <2>1, <3>2, <3>4 DEF Places
    <3>6. TurnInv(w)'
      BY <3>1, <3>2, <3>3, <3>4 DEF TurnInv, Places, Sends
    <3> QED
      BY <3>5, <3>6
  <2>3. CASE GoOnWithout(w)
    <3>1. /\ n' = n /\ cur' = cur /\ msgs' = msgs /\ isSend[w] /\ ~isSend'[w]
          /\ msgs[w] = <<>> /\ ev'[w] = NoEvent
          /\ pc'[w] = IF Script[cur[w]] = "send" THEN "send" ELSE "suprecv"
      BY <2>3, GoOnKeeps
    <3>2. Sends(w) /\ pc'[w] = "send" /\ Idle
      BY <1>0, <1>a, <2>1, <3>1 DEF TurnInv
    <3>3. AskedInv(w)'
      BY <1>b, <2>1, <3>2 DEF Places
    <3>4. TurnInv(w)'
      BY <3>1, <3>2 DEF TurnInv, Places, Sends
    <3> QED
      BY <3>3, <3>4
  <2> QED
    BY <1>3, <2>2, <2>3 DEF Turn
<1>4. CASE (Recv(w) \/ EndWithout(w)) /\ End(w)
  <2>1. pc'[w] = "new" /\ UNCHANGED <<using, asked>> /\ pc[w] \in {"send", "suprecv"}
    BY <1>4, EndKeeps DEF Recv, EndWithout, At, map
  <2>2. AskedInv(w)'
    BY <1>a, <1>b, <2>1 DEF Places
  <2> QED
    BY <1>4, <2>1, <2>2, EndKeeps DEF TurnInv, Places
<1>5. CASE Recv(w) /\ Succeed(w)
  <2>1. /\ pc[w] = "suprecv" /\ UNCHANGED <<using, asked>> /\ ~Sends(w)
        /\ isSend[w] /\ msgs[w] = <<>> /\ Idle
    BY <1>0, <1>5, <1>a DEF Recv, At, TurnInv, map
  <2>2. /\ n' = n /\ isSend' = isSend /\ ev' = ev /\ msgs' = msgs
        /\ \/ pc'[w] = "event" /\ cur'[w] = cur[w] + 1 /\ cur[w] + 1 \in Steps
           \/ pc'[w] = "new"
    BY <1>5, <2>1, SucceedKeeps
  <2>3. AskedInv(w)'
    BY <1>b, <2>1, <2>2 DEF Places
  <2>4. pc'[w] = "event" => Sends(w)'
    BY <1>0, <2>1, <2>2 DEF Sends
  <2>5. TurnInv(w)'
    BY <2>1, <2>2, <2>4 DEF TurnInv, Places
  <2> QED
    BY <2>3, <2>5
<1>6. CASE LeaveLoop(w)
  <2>1. /\ pc[w] = "left" /\ UNCHANGED <<using, asked>> /\ Sends(w) /\ Succeed(w)
        /\ ~isSend[w] /\ Answered(w, OwnRequest(w))
    BY <1>0, <1>6 DEF LeaveLoop, At, TurnInv, Places, map
  <2>2. /\ n' = n /\ isSend' = isSend /\ ev' = ev /\ msgs' = msgs
        /\ \/ pc'[w] = "event" /\ cur'[w] = cur[w] + 1 /\ cur[w] + 1 \in Steps
           \/ pc'[w] = "new" /\ cur'[w] = cur[w] /\ cur[w] = Len(Script)
    BY <2>1, SucceedKeeps
  <2>3. cur[w] < Len(Script) /\ cur[w] \in Nat /\ Len(Script) \in Nat
    BY <1>0, <2>1, StepNumbers
  <2>4. pc'[w] = "event" /\ cur'[w] = cur[w] + 1 /\ ~Sends(w)'
    BY <1>0, <2>1, <2>2, <2>3 DEF Sends
  <2>5. PreviousRequest(w)' = OwnRequest(w)
    BY <2>2, <2>3, <2>4 DEF PreviousRequest, OwnRequest
  <2>6. Answered(w, PreviousRequest(w))'
    BY <2>1, <2>2, <2>5 DEF Answered
  <2>7. TurnInv(w)'
    BY <2>1, <2>2, <2>4, <2>6 DEF TurnInv, Places
  <2>8. AskedInv(w)'
    BY <1>0, <2>1, <2>2, <2>4 DEF AskedInv, Places
  <2> QED
    BY <2>7, <2>8
<1>7. CASE SetBase(w)
  <2>1. /\ pc[w] = "send" /\ pc'[w] = "connect" /\ asked' = asked /\ Idle
        /\ n' = n /\ cur' = cur /\ isSend' = isSend /\ ev' = ev /\ msgs' = msgs
    BY <1>7, <1>a, GoToKeeps DEF SetBase, At, Places
  <2>2. using'[w] \in Connection /\ using'[w][1] = w
    <3>1. test[w] \in 0 .. Tests /\ test[w] # 0 /\ using' = [using EXCEPT ![w] = <<w, test[w]>>]
      BY <1>7 DEF SetBase, TypeOK
    <3> QED
      BY <3>1, ConnectionTypes DEF TypeOK
  <2>3. AskedInv(w)'
    BY <2>1, <2>2 DEF AskedInv
  <2>4. TurnInv(w)'
    BY <1>0, <2>1 DEF TurnInv, Places, Sends
  <2> QED
    BY <2>3, <2>4
<1>8. CASE Undefined(w) /\ UNCHANGED using
  <2>1. UNCHANGED <<pc, n, cur, isSend, ev, msgs, using, asked>>
    BY <1>8 DEF Undefined, engine
  <2> QED
    BY <1>0, <2>1, OthersKeep DEF Same, SameEngine
<1>9. CASE Connect(w) /\ ~Undefined(w)
  <2>1. /\ pc[w] = "connect" /\ pc'[w] = "request" /\ UNCHANGED <<using, asked>> /\ Idle
        /\ n' = n /\ cur' = cur /\ isSend' = isSend /\ ev' = ev /\ msgs' = msgs
    BY <1>9, <1>a, GoToKeeps DEF Connect, At, Places, map
  <2>2. AskedInv(w)'
    BY <1>b, <2>1 DEF Places
  <2>3. TurnInv(w)'
    BY <1>0, <2>1 DEF TurnInv, Places, Sends
  <2> QED
    BY <2>2, <2>3
<1>10. CASE MakeRequest(w) /\ ~Undefined(w)
  <2>1. pc[w] = "request" /\ using' = using /\ Idle /\ using[w] \in Connection /\ using[w][1] = w
    <3>1. pc[w] = "request" /\ using' = using
      BY <1>10 DEF MakeRequest, At, map
    <3> QED
      BY <1>0, <1>a, <3>1, ConnectionTypes DEF AskedInv, Places
  <2>2. /\ n' = n /\ cur' = cur /\ isSend' = isSend /\ ev' = ev /\ msgs' = msgs
        /\ \/ pc'[w] = "new" /\ asked' = asked
           \/ pc'[w] = "dispatch" /\ (asked' = asked \/ asked' = [asked EXCEPT ![using[w]] = OwnRequest(w)])
    BY <1>10, <2>1, GoToKeeps, EndKeeps DEF MakeRequest, Places
  <2>3. TurnInv(w)'
    BY <1>0, <2>1, <2>2 DEF TurnInv, Places, Sends
  <2>4. CASE asked' = asked
    BY <1>b, <2>1, <2>2, <2>3, <2>4 DEF Places
  <2>5. CASE asked' = [asked EXCEPT ![using[w]] = OwnRequest(w)] /\ pc'[w] = "dispatch"
    <3>1. \A c \in Connection : c[1] = w => asked'[c] = IF c = using[w] THEN OwnRequest(w) ELSE NoRequest
      BY <2>1, <2>5 DEF TypeOK
    <3>2. OwnRequest(w)' = OwnRequest(w)
      BY <2>2 DEF OwnRequest
    <3>3. AskedInv(w)'
      BY <2>1, <2>5, <3>1, <3>2 DEF AskedInv
    <3> QED
      BY <2>3, <3>3
  <2> QED
    BY <2>2, <2>4, <2>5
<1>11. CASE Dispatch(w) /\ ~Undefined(w)
  <2>1. /\ pc[w] = "dispatch" /\ pc'[w] = "loop" /\ UNCHANGED <<using, asked>>
        /\ n' = n /\ cur' = cur /\ isSend' = isSend /\ ev' = ev /\ msgs' = msgs
    BY <1>11, GoToKeeps DEF Dispatch, At, Places, map
  <2>2. AskedInv(w)'
    BY <1>0, <2>1 DEF AskedInv, Places, OwnRequest
  <2>3. TurnInv(w)'
    BY <1>0, <2>1 DEF TurnInv, Places, Sends
  <2> QED
    BY <2>2, <2>3
<1>12. CASE Reconnect(w)
  <2>1. UNCHANGED <<pc, n, cur, isSend, ev, msgs, using, asked>>
    BY <1>12 DEF Reconnect, engine
  <2> QED
    BY <1>0, <2>1, OthersKeep DEF Same, SameEngine
<1>13. ASSUME NEW c \in Connection, c[1] = w, CallBack(c) \/ CloseIdle(c)
       PROVE  TurnInv(w)' /\ AskedInv(w)'
  <2>1. /\ pc[w] = "loop" /\ pc'[w] = "left" /\ asked' = [asked EXCEPT ![c] = NoRequest]
        /\ UNCHANGED <<n, cur, isSend, ev, using>>
    BY <1>13, CallBackEffect DEF map, EngineInv, EngineTypeOK
  <2>2. Sends(w) /\ ~isSend[w] /\ msgs[w] = <<>>
    BY <1>0, <2>1 DEF TurnInv, Places
  <2>3. \/ msgs' = msgs
        \/ /\ asked[c] # NoRequest /\ asked[c] = OwnRequest(w)
           /\ \E e \in Event : e.kind # "none" /\ e.of = OwnRequest(w) /\ msgs' = Pushed(w, target[c], e)
    <3>1. asked[c] # NoRequest => asked[c] = OwnRequest(w)
      BY <1>0, <1>13, <2>1 DEF AskedInv
    <3>2. \/ msgs' = msgs
          \/ /\ asked[c] # NoRequest
             /\ \E e \in Event : e.kind # "none" /\ e.of = asked[c] /\ msgs' = Pushed(c[1], target[c], e)
      BY <1>13, CallBackEffect
    <3> QED
      BY <1>13, <3>1, <3>2
  <2>4. OwnRequest(w)' = OwnRequest(w) /\ Sends(w)'
    BY <2>1, <2>2 DEF OwnRequest, Sends
  <2>5. Answered(w, OwnRequest(w))'
    <3>1. CASE msgs' = msgs
      BY <2>2, <3>1 DEF Answered
    <3>2. CASE msgs' # msgs
      <4>1. PICK e \in Event : /\ e.kind # "none" /\ e.of = OwnRequest(w)
                               /\ msgs' = Pushed(w, target[c], e)
        BY <2>3, <3>2
      <4>2. msgs'[w] \in {msgs[w], Append(msgs[w], e)}
        BY <4>1, PushedTypes DEF EngineInv, EngineTypeOK
      <4>3. Append(<<>>, e) = <<e>>
        OBVIOUS
      <4> QED
        BY <2>2, <2>4, <4>1, <4>2, <4>3 DEF Answered
    <3> QED
      BY <3>1, <3>2
  <2>6. TurnInv(w)'
    BY <2>1, <2>2, <2>4, <2>5 DEF TurnInv, Places
  <2>7. \A d \in Connection : d[1] = w /\ asked'[d] # NoRequest =>
          d # c /\ asked'[d] = asked[d] /\ asked[d] # NoRequest
    BY <2>1 DEF TypeOK
  <2>8. (\E d \in Connection : d[1] = w /\ asked'[d] # NoRequest) => msgs'[w] = <<>>
    <3> SUFFICES ASSUME NEW d \in Connection, d[1] = w, asked'[d] # NoRequest PROVE msgs' = msgs
      BY <2>2
    <3>1. asked[c] = NoRequest
      BY <1>0, <1>13, <2>7 DEF AskedInv
    <3> QED
      BY <2>3, <3>1
  <2>9. AskedInv(w)'
    <3>1. \A d, f \in Connection :
            d[1] = w /\ f[1] = w /\ asked'[d] # NoRequest /\ asked'[f] # NoRequest => d = f
      BY <1>0, <2>7 DEF AskedInv
    <3>2. using'[w] \in Connection /\ (using'[w] # NoConnection => using'[w][1] = w)
      BY <1>0, <2>1 DEF AskedInv, Places
    <3> QED
      BY <2>1, <2>8, <3>1, <3>2 DEF AskedInv
  <2> QED
    BY <2>6, <2>9
<1> QED
  <2>1. CASE Recv(w)
    BY <1>4, <1>5, <2>1 DEF Recv
  <2>2. CASE EndWithout(w)
    BY <1>4, <2>2 DEF EndWithout
  <2>3. CASE Connect(w)
    BY <1>8, <1>9, <2>3 DEF Connect, map
  <2>4. CASE MakeRequest(w)
    BY <1>8, <1>10, <2>4 DEF MakeRequest, map
  <2>5. CASE Dispatch(w)
    BY <1>8, <1>11, <2>5 DEF Dispatch, map
  <2> QED
    BY <1>1, <1>2, <1>3, <1>6, <1>7, <1>12, <1>13, <2>1, <2>2, <2>3, <2>4, <2>5 DEF Worker
-----------------------------------------------------------------------------
\* Every variable keeps its type (httpstep.C:32-213).
THEOREM TypeCorrect == Spec => []TypeOK
<1>1. Init => TypeInv
  BY InitInv DEF IInv
<1>2. TypeInv => TypeOK
  BY DEF TypeInv
<1> QED
  BY <1>1, <1>2, StepType, PTL DEF Spec

\* The turns are kept, too, and one request a worker at most is under way, in scripts of
\* exchanges of any length, with any number of workers and of tests
\* (transaction.C:48-105, httpstep.C:32-213).
THEOREM InductiveInvariant == Spec => []IInv
<1>1. IInv /\ [Next]_vars => IInv'
  <2> SUFFICES ASSUME IInv, [Next]_vars PROVE \A v \in Workers : TurnInv(v)' /\ AskedInv(v)'
    BY StepType DEF IInv
  <2>1. CASE UNCHANGED vars
    BY <2>1, OthersKeep DEF vars, engine, map, Same, SameEngine, IInv
  <2>2. ASSUME NEW w \in Workers,
               \/ Worker(w) \/ Reconnect(w)
               \/ \E c \in Connection : c[1] = w /\ (CallBack(c) \/ CloseIdle(c))
        PROVE  \A v \in Workers : TurnInv(v)' /\ AskedInv(v)'
    BY <2>2, StepTurn, OneWorker, OthersKeep DEF IInv
  <2>3. ASSUME NEW c \in Connection, CallBack(c) \/ CloseIdle(c)
        PROVE  \A v \in Workers : TurnInv(v)' /\ AskedInv(v)'
    <3>1. c[1] \in Workers
      BY ConnectionTypes
    <3> QED
      BY <2>2, <2>3, <3>1
  <2> QED
    BY <2>1, <2>2, <2>3 DEF Next
<1> QED
  BY <1>1, InitInv, PTL DEF Spec

\* THTTPStep::recv has an event whenever it is called (httpstep.C:152-166).
THEOREM RecvAlwaysHasEvent == Spec => []RecvHasEvent
<1>1. IInv => RecvHasEvent
  <2> SUFFICES ASSUME IInv, NEW w \in Workers, pc[w] = "suprecv" PROVE ev[w] # NoEvent
    BY DEF RecvHasEvent
  <2>1. ev[w].kind # "none"
    BY DEF IInv, TurnInv
  <2> QED
    BY <2>1 DEF NoEvent
<1> QED
  BY <1>1, InductiveInvariant, PTL

\* ... and it is about the request of the send step before it (httpstep.C:66-150).
THEOREM AnswerIsOwn == Spec => []OwnAnswer
<1>1. IInv => OwnAnswer
  BY DEF IInv, OwnAnswer, TurnInv, PreviousRequest
<1> QED
  BY <1>1, InductiveInvariant, PTL
=============================================================================
