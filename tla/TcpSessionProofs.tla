-------------------------- MODULE TcpSessionProofs --------------------------
(***************************************************************************)
(* What TcpSession promises.  For any workers, any script and any answers: *)
(* every variable keeps its type, and tTransation is used before it is set *)
(* only when a new test replaced a connection in use or an unused one      *)
(* failed; and no transaction waits for an event that its queue refused.   *)
(* For one worker whose script is a sequence of exchanges: a recv step has *)
(* the answer to the send step before it, and nothing is left between two  *)
(* transactions.                                                           *)
(***************************************************************************)
EXTENDS TcpSession, TransactionProofs, FiniteSetTheorems

Places == {"write"}
Bytes == [byte : Byte, of : Request]

\* A step that writes is a send step and has looked its connection up.
PlaceInv(w) ==
  /\ pc[w] \in {"send", "write"} => Script[cur[w]] = "send"
  /\ pc[w] \in {"suprecv", "recv"} => Script[cur[w]] = "recv"
  /\ pc[w] = "write" => mSock[cur[w]] # NoSocket

TypeInv == /\ TypeOK /\ EngineInv(Places) /\ \A w \in Workers : PlaceInv(w)
           /\ cb # NoCallback => cb.sock \in Socket
-----------------------------------------------------------------------------
(* Framing                                                                 *)

\* A set of integers with a lower and an upper bound has a least element: what
\* evbuffer_search finds is the first place of all (protocol.C:51-65).
LEMMA LeastElement ==
  ASSUME NEW a \in Int, NEW b \in Int, NEW at \in SUBSET (a .. b), at # {}
  PROVE  \E m \in at : \A k \in at : m <= k
<1> DEFINE S == a .. b
           T == {I \in SUBSET S : \E i \in at : I = a .. i}
<1>1. IsWellFoundedOn(StrictSubsetOrdering(S), SUBSET S)
  BY FS_Interval, FS_FiniteSubsetsOfFinite, FS_StrictSubsetOrderingWellFounded
<1>2. T \subseteq SUBSET S /\ T # {}
  <2>1. PICK i \in at : TRUE
    OBVIOUS
  <2>2. (a .. i) \in SUBSET S
    OBVIOUS
  <2> QED
    BY <2>2
<1>3. PICK I \in T : \A J \in T : ~ (<<J, I>> \in StrictSubsetOrdering(S))
  <2> HIDE DEF S, T
  <2> QED
    BY <1>1, <1>2, WFMin
<1>4. PICK i \in at : I = a .. i
  OBVIOUS
<1>5. \A k \in at : i <= k
  <2> SUFFICES ASSUME NEW k \in at, k < i PROVE FALSE
    OBVIOUS
  <2>1. a .. k \in T /\ a .. i \in SUBSET S
    OBVIOUS
  <2>2. a .. k \subseteq a .. i /\ a .. k # a .. i
    <3>1. i \in a .. i /\ i \notin a .. k
      OBVIOUS
    <3> QED
      BY <3>1
  <2>3. <<a .. k, I>> \in StrictSubsetOrdering(S)
    BY <1>4, <2>1, <2>2 DEF StrictSubsetOrdering
  <2> QED
    BY <1>3, <2>1, <2>3
<1> QED
  BY <1>5

\* A search ends at a place of the buffer or at -1 (protocol.C:51-65).
LEMMA SearchType ==
  ASSUME NEW b \in Seq(Byte), NEW what \in Seq(Byte)
  PROVE  Search(b, what, 0) \in Int /\ Search(b, what, 0) >= -1
<1> DEFINE at == {i \in 0 .. Len(b) - Len(what) : SubSeq(b, i + 1, i + Len(what)) = what}
<1>1. Search(b, what, 0) = IF at = {} THEN -1 ELSE Min(at)
  BY DEF Search
<1>2. CASE at # {}
  <2>1. \E m \in at : \A k \in at : m <= k
    <3>1. 0 \in Int /\ Len(b) - Len(what) \in Int /\ at \in SUBSET (0 .. Len(b) - Len(what))
      OBVIOUS
    <3> HIDE DEF at
    <3> QED
      BY <1>2, <3>1, LeastElement
  <2>2. Min(at) \in at
    <3> HIDE DEF at
    <3> QED
      BY <2>1 DEF Min
  <2>3. \A i \in at : i \in Int /\ i >= -1
    OBVIOUS
  <2> HIDE DEF at
  <2> QED
    BY <1>1, <1>2, <2>2, <2>3
<1> QED
  BY <1>1, <1>2

\* receiveHttpResponse counts bytes, or says -1 (protocol.C:31-76).
LEMMA FoundType ==
  ASSUME NEW b \in Seq(Byte)
  PROVE  ReceiveHttpResponse(b) \in Int
<1>1. LastChunk \in Seq(Byte) /\ Len(LastChunk) \in Nat
  BY DEF LastChunk, CrLf, Byte
<1>2. Search(b, LastChunk, 0) \in Int
  BY <1>1, SearchType
<1> QED
  BY <1>1, <1>2 DEF ReceiveHttpResponse

\* What is read, kept and drained are bytes (socketpool.C:150-190).
LEMMA BufferTypes ==
  ASSUME NEW q \in Seq(Bytes), NEW k \in 1 .. Len(q), NEW b \in Seq(Byte)
  PROVE  /\ SubSeq(q, k + 1, Len(q)) \in Seq(Bytes)
         /\ q[k].of \in Request
         /\ b \o Kept([i \in 1 .. k |-> q[i].byte]) \in Seq(Byte)
         /\ \A f \in Int : f >= 0 => Drained(b, f) \in Seq(Byte)
<1>1. SubSeq(q, k + 1, Len(q)) \in Seq(Bytes)
  BY SubSeqProperties
<1>2. \A i \in 1 .. k : q[i].byte \in Byte /\ q[i].of \in Request
  <2>1. \A i \in 1 .. k : q[i] \in Bytes
    OBVIOUS
  <2> QED
    BY <2>1 DEF Bytes
<1>3. b \o Kept([i \in 1 .. k |-> q[i].byte]) \in Seq(Byte)
  <2> DEFINE read == [i \in 1 .. k |-> q[i].byte]
  <2>1. read \in Seq(Byte) /\ Len(read) = k
    BY <1>2
  <2>2. Kept(read) \in Seq(Byte)
    <3> HIDE DEF read
    <3>1. 1 \in Int /\ Len(read) - 1 \in Int /\ \A i \in 1 .. Len(read) - 1 : read[i] \in Byte
      BY <2>1
    <3> QED
      BY <3>1, SubSeqProperties DEF Kept
  <2> QED
    BY <2>2, ConcatProperties
<1>4. ASSUME NEW f \in Int, f >= 0 PROVE Drained(b, f) \in Seq(Byte)
  <2>1. f + 1 \in Int /\ Len(b) \in Int /\ \A i \in f + 1 .. Len(b) : b[i] \in Byte
    BY <1>4
  <2> QED
    BY <2>1, SubSeqProperties DEF Drained
<1> QED
  <2>1. k \in 1 .. k
    OBVIOUS
  <2>2. q[k].of \in Request
    BY <1>2, <2>1
  <2> QED
    BY <1>1, <2>2, <1>3, <1>4, Zenon
-----------------------------------------------------------------------------
(* Types                                                                   *)

\* A worker's step, connection, counter and request (manager.C:158).
LEMMA WorkerTypes ==
  ASSUME TypeInv, NEW w \in Workers
  PROVE  /\ cur[w] \in Steps /\ n[w] \in 0 .. MaxTrans /\ test[w] \in 0 .. NewTests
         /\ Sock(w) \in Socket /\ NoSocket \notin Socket
         /\ pc[w] # "new" => OwnRequest(w) \in Request /\ n[w] >= 1
BY WorkersAssumption
   DEF TypeInv, TypeOK, EngineInv, EngineTypeOK, Sock, Socket, NoSocket, OwnRequest, Request

\* At the start there is no transaction and nothing has been said (manager.C:140).
LEMMA InitInv == Init => TypeInv
<1> SUFFICES ASSUME Init PROVE TypeInv
  OBVIOUS
<1>1. EngineInv(Places)
  BY InitKeeps DEF Init
<1>2. EngineTypeOK({"write"}) /\ expected \in Expected
  BY <1>1 DEF EngineInv, Places, Init
<1>3. 0 \in 0 .. NewTests /\ 0 \in 0 .. MaxTrans /\ 0 \in 0 .. MaxSplits /\ 0 \in Nat
  BY PeerAssumption, BoundAssumption
<1>4. <<>> \in Seq([byte : Byte, of : Request]) /\ <<>> \in Seq(Byte)
  BY EmptySeq
<1>5. cb \in [sock : Socket \cup {NoSocket}, target : 0 .. MaxTrans, event : Event]
  BY <1>3, EventTypes DEF Init, NoCallback
<1>6. /\ mSock \in [Steps -> Socket \cup {NoSocket}] /\ test \in [Workers -> 0 .. NewTests]
      /\ trans \in [Socket -> 0 .. MaxTrans]
      /\ splits \in [Socket -> 0 .. MaxSplits] /\ heard \in [Socket -> Nat]
  BY <1>3 DEF Init
<1>7. /\ wire \in [Socket -> Seq([byte : Byte, of : Request])]
      /\ readbuff \in [Socket -> Seq(Byte)] /\ link \in [Socket -> {"open", "noread", "off"}]
      /\ replaced \in [Workers -> BOOLEAN] /\ refused \in [Workers -> BOOLEAN]
      /\ undefined \in BOOLEAN
  BY <1>4 DEF Init
<1>8. \A w \in Workers : PlaceInv(w)
  BY DEF Init, InitEngine, PlaceInv
<1> QED
  BY <1>1, <1>2, <1>5, <1>6, <1>7, <1>8 DEF TypeInv, TypeOK, Init

\* What a worker does keeps the types (mptthreadpool.C:228, tcpstep.C:41-180).
LEMMA WorkerType ==
  ASSUME TypeInv, NEW w \in Workers, Worker(w)
  PROVE  TypeInv'
<1> USE DEF TypeInv
<1>0. /\ EngineInv(Places)' => EngineTypeOK({"write"})'
      /\ cur[w] \in Steps /\ n[w] \in 0 .. MaxTrans /\ Sock(w) \in Socket
      /\ NoSocket \notin Socket /\ PlaceInv(w)
      /\ Script[cur[w]] \in {"send", "recv"}
  BY WorkerTypes, StepNumbers DEF EngineInv, Places
<1>1. CASE New(w)
  <2>1. EngineInv(Places)' /\ (\A v \in Workers \ {w} : SameEngine(v)) /\ pc'[w] = "install"
    BY <1>1, NewKeeps DEF New
  <2>2. UNCHANGED <<expected, mSock, test, trans, peer, cb, replaced, undefined>>
    BY <1>1 DEF New
  <2>3. \A v \in Workers : PlaceInv(v)'
    BY <2>1, <2>2 DEF PlaceInv, SameEngine
  <2>4. refused' \in [Workers -> BOOLEAN]
    BY <1>1 DEF New, TypeOK
  <2> QED
    BY <1>0, <2>1, <2>2, <2>3, <2>4 DEF TypeOK, peer
<1>2. CASE Install(w)
  <2>1. /\ EngineInv(Places)' /\ (\A v \in Workers \ {w} : SameEngine(v))
        /\ pc'[w] = "event"
    BY <1>2, GoToKeeps DEF Install, At
  <2>2. UNCHANGED <<expected, mSock, test, peer, cb, replaced, refused, undefined>>
    BY <1>2 DEF Install
  <2>3. \A v \in Workers : PlaceInv(v)'
    BY <2>1, <2>2 DEF PlaceInv, SameEngine
  <2>4. trans' \in [Socket -> 0 .. MaxTrans]
    BY <1>0, <1>2 DEF Install, TypeOK
  <2> QED
    BY <1>0, <2>1, <2>2, <2>3, <2>4 DEF TypeOK, peer
<1>3. CASE Turn(w)
  <2>1. /\ EngineInv(Places)' /\ (\A v \in Workers \ {w} : SameEngine(v)) /\ cur' = cur
        /\ pc'[w] = IF Script[cur[w]] = "send" THEN "send" ELSE "suprecv"
    BY <1>3, TakeKeeps, GoOnKeeps DEF Turn
  <2>2. UNCHANGED <<expected, mSock, test, trans, peer, cb, replaced, refused, undefined>>
    BY <1>3 DEF Turn
  <2>3. \A v \in Workers : PlaceInv(v)'
    BY <1>0, <2>1, <2>2 DEF PlaceInv, SameEngine
  <2> QED
    BY <1>0, <2>1, <2>2, <2>3 DEF TypeOK, peer
<1>4. CASE LookUp(w)
  <2>1. /\ EngineInv(Places)' /\ (\A v \in Workers \ {w} : SameEngine(v))
        /\ pc[w] = "send" /\ pc'[w] = "write" /\ cur' = cur
    BY <1>4, GoToKeeps DEF LookUp, At, Places
  <2>2. UNCHANGED <<expected, test, trans, peer, cb, replaced, refused, undefined>>
    BY <1>4 DEF LookUp
  <2>3. mSock' = [mSock EXCEPT ![cur[w]] = Sock(w)]
    BY <1>4 DEF LookUp
  <2>4. mSock' \in [Steps -> Socket \cup {NoSocket}]
    BY <1>0, <2>3 DEF TypeOK
  <2>5. \A v \in Workers : PlaceInv(v)'
    <3> TAKE v \in Workers
    <3>1. mSock \in [Steps -> Socket \cup {NoSocket}] /\ cur[v] \in Steps
      BY DEF TypeOK, EngineInv, EngineTypeOK
    <3>2. mSock'[cur[v]] \in {mSock[cur[v]], Sock(w)} /\ mSock'[cur[w]] = Sock(w)
      BY <1>0, <2>3, <3>1
    <3>3. Sock(w) # NoSocket
      BY <1>0
    <3>4. CASE v = w
      BY <1>0, <2>1, <3>2, <3>3, <3>4 DEF PlaceInv
    <3>5. CASE v # w
      <4>1. cur'[v] = cur[v] /\ pc'[v] = pc[v]
        BY <2>1, <3>5 DEF SameEngine
      <4> QED
        BY <3>2, <3>3, <4>1 DEF PlaceInv
    <3> QED
      BY <3>4, <3>5
  <2> QED
    BY <1>0, <2>1, <2>2, <2>4, <2>5 DEF TypeOK, peer
<1>5. CASE Write(w)
  <2>1. /\ EngineInv(Places)' /\ (\A v \in Workers \ {w} : SameEngine(v))
        /\ pc'[w] \in {"event", "new"}
    BY <1>5, SucceedKeeps DEF Write, At
  <2>2. UNCHANGED <<expected, mSock, test, trans, readbuff, splits, heard, link, cb, replaced, refused, undefined>>
    BY <1>5 DEF Write
  <2>3. \A v \in Workers : PlaceInv(v)'
    BY <2>1, <2>2 DEF PlaceInv, SameEngine
  <2>4. wire' \in [Socket -> Seq(Bytes)]
    <3>1. mSock[cur[w]] \in Socket
      BY <1>0, <1>5 DEF PlaceInv, Write, At, TypeOK
    <3>2. PICK answer \in Answers :
            wire' = IF link[mSock[cur[w]]] = "off" THEN wire
                    ELSE [wire EXCEPT ![mSock[cur[w]]] =
                            @ \o [i \in DOMAIN answer |-> [byte |-> answer[i], of |-> OwnRequest(w)]]]
      BY <1>5 DEF Write, SendMsg
    <3>3. answer \in Seq(Byte) /\ OwnRequest(w) \in Request
      BY <1>5, PeerAssumption, WorkerTypes DEF Write, At
    <3>4. [i \in DOMAIN answer |-> [byte |-> answer[i], of |-> OwnRequest(w)]] \in Seq(Bytes)
      <4>1. \A i \in 1 .. Len(answer) : [byte |-> answer[i], of |-> OwnRequest(w)] \in Bytes
        BY <3>3 DEF Bytes
      <4> QED
        BY <3>3, <4>1
    <3>5. wire[mSock[cur[w]]] \in Seq(Bytes)
      BY <3>1 DEF TypeOK, Bytes
    <3>6. wire[mSock[cur[w]]] \o
            [i \in DOMAIN answer |-> [byte |-> answer[i], of |-> OwnRequest(w)]] \in Seq(Bytes)
      BY <3>4, <3>5, ConcatProperties
    <3> QED
      BY <3>1, <3>2, <3>6 DEF TypeOK, Bytes
  <2> QED
    BY <1>0, <2>1, <2>2, <2>3, <2>4 DEF TypeOK, Bytes
<1>6. CASE SupRecv(w)
  <2>1. /\ EngineInv(Places)' /\ (\A v \in Workers \ {w} : SameEngine(v))
        /\ pc[w] = "suprecv" /\ pc'[w] = "recv" /\ cur' = cur
    BY <1>6, GoToKeeps DEF SupRecv, At
  <2>2. UNCHANGED <<expected, test, trans, peer, cb, replaced, refused>>
    BY <1>6 DEF SupRecv
  <2>3. mSock' = [mSock EXCEPT ![cur[w]] = Sock(w)] /\ undefined' \in BOOLEAN
    BY <1>6 DEF SupRecv
  <2>4. mSock' \in [Steps -> Socket \cup {NoSocket}]
    BY <1>0, <2>3 DEF TypeOK
  <2>5. \A v \in Workers : PlaceInv(v)'
    <3> TAKE v \in Workers
    <3>1. mSock \in [Steps -> Socket \cup {NoSocket}] /\ cur[v] \in Steps
      BY DEF TypeOK, EngineInv, EngineTypeOK
    <3>2. mSock'[cur[v]] \in {mSock[cur[v]], Sock(w)} /\ mSock'[cur[w]] = Sock(w)
      BY <1>0, <2>3, <3>1
    <3>3. Sock(w) # NoSocket
      BY <1>0
    <3>4. CASE v = w
      BY <1>0, <2>1, <3>2, <3>3, <3>4 DEF PlaceInv
    <3>5. CASE v # w
      <4>1. cur'[v] = cur[v] /\ pc'[v] = pc[v]
        BY <2>1, <3>5 DEF SameEngine
      <4> QED
        BY <3>2, <3>3, <4>1 DEF PlaceInv
    <3> QED
      BY <3>4, <3>5
  <2> QED
    BY <1>0, <2>1, <2>2, <2>3, <2>4, <2>5 DEF TypeOK, peer
<1>7. CASE RecvData(w)
  <2>1. /\ EngineInv(Places)' /\ (\A v \in Workers \ {w} : SameEngine(v))
        /\ pc[w] = "recv" /\ pc'[w] \in {"event", "new"}
    BY <1>7, SucceedKeeps, EndKeeps DEF RecvData, At
  <2>2. UNCHANGED <<expected, test, trans, peer, cb, replaced, refused>>
    BY <1>7 DEF RecvData
  <2>3. mSock' = [mSock EXCEPT ![cur[w]] = mSock[cur[w] - 1]] /\ undefined' \in BOOLEAN
    BY <1>7 DEF RecvData
  <2>4. mSock' \in [Steps -> Socket \cup {NoSocket}]
    <3>1. cur[w] - 1 \in Steps
      BY <1>0, <1>7, StepNumbers DEF RecvData
    <3> QED
      BY <2>3, <3>1 DEF TypeOK
  <2>5. \A v \in Workers : PlaceInv(v)'
    <3> TAKE v \in Workers
    <3>1. CASE v = w
      BY <2>1, <3>1 DEF PlaceInv
    <3>2. CASE v # w
      <4>1. cur'[v] = cur[v] /\ pc'[v] = pc[v] /\ cur[v] \in Steps
        BY <2>1, <3>2 DEF SameEngine, EngineInv, EngineTypeOK
      <4>2. pc[v] = "write" => mSock'[cur[v]] = mSock[cur[v]]
        BY <1>0, <2>1, <2>3, <4>1 DEF PlaceInv, TypeOK
      <4> QED
        BY <4>1, <4>2 DEF PlaceInv
    <3> QED
      BY <3>1, <3>2
  <2> QED
    BY <1>0, <2>1, <2>2, <2>3, <2>4, <2>5 DEF TypeOK, peer
<1>8. CASE RecvOther(w)
  <2>1. EngineInv(Places)' /\ (\A v \in Workers \ {w} : SameEngine(v)) /\ pc'[w] = "new"
    BY <1>8, EndKeeps DEF RecvOther
  <2>2. UNCHANGED <<expected, mSock, test, trans, peer, cb, replaced, refused, undefined>>
    BY <1>8 DEF RecvOther
  <2>3. \A v \in Workers : PlaceInv(v)'
    BY <2>1, <2>2 DEF PlaceInv, SameEngine
  <2> QED
    BY <1>0, <2>1, <2>2, <2>3 DEF TypeOK, peer
<1> QED
  BY <1>1, <1>2, <1>3, <1>4, <1>5, <1>6, <1>7, <1>8 DEF Worker

\* A read takes some bytes off the wire, the last of them of the request whose
\* answer it is said to end, if any (socketpool.C:150-190, protocol.C:31-76).
LEMMA ReceiveEffect ==
  ASSUME TypeInv, NEW s \in Socket, Receive(s)
  PROVE  \E k \in ReadLengths(s), e \in Event :
           /\ k \in 1 .. Len(wire[s]) /\ e.kind = "data" /\ e.of = wire[s][k].of
           /\ wire' = [wire EXCEPT ![s] = SubSeq(@, k + 1, Len(@))]
           /\ splits' = IF k < Len(wire[s]) THEN [splits EXCEPT ![s] = @ + 1] ELSE splits
           /\ readbuff' \in [Socket -> Seq(Byte)] /\ heard' \in [Socket -> Nat]
           /\ (UNCHANGED <<cb, undefined>> \/ CallBack(s, e))
<1> USE DEF TypeInv
<1>1. PICK k \in ReadLengths(s) :
       LET added == Kept([i \in 1 .. k |-> wire[s][i].byte])
           buffer == readbuff[s] \o added
           found == IF added = <<>> THEN -1 ELSE ReceiveHttpResponse(buffer)
       IN /\ wire' = [wire EXCEPT ![s] = SubSeq(@, k + 1, Len(@))]
          /\ splits' = IF k < Len(wire[s]) THEN [splits EXCEPT ![s] = @ + 1] ELSE splits
          /\ IF found < 0
             THEN /\ readbuff' = [readbuff EXCEPT ![s] = buffer]
                  /\ UNCHANGED <<heard, cb, undefined>>
             ELSE /\ readbuff' = [readbuff EXCEPT ![s] = Drained(buffer, found)]
                  /\ heard' = [heard EXCEPT ![s] = @ + 1]
                  /\ CallBack(s, DataEvent(found, wire[s][k].of))
  BY Zenon DEF Receive
<1> DEFINE added == Kept([i \in 1 .. k |-> wire[s][i].byte])
           buffer == readbuff[s] \o added
           found == IF added = <<>> THEN -1 ELSE ReceiveHttpResponse(buffer)
           e == DataEvent(found, wire[s][k].of)
<1>2. wire[s] \in Seq(Bytes) /\ readbuff[s] \in Seq(Byte) /\ heard \in [Socket -> Nat]
  BY DEF TypeOK, Bytes
<1>3. k \in 1 .. Len(wire[s])
  BY <1>1, <1>2 DEF ReadLengths, Receive
<1>4. wire[s][k].of \in Request /\ buffer \in Seq(Byte)
  BY <1>2, <1>3, BufferTypes
<1>5. found \in Int
  <2> HIDE DEF buffer, added
  <2> QED
    BY <1>4, FoundType
<1>6. found >= 0 => Drained(buffer, found) \in Seq(Byte)
  <2> HIDE DEF buffer, found
  <2> QED
    BY <1>2, <1>3, <1>4, <1>5, BufferTypes
<1>7. e \in Event /\ e.kind = "data" /\ e.of = wire[s][k].of
  <2> HIDE DEF found
  <2> QED
    BY <1>4 DEF DataEvent, Event
<1>8. readbuff' \in [Socket -> Seq(Byte)] /\ heard' \in [Socket -> Nat]
  <2>1. readbuff \in [Socket -> Seq(Byte)]
    BY DEF TypeOK
  <2>2. CASE found < 0
    <3> HIDE DEF buffer
    <3> QED
      BY <1>1, <1>2, <1>4, <2>1, <2>2 DEF buffer
  <2>3. CASE ~(found < 0)
    <3>1. /\ readbuff' = [readbuff EXCEPT ![s] = Drained(buffer, found)]
          /\ heard' = [heard EXCEPT ![s] = @ + 1]
      BY <1>1, <2>3
    <3>2. Drained(buffer, found) \in Seq(Byte)
      BY <1>5, <1>6, <2>3
    <3> HIDE DEF buffer, found
    <3> QED
      BY <1>2, <2>1, <3>1, <3>2
  <2> QED
    BY <2>2, <2>3
<1>9. UNCHANGED <<cb, undefined>> \/ CallBack(s, e)
  BY <1>1
<1>10. /\ wire' = [wire EXCEPT ![s] = SubSeq(@, k + 1, Len(@))]
       /\ splits' = IF k < Len(wire[s]) THEN [splits EXCEPT ![s] = @ + 1] ELSE splits
  BY <1>1
<1> HIDE DEF e
<1> QED
  BY <1>3, <1>7, <1>8, <1>9, <1>10

\* A callback has an event under way or uses tTransation before it is set
\* (socketpool.C:165-177, 210-220).
LEMMA CallBackType ==
  ASSUME TypeInv, NEW s \in Socket, NEW e \in Event, CallBack(s, e)
  PROVE  /\ cb' \in [sock : Socket \cup {NoSocket}, target : 0 .. MaxTrans, event : Event]
         /\ undefined' \in BOOLEAN /\ (cb' # NoCallback => cb'.sock \in Socket)
<1>1. trans[s] \in 0 .. MaxTrans /\ cb \in [sock : Socket \cup {NoSocket}, target : 0 .. MaxTrans, event : Event]
  BY DEF TypeInv, TypeOK
<1> QED
  BY <1>1 DEF CallBack, TypeInv

\* The callbacks and the manager keep the types, too (socketpool.C:150-230,
\* manager.C:140-165).
LEMMA OtherType ==
  ASSUME TypeInv,
         \/ \E w \in Workers : Reconnect(w)
         \/ \E s \in Socket : Receive(s) \/ CloseRead(s) \/ FailWrite(s)
         \/ PushEvent
  PROVE  TypeInv'
<1> USE DEF TypeInv
<1>1. ASSUME UNCHANGED <<engine, mSock>>
      PROVE  EngineInv(Places)' /\ EngineTypeOK({"write"})' /\ \A w \in Workers : PlaceInv(w)'
  BY <1>1 DEF engine, EngineInv, EngineTypeOK, PlaceInv, Places
<1>2. ASSUME NEW w \in Workers, Reconnect(w) PROVE TypeInv'
  <2>1. test' \in [Workers -> 0 .. NewTests]
    <3>1. test[w] + 1 \in 0 .. NewTests
      BY <1>2, WorkerTypes, PeerAssumption DEF Reconnect
    <3> QED
      BY <1>2, <3>1 DEF Reconnect, TypeOK
  <2>2. replaced' \in [Workers -> BOOLEAN]
    BY <1>2 DEF Reconnect, TypeOK
  <2> QED
    BY <1>1, <1>2, <2>1, <2>2 DEF Reconnect, TypeOK, peer
<1>3. ASSUME NEW s \in Socket, Receive(s) PROVE TypeInv'
  <2>1. PICK k \in ReadLengths(s), e \in Event :
           /\ k \in 1 .. Len(wire[s])
           /\ wire' = [wire EXCEPT ![s] = SubSeq(@, k + 1, Len(@))]
           /\ splits' = IF k < Len(wire[s]) THEN [splits EXCEPT ![s] = @ + 1] ELSE splits
           /\ readbuff' \in [Socket -> Seq(Byte)] /\ heard' \in [Socket -> Nat]
           /\ (UNCHANGED <<cb, undefined>> \/ CallBack(s, e))
    BY <1>3, ReceiveEffect
  <2>2. wire' \in [Socket -> Seq(Bytes)]
    <3>1. wire[s] \in Seq(Bytes) /\ wire \in [Socket -> Seq(Bytes)]
      BY DEF TypeOK, Bytes
    <3>2. SubSeq(wire[s], k + 1, Len(wire[s])) \in Seq(Bytes)
      <4>1. Len(wire[s]) \in Int /\ k + 1 \in Int /\ \A i \in k + 1 .. Len(wire[s]) : wire[s][i] \in Bytes
        BY <2>1, <3>1
      <4> QED
        BY <4>1, SubSeqProperties
    <3> QED
      BY <2>1, <3>1, <3>2
  <2>3. splits' \in [Socket -> 0 .. MaxSplits]
    <3>1. k < Len(wire[s]) => splits[s] < MaxSplits
      BY <2>1 DEF ReadLengths
    <3>2. splits \in [Socket -> 0 .. MaxSplits] /\ MaxSplits \in Nat
      BY PeerAssumption DEF TypeOK
    <3>3. k < Len(wire[s]) => splits[s] + 1 \in 0 .. MaxSplits
      BY <3>1, <3>2
    <3>4. CASE k < Len(wire[s])
      BY <2>1, <3>2, <3>3, <3>4
    <3>5. CASE ~(k < Len(wire[s]))
      BY <2>1, <3>2, <3>5
    <3> QED
      BY <3>4, <3>5
  <2>4. /\ cb' \in [sock : Socket \cup {NoSocket}, target : 0 .. MaxTrans, event : Event]
        /\ undefined' \in BOOLEAN /\ (cb' # NoCallback => cb'.sock \in Socket)
    <3>1. CASE UNCHANGED <<cb, undefined>>
      BY <3>1 DEF TypeOK
    <3>2. CASE CallBack(s, e)
      BY <3>2, CallBackType
    <3> QED
      BY <2>1, <3>1, <3>2
  <2>5. UNCHANGED <<expected, engine, mSock, test, trans, link, replaced, refused>>
    BY <1>3 DEF Receive
  <2> QED
    BY <1>1, <2>1, <2>2, <2>3, <2>4, <2>5 DEF TypeOK, Bytes
<1>4. ASSUME NEW s \in Socket, NEW now \in {"noread", "off"}, Fail(s, now) PROVE TypeInv'
  <2>1. /\ cb' \in [sock : Socket \cup {NoSocket}, target : 0 .. MaxTrans, event : Event]
        /\ undefined' \in BOOLEAN /\ (cb' # NoCallback => cb'.sock \in Socket)
    BY <1>4, CallBackType, EventTypes DEF Fail
  <2>2. link' \in [Socket -> {"open", "noread", "off"}]
    BY <1>4 DEF Fail, TypeOK
  <2>3. wire' \in [Socket -> Seq([byte : Byte, of : Request])]
    BY <1>4, EmptySeq DEF Fail, TypeOK
  <2>4. UNCHANGED <<expected, engine, mSock, test, trans, readbuff, splits, heard, replaced, refused>>
    BY <1>4 DEF Fail
  <2> QED
    BY <1>1, <2>1, <2>2, <2>3, <2>4 DEF TypeOK
<1>5. CASE PushEvent
  <2>1. cb.event \in Event /\ cb.sock \in Socket
    BY <1>5 DEF PushEvent, TypeOK, NoCallback
  <2>2. msgs' \in [Workers -> Seq(Event)]
    BY <1>5, <2>1, PushedTypes DEF PushEvent, TypeOK, EngineTypeOK, Socket
  <2>3. cb' \in [sock : Socket \cup {NoSocket}, target : 0 .. MaxTrans, event : Event]
    BY <1>5, EventTypes, BoundAssumption DEF PushEvent, NoCallback
  <2>4. EngineInv(Places)' /\ EngineTypeOK({"write"})'
    BY <1>5, <2>2 DEF PushEvent, EngineInv, EngineTypeOK, Places
  <2>5. \A w \in Workers : PlaceInv(w)'
    BY <1>5 DEF PushEvent, PlaceInv
  <2>6. refused' \in [Workers -> BOOLEAN]
    BY <1>5, <2>1 DEF PushEvent, TypeOK, Socket
  <2> QED
    BY <1>5, <2>3, <2>4, <2>5, <2>6 DEF PushEvent, TypeOK, peer
<1> QED
  BY <1>2, <1>3, <1>4, <1>5 DEF CloseRead, FailWrite

\* Every variable keeps its type, for any script and any answers of the peer
\* (tcpstep.C:41-180, socketpool.C:150-230).
LEMMA StepType == TypeInv /\ [Next]_vars => TypeInv'
<1> SUFFICES ASSUME TypeInv, [Next]_vars PROVE TypeInv'
  OBVIOUS
<1>1. CASE UNCHANGED vars
  BY <1>1 DEF vars, engine, peer, TypeInv, TypeOK, EngineInv, EngineTypeOK, PlaceInv, Places
<1>2. CASE Next
  BY <1>2, WorkerType, OtherType DEF Next
<1> QED
  BY <1>1, <1>2

\* The types hold throughout (tcpstep.C:41-180, socketpool.C:150-230).
THEOREM TypeCorrect == Spec => []TypeOK
<1>1. TypeInv => TypeOK
  BY DEF TypeInv
<1> QED
  BY <1>1, InitInv, StepType, PTL DEF Spec
-----------------------------------------------------------------------------
(* tTransation is set before it is used                                    *)

\* As long as no new test comes while its transaction runs, a worker that is past
\* setTransation has a connection that knows a transaction, and so has every
\* connection that a step has looked up or that has something to read.
UsedInv ==
  /\ \A w \in Workers : ~replaced[w] /\ pc[w] \notin {"new", "install"} => trans[Sock(w)] >= 1
  /\ \A k \in Steps : mSock[k] # NoSocket /\ ~replaced[mSock[k][1]] => trans[mSock[k]] >= 1
  /\ \A s \in Socket : wire[s] # <<>> /\ ~replaced[s[1]] => trans[s] >= 1

\* What a connection knows it keeps (socketpool.C:98, manager.C:158).
LEMMA UsedKeeps ==
  ASSUME TypeInv, UsedInv, UNCHANGED <<mSock, test, trans, replaced>>,
         \A w \in Workers : pc'[w] \in {"new", "install"} \/ pc[w] \notin {"new", "install"},
         \A s \in Socket : wire'[s] = <<>> \/ wire[s] # <<>>
  PROVE  UsedInv'
BY DEF UsedInv, Sock, TypeInv, TypeOK

\* Each worker sets tTransation before its steps use it (mptthreadpool.C:240-262,
\* tcpstep.C:41-180).
LEMMA WorkerUsed ==
  ASSUME TypeInv, UsedInv, NEW w \in Workers, Worker(w)
  PROVE  UsedInv' /\ (undefined' => replaced[w])
<1>0. /\ cur[w] \in Steps /\ n[w] \in 0 .. MaxTrans /\ Sock(w) \in Socket
      /\ NoSocket \notin Socket /\ PlaceInv(w) /\ EngineInv(Places) /\ ~undefined
      /\ Socket \subseteq (Workers \X (0 .. NewTests))
  BY WorkerTypes DEF TypeInv, Socket, Worker, New, Install, Turn, LookUp, Write, SupRecv, RecvData, RecvOther, At
<1>1. CASE New(w)
  <2>1. (\A v \in Workers \ {w} : SameEngine(v)) /\ pc'[w] = "install"
    BY <1>0, <1>1, NewKeeps DEF New
  <2>2. UNCHANGED <<mSock, test, trans, wire, replaced, undefined>>
    BY <1>1 DEF New, peer
  <2> QED
    BY <1>0, <2>1, <2>2, UsedKeeps DEF SameEngine
<1>2. CASE Install(w)
  <2>1. (\A v \in Workers \ {w} : SameEngine(v)) /\ pc[w] = "install" /\ pc'[w] = "event"
    BY <1>0, <1>2, GoToKeeps DEF Install, At
  <2>2. UNCHANGED <<mSock, test, wire, replaced, undefined>>
    BY <1>2 DEF Install, peer
  <2>3. n[w] >= 1 /\ trans \in [Socket -> 0 .. MaxTrans]
    BY <1>0, <2>1 DEF EngineInv, TypeInv, TypeOK
  <2>4. \A s \in Socket : trans'[s] >= 1 \/ trans'[s] = trans[s]
    BY <1>0, <1>2, <2>3 DEF Install
  <2>5. trans'[Sock(w)] >= 1
    BY <1>0, <1>2, <2>3 DEF Install
  <2>6. \A v \in Workers : Sock(v) \in Socket /\ Sock(v)' = Sock(v)
    BY <2>2, WorkerTypes DEF Sock
  <2>7. \A k \in Steps : mSock[k] # NoSocket => mSock[k] \in Socket
    BY DEF TypeInv, TypeOK
  <2> QED
    BY <1>0, <2>1, <2>2, <2>4, <2>5, <2>6, <2>7, SMTT(30) DEF SameEngine, UsedInv
<1>3. CASE Turn(w)
  <2>1. (\A v \in Workers \ {w} : SameEngine(v)) /\ pc[w] = "event"
    BY <1>0, <1>3, TakeKeeps, GoOnKeeps DEF Turn, TakeEvent, GoOnWithout
  <2>2. UNCHANGED <<mSock, test, trans, wire, replaced, undefined>>
    BY <1>3 DEF Turn, peer
  <2> QED
    BY <1>0, <2>1, <2>2, UsedKeeps DEF SameEngine
<1>4. CASE LookUp(w) \/ SupRecv(w)
  <2>1. /\ (\A v \in Workers \ {w} : SameEngine(v)) /\ pc[w] \notin {"new", "install"}
        /\ UNCHANGED <<test, trans, wire, replaced>>
        /\ mSock' = [mSock EXCEPT ![cur[w]] = Sock(w)]
    BY <1>0, <1>4, GoToKeeps DEF LookUp, SupRecv, At, Places, peer
  <2>2. ~replaced[w] => trans[Sock(w)] >= 1
    BY <2>1 DEF UsedInv
  <2>3. \A k \in Steps : mSock'[k] = mSock[k] \/ mSock'[k] = Sock(w)
    BY <1>0, <2>1 DEF TypeInv, TypeOK
  <2>4. \A v \in Workers : Sock(v)' = Sock(v)
    BY <2>1 DEF Sock
  <2>5. Sock(w)[1] = w
    BY DEF Sock
  <2>6. undefined' => trans[Sock(w)] = 0
    BY <1>0, <1>4 DEF LookUp, SupRecv
  <2> QED
    BY <1>0, <2>1, <2>2, <2>3, <2>4, <2>5, <2>6 DEF SameEngine, UsedInv
<1>5. CASE Write(w)
  <2>1. (\A v \in Workers \ {w} : SameEngine(v)) /\ pc[w] = "write"
    BY <1>0, <1>5, SucceedKeeps DEF Write, At
  <2>2. UNCHANGED <<mSock, test, trans, replaced, undefined>>
    BY <1>5 DEF Write
  <2>3. mSock[cur[w]] \in Socket /\ mSock[cur[w]] # NoSocket
    BY <1>0, <2>1 DEF PlaceInv, TypeInv, TypeOK
  <2>4. \A s \in Socket : s # mSock[cur[w]] => wire'[s] = wire[s]
    BY <1>5 DEF Write, SendMsg, TypeInv, TypeOK
  <2>5. \A s \in Socket : wire'[s] # <<>> /\ ~replaced[s[1]] => trans[s] >= 1
    BY <1>0, <2>3, <2>4 DEF UsedInv
  <2>6. \A v \in Workers : Sock(v)' = Sock(v)
    BY <2>2 DEF Sock
  <2> QED
    BY <1>0, <2>1, <2>2, <2>5, <2>6 DEF SameEngine, UsedInv
<1>6. CASE RecvData(w)
  <2>1. /\ (\A v \in Workers \ {w} : SameEngine(v)) /\ pc[w] = "recv"
        /\ UNCHANGED <<test, trans, wire, replaced>> /\ cur[w] > 1
        /\ mSock' = [mSock EXCEPT ![cur[w]] = mSock[cur[w] - 1]]
    BY <1>0, <1>6, SucceedKeeps, EndKeeps DEF RecvData, At, peer
  <2>2. cur[w] - 1 \in Steps
    BY <1>0, <2>1, StepNumbers
  <2>3. \A k \in Steps : mSock'[k] = mSock[k] \/ mSock'[k] = mSock[cur[w] - 1]
    BY <1>0, <2>1 DEF TypeInv, TypeOK
  <2>4. undefined' => trans[Sock(w)] = 0
    BY <1>6 DEF RecvData
  <2>5. \A v \in Workers : Sock(v)' = Sock(v)
    BY <2>1 DEF Sock
  <2> QED
    BY <1>0, <2>1, <2>2, <2>3, <2>4, <2>5 DEF SameEngine, UsedInv
<1>7. CASE RecvOther(w)
  <2>1. (\A v \in Workers \ {w} : SameEngine(v)) /\ pc'[w] = "new"
    BY <1>0, <1>7, EndKeeps DEF RecvOther
  <2>2. UNCHANGED <<mSock, test, trans, wire, replaced, undefined>>
    BY <1>7 DEF RecvOther, peer
  <2> QED
    BY <1>0, <2>1, <2>2, UsedKeeps DEF SameEngine
<1> QED
  BY <1>1, <1>2, <1>3, <1>4, <1>5, <1>6, <1>7 DEF Worker

\* A callback uses tTransation when there is something to read, or when the
\* connection fails (socketpool.C:165-177, 210-220); the manager sets none.
LEMMA OtherUsed ==
  ASSUME TypeInv, UsedInv,
         \/ \E w \in Workers : Reconnect(w)
         \/ \E s \in Socket : Receive(s) \/ CloseRead(s) \/ FailWrite(s)
         \/ PushEvent
  PROVE  UsedInv' /\ UndefinedOnlyWhen'
<1>1. ASSUME NEW w \in Workers, Reconnect(w) PROVE UsedInv' /\ ~undefined'
  <2>1. /\ ~undefined' /\ UNCHANGED <<pc, mSock, trans, wire>>
        /\ test' = [test EXCEPT ![w] = @ + 1]
        /\ replaced' = [replaced EXCEPT ![w] = @ \/ pc[w] # "new"]
    BY <1>1 DEF Reconnect, engine, peer
  <2>2. \A v \in Workers : /\ replaced[v] => replaced'[v]
                           /\ v # w => Sock(v)' = Sock(v)
                           /\ v = w => replaced'[v] \/ pc[v] = "new"
    BY <2>1 DEF TypeInv, TypeOK, Sock
  <2>3. \A s \in Socket : s[1] \in Workers
    BY DEF Socket
  <2>4. \A k \in Steps : mSock[k] # NoSocket => mSock[k] \in Socket
    BY DEF TypeInv, TypeOK
  <2>5. ASSUME NEW v \in Workers, ~replaced'[v], pc'[v] \notin {"new", "install"}
        PROVE  trans'[Sock(v)'] >= 1
    BY <2>1, <2>2, <2>5 DEF UsedInv
  <2>6. ASSUME NEW k \in Steps, mSock'[k] # NoSocket, ~replaced'[mSock'[k][1]]
        PROVE  trans'[mSock'[k]] >= 1
    BY <2>1, <2>2, <2>3, <2>4, <2>6 DEF UsedInv
  <2>7. ASSUME NEW s \in Socket, wire'[s] # <<>>, ~replaced'[s[1]]
        PROVE  trans'[s] >= 1
    BY <2>1, <2>2, <2>3, <2>7 DEF UsedInv
  <2> QED
    BY <2>1, <2>5, <2>6, <2>7 DEF UsedInv
<1>2. ASSUME NEW s \in Socket, Receive(s) PROVE UsedInv' /\ UndefinedOnlyWhen'
  <2>1. PICK k \in ReadLengths(s), e \in Event :
           /\ wire' = [wire EXCEPT ![s] = SubSeq(@, k + 1, Len(@))]
           /\ (UNCHANGED <<cb, undefined>> \/ CallBack(s, e))
    BY <1>2, ReceiveEffect
  <2>2. UNCHANGED <<pc, mSock, test, trans, replaced>> /\ wire[s] # <<>> /\ ~undefined
    BY <1>2 DEF Receive, engine
  <2>3. \A t \in Socket : wire'[t] = <<>> \/ wire[t] # <<>>
    BY <2>1, <2>2 DEF TypeInv, TypeOK
  <2>4. undefined' => trans[s] = 0
    BY <2>1, <2>2 DEF CallBack
  <2>5. undefined' => replaced[s[1]] /\ s[1] \in Workers
    BY <2>2, <2>4 DEF UsedInv, Socket
  <2> QED
    BY <2>2, <2>3, <2>5, UsedKeeps DEF UndefinedOnlyWhen
<1>3. ASSUME NEW s \in Socket, CloseRead(s) PROVE UsedInv' /\ UndefinedOnlyWhen'
  <2>1. /\ UNCHANGED <<pc, mSock, test, trans, replaced>>
        /\ wire' = [wire EXCEPT ![s] = <<>>] /\ link' = [link EXCEPT ![s] = "noread"]
        /\ undefined' = (trans[s] = 0)
    BY <1>3 DEF CloseRead, Fail, CallBack, engine
  <2>2. link'[s] = "noread"
    BY <2>1 DEF TypeInv, TypeOK
  <2>3. \A t \in Socket : wire'[t] = <<>> \/ wire[t] # <<>>
    BY <2>1 DEF TypeInv, TypeOK
  <2> QED
    BY <2>1, <2>2, <2>3, UsedKeeps DEF UndefinedOnlyWhen
<1>4. ASSUME NEW s \in Socket, FailWrite(s) PROVE UsedInv' /\ UndefinedOnlyWhen'
  <2>1. /\ UNCHANGED <<pc, mSock, test, trans, replaced>> /\ wire[s] # <<>>
        /\ wire' = [wire EXCEPT ![s] = <<>>] /\ (undefined' => trans[s] = 0)
    BY <1>4 DEF FailWrite, Fail, CallBack, engine
  <2>2. \A t \in Socket : wire'[t] = <<>> \/ wire[t] # <<>>
    BY <2>1 DEF TypeInv, TypeOK
  <2>3. undefined' => replaced[s[1]] /\ s[1] \in Workers
    BY <2>1 DEF UsedInv, Socket
  <2> QED
    BY <2>1, <2>2, <2>3, UsedKeeps DEF UndefinedOnlyWhen
<1>5. CASE PushEvent
  BY <1>5, UsedKeeps DEF PushEvent, UndefinedOnlyWhen, peer
<1> QED
  BY <1>1, <1>2, <1>3, <1>4, <1>5 DEF UndefinedOnlyWhen

\* tTransation is used before it is set only if a new test came while a transaction
\* ran or a connection failed that none had used (manager.C:158, socketpool.C:172,
\* 216, tcpstep.C:132, 170).
THEOREM SetBeforeUse == Spec => []UndefinedOnlyWhen
<1> DEFINE Inv == TypeInv /\ UsedInv /\ UndefinedOnlyWhen
<1>1. Init => Inv
  <2> SUFFICES ASSUME Init PROVE Inv
    OBVIOUS
  <2>1. UsedInv /\ UndefinedOnlyWhen
    BY DEF Init, InitEngine, UsedInv, UndefinedOnlyWhen
  <2> QED
    BY <2>1, InitInv
<1>2. Inv /\ [Next]_vars => Inv'
  <2> SUFFICES ASSUME Inv, [Next]_vars PROVE UsedInv' /\ UndefinedOnlyWhen'
    BY StepType
  <2>1. CASE UNCHANGED vars
    BY <2>1 DEF vars, engine, peer, UsedInv, UndefinedOnlyWhen, Sock
  <2>2. ASSUME NEW w \in Workers, Worker(w) PROVE UsedInv' /\ UndefinedOnlyWhen'
    <3>1. UsedInv' /\ (undefined' => replaced[w])
      BY <2>2, WorkerUsed
    <3>2. replaced' = replaced
      BY <2>2 DEF Worker, New, Install, Turn, LookUp, Write, SupRecv, RecvData, RecvOther
    <3> QED
      BY <3>1, <3>2 DEF UndefinedOnlyWhen
  <2> QED
    BY <2>1, <2>2, OtherUsed DEF Next
<1> QED
  BY <1>1, <1>2, PTL DEF Spec
-----------------------------------------------------------------------------
(* No transaction waits for an event its queue refused                     *)

\* Steps of the script that may still take an event.
StepsLeft(w) == Len(Script) - cur[w] + (IF pc[w] \in {"install", "event"} THEN 1 ELSE 0)

\* A queue that has refused an event holds one for each step that is left.
StockInv(w) == refused[w] /\ pc[w] # "new" => Len(msgs[w]) >= StepsLeft(w)

\* Each step takes one event at most, and only a full queue refuses one
\* (transaction.C:41-103, socketpool.C:172, 216).
LEMMA StockStep ==
  ASSUME TypeInv, Len(Script) <= QueueCapacity, NEW v \in Workers, StockInv(v), [Next]_vars
  PROVE  StockInv(v)'
<1>0. /\ cur[v] \in Steps /\ Len(Script) \in Nat /\ Steps = 1 .. Len(Script)
      /\ QueueCapacity \in Nat /\ msgs[v] \in Seq(Event) /\ Len(msgs[v]) \in Nat
      /\ EngineInv(Places)
  BY StepNumbers, BoundAssumption, WorkerTypes DEF TypeInv, TypeOK, EngineTypeOK
<1>a. ASSUME SameEngine(v), refused'[v] = refused[v] PROVE StockInv(v)'
  BY <1>a DEF StockInv, StepsLeft, SameEngine
<1>1. ASSUME NEW w \in Workers, New(w) PROVE StockInv(v)'
  <2>1. (\A u \in Workers \ {w} : SameEngine(u)) /\ refused' = [refused EXCEPT ![w] = FALSE]
    BY <1>0, <1>1, NewKeeps DEF New
  <2>2. refused \in [Workers -> BOOLEAN]
    BY DEF TypeInv, TypeOK
  <2>3. CASE v = w
    BY <2>1, <2>2, <2>3 DEF StockInv
  <2>4. CASE v # w
    BY <1>a, <2>1, <2>2, <2>4
  <2> QED
    BY <2>3, <2>4
<1>2. ASSUME NEW w \in Workers, Worker(w), ~New(w) PROVE StockInv(v)'
  <2>1. refused' = refused
    BY <1>2 DEF Worker, Install, Turn, LookUp, Write, SupRecv, RecvData, RecvOther
  <2>2. \A u \in Workers \ {w} : SameEngine(u)
    BY <1>0, <1>2, TakeKeeps, GoOnKeeps, GoToKeeps, SucceedKeeps, EndKeeps
       DEF Worker, Install, Turn, LookUp, Write, SupRecv, RecvData, RecvOther, At, Places
  <2>3. CASE v # w
    BY <1>a, <2>1, <2>2, <2>3
  <2>4. CASE v = w /\ Install(w)
    <3>1. /\ pc[w] = "install" /\ pc'[w] = "event" /\ cur' = cur /\ msgs' = msgs
      BY <1>0, <2>4, GoToKeeps DEF Install, At
    <3> QED
      BY <2>1, <2>4, <3>1 DEF StockInv, StepsLeft
  <2>5. CASE v = w /\ Turn(w)
    <3>1. CASE TakeEvent(w)
      <4>1. /\ pc[w] = "event" /\ pc'[w] \in {"send", "suprecv"} /\ cur' = cur
            /\ msgs[w] # <<>> /\ msgs'[w] = Tail(msgs[w])
        BY <1>0, <3>1, TakeKeeps DEF TakeEvent
      <4>2. Len(msgs'[w]) = Len(msgs[w]) - 1
        BY <1>0, <2>5, <4>1
      <4> QED
        BY <1>0, <2>1, <2>5, <4>1, <4>2 DEF StockInv, StepsLeft
    <3>2. CASE GoOnWithout(w)
      <4>1. /\ pc[w] = "event" /\ pc'[w] \in {"send", "suprecv"} /\ cur' = cur /\ msgs' = msgs
        BY <1>0, <3>2, GoOnKeeps DEF GoOnWithout
      <4> QED
        BY <1>0, <2>1, <2>5, <4>1 DEF StockInv, StepsLeft
    <3> QED
      BY <2>5, <3>1, <3>2 DEF Turn
  <2>6. CASE v = w /\ (LookUp(w) \/ SupRecv(w))
    <3>1. /\ pc[w] \in {"send", "suprecv"} /\ pc'[w] \in {"write", "recv"}
          /\ cur' = cur /\ msgs' = msgs
      BY <1>0, <2>6, GoToKeeps DEF LookUp, SupRecv, At, Places
    <3> QED
      BY <1>0, <2>1, <2>6, <3>1 DEF StockInv, StepsLeft
  <2>7. CASE v = w /\ (Write(w) \/ RecvData(w) \/ RecvOther(w))
    <3>1. /\ pc[w] \in {"write", "recv"} /\ msgs' = msgs
          /\ \/ pc'[w] = "event" /\ cur'[w] = cur[w] + 1
             \/ pc'[w] = "new"
      BY <1>0, <2>7, SucceedKeeps, EndKeeps DEF Write, RecvData, RecvOther, At
    <3> QED
      BY <1>0, <2>1, <2>7, <3>1 DEF StockInv, StepsLeft
  <2> QED
    BY <1>2, <2>3, <2>4, <2>5, <2>6, <2>7 DEF Worker
<1>3. ASSUME \/ \E w \in Workers : Reconnect(w)
             \/ \E s \in Socket : Receive(s) \/ CloseRead(s) \/ FailWrite(s)
             \/ UNCHANGED vars
      PROVE  StockInv(v)'
  <2>1. UNCHANGED <<engine, refused>>
    BY <1>3 DEF Reconnect, Receive, CloseRead, FailWrite, Fail, vars
  <2> QED
    BY <1>a, <2>1 DEF engine, SameEngine
<1>4. CASE PushEvent
  <2>1. cb.sock \in Socket /\ cb.sock[1] \in Workers /\ cb.event \in Event
    BY <1>4 DEF PushEvent, TypeInv, TypeOK, Socket
  <2> DEFINE w == cb.sock[1]
             lost == cb.target = n[w] /\ Len(msgs[w]) >= QueueCapacity
  <2>2. /\ refused' = [refused EXCEPT ![w] = @ \/ lost] /\ refused \in [Workers -> BOOLEAN]
        /\ msgs' = Pushed(w, cb.target, cb.event) /\ UNCHANGED <<pc, n, cur, isSend, ev>>
        /\ msgs \in [Workers -> Seq(Event)]
    BY <1>4 DEF PushEvent, TypeInv, TypeOK, EngineTypeOK
  <2>3. CASE v # w
    <3>1. msgs'[v] = msgs[v]
      BY <2>1, <2>2, <2>3, PushedTypes
    <3>2. refused'[v] = refused[v]
      BY <2>2, <2>3
    <3> QED
      BY <1>a, <2>2, <3>1, <3>2 DEF SameEngine
  <2>4. CASE v = w
    <3>1. Len(msgs'[v]) >= Len(msgs[v]) /\ Len(msgs'[v]) \in Nat
      <4>1. msgs'[v] \in {msgs[v], Append(msgs[v], cb.event)}
        BY <2>1, <2>2, <2>4, PushedTypes
      <4> QED
        BY <1>0, <2>1, <4>1
    <3>2. refused'[v] => refused[v] \/ Len(msgs[v]) >= Len(Script)
      BY <1>0, <2>1, <2>2, <2>4
    <3>3. StepsLeft(v)' = StepsLeft(v) /\ StepsLeft(v) <= Len(Script) /\ StepsLeft(v) \in Int
      BY <1>0, <2>2 DEF StepsLeft
    <3> QED
      BY <1>0, <2>2, <3>1, <3>2, <3>3 DEF StockInv
  <2> QED
    BY <2>3, <2>4
<1> QED
  BY <1>1, <1>2, <1>3, <1>4 DEF Next

\* Whatever a full queue refuses (socketpool.C:172, 216), the transaction does not
\* wait for it: for any workers, script that fits the queue, answers and pieces.
THEOREM NothingMissed == Spec => []NeverMissed
<1>1. CASE Len(Script) <= QueueCapacity
  <2> DEFINE Inv == TypeInv /\ \A w \in Workers : StockInv(w)
  <2>1. Init => Inv
    BY InitInv DEF Init, StockInv
  <2>2. Inv /\ [Next]_vars => Inv'
    BY <1>1, StepType, StockStep
  <2>3. Inv => NeverMissed
    <3> SUFFICES ASSUME Inv, NEW w \in Workers, refused[w], Waits(w) PROVE FALSE
      BY DEF NeverMissed
    <3>1. Len(msgs[w]) >= StepsLeft(w) /\ pc[w] = "event" /\ msgs[w] = <<>>
      BY DEF StockInv, Waits
    <3>2. cur[w] \in 1 .. Len(Script) /\ Len(Script) \in Nat
      BY WorkerTypes, StepNumbers
    <3> QED
      BY <3>1, <3>2 DEF StepsLeft
  <2> QED
    BY <2>1, <2>2, <2>3, PTL DEF Spec
<1>2. CASE ~(Len(Script) <= QueueCapacity)
  <2>1. NeverMissed
    BY <1>2 DEF NeverMissed
  <2> QED
    BY <2>1, PTL
<1> QED
  BY <1>1, <1>2
-----------------------------------------------------------------------------
(* One worker, whose script is a sequence of exchanges                     *)

\* Scripts as those under task/: a send step and the recv step of its answer, and
\* so on.  The steps of the script belong to one worker: several of them overwrite
\* each other's m_cSocket (tcpstep.C:51-60).
Exchanges ==
  \A k \in Steps : IF k % 2 = 1 THEN Script[k] = "send" /\ k < Len(Script) ELSE Script[k] = "recv"
Solo(w) == Workers = {w} /\ Exchanges

Sends(w) == cur[w] % 2 = 1
Runs(w) == pc[w] \notin {"new", "install"}

\* s is the connection of the transaction under way, or it is one that no
\* transaction has used, as the worker's own is by now.
Known(w, s) ==
  \/ trans[s] = n[w]
  \/ trans[s] = 0 /\ trans[Sock(w)] = 0 /\ (pc[w] = "recv" => undefined)

\* Which connections there are, and which of them knows which transaction.
SockInv(w) ==
  /\ \A s \in Socket : s[2] > test[w] =>
       wire[s] = <<>> /\ link[s] = "open" /\ splits[s] = 0 /\ trans[s] = 0
  /\ \A k \in Steps : mSock[k] # NoSocket => mSock[k][2] <= test[w]
  /\ \A s \in Socket : trans[s] <= n[w] /\ (pc[w] = "install" => trans[s] < n[w])
  /\ \A s, t \in Socket : trans[s] = n[w] /\ trans[t] = n[w] /\ n[w] >= 1 => s = t
  /\ Runs(w) => trans[Sock(w)] \in {0, n[w]}
  /\ pc[w] = "install" => Sends(w)
  /\ pc[w] = "write" => Known(w, mSock[cur[w]])
  /\ Runs(w) /\ ~Sends(w) => mSock[cur[w] - 1] \in Socket /\ Known(w, mSock[cur[w] - 1])
  /\ cb # NoCallback => 1 <= cb.target /\ cb.target <= trans[cb.sock]
-----------------------------------------------------------------------------
(* What each step does, in terms of the one worker there is                *)

\* In a script of exchanges odd steps send, even ones receive (task/testTCP.xml).
LEMMA Parity ==
  ASSUME TypeInv, NEW w, Solo(w)
  PROVE  /\ w \in Workers /\ cur[w] \in Steps /\ 1 \in Steps /\ Len(Script) \in Nat
         /\ Steps = 1 .. Len(Script) /\ n[w] \in Nat /\ test[w] \in Nat
         /\ Sends(w) => /\ Script[cur[w]] = "send" /\ cur[w] < Len(Script)
                        /\ cur[w] + 1 \in Steps /\ (cur[w] + 1) % 2 # 1
         /\ ~Sends(w) => /\ Script[cur[w]] = "recv" /\ cur[w] > 1
                         /\ cur[w] - 1 \in Steps /\ (cur[w] + 1) % 2 = 1
         /\ pc[w] \in {"send", "write"} => Sends(w)
         /\ pc[w] \in {"suprecv", "recv"} => ~Sends(w)
         /\ 1 % 2 = 1
<1>1. /\ w \in Workers /\ cur[w] \in Steps /\ n[w] \in Nat /\ test[w] \in Nat
      /\ 1 \in Steps /\ Len(Script) \in Nat /\ Steps = 1 .. Len(Script)
  BY WorkerTypes, StepNumbers, BoundAssumption, PeerAssumption DEF Solo
<1>2. /\ Sends(w) => Script[cur[w]] = "send" /\ cur[w] < Len(Script)
      /\ ~Sends(w) => Script[cur[w]] = "recv"
  BY <1>1 DEF Solo, Exchanges, Sends
<1>3. cur[w] \in Nat \ {0}
  BY <1>1
<1>4. /\ Sends(w) => (cur[w] + 1) % 2 # 1
      /\ ~Sends(w) => (cur[w] + 1) % 2 = 1 /\ cur[w] # 1
  BY <1>3 DEF Sends
<1>5. PlaceInv(w)
  BY <1>1 DEF TypeInv
<1> QED
  BY <1>1, <1>2, <1>3, <1>4, <1>5 DEF PlaceInv

\* The next transaction begins (mptthreadpool.C:228-240).
LEMMA NewEffect ==
  ASSUME TypeInv, NEW w, Solo(w), New(w)
  PROVE  /\ pc[w] = "new" /\ pc'[w] = "install" /\ n'[w] = n[w] + 1 /\ cur'[w] = 1
         /\ isSend'[w] /\ msgs'[w] = <<>> /\ ~undefined
         /\ UNCHANGED <<mSock, test, trans, wire, splits, link, cb, undefined>>
BY Parity, NewKeeps DEF TypeInv, New, NewTransaction, peer

\* setTransation (mptthreadpool.C:240-262).
LEMMA InstallEffect ==
  ASSUME TypeInv, NEW w, Solo(w), Install(w)
  PROVE  /\ pc[w] = "install" /\ pc'[w] = "event" /\ n[w] >= 1
         /\ Sock(w) \in Socket /\ trans'[Sock(w)] = n[w]
         /\ \A s \in Socket : s # Sock(w) => trans'[s] = trans[s]
         /\ UNCHANGED <<n, cur, isSend, msgs, mSock, test, wire, splits, link, cb, undefined>>
<1>1. w \in Workers /\ pc[w] = "install" /\ GoTo(w, "event")
  BY Parity DEF Install, At
<1>2. EngineInv(Places) /\ Sock(w) \in Socket /\ trans \in [Socket -> 0 .. MaxTrans]
  BY <1>1, WorkerTypes DEF TypeInv, TypeOK
<1>3. pc'[w] = "event" /\ n[w] >= 1 /\ UNCHANGED <<n, cur, isSend, msgs>>
  BY <1>1, <1>2, GoToKeeps DEF EngineInv
<1> QED
  BY <1>1, <1>2, <1>3 DEF Install, peer

\* onEvent takes an event (transaction.C:54-62).
LEMMA TakeEffect ==
  ASSUME TypeInv, NEW w, Solo(w), Turn(w), TakeEvent(w)
  PROVE  /\ pc[w] = "event" /\ pc'[w] = (IF Sends(w) THEN "send" ELSE "suprecv")
         /\ isSend'[w] /\ msgs[w] # <<>> /\ ev'[w] = Head(msgs[w]) /\ msgs'[w] = Tail(msgs[w])
         /\ UNCHANGED <<n, cur, mSock, test, trans, wire, splits, link, cb, undefined>>
<1>1. w \in Workers /\ EngineInv(Places)
  BY Parity DEF TypeInv
<1>2. pc'[w] = IF Sends(w) THEN "send" ELSE "suprecv"
  BY <1>1, Parity, TakeKeeps
<1>3. isSend'[w] /\ msgs[w] # <<>> /\ ev'[w] = Head(msgs[w]) /\ msgs'[w] = Tail(msgs[w]) /\ n' = n /\ cur' = cur
  BY <1>1, TakeKeeps
<1> QED
  BY <1>1, <1>2, <1>3 DEF Turn, TakeEvent, peer

\* ... or goes on without one (transaction.C:64-73).
LEMMA GoOnEffect ==
  ASSUME TypeInv, NEW w, Solo(w), Turn(w), GoOnWithout(w)
  PROVE  /\ pc[w] = "event" /\ pc'[w] = (IF Sends(w) THEN "send" ELSE "suprecv")
         /\ isSend[w] /\ ~isSend'[w] /\ msgs[w] = <<>> /\ ev'[w] = NoEvent
         /\ UNCHANGED <<n, cur, msgs, mSock, test, trans, wire, splits, link, cb, undefined>>
<1>1. w \in Workers /\ EngineInv(Places)
  BY Parity DEF TypeInv
<1>2. pc'[w] = IF Sends(w) THEN "send" ELSE "suprecv"
  BY <1>1, Parity, GoOnKeeps
<1>3. ev'[w] = NoEvent /\ ~isSend'[w]
  BY <1>1, GoOnKeeps
<1> QED
  BY <1>1, <1>2, <1>3 DEF Turn, GoOnWithout, peer

\* The connection is looked up (tcpstep.C:51-60, 130).
LEMMA LookEffect ==
  ASSUME TypeInv, NEW w, Solo(w), LookUp(w) \/ SupRecv(w)
  PROVE  /\ \/ pc[w] = "send" /\ pc'[w] = "write" /\ UNCHANGED undefined
            \/ pc[w] = "suprecv" /\ pc'[w] = "recv" /\ (trans[Sock(w)] = 0 => undefined')
         /\ ~undefined /\ Sock(w) \in Socket /\ mSock'[cur[w]] = Sock(w)
         /\ \A k \in Steps : k # cur[w] => mSock'[k] = mSock[k]
         /\ UNCHANGED <<n, cur, isSend, ev, msgs, test, trans, wire, splits, link, cb>>
<1>1. /\ w \in Workers /\ cur[w] \in Steps /\ EngineInv(Places) /\ Sock(w) \in Socket
      /\ mSock \in [Steps -> Socket \cup {NoSocket}]
  BY Parity, WorkerTypes DEF TypeInv, TypeOK
<1>2. CASE LookUp(w)
  <2>1. pc[w] = "send" /\ pc'[w] = "write" /\ UNCHANGED <<n, cur, isSend, ev, msgs>>
    BY <1>1, <1>2, GoToKeeps DEF LookUp, At, Places
  <2> QED
    BY <1>1, <1>2, <2>1 DEF LookUp, At, peer
<1>3. CASE SupRecv(w)
  <2>1. pc[w] = "suprecv" /\ pc'[w] = "recv" /\ UNCHANGED <<n, cur, isSend, ev, msgs>>
    BY <1>1, <1>3, GoToKeeps DEF SupRecv, At
  <2>2. trans[Sock(w)] = 0 => undefined'
    BY <1>3 DEF SupRecv
  <2> QED
    BY <1>1, <1>3, <2>1, <2>2 DEF SupRecv, At, peer
<1> QED
  BY <1>2, <1>3

\* sendMsg, and the answer that comes of it unless the connection is off; the recv
\* step is next (tcpstep.C:60-75, socketpool.C:120-140).
LEMMA WriteEffect ==
  ASSUME TypeInv, NEW w, Solo(w), Write(w)
  PROVE  LET s == mSock[cur[w]]
         IN /\ pc[w] = "write" /\ pc'[w] = "event" /\ cur'[w] = cur[w] + 1 /\ s \in Socket
            /\ OwnRequest(w) = PreviousRequest(w)'
            /\ link[s] = "off" => wire'[s] = wire[s]
            /\ link[s] # "off" => wire'[s] # <<>>
            /\ wire[s] = <<>> => \A a \in 1 .. Len(wire'[s]) : wire'[s][a].of = OwnRequest(w)
            /\ \A t \in Socket : t # s => wire'[t] = wire[t]
            /\ UNCHANGED <<n, isSend, ev, msgs, mSock, test, trans, splits, link, cb, undefined>>
<1> DEFINE s == mSock[cur[w]]
<1>1. /\ w \in Workers /\ cur[w] \in Steps /\ EngineInv(Places) /\ pc[w] = "write" /\ Sends(w)
      /\ cur[w] < Len(Script) /\ Succeed(w) /\ PlaceInv(w)
  BY Parity DEF TypeInv, Write, At
<1>2. /\ pc'[w] = "event" /\ cur'[w] = cur[w] + 1
      /\ UNCHANGED <<n, isSend, ev, msgs>>
  BY <1>1, SucceedKeeps, Parity
<1>3. s \in Socket
  BY <1>1 DEF PlaceInv, TypeInv, TypeOK
<1>4. PICK answer \in Answers :
        wire' = IF link[s] = "off" THEN wire
                ELSE [wire EXCEPT ![s] =
                        @ \o [i \in DOMAIN answer |-> [byte |-> answer[i], of |-> OwnRequest(w)]]]
  BY DEF Write, SendMsg
<1>5. answer \in Seq(Byte) /\ answer # <<>> /\ OwnRequest(w) \in Request
  BY <1>1, PeerAssumption, WorkerTypes
<1> DEFINE more == [i \in DOMAIN answer |-> [byte |-> answer[i], of |-> OwnRequest(w)]]
<1>6. /\ more \in Seq(Bytes) /\ Len(more) = Len(answer) /\ Len(more) \in Nat \ {0}
      /\ \A i \in 1 .. Len(more) : more[i].of = OwnRequest(w)
  <2>1. \A i \in 1 .. Len(answer) : [byte |-> answer[i], of |-> OwnRequest(w)] \in Bytes
    BY <1>5 DEF Bytes
  <2>2. Len(answer) \in Nat \ {0} /\ DOMAIN answer = 1 .. Len(answer)
    BY <1>5, EmptySeq
  <2> QED
    BY <2>1, <2>2
<1>7. wire \in [Socket -> Seq(Bytes)]
  BY DEF TypeInv, TypeOK, Bytes
<1>8. /\ link[s] = "off" => wire'[s] = wire[s]
      /\ link[s] # "off" => wire'[s] = wire[s] \o more
      /\ \A t \in Socket : t # s => wire'[t] = wire[t]
  <2> HIDE DEF more
  <2> QED
    BY <1>3, <1>4, <1>7 DEF more
<1>9. wire[s] \o more # <<>> /\ (wire[s] = <<>> => wire[s] \o more = more)
  <2> HIDE DEF more, s
  <2>1. wire[s] \in Seq(Bytes)
    BY <1>3, <1>7
  <2>2. Len(wire[s] \o more) # 0
    BY <1>6, <2>1, ConcatProperties
  <2> QED
    BY <1>6, <2>1, <2>2, ConcatEmptySeq, EmptySeq
<1>10. wire[s] = <<>> => \A a \in 1 .. Len(wire'[s]) : wire'[s][a].of = OwnRequest(w)
  <2> HIDE DEF more, s
  <2> QED
    BY <1>6, <1>8, <1>9
<1>11. OwnRequest(w) = PreviousRequest(w)'
  <2>1. cur[w] \in Int
    BY Parity
  <2>2. n'[w] = n[w] /\ cur'[w] - 1 = cur[w]
    BY <1>2, <2>1
  <2> QED
    BY <2>2 DEF OwnRequest, PreviousRequest
<1>12. UNCHANGED <<mSock, test, trans, splits, link, cb, undefined>>
  BY DEF Write
<1> HIDE DEF more, s
<1> QED
  BY <1>1, <1>2, <1>3, <1>8, <1>9, <1>10, <1>11, <1>12 DEF s

\* A recv step ends, with data that fits or does not, or with an error
\* (tcpstep.C:113-160).
LEMMA RecvEffect ==
  ASSUME TypeInv, NEW w, Solo(w), RecvData(w) \/ RecvOther(w)
  PROVE  /\ pc[w] = "recv" /\ ~undefined
         /\ \/ ev[w].kind = "data"
            \/ ev[w].kind = "error" /\ pc'[w] = "new"
         /\ \/ pc'[w] = "new" /\ cur'[w] = cur[w]
            \/ pc'[w] = "event" /\ cur'[w] = cur[w] + 1
         /\ \A k \in Steps : mSock'[k] = mSock[k] \/ mSock'[k] = mSock[cur[w] - 1]
         /\ UNCHANGED <<n, isSend, ev, msgs, test, trans, wire, splits, link, cb>>
<1>1. /\ w \in Workers /\ cur[w] \in Steps /\ EngineInv(Places)
      /\ mSock \in [Steps -> Socket \cup {NoSocket}]
  BY Parity DEF TypeInv, TypeOK
<1>2. CASE RecvData(w)
  <2>1. /\ pc[w] = "recv" /\ ~undefined /\ ev[w].kind = "data" /\ (Succeed(w) \/ End(w))
        /\ mSock' = [mSock EXCEPT ![cur[w]] = mSock[cur[w] - 1]]
        /\ UNCHANGED <<test, trans, wire, splits, link, cb>>
    BY <1>2 DEF RecvData, At, peer
  <2>2. /\ UNCHANGED <<n, isSend, ev, msgs>>
        /\ \/ pc'[w] = "new" /\ cur'[w] = cur[w]
           \/ pc'[w] = "event" /\ cur'[w] = cur[w] + 1
    BY <1>1, <2>1, SucceedKeeps, EndKeeps
  <2> QED
    BY <1>1, <2>1, <2>2
<1>3. CASE RecvOther(w)
  <2>1. pc'[w] = "new" /\ UNCHANGED <<n, cur, isSend, ev, msgs>>
    BY <1>1, <1>3, EndKeeps DEF RecvOther
  <2> QED
    BY <1>1, <1>3, <2>1 DEF RecvOther, At, peer
<1> QED
  BY <1>2, <1>3

\* A connection of a new pool takes the place of the worker's (manager.C:140-165).
LEMMA ReconnectEffect ==
  ASSUME TypeInv, NEW w, Solo(w), Reconnect(w)
  PROVE  /\ test'[w] = test[w] + 1 /\ ~undefined /\ Sock(w)' \in Socket /\ Sock(w)'[2] = test[w] + 1
         /\ UNCHANGED <<engine, mSock, trans, wire, splits, link, cb, undefined>>
<1>1. w \in Workers /\ test \in [Workers -> 0 .. NewTests] /\ test[w] \in Nat
  BY Parity DEF TypeInv, TypeOK
<1>2. test'[w] = test[w] + 1 /\ test[w] + 1 \in 0 .. NewTests
  BY <1>1, PeerAssumption DEF Reconnect
<1> QED
  BY <1>1, <1>2 DEF Reconnect, Sock, Socket, peer

\* An event is on its way, unless tTransation is used before it is set
\* (socketpool.C:165-177, 210-220).
LEMMA CallBackEffect ==
  ASSUME TypeInv, NEW s \in Socket, NEW e \in Event, CallBack(s, e)
  PROVE  \/ trans[s] = 0 /\ undefined' /\ cb' = cb
         \/ /\ trans[s] >= 1 /\ ~undefined'
            /\ cb'.sock = s /\ cb'.target = trans[s] /\ cb'.event = e
            /\ cb' # NoCallback
<1>1. trans[s] \in Nat /\ NoSocket \notin Socket
  BY BoundAssumption, WorkersAssumption DEF TypeInv, TypeOK, Socket, NoSocket
<1>2. CASE trans[s] = 0
  BY <1>2 DEF CallBack
<1>3. CASE trans[s] # 0
  <2>1. cb' = [sock |-> s, target |-> trans[s], event |-> e] /\ ~undefined'
    BY <1>3 DEF CallBack
  <2> QED
    BY <1>1, <1>3, <2>1 DEF NoCallback
<1> QED
  BY <1>2, <1>3

\* Something is read off an open connection: all there is when the answers come
\* whole (socketpool.C:150-190).
LEMMA ReadEffect ==
  ASSUME TypeInv, NEW w, Solo(w), NEW s \in Socket, Receive(s)
  PROVE  /\ wire[s] # <<>> /\ link[s] = "open" /\ cb = NoCallback /\ ~undefined
         /\ \A t \in Socket : t # s => wire'[t] = wire[t] /\ splits'[t] = splits[t]
         /\ \/ wire'[s] = <<>> /\ splits'[s] = splits[s]
            \/ splits'[s] = splits[s] + 1
         /\ \/ UNCHANGED <<cb, undefined>>
            \/ trans[s] = 0 /\ undefined' /\ cb' = cb
            \/ /\ trans[s] >= 1 /\ cb'.sock = s /\ cb'.target = trans[s] /\ ~undefined'
               /\ cb'.event.kind = "data" /\ cb' # NoCallback
               /\ \E a \in 1 .. Len(wire[s]) : cb'.event.of = wire[s][a].of
         /\ UNCHANGED <<engine, mSock, test, trans, link>>
<1>1. PICK k \in ReadLengths(s), e \in Event :
           /\ k \in 1 .. Len(wire[s]) /\ e.kind = "data" /\ e.of = wire[s][k].of
           /\ wire' = [wire EXCEPT ![s] = SubSeq(@, k + 1, Len(@))]
           /\ splits' = IF k < Len(wire[s]) THEN [splits EXCEPT ![s] = @ + 1] ELSE splits
           /\ (UNCHANGED <<cb, undefined>> \/ CallBack(s, e))
  BY ReceiveEffect
<1>2. wire \in [Socket -> Seq(Bytes)] /\ splits \in [Socket -> 0 .. MaxSplits]
  BY DEF TypeInv, TypeOK, Bytes
<1>3. \/ wire'[s] = <<>> /\ splits'[s] = splits[s]
      \/ splits'[s] = splits[s] + 1
  <2>1. CASE k < Len(wire[s])
    BY <1>1, <1>2, <2>1
  <2>2. CASE ~(k < Len(wire[s]))
    <3>1. Len(wire[s]) < k + 1 /\ Len(wire[s]) \in Int /\ k + 1 \in Int
      BY <1>1, <1>2, <2>2
    <3>2. SubSeq(wire[s], k + 1, Len(wire[s])) = <<>>
      BY <3>1, SubSeqEmpty
    <3> QED
      BY <1>1, <1>2, <2>2, <3>2
  <2> QED
    BY <2>1, <2>2
<1>4. \A t \in Socket : t # s => wire'[t] = wire[t] /\ splits'[t] = splits[t]
  BY <1>1, <1>2
<1>5. \/ UNCHANGED <<cb, undefined>>
      \/ trans[s] = 0 /\ undefined' /\ cb' = cb
      \/ /\ trans[s] >= 1 /\ cb'.sock = s /\ cb'.target = trans[s] /\ ~undefined'
         /\ cb'.event.kind = "data" /\ cb' # NoCallback
         /\ \E a \in 1 .. Len(wire[s]) : cb'.event.of = wire[s][a].of
  <2>1. CASE UNCHANGED <<cb, undefined>>
    BY <2>1
  <2>2. CASE CallBack(s, e)
    BY <1>1, <2>2, CallBackEffect
  <2> QED
    BY <1>1, <2>1, <2>2
<1> QED
  BY <1>3, <1>4, <1>5 DEF Receive

\* A connection fails, once when it is read from and once when it is written to
\* (socketpool.C:195-230).
LEMMA FailEffect ==
  ASSUME TypeInv, NEW w, Solo(w), NEW s \in Socket, CloseRead(s) \/ FailWrite(s)
  PROVE  /\ \/ link[s] = "open" /\ link'[s] = "noread" /\ s[2] <= test[w]
            \/ link[s] = "noread" /\ link'[s] = "off" /\ wire[s] # <<>>
         /\ cb = NoCallback /\ wire'[s] = <<>> /\ ~undefined
         /\ \A t \in Socket : t # s => wire'[t] = wire[t] /\ link'[t] = link[t]
         /\ \/ trans[s] = 0 /\ undefined' /\ cb' = cb
            \/ /\ trans[s] >= 1 /\ cb'.sock = s /\ cb'.target = trans[s] /\ ~undefined'
               /\ cb'.event.kind = "error" /\ cb' # NoCallback
         /\ UNCHANGED <<engine, mSock, test, trans, splits>>
<1>1. /\ wire \in [Socket -> Seq(Bytes)] /\ link \in [Socket -> {"open", "noread", "off"}]
      /\ s[1] = w
  BY DEF TypeInv, TypeOK, Bytes, Solo, Socket
<1>2. ASSUME NEW now, Fail(s, now)
      PROVE  /\ cb = NoCallback /\ wire'[s] = <<>> /\ link'[s] = now /\ ~undefined
             /\ \A t \in Socket : t # s => wire'[t] = wire[t] /\ link'[t] = link[t]
             /\ \/ trans[s] = 0 /\ undefined' /\ cb' = cb
                \/ /\ trans[s] >= 1 /\ cb'.sock = s /\ cb'.target = trans[s] /\ ~undefined'
                   /\ cb'.event.kind = "error" /\ cb' # NoCallback
             /\ UNCHANGED <<engine, mSock, test, trans, splits>>
  <2>1. ErrorEvent(NoRequest) \in Event /\ ErrorEvent(NoRequest).kind = "error"
    BY EventTypes DEF ErrorEvent
  <2> QED
    BY <1>1, <1>2, <2>1, CallBackEffect DEF Fail
<1>3. CASE CloseRead(s)
  BY <1>1, <1>2, <1>3 DEF CloseRead
<1>4. CASE FailWrite(s)
  BY <1>2, <1>4 DEF FailWrite
<1> QED
  BY <1>3, <1>4

\* The event gets into the queue of the transaction it is for, if that is the
\* latest and its queue has room (transaction.C:41-46).
LEMMA PushEffect ==
  ASSUME TypeInv, NEW w, Solo(w), PushEvent
  PROVE  /\ cb # NoCallback /\ cb.sock \in Socket /\ cb.event \in Event /\ cb' = NoCallback
         /\ msgs[w] \in Seq(Event) /\ ~undefined
         /\ \/ msgs'[w] = msgs[w]
            \/ msgs'[w] = Append(msgs[w], cb.event) /\ cb.target = n[w]
         /\ UNCHANGED <<pc, n, cur, isSend, ev, mSock, test, trans, wire, splits, link, undefined>>
<1>1. cb # NoCallback /\ cb.sock \in Socket /\ cb.event \in Event
  BY DEF PushEvent, TypeInv, TypeOK
<1>2. cb.sock[1] = w /\ w \in Workers
  BY <1>1 DEF Solo, Socket
<1>3. msgs' = Pushed(w, cb.target, cb.event) /\ msgs \in [Workers -> Seq(Event)]
  BY <1>2 DEF PushEvent, TypeInv, TypeOK, EngineTypeOK
<1>4. /\ msgs'[w] \in {msgs[w], Append(msgs[w], cb.event)}
      /\ cb.target # n[w] => msgs'[w] = msgs[w]
  BY <1>1, <1>2, <1>3, PushedTypes
<1> QED
  BY <1>1, <1>2, <1>3, <1>4 DEF PushEvent, peer

\* These are all the steps there are (mptthreadpool.C:228, socketpool.C:150-230,
\* manager.C:140).
LEMMA Steps12 ==
  ASSUME NEW w, Solo(w), [Next]_vars
  PROVE  \/ New(w) \/ Install(w) \/ (Turn(w) /\ TakeEvent(w)) \/ (Turn(w) /\ GoOnWithout(w))
         \/ LookUp(w) \/ SupRecv(w) \/ Write(w) \/ RecvData(w) \/ RecvOther(w) \/ Reconnect(w)
         \/ \E s \in Socket : Receive(s) \/ CloseRead(s) \/ FailWrite(s)
         \/ PushEvent
         \/ UNCHANGED vars
<1>1. CASE Next
  <2>1. CASE \E v \in Workers : Worker(v) \/ Reconnect(v)
    <3>1. Worker(w) \/ Reconnect(w)
      BY <2>1 DEF Solo
    <3> QED
      BY <3>1 DEF Worker, Turn
  <2> QED
    BY <1>1, <2>1 DEF Next
<1> QED
  BY <1>1
-----------------------------------------------------------------------------
(* Connections                                                             *)

\* At the start no connection knows a transaction (manager.C:140).
LEMMA SockStart ==
  ASSUME Init, NEW w, Solo(w)
  PROVE  SockInv(w)
<1>1. w \in Workers
  BY DEF Solo
<1> QED
  BY <1>1 DEF Init, InitEngine, SockInv, Runs

\* A transaction has one connection from setTransation on; a new test may take it
\* away from the worker, but none comes to know the transaction instead
\* (mptthreadpool.C:240-262, manager.C:158, socketpool.C:98).
LEMMA SockStep ==
  ASSUME TypeInv, NEW w, Solo(w), SockInv(w), [Next]_vars
  PROVE  SockInv(w)'
<1>0. /\ Sock(w) \in Socket /\ NoSocket \notin Socket /\ Sock(w)[2] = test[w]
      /\ \A s \in Socket : trans[s] \in Nat /\ s[2] \in Nat /\ s[1] = w
      /\ \A k \in Steps : mSock[k] \in Socket \cup {NoSocket}
  <2>1. w \in Workers /\ Sock(w)[2] = test[w]
    BY Parity DEF Sock
  <2>2. /\ \A s \in Socket : trans[s] \in Nat
        /\ \A k \in Steps : mSock[k] \in Socket \cup {NoSocket}
    BY BoundAssumption DEF TypeInv, TypeOK
  <2>3. \A s \in Socket : s[2] \in Nat /\ s[1] = w
    BY PeerAssumption DEF Socket, Solo
  <2> QED
    BY <2>1, <2>2, <2>3, WorkerTypes
<1>1. CASE New(w)
  <2>1. \A s \in Socket : trans[s] < n[w] + 1
    BY <1>0, Parity DEF SockInv
  <2>2. /\ pc'[w] = "install" /\ n'[w] = n[w] + 1 /\ cur'[w] = 1
        /\ UNCHANGED <<mSock, test, trans, wire, splits, link, cb>>
    BY <1>1, NewEffect
  <2>3. \A s \in Socket : trans[s] <= n[w] + 1
    BY <1>0, <2>1, Parity
  <2> QED
    BY <2>1, <2>2, <2>3, Parity DEF SockInv, Runs, Sends
<1>2. CASE Install(w)
  <2>1. /\ pc[w] = "install" /\ pc'[w] = "event" /\ n[w] >= 1
        /\ trans'[Sock(w)] = n[w] /\ \A s \in Socket : s # Sock(w) => trans'[s] = trans[s]
        /\ UNCHANGED <<n, cur, mSock, test, wire, splits, link, cb>>
    BY <1>2, InstallEffect
  <2>2. \A s \in Socket :
          trans[s] < n[w] /\ trans[s] <= trans'[s] /\ trans'[s] <= n[w] /\ trans'[s] \in Nat
    <3>1. \A s \in Socket : trans[s] < n[w]
      BY <2>1 DEF SockInv
    <3> QED
      BY <1>0, <2>1, <3>1, Parity
  <2>3. cb' # NoCallback => 1 <= cb'.target /\ cb'.target <= trans'[cb'.sock]
    <3>1. cb # NoCallback => cb.sock \in Socket /\ cb.target \in Nat
      BY BoundAssumption DEF TypeInv, TypeOK
    <3>2. cb # NoCallback => 1 <= cb.target /\ cb.target <= trans[cb.sock]
      BY DEF SockInv
    <3> QED
      BY <1>0, <2>1, <2>2, <3>1, <3>2
  <2>4. \A s, t \in Socket : trans'[s] = n[w] /\ trans'[t] = n[w] => s = t
    BY <1>0, <2>1, <2>2, Parity
  <2>5. \A s \in Socket : s[2] > test[w] => s # Sock(w)
    BY <1>0, Parity
  <2>6. \A s \in Socket : s[2] > test[w] => trans'[s] = 0
    BY <2>1, <2>5 DEF SockInv
  <2>7. Sends(w)' /\ Sock(w)' = Sock(w)
    BY <2>1 DEF SockInv, Sends, Sock
  <2> QED
    BY <2>1, <2>2, <2>3, <2>4, <2>6, <2>7 DEF SockInv, Runs
<1>3. CASE Turn(w) /\ TakeEvent(w)
  BY <1>0, <1>3, TakeEffect DEF SockInv, Known, Runs, Sends, Sock
<1>4. CASE Turn(w) /\ GoOnWithout(w)
  BY <1>0, <1>4, GoOnEffect DEF SockInv, Known, Runs, Sends, Sock
<1>5. CASE LookUp(w) \/ SupRecv(w)
  <2>1. /\ \/ pc[w] = "send" /\ pc'[w] = "write" /\ UNCHANGED undefined
           \/ pc[w] = "suprecv" /\ pc'[w] = "recv" /\ (trans[Sock(w)] = 0 => undefined')
        /\ mSock'[cur[w]] = Sock(w) /\ \A k \in Steps : k # cur[w] => mSock'[k] = mSock[k]
        /\ UNCHANGED <<n, cur, test, trans, wire, splits, link, cb>>
    BY <1>5, LookEffect
  <2>2. \A k \in Steps : mSock'[k] # NoSocket => mSock'[k][2] <= test[w]
    <3>1. \A k \in Steps : mSock[k] # NoSocket => mSock[k][2] <= test[w]
      BY DEF SockInv
    <3> QED
      BY <1>0, <2>1, <3>1, Parity
  <2>3. pc'[w] = "write" => Known(w, mSock[cur[w]])'
    BY <1>0, <2>1, Parity DEF SockInv, Known, Runs, Sock
  <2>4. ~Sends(w) => mSock'[cur'[w] - 1] = mSock[cur[w] - 1]
    BY <1>0, <2>1, Parity
  <2>5. ~Sends(w) => mSock[cur[w] - 1] \in Socket /\ Known(w, mSock[cur[w] - 1])'
    BY <1>0, <2>1, <2>4, Parity DEF SockInv, Known, Runs, Sock
  <2> QED
    BY <1>0, <2>1, <2>2, <2>3, <2>4, <2>5, Parity DEF SockInv, Runs, Sends, Sock
<1>6. CASE Write(w)
  <2>1. /\ pc[w] = "write" /\ pc'[w] = "event" /\ cur'[w] = cur[w] + 1 /\ mSock[cur[w]] \in Socket
        /\ \A t \in Socket : t # mSock[cur[w]] => wire'[t] = wire[t]
        /\ UNCHANGED <<n, mSock, test, trans, splits, link, cb, undefined>>
    BY <1>6, WriteEffect
  <2>2. mSock[cur[w]][2] <= test[w] /\ Known(w, mSock[cur[w]])
    BY <1>0, <2>1, Parity DEF SockInv
  <2>3. \A s \in Socket : s[2] > test[w] => s # mSock[cur[w]]
    BY <1>0, <2>1, <2>2, Parity
  <2>4. cur'[w] - 1 = cur[w]
    BY <2>1, Parity
  <2> QED
    BY <1>0, <2>1, <2>2, <2>3, <2>4 DEF SockInv, Known, Runs, Sends, Sock
<1>7. CASE RecvData(w) \/ RecvOther(w)
  <2>1. /\ pc[w] = "recv"
        /\ \/ pc'[w] = "new" /\ cur'[w] = cur[w]
           \/ pc'[w] = "event" /\ cur'[w] = cur[w] + 1
        /\ \A k \in Steps : mSock'[k] = mSock[k] \/ mSock'[k] = mSock[cur[w] - 1]
        /\ UNCHANGED <<n, test, trans, wire, splits, link, cb>>
    BY <1>7, RecvEffect
  <2>2. \A k \in Steps : mSock'[k] # NoSocket => mSock'[k][2] <= test[w]
    <3>1. cur[w] - 1 \in Steps
      BY <2>1, Parity
    <3>2. \A k \in Steps : mSock[k] # NoSocket => mSock[k][2] <= test[w]
      BY DEF SockInv
    <3> QED
      BY <2>1, <3>1, <3>2
  <2>3. pc'[w] = "event" => Sends(w)'
    BY <2>1, Parity DEF Sends
  <2> QED
    BY <1>0, <2>1, <2>2, <2>3 DEF SockInv, Runs, Sock
<1>8. CASE Reconnect(w)
  <2>1. /\ test'[w] = test[w] + 1 /\ ~undefined /\ Sock(w)' \in Socket /\ Sock(w)'[2] = test[w] + 1
        /\ UNCHANGED <<pc, n, cur, mSock, trans, wire, splits, link, cb, undefined>>
    BY <1>8, ReconnectEffect DEF engine
  <2>2. trans[Sock(w)'] = 0
    BY <2>1, Parity DEF SockInv
  <2>3. \A s \in Socket : s[2] > test'[w] => s[2] > test[w]
    BY <1>0, <2>1, Parity
  <2>4. \A k \in Steps : mSock[k] # NoSocket => mSock[k][2] <= test'[w]
    <3>1. \A k \in Steps : mSock[k] # NoSocket => mSock[k][2] \in Nat
      BY <1>0
    <3> QED
      BY <2>1, <3>1, Parity DEF SockInv
  <2>5. \A s \in Socket : Known(w, s) => Known(w, s)'
    BY <2>1, <2>2 DEF Known
  <2>6. pc[w] = "write" => mSock[cur[w]] \in Socket
    BY Parity, <1>0 DEF TypeInv, PlaceInv
  <2> QED
    BY <1>0, <2>1, <2>2, <2>3, <2>4, <2>5, <2>6, Parity DEF SockInv, Runs, Sends
<1>9. ASSUME NEW s \in Socket, Receive(s) \/ CloseRead(s) \/ FailWrite(s)
      PROVE  SockInv(w)'
  <2>1. /\ UNCHANGED <<pc, n, cur, mSock, test, trans>> /\ ~undefined
        /\ \A t \in Socket : t # s => wire'[t] = wire[t] /\ link'[t] = link[t] /\ splits'[t] = splits[t]
        /\ s[2] <= test[w]
        /\ (cb' # cb => trans[s] >= 1 /\ cb'.sock = s /\ cb'.target = trans[s] )
    <3>1. CASE Receive(s)
      <4>1. s[2] <= test[w]
        <5> SUFFICES ASSUME s[2] > test[w] PROVE FALSE
          BY <1>0, Parity
        <5> QED
          BY <3>1, ReadEffect DEF SockInv
      <4> QED
        BY <3>1, <4>1, ReadEffect DEF engine
    <3>2. CASE CloseRead(s) \/ FailWrite(s)
      <4>1. s[2] <= test[w]
        <5> SUFFICES ASSUME s[2] > test[w] PROVE FALSE
          BY <1>0, Parity
        <5>1. wire[s] = <<>>
          BY DEF SockInv
        <5>2. s[2] <= test[w]
          BY <3>2, <5>1, FailEffect
        <5> QED
          BY <1>0, <5>2, Parity
      <4> QED
        BY <3>2, <4>1, FailEffect DEF engine
    <3> QED
      BY <1>9, <3>1, <3>2
  <2>2. \A t \in Socket : t[2] > test[w] => t # s
    BY <1>0, <2>1, Parity
  <2>3. cb' # NoCallback => 1 <= cb'.target /\ cb'.target <= trans[cb'.sock]
    BY <1>0, <2>1 DEF SockInv
  <2>4. \A t \in Socket : Known(w, t) => Known(w, t)'
    BY <2>1 DEF Known, Sock
  <2>5. pc[w] = "write" => mSock[cur[w]] \in Socket
    BY Parity, <1>0 DEF TypeInv, PlaceInv
  <2>6. \A t \in Socket : t[2] > test[w] =>
          wire'[t] = <<>> /\ link'[t] = "open" /\ splits'[t] = 0 /\ trans[t] = 0
    BY <2>1, <2>2 DEF SockInv
  <2>7. Sock(w)' = Sock(w) /\ (Runs(w)' <=> Runs(w)) /\ (Sends(w)' <=> Sends(w))
    BY <2>1 DEF Sock, Runs, Sends
  <2> QED
    BY <1>0, <2>1, <2>3, <2>4, <2>5, <2>6, <2>7 DEF SockInv
<1>10. CASE PushEvent
  <2>1. cb' = NoCallback /\ UNCHANGED <<pc, n, cur, mSock, test, trans, wire, splits, link, undefined>>
    BY <1>10, PushEffect
  <2>2. /\ Sock(w)' = Sock(w) /\ (Runs(w)' <=> Runs(w)) /\ (Sends(w)' <=> Sends(w))
        /\ \A s \in Socket : Known(w, s)' <=> Known(w, s)
    BY <2>1 DEF Sock, Runs, Sends, Known
  <2>3. /\ pc[w] = "write" => Known(w, mSock[cur[w]])'
        /\ Runs(w) /\ ~Sends(w) => mSock[cur[w] - 1] \in Socket /\ Known(w, mSock[cur[w] - 1])'
    BY <2>1 DEF SockInv, Known, Sock
  <2> QED
    BY <2>1, <2>2, <2>3 DEF SockInv
<1>11. CASE UNCHANGED vars
  BY <1>0, <1>11 DEF vars, engine, peer, SockInv, Known, Runs, Sends, Sock
<1> QED
  BY <1>1, <1>2, <1>3, <1>4, <1>5, <1>6, <1>7, <1>8, <1>9, <1>10, <1>11, Steps12
-----------------------------------------------------------------------------
(* Errors                                                                  *)

\* The connection of the transaction under way has failed.
Broken(w) == \A s \in Socket : trans[s] = n[w] => link[s] # "open"

\* An error is there only after the connection has failed, and no data follows it.
EventInv(w) ==
  /\ cb # NoCallback => /\ cb.event.kind # "none"
                        /\ cb.event.kind = "data" => link[cb.sock] = "open"
  /\ \A i \in 1 .. Len(msgs[w]) : msgs[w][i].kind # "none"
  /\ Runs(w) =>
       /\ \A i, j \in 1 .. Len(msgs[w]) :
            i < j /\ msgs[w][i].kind = "error" => msgs[w][j].kind = "error"
       /\ \A i \in 1 .. Len(msgs[w]) : msgs[w][i].kind = "error" => Broken(w)
       /\ cb.event.kind = "error" /\ cb.target = n[w] => Broken(w)
  /\ pc[w] \in {"suprecv", "recv"} /\ ev[w].kind = "error" =>
       Broken(w) /\ \A i \in 1 .. Len(msgs[w]) : msgs[w][i].kind = "error"
  /\ pc[w] = "install" => msgs[w] = <<>>
  /\ (\A s \in Socket : link[s] = "open") =>
       cb.event.kind # "error" /\ \A i \in 1 .. Len(msgs[w]) : msgs[w][i].kind # "error"

\* What is in a queue when an event has come or gone (ringbuff.h:46-98).
LEMMA QueueFacts ==
  ASSUME NEW q \in Seq(Event)
  PROVE  /\ Len(q) \in Nat /\ (q = <<>> <=> Len(q) = 0)
         /\ \A i \in 1 .. Len(q) : q[i] \in Event
         /\ \A e \in Event : /\ Len(Append(q, e)) = Len(q) + 1
                             /\ \A i \in 1 .. Len(q) : Append(q, e)[i] = q[i]
                             /\ Append(q, e)[Len(q) + 1] = e
         /\ q # <<>> => /\ Head(q) = q[1] /\ 1 \in 1 .. Len(q) /\ Len(Tail(q)) = Len(q) - 1
                        /\ \A i \in 1 .. Len(Tail(q)) : Tail(q)[i] = q[i + 1] /\ i + 1 \in 1 .. Len(q)
<1>1. Len(q) \in Nat /\ (q = <<>> <=> Len(q) = 0) /\ \A i \in 1 .. Len(q) : q[i] \in Event
  BY EmptySeq
<1>2. ASSUME NEW e \in Event
      PROVE  /\ Len(Append(q, e)) = Len(q) + 1
             /\ \A i \in 1 .. Len(q) : Append(q, e)[i] = q[i]
             /\ Append(q, e)[Len(q) + 1] = e
  BY <1>1, AppendProperties
<1>3. ASSUME q # <<>>
      PROVE  /\ Head(q) = q[1] /\ 1 \in 1 .. Len(q) /\ Len(Tail(q)) = Len(q) - 1
             /\ \A i \in 1 .. Len(Tail(q)) : Tail(q)[i] = q[i + 1] /\ i + 1 \in 1 .. Len(q)
  <2>1. Len(Tail(q)) = Len(q) - 1 /\ \A i \in 1 .. Len(Tail(q)) : Tail(q)[i] = q[i + 1]
    BY <1>3, HeadTailProperties
  <2> QED
    BY <1>1, <1>3, <2>1
<1> QED
  BY <1>1, <1>2, <1>3

\* At the start there is no event at all (manager.C:140).
LEMMA EventStart ==
  ASSUME Init, NEW w, Solo(w)
  PROVE  EventInv(w)
BY DEF Solo, Init, InitEngine, EventInv, NoCallback, NoEvent, Runs

\* An error comes from the connection's failing, and a connection that has failed
\* is not read any more (socketpool.C:195-230).
LEMMA EventStep ==
  ASSUME TypeInv, NEW w, Solo(w), SockInv(w), EventInv(w), [Next]_vars
  PROVE  EventInv(w)'
<1>0. /\ msgs[w] \in Seq(Event) /\ Sock(w) \in Socket
      /\ NoCallback.event.kind = "none" /\ NoEvent.kind = "none"
      /\ (cb # NoCallback => cb.sock \in Socket /\ cb.target \in Nat)
      /\ \A s \in Socket : trans[s] \in Nat
  <2>1. w \in Workers
    BY Parity
  <2>2. msgs[w] \in Seq(Event) /\ Sock(w) \in Socket
    BY <2>1, WorkerTypes DEF TypeInv, TypeOK, EngineTypeOK
  <2>3. NoCallback.event.kind = "none" /\ NoEvent.kind = "none"
    BY DEF NoCallback, NoEvent
  <2>4. (cb # NoCallback => cb.sock \in Socket /\ cb.target \in Nat)
    BY BoundAssumption DEF TypeInv, TypeOK
  <2>5. \A s \in Socket : trans[s] \in Nat
    BY BoundAssumption DEF TypeInv, TypeOK
  <2> QED
    BY <2>2, <2>3, <2>4, <2>5
<1> DEFINE Same == /\ UNCHANGED <<n, trans, link, cb>> /\ msgs'[w] = msgs[w]
                   /\ (Runs(w)' => Runs(w)) /\ pc'[w] # "install"
                   /\ pc'[w] \in {"suprecv", "recv"} =>
                        ev'[w].kind # "error" \/ (pc[w] \in {"suprecv", "recv"} /\ ev'[w] = ev[w])
<1>1. ASSUME Same PROVE EventInv(w)'
  BY <1>1 DEF EventInv, Broken
<1>2. CASE New(w)
  <2>1. /\ pc'[w] = "install" /\ msgs'[w] = <<>> /\ UNCHANGED <<link, cb>>
    BY <1>2, NewEffect
  <2> QED
    BY <2>1 DEF EventInv, Runs
<1>3. CASE Install(w)
  <2>1. /\ pc[w] = "install" /\ pc'[w] = "event" /\ UNCHANGED <<n, msgs, link, cb>>
    BY <1>3, InstallEffect
  <2>2. cb.event.kind = "error" => cb.target # n[w]
    <3>1. cb # NoCallback => cb.target <= trans[cb.sock] /\ trans[cb.sock] < n[w]
      BY <1>0, <2>1 DEF SockInv
    <3>2. cb.event.kind = "error" => cb # NoCallback
      BY <1>0
    <3> QED
      BY <1>0, <3>1, <3>2, Parity
  <2> QED
    BY <2>1, <2>2 DEF EventInv, Runs
<1>4. CASE Turn(w) /\ TakeEvent(w)
  <2>1. /\ pc[w] = "event" /\ pc'[w] \in {"send", "suprecv"}
        /\ msgs[w] # <<>> /\ ev'[w] = Head(msgs[w]) /\ msgs'[w] = Tail(msgs[w])
        /\ UNCHANGED <<n, trans, link, cb>>
    BY <1>4, TakeEffect
  <2>2. /\ ev'[w] = msgs[w][1] /\ 1 \in 1 .. Len(msgs[w])
        /\ \A i \in 1 .. Len(msgs'[w]) : msgs'[w][i] = msgs[w][i + 1] /\ i + 1 \in 1 .. Len(msgs[w])
    BY <1>0, <2>1, QueueFacts
  <2>3. \A i, j \in 1 .. Len(msgs'[w]) : i < j => i + 1 < j + 1
    BY <1>0, <2>1
  <2>4. Runs(w) /\ Runs(w)'
    BY <2>1 DEF Runs
  <2>5. \A i \in 1 .. Len(msgs'[w]) : 1 < i + 1
    BY <1>0, <2>1
  <2> QED
    BY <2>1, <2>2, <2>3, <2>4, <2>5 DEF EventInv, Broken
<1>5. CASE Turn(w) /\ GoOnWithout(w)
  <2>1. Same
    BY <1>0, <1>5, GoOnEffect DEF Runs
  <2> QED
    BY <1>1, <2>1
<1>6. CASE LookUp(w) \/ SupRecv(w)
  <2>1. Same
    BY <1>6, LookEffect DEF Runs
  <2> QED
    BY <1>1, <2>1
<1>7. CASE Write(w)
  <2>1. Same
    BY <1>7, WriteEffect DEF Runs
  <2> QED
    BY <1>1, <2>1
<1>8. CASE RecvData(w) \/ RecvOther(w)
  <2>1. Same
    BY <1>8, RecvEffect DEF Runs
  <2> QED
    BY <1>1, <2>1
<1>9. CASE Reconnect(w)
  BY <1>9, ReconnectEffect DEF engine, EventInv, Broken, Runs
<1>10. ASSUME NEW s \in Socket, Receive(s) PROVE EventInv(w)'
  <2>1. /\ UNCHANGED <<pc, n, ev, msgs, trans, link>> /\ link[s] = "open"
        /\ cb' = cb \/ (cb' # NoCallback /\ cb'.sock = s /\ cb'.event.kind = "data")
    BY <1>10, ReadEffect DEF engine
  <2> QED
    BY <2>1 DEF EventInv, Broken, Runs
<1>11. ASSUME NEW s \in Socket, CloseRead(s) \/ FailWrite(s) PROVE EventInv(w)'
  <2>1. /\ UNCHANGED <<pc, n, ev, msgs, trans>> /\ link'[s] # "open" /\ cb = NoCallback
        /\ \A t \in Socket : t # s => link'[t] = link[t]
        /\ \/ cb' = cb
           \/ /\ trans[s] >= 1 /\ cb' # NoCallback /\ cb'.sock = s
              /\ cb'.event.kind = "error" /\ cb'.target = trans[s]
    BY <1>11, FailEffect DEF engine
  <2>2. Broken(w) => Broken(w)'
    BY <2>1 DEF Broken
  <2>3. trans[s] >= 1 /\ trans[s] = n[w] => Broken(w)'
    BY <2>1 DEF Broken, SockInv
  <2> QED
    BY <1>0, <2>1, <2>2, <2>3 DEF EventInv, Runs
<1>12. CASE PushEvent
  <2>1. /\ UNCHANGED <<pc, n, ev, trans, link>> /\ cb # NoCallback /\ cb' = NoCallback
        /\ cb.event \in Event /\ cb.sock \in Socket
    BY <1>12, PushEffect
  <2>2. CASE msgs'[w] = msgs[w]
    BY <1>0, <2>1, <2>2 DEF EventInv, Broken, Runs
  <2>3. CASE msgs'[w] = Append(msgs[w], cb.event) /\ cb.target = n[w]
    <3>1. trans[cb.sock] = n[w]
      <4>1. cb.target <= trans[cb.sock] /\ trans[cb.sock] <= n[w]
        BY <2>1 DEF SockInv
      <4> QED
        BY <1>0, <2>1, <2>3, <4>1, Parity
    <3>2. pc[w] # "install"
      BY <1>0, <2>1, <3>1, Parity DEF SockInv
    <3>3. cb.event.kind = "data" => ~Broken(w)
      BY <2>1, <3>1 DEF EventInv, Broken
    <3>4. cb.event.kind \in {"data", "error"}
      BY <2>1 DEF EventInv, Event
    <3>5. \A i \in 1 .. Len(msgs'[w]) :
             \/ i \in 1 .. Len(msgs[w]) /\ msgs'[w][i] = msgs[w][i]
             \/ i = Len(msgs[w]) + 1 /\ msgs'[w][i] = cb.event
      BY <1>0, <2>1, <2>3, QueueFacts
    <3>6. \A i, j \in 1 .. Len(msgs'[w]) : i < j => i \in 1 .. Len(msgs[w]) /\ msgs'[w][i] = msgs[w][i]
      BY <1>0, <2>1, <2>3, QueueFacts
    <3>7. Broken(w)' <=> Broken(w)
      BY <2>1 DEF Broken
    <3>8. Runs(w)' <=> Runs(w)
      BY <2>1 DEF Runs
    <3>9. pc[w] \in {"suprecv", "recv"} => Runs(w)
      BY DEF Runs
    <3> QED
      BY <1>0, <2>1, <2>3, <3>2, <3>3, <3>4, <3>5, <3>6, <3>7, <3>8, <3>9, SMTT(30) DEF EventInv
  <2> QED
    BY <1>12, <2>2, <2>3, PushEffect
<1>13. CASE UNCHANGED vars
  BY <1>13 DEF vars, engine, peer, EventInv, Broken, Runs
<1> QED
  BY <1>2, <1>3, <1>4, <1>5, <1>6, <1>7, <1>8, <1>9, <1>10, <1>11, <1>12, <1>13, Steps12
-----------------------------------------------------------------------------
(* Answers                                                                 *)

Whole == \A s \in Socket : splits[s] = 0
Unread(s) == wire[s] # <<>> /\ link[s] = "open"

\* There is no answer anywhere on its way to a recv step.
NoData(w) ==
  /\ \A s \in Socket : ~Unread(s)
  /\ cb.event.kind # "data"
  /\ \A i \in 1 .. Len(msgs[w]) : msgs[w][i].kind # "data"

\* There is one at most: unread, in the callback or in the queue.  It answers r.
OneAnswer(w, r) ==
  /\ \A s \in Socket : Unread(s) =>
       /\ \A t \in Socket : Unread(t) => t = s
       /\ \A a \in 1 .. Len(wire[s]) : wire[s][a].of = r
       /\ Known(w, s)
       /\ cb.event.kind # "data"
       /\ \A i \in 1 .. Len(msgs[w]) : msgs[w][i].kind # "data"
  /\ cb.event.kind = "data" =>
       /\ cb.event.of = r /\ trans[cb.sock] = n[w]
       /\ \A i \in 1 .. Len(msgs[w]) : msgs[w][i].kind # "data"
  /\ \A i \in 1 .. Len(msgs[w]) : msgs[w][i].kind = "data" =>
       /\ msgs[w][i].of = r
       /\ \A j \in 1 .. Len(msgs[w]) : msgs[w][j].kind = "data" => j = i

\* As long as answers are read whole, each recv step leaves none behind.
AnswerInv(w) ==
  Whole =>
    /\ ~Runs(w) \/ Sends(w) => NoData(w)
    /\ Runs(w) /\ ~Sends(w) => OneAnswer(w, PreviousRequest(w))
    /\ pc[w] \in {"suprecv", "recv"} /\ ev[w].kind = "data" =>
         NoData(w) /\ ev[w].of = PreviousRequest(w)

\* At the start nothing has been answered (manager.C:140).
LEMMA AnswerStart ==
  ASSUME Init, NEW w, Solo(w)
  PROVE  AnswerInv(w)
<1>1. w \in Workers /\ \A s \in Socket : wire[s] = <<>>
  BY DEF Solo, Init
<1> QED
  BY <1>1 DEF Init, InitEngine, AnswerInv, NoData, Unread, NoCallback, NoEvent, Runs

\* An answer is read, pushed and taken, or lost, before the next request is made
\* (socketpool.C:150-190, transaction.C:41-62, tcpstep.C:113-160).
LEMMA AnswerStep ==
  ASSUME TypeInv, NEW w, Solo(w), SockInv(w), EventInv(w), AnswerInv(w), [Next]_vars
  PROVE  AnswerInv(w)'
<1>0. /\ msgs[w] \in Seq(Event) /\ Sock(w) \in Socket
      /\ NoCallback.event.kind = "none" /\ NoEvent.kind = "none"
  <2>1. w \in Workers
    BY Parity
  <2> QED
    BY <2>1, WorkerTypes DEF TypeInv, TypeOK, EngineTypeOK, NoCallback, NoEvent
<1>1. CASE New(w)
  <2>1. /\ pc[w] = "new" /\ pc'[w] = "install" /\ msgs'[w] = <<>> /\ cur'[w] = 1
        /\ UNCHANGED <<wire, splits, link, cb>>
    BY <1>1, NewEffect
  <2> QED
    BY <2>1, Parity DEF AnswerInv, Whole, NoData, Unread, Runs, Sends
<1>2. CASE Install(w)
  <2>1. /\ pc[w] = "install" /\ pc'[w] = "event"
        /\ UNCHANGED <<cur, msgs, wire, splits, link, cb>>
    BY <1>2, InstallEffect
  <2>2. Sends(w) /\ Sends(w)'
    BY <2>1 DEF SockInv, Sends
  <2> QED
    BY <2>1, <2>2 DEF AnswerInv, Whole, NoData, Unread, Runs
<1>3. CASE Turn(w) /\ TakeEvent(w)
  <2>1. /\ pc[w] = "event" /\ pc'[w] = (IF Sends(w) THEN "send" ELSE "suprecv")
        /\ msgs[w] # <<>> /\ ev'[w] = Head(msgs[w]) /\ msgs'[w] = Tail(msgs[w])
        /\ UNCHANGED <<n, cur, test, trans, wire, splits, link, cb, undefined>>
    BY <1>3, TakeEffect
  <2>2. /\ ev'[w] = msgs[w][1] /\ 1 \in 1 .. Len(msgs[w])
        /\ \A i \in 1 .. Len(msgs'[w]) :
             msgs'[w][i] = msgs[w][i + 1] /\ i + 1 \in 1 .. Len(msgs[w]) /\ i + 1 # 1
    BY <1>0, <2>1, QueueFacts
  <2>3. Runs(w) /\ Runs(w)' /\ (Sends(w)' <=> Sends(w)) /\ PreviousRequest(w)' = PreviousRequest(w)
    BY <2>1 DEF Runs, Sends, PreviousRequest
  <2>4. NoData(w) => NoData(w)'
    BY <2>1, <2>2 DEF NoData, Unread
  <2>5. \A s \in Socket : Known(w, s) => Known(w, s)'
    BY <2>1 DEF Known, Sock
  <2>6. ASSUME NEW r, OneAnswer(w, r) PROVE OneAnswer(w, r)' /\ (ev'[w].kind = "data" => NoData(w)' /\ ev'[w].of = r)
    <3>1. \A i, j \in 1 .. Len(msgs'[w]) : i + 1 = j + 1 => i = j
      BY <1>0, <2>1
    <3>2. \A s \in Socket : Unread(s)' <=> Unread(s)
      BY <2>1 DEF Unread
    <3>3. OneAnswer(w, r)'
      BY <2>1, <2>2, <2>5, <2>6, <3>1, <3>2 DEF OneAnswer
    <3>4. ev'[w].kind = "data" => NoData(w)' /\ ev'[w].of = r
      BY <2>1, <2>2, <2>6, <3>2 DEF OneAnswer, NoData
    <3> QED
      BY <3>3, <3>4
  <2>7. Whole' => Whole
    BY <2>1 DEF Whole
  <2> QED
    BY <2>1, <2>3, <2>4, <2>6, <2>7 DEF AnswerInv
<1>4. CASE Turn(w) /\ GoOnWithout(w)
  <2>1. /\ pc[w] = "event" /\ pc'[w] = (IF Sends(w) THEN "send" ELSE "suprecv")
        /\ ev'[w] = NoEvent
        /\ UNCHANGED <<n, cur, msgs, test, trans, wire, splits, link, cb, undefined>>
    BY <1>4, GoOnEffect
  <2>2. \A s \in Socket : Known(w, s) => Known(w, s)'
    BY <2>1 DEF Known, Sock
  <2>3. \A r : OneAnswer(w, r) => OneAnswer(w, r)'
    BY <2>1, <2>2 DEF OneAnswer, Unread
  <2> QED
    BY <1>0, <2>1, <2>3 DEF AnswerInv, Whole, NoData, Unread, Runs, Sends, PreviousRequest
<1>5. CASE LookUp(w) \/ SupRecv(w)
  <2>1. /\ \/ pc[w] = "send" /\ pc'[w] = "write" /\ UNCHANGED undefined
           \/ pc[w] = "suprecv" /\ pc'[w] = "recv" /\ (trans[Sock(w)] = 0 => undefined')
        /\ UNCHANGED <<n, cur, ev, msgs, test, trans, wire, splits, link, cb>>
    BY <1>5, LookEffect
  <2>2. \A s \in Socket : Known(w, s) => Known(w, s)'
    BY <2>1 DEF Known, Sock
  <2>3. \A r : OneAnswer(w, r) => OneAnswer(w, r)'
    BY <2>1, <2>2 DEF OneAnswer, Unread
  <2> QED
    BY <2>1, <2>3 DEF AnswerInv, Whole, NoData, Unread, Runs, Sends, PreviousRequest
<1>6. CASE Write(w)
  <2>0. PICK s \in Socket : s = mSock[cur[w]]
    BY <1>6, WriteEffect
  <2>1. /\ pc[w] = "write" /\ pc'[w] = "event" /\ cur'[w] = cur[w] + 1
        /\ OwnRequest(w) = PreviousRequest(w)'
        /\ wire[s] = <<>> => \A a \in 1 .. Len(wire'[s]) : wire'[s][a].of = OwnRequest(w)
        /\ \A t \in Socket : t # s => wire'[t] = wire[t]
        /\ UNCHANGED <<n, msgs, test, trans, splits, link, cb, undefined>>
    BY <1>6, <2>0, WriteEffect
  <2>2. Known(w, s)'
    BY <2>0, <2>1 DEF SockInv, Known, Sock
  <2>3. Sends(w) /\ ~Sends(w)' /\ Runs(w) /\ Runs(w)'
    BY <2>1, Parity DEF Sends, Runs
  <2>4. NoData(w) => OneAnswer(w, PreviousRequest(w))'
    BY <2>1, <2>2 DEF NoData, OneAnswer, Unread
  <2> QED
    BY <2>1, <2>3, <2>4 DEF AnswerInv, Whole
<1>7. CASE RecvData(w) \/ RecvOther(w)
  <2>1. /\ pc[w] = "recv" /\ ~undefined
        /\ ev[w].kind = "data" \/ ev[w].kind = "error"
        /\ \/ pc'[w] = "new" /\ cur'[w] = cur[w]
           \/ pc'[w] = "event" /\ cur'[w] = cur[w] + 1
        /\ UNCHANGED <<n, msgs, trans, wire, splits, link, cb>>
    BY <1>7, RecvEffect
  <2>2. Runs(w) /\ ~Sends(w) /\ (Sends(w)' \/ ~Runs(w)')
    BY <2>1, Parity DEF Sends, Runs
  <2>3. Whole /\ ev[w].kind = "error" => NoData(w)
    <3> HAVE Whole /\ ev[w].kind = "error"
    <3>1. OneAnswer(w, PreviousRequest(w))
      BY <2>2 DEF AnswerInv
    <3>2. Broken(w) /\ \A i \in 1 .. Len(msgs[w]) : msgs[w][i].kind = "error"
      BY <2>1 DEF EventInv
    <3>3. ASSUME NEW s \in Socket, Unread(s) PROVE FALSE
      <4>1. trans[s] = n[w]
        BY <2>1, <3>1, <3>3 DEF OneAnswer, Known
      <4> QED
        BY <3>2, <3>3, <4>1 DEF Broken, Unread
    <3>4. cb.event.kind # "data"
      <4> SUFFICES ASSUME cb.event.kind = "data" PROVE FALSE
        OBVIOUS
      <4>1. cb # NoCallback
        BY <1>0
      <4>2. link[cb.sock] = "open" /\ cb.sock \in Socket
        BY <4>1 DEF EventInv, TypeInv
      <4> QED
        BY <3>1, <3>2, <4>2 DEF OneAnswer, Broken
    <3> QED
      BY <3>2, <3>3, <3>4 DEF NoData
  <2>4. Whole => NoData(w)
    BY <2>1, <2>3 DEF AnswerInv
  <2> QED
    BY <2>1, <2>2, <2>4 DEF AnswerInv, Whole, NoData, Unread
<1>8. CASE Reconnect(w)
  <2>1. /\ Sock(w)' \in Socket /\ Sock(w)'[2] = test[w] + 1 /\ ~undefined
        /\ UNCHANGED <<pc, n, cur, ev, msgs, trans, wire, splits, link, cb, undefined>>
    BY <1>8, ReconnectEffect DEF engine
  <2>2. trans[Sock(w)'] = 0
    BY <2>1, Parity DEF SockInv
  <2>3. \A s \in Socket : Known(w, s) => Known(w, s)'
    BY <2>1, <2>2 DEF Known
  <2>4. \A r : OneAnswer(w, r) => OneAnswer(w, r)'
    BY <2>1, <2>3 DEF OneAnswer, Unread
  <2> QED
    BY <2>1, <2>4 DEF AnswerInv, Whole, NoData, Unread, Runs, Sends, PreviousRequest
<1>9. ASSUME NEW s \in Socket, Receive(s) PROVE AnswerInv(w)'
  <2>1. /\ wire[s] # <<>> /\ link[s] = "open" /\ cb = NoCallback
        /\ \A t \in Socket : t # s => wire'[t] = wire[t] /\ splits'[t] = splits[t]
        /\ \/ wire'[s] = <<>> /\ splits'[s] = splits[s]
           \/ splits'[s] = splits[s] + 1
        /\ \/ cb' = cb
           \/ /\ trans[s] >= 1 /\ cb'.sock = s /\ cb'.event.kind = "data"
              /\ \E a \in 1 .. Len(wire[s]) : cb'.event.of = wire[s][a].of
        /\ UNCHANGED <<pc, n, cur, ev, msgs, mSock, trans, link>>
    BY <1>9, ReadEffect DEF engine
  <2>2. Whole' => Whole /\ wire'[s] = <<>>
    <3>1. splits[s] \in Nat
      BY PeerAssumption DEF TypeInv, TypeOK
    <3> QED
      BY <2>1, <3>1 DEF Whole
  <2>3. ~NoData(w) /\ Unread(s)
    BY <2>1 DEF NoData, Unread
  <2>4. (Runs(w)' <=> Runs(w)) /\ (Sends(w)' <=> Sends(w)) /\ PreviousRequest(w)' = PreviousRequest(w)
    BY <2>1 DEF Runs, Sends, PreviousRequest
  <2>5. ASSUME Whole', NEW r, OneAnswer(w, r) PROVE OneAnswer(w, r)'
    <3>1. \A t \in Socket : ~Unread(t)'
      BY <2>1, <2>2, <2>3, <2>5 DEF OneAnswer, Unread
    <3>2. \A i \in 1 .. Len(msgs'[w]) : msgs'[w][i].kind # "data"
      BY <2>1, <2>3, <2>5 DEF OneAnswer
    <3>3. \A a \in 1 .. Len(wire[s]) : wire[s][a].of = r
      BY <2>3, <2>5 DEF OneAnswer
    <3>4. cb'.event.kind = "data" => cb'.event.of = r /\ trans[s] = n[w] /\ cb'.sock = s
      BY <1>0, <2>1, <2>3, <2>5, <3>3 DEF OneAnswer, Known
    <3> QED
      BY <2>1, <3>1, <3>2, <3>4 DEF OneAnswer
  <2> QED
    BY <2>1, <2>2, <2>3, <2>4, <2>5 DEF AnswerInv
<1>10. ASSUME NEW s \in Socket, CloseRead(s) \/ FailWrite(s) PROVE AnswerInv(w)'
  <2>1. /\ cb = NoCallback /\ wire'[s] = <<>> /\ ~undefined
        /\ \A t \in Socket : t # s => wire'[t] = wire[t] /\ link'[t] = link[t]
        /\ cb' = cb \/ cb'.event.kind = "error"
        /\ UNCHANGED <<pc, n, cur, ev, msgs, mSock, test, trans, splits>>
    BY <1>10, FailEffect DEF engine
  <2>2. \A t \in Socket : (Unread(t)' => Unread(t) /\ wire'[t] = wire[t]) /\ (Known(w, t) => Known(w, t)')
    BY <2>1 DEF Unread, Known, Sock
  <2>3. \A r : OneAnswer(w, r) => OneAnswer(w, r)'
    BY <1>0, <2>1, <2>2 DEF OneAnswer
  <2>4. NoData(w) => NoData(w)'
    BY <1>0, <2>1, <2>2 DEF NoData
  <2> QED
    BY <2>1, <2>3, <2>4 DEF AnswerInv, Whole, Runs, Sends, PreviousRequest
<1>11. CASE PushEvent
  <2>1. /\ cb # NoCallback /\ cb.event \in Event /\ cb' = NoCallback
        /\ msgs'[w] = msgs[w] \/ msgs'[w] = Append(msgs[w], cb.event)
        /\ UNCHANGED <<pc, n, cur, ev, test, trans, wire, splits, link, undefined>>
    BY <1>11, PushEffect
  <2>2. \A i \in 1 .. Len(msgs'[w]) :
             \/ i \in 1 .. Len(msgs[w]) /\ msgs'[w][i] = msgs[w][i]
             \/ i = Len(msgs[w]) + 1 /\ msgs'[w][i] = cb.event
    <3>1. CASE msgs'[w] = msgs[w]
      BY <3>1
    <3>2. CASE msgs'[w] = Append(msgs[w], cb.event)
      BY <1>0, <2>1, <3>2, QueueFacts
    <3> QED
      BY <2>1, <3>1, <3>2
  <2>3. NoData(w) => NoData(w)'
    BY <1>0, <2>1, <2>2 DEF NoData, Unread
  <2>4. \A s \in Socket : (Known(w, s) => Known(w, s)') /\ (Unread(s)' <=> Unread(s))
    BY <2>1 DEF Known, Sock, Unread
  <2>5. ASSUME NEW r, OneAnswer(w, r) PROVE OneAnswer(w, r)'
    <3>1. ASSUME NEW s \in Socket, Unread(s)'
          PROVE  /\ \A t \in Socket : Unread(t)' => t = s
                 /\ \A a \in 1 .. Len(wire'[s]) : wire'[s][a].of = r
                 /\ Known(w, s)'
                 /\ \A i \in 1 .. Len(msgs'[w]) : msgs'[w][i].kind # "data"
      BY <2>1, <2>2, <2>4, <2>5, <3>1 DEF OneAnswer
    <3>2. ASSUME NEW i \in 1 .. Len(msgs'[w]), msgs'[w][i].kind = "data"
          PROVE  /\ msgs'[w][i].of = r
                 /\ \A j \in 1 .. Len(msgs'[w]) : msgs'[w][j].kind = "data" => j = i
      BY <2>2, <2>5, <3>2 DEF OneAnswer
    <3> QED
      BY <1>0, <2>1, <3>1, <3>2 DEF OneAnswer
  <2> QED
    BY <2>1, <2>3, <2>5 DEF AnswerInv, Whole, Runs, Sends, PreviousRequest
<1>12. CASE UNCHANGED vars
  <2>1. UNCHANGED <<pc, n, cur, ev, msgs, mSock, test, trans, wire, splits, link, cb, undefined>>
    BY <1>12 DEF vars, engine, peer
  <2>2. \A s \in Socket : (Known(w, s) => Known(w, s)') /\ (Unread(s)' <=> Unread(s))
    BY <2>1 DEF Known, Sock, Unread
  <2>3. \A r : OneAnswer(w, r) => OneAnswer(w, r)'
    BY <2>1, <2>2 DEF OneAnswer
  <2> QED
    BY <2>1, <2>2, <2>3 DEF AnswerInv, Whole, NoData, Runs, Sends, PreviousRequest
<1> QED
  BY <1>1, <1>2, <1>3, <1>4, <1>5, <1>6, <1>7, <1>8, <1>9, <1>10, <1>11, <1>12, Steps12
-----------------------------------------------------------------------------
(* Turns                                                                   *)

AllSteady == \A s \in Socket : link[s] = "open" /\ splits[s] = 0

\* As long as nothing goes wrong, a send step goes on without an event and a recv
\* step waits for one.
TurnInv(w) ==
  AllSteady =>
    /\ pc[w] = "install" \/ (pc[w] = "event" /\ Sends(w)) => isSend[w]
    /\ pc[w] \in {"send", "write"} \/ (pc[w] = "event" /\ ~Sends(w)) => ~isSend[w]
    /\ pc[w] \in {"suprecv", "recv"} => isSend[w] /\ ev[w].kind # "none"

\* The connections yet to come are as they were made (manager.C:140).
LEMMA SteadyIsAll ==
  ASSUME TypeInv, NEW w, Solo(w), SockInv(w), Steady(w)
  PROVE  AllSteady
<1> SUFFICES ASSUME NEW s \in Socket PROVE link[s] = "open" /\ splits[s] = 0
  BY DEF AllSteady
<1>1. s[1] = w /\ s[2] \in Nat /\ test[w] \in Nat /\ s = <<s[1], s[2]>>
  BY Parity, PeerAssumption DEF Socket, Solo
<1>2. CASE s[2] <= test[w]
  <2>1. s \in {w} \X (0 .. test[w])
    BY <1>1, <1>2
  <2> QED
    BY <2>1 DEF Steady
<1>3. CASE s[2] > test[w]
  BY <1>3 DEF SockInv
<1> QED
  BY <1>1, <1>2, <1>3

\* The turn kept in isSend is that of the step (transaction.C:54-82).
LEMMA TurnStep ==
  ASSUME TypeInv, NEW w, Solo(w), SockInv(w), EventInv(w), AnswerInv(w), TurnInv(w), [Next]_vars
  PROVE  TurnInv(w)'
<1>0. msgs[w] \in Seq(Event) /\ w \in Workers
  BY Parity DEF TypeInv, TypeOK, EngineTypeOK
<1>1. CASE New(w)
  BY <1>1, NewEffect DEF TurnInv
<1>2. CASE Install(w)
  <2>1. /\ pc[w] = "install" /\ pc'[w] = "event" /\ UNCHANGED <<cur, isSend, splits, link>>
    BY <1>2, InstallEffect
  <2> QED
    BY <2>1 DEF TurnInv, AllSteady, SockInv, Sends
<1>3. CASE Turn(w) /\ TakeEvent(w)
  <2>1. /\ pc[w] = "event" /\ pc'[w] = (IF Sends(w) THEN "send" ELSE "suprecv") /\ isSend'[w]
        /\ msgs[w] # <<>> /\ ev'[w] = Head(msgs[w]) /\ UNCHANGED <<splits, link>>
    BY <1>3, TakeEffect
  <2>2. ev'[w] = msgs[w][1] /\ 1 \in 1 .. Len(msgs[w]) /\ msgs[w][1] \in Event
    BY <1>0, <2>1, QueueFacts
  <2>3. ev'[w].kind \in {"data", "error"}
    BY <2>2 DEF EventInv, Event
  <2>4. AllSteady => ~Sends(w)
    <3> SUFFICES ASSUME AllSteady, Sends(w) PROVE FALSE
      OBVIOUS
    <3>1. NoData(w)
      BY DEF AnswerInv, AllSteady, Whole
    <3>2. msgs[w][1].kind # "error"
      BY <2>2 DEF EventInv, AllSteady
    <3> QED
      BY <2>2, <2>3, <3>1, <3>2 DEF NoData
  <2> QED
    BY <2>1, <2>3, <2>4 DEF TurnInv, AllSteady
<1>4. CASE Turn(w) /\ GoOnWithout(w)
  <2>1. /\ pc[w] = "event" /\ pc'[w] = (IF Sends(w) THEN "send" ELSE "suprecv")
        /\ isSend[w] /\ ~isSend'[w] /\ UNCHANGED <<splits, link>>
    BY <1>4, GoOnEffect
  <2> QED
    BY <2>1 DEF TurnInv, AllSteady
<1>5. CASE LookUp(w) \/ SupRecv(w)
  BY <1>5, LookEffect DEF TurnInv, AllSteady
<1>6. CASE Write(w)
  <2>1. /\ pc[w] = "write" /\ pc'[w] = "event" /\ cur'[w] = cur[w] + 1
        /\ UNCHANGED <<isSend, splits, link>>
    BY <1>6, WriteEffect
  <2>2. ~Sends(w)'
    BY <2>1, Parity DEF Sends
  <2> QED
    BY <2>1, <2>2 DEF TurnInv, AllSteady
<1>7. CASE RecvData(w) \/ RecvOther(w)
  <2>1. /\ pc[w] = "recv" /\ UNCHANGED <<isSend, splits, link>>
        /\ \/ pc'[w] = "new"
           \/ pc'[w] = "event" /\ cur'[w] = cur[w] + 1
    BY <1>7, RecvEffect
  <2>2. pc'[w] = "event" => Sends(w)'
    BY <2>1, Parity DEF Sends
  <2> QED
    BY <2>1, <2>2 DEF TurnInv, AllSteady
<1>8. CASE Reconnect(w)
  BY <1>8, ReconnectEffect DEF TurnInv, AllSteady, engine, Sends
<1>9. ASSUME NEW s \in Socket, Receive(s) \/ CloseRead(s) \/ FailWrite(s)
      PROVE  TurnInv(w)'
  <2>1. UNCHANGED <<pc, cur, isSend, ev>>
    BY <1>9, ReadEffect, FailEffect DEF engine
  <2>2. AllSteady' => AllSteady
    <3>1. CASE Receive(s)
      <4>1. /\ link' = link /\ \A t \in Socket : t # s => splits'[t] = splits[t]
            /\ splits'[s] = splits[s] \/ splits'[s] = splits[s] + 1
        BY <3>1, ReadEffect
      <4>2. splits[s] \in Nat
        BY PeerAssumption DEF TypeInv, TypeOK
      <4> QED
        BY <4>1, <4>2 DEF AllSteady
    <3>2. CASE CloseRead(s) \/ FailWrite(s)
      <4>1. link'[s] # "open"
        BY <3>2, FailEffect
      <4> QED
        BY <4>1 DEF AllSteady
    <3> QED
      BY <1>9, <3>1, <3>2
  <2> QED
    BY <2>1, <2>2 DEF TurnInv, Sends
<1>10. CASE PushEvent
  BY <1>10, PushEffect DEF TurnInv, AllSteady, Sends
<1>11. CASE UNCHANGED vars
  BY <1>11 DEF vars, engine, peer, TurnInv, AllSteady, Sends
<1> QED
  BY <1>1, <1>2, <1>3, <1>4, <1>5, <1>6, <1>7, <1>8, <1>9, <1>10, <1>11, Steps12
-----------------------------------------------------------------------------
(* What one worker can rely on                                             *)

\* All that is known of the one worker and of its connections.
SoloInv(w) ==
  TypeInv /\ SockInv(w) /\ EventInv(w) /\ AnswerInv(w) /\ TurnInv(w)

\* The states of the worker's steps, of its connections and of the callback fit
\* together in every state (tcpstep.C:51-175, socketpool.C:120-230).
LEMMA InductiveInvariant ==
  ASSUME NEW w, Solo(w)
  PROVE  Spec => []SoloInv(w)
<1>1. Init => SoloInv(w)
  <2> SUFFICES ASSUME Init PROVE SoloInv(w)
    OBVIOUS
  <2>1. TurnInv(w)
    <3>1. w \in Workers /\ pc[w] = "new"
      BY DEF Solo, Init, InitEngine
    <3> QED
      BY <3>1 DEF TurnInv
  <2> QED
    BY <2>1, InitInv, SockStart, EventStart, AnswerStart DEF SoloInv
<1>2. SoloInv(w) /\ [Next]_vars => SoloInv(w)'
  <2> SUFFICES ASSUME SoloInv(w), [Next]_vars PROVE SoloInv(w)'
    OBVIOUS
  <2>1. TypeInv /\ SockInv(w) /\ EventInv(w) /\ AnswerInv(w) /\ TurnInv(w)
    BY DEF SoloInv
  <2> QED
    BY <2>1, StepType, SockStep, EventStep, AnswerStep, TurnStep DEF SoloInv
<1> QED
  BY <1>1, <1>2, PTL DEF Spec

\* TTCPStep::recv has an event to ask for its type (tcpstep.C:119, transaction.C:72)
\* as long as the connections are open and answers are read whole.
THEOREM RecvAlwaysHasEvent ==
  ASSUME NEW w, Solo(w)
  PROVE  Spec => []RecvHasEvent
<1>1. SoloInv(w) => RecvHasEvent
  <2> SUFFICES ASSUME SoloInv(w), NEW v \in Workers, pc[v] = "recv", Steady(v)
               PROVE  ev[v] # NoEvent
    BY DEF RecvHasEvent
  <2>1. v = w
    BY DEF Solo
  <2>2. AllSteady
    BY <2>1, SteadyIsAll DEF SoloInv
  <2> QED
    BY <2>1, <2>2 DEF SoloInv, TurnInv, NoEvent
<1> QED
  BY <1>1, InductiveInvariant, PTL

\* The answer a recv step checks is the one to the send step before it
\* (tcpstep.C:113-160, socketpool.C:150-190), although readbuff keeps most of the
\* earlier ones (protocol.C:61).
THEOREM AnswerIsOwn ==
  ASSUME NEW w, Solo(w)
  PROVE  Spec => []OwnAnswer
<1>1. SoloInv(w) => OwnAnswer
  <2> SUFFICES ASSUME SoloInv(w), NEW v \in Workers, pc[v] = "recv", ev[v].kind = "data",
                      \A s \in Socket : splits[s] = 0
               PROVE  ev[v].of = [by |-> v, n |-> n[v], step |-> cur[v] - 1]
    BY DEF OwnAnswer
  <2>1. v = w
    BY DEF Solo
  <2>2. ev[w].of = PreviousRequest(w)
    BY <2>1 DEF SoloInv, AnswerInv, Whole
  <2> QED
    BY <2>1, <2>2 DEF PreviousRequest
<1> QED
  BY <1>1, InductiveInvariant, PTL

\* Nothing is left under way between two transactions of the worker
\* (mptthreadpool.C:228-262, transaction.C:41-82).
THEOREM BetweenTransactions ==
  ASSUME NEW w, Solo(w)
  PROVE  Spec => []QuietBetween
<1>1. SoloInv(w) => QuietBetween
  <2> SUFFICES ASSUME SoloInv(w), NEW v \in Workers, pc[v] \in {"new", "install"}, Steady(v)
               PROVE  /\ \A s \in {v} \X (0 .. test[v]) : wire[s] = <<>>
                      /\ msgs[v] = <<>> /\ cb.sock[1] # v
    BY DEF QuietBetween
  <2>1. v = w /\ TypeInv /\ SockInv(w) /\ EventInv(w) /\ AnswerInv(w)
    BY DEF Solo, SoloInv
  <2>2. AllSteady
    BY <2>1, SteadyIsAll DEF SoloInv
  <2>3. NoData(w) /\ \A s \in Socket : link[s] = "open"
    BY <2>1, <2>2 DEF AnswerInv, Whole, AllSteady, Runs
  <2>4. \A s \in {w} \X (0 .. test[w]) : s \in Socket
    <3>1. w \in Workers /\ test[w] \in 0 .. NewTests /\ NewTests \in Nat
      BY <2>1, Parity, PeerAssumption DEF TypeInv, TypeOK
    <3> QED
      BY <3>1 DEF Socket
  <2>5. msgs[w] = <<>>
    <3>1. msgs[w] \in Seq(Event)
      BY <2>1, Parity DEF TypeInv, TypeOK, EngineTypeOK
    <3>2. \A i \in 1 .. Len(msgs[w]) : msgs[w][i].kind \in {"none", "data", "error"}
      BY <3>1, QueueFacts DEF Event
    <3>3. \A i \in 1 .. Len(msgs[w]) : FALSE
      BY <2>1, <2>3, <3>2 DEF EventInv, NoData
    <3> QED
      BY <3>1, <3>3, QueueFacts
  <2>6. cb = NoCallback
    <3>1. cb.event.kind \in {"none", "data", "error"}
      BY <2>1 DEF TypeInv, TypeOK, Event
    <3> QED
      BY <2>1, <2>3, <3>1 DEF EventInv, NoData
  <2>7. w # None
    BY WorkersAssumption DEF Solo
  <2> QED
    BY <2>1, <2>3, <2>4, <2>5, <2>6, <2>7 DEF NoData, Unread, NoCallback, NoSocket
<1> QED
  BY <1>1, InductiveInvariant, PTL
=============================================================================
