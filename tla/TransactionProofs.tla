------------------------- MODULE TransactionProofs --------------------------
(***************************************************************************)
(* What the operations of Transaction keep, whichever protocol uses them:  *)
(* the types of the engine's variables, and what a worker does not touch.  *)
(* HttpSessionProofs and TcpSessionProofs cite these facts.                *)
(***************************************************************************)
EXTENDS Transaction, SequenceTheorems, TLAPS

\* The engine's types, and that a transaction which has begun is one of those
\* a worker may run (mptthreadpool.C:228-263).
EngineInv(places) == EngineTypeOK(places) /\ \A w \in Workers : pc[w] # "new" => n[w] >= 1

\* The request a recv step waits for the answer to.
PreviousRequest(w) == [by |-> w, n |-> n[w], step |-> cur[w] - 1]

\* Nothing of v's transaction changes.
SameEngine(v) ==
  /\ pc'[v] = pc[v] /\ n'[v] = n[v] /\ cur'[v] = cur[v] /\ isSend'[v] = isSend[v]
  /\ ev'[v] = ev[v] /\ msgs'[v] = msgs[v]

\* The steps of a script are numbered from 1, and there is one (script.C:79-108).
LEMMA StepNumbers ==
  /\ Len(Script) \in Nat \ {0} /\ Steps = 1 .. Len(Script) /\ 1 \in Steps
  /\ \A k \in Steps : Script[k] \in {"send", "recv"}
BY ScriptAssumption DEF Steps

\* The events that the callbacks make are events (socketpool.C:180, httpstep.C:85).
LEMMA EventTypes ==
  /\ NoRequest \notin Request /\ NoEvent \in Event
  /\ \A r \in Request \cup {NoRequest} :
       /\ ErrorEvent(r) \in Event
       /\ \A fits \in BOOLEAN : [kind |-> "data", fits |-> fits, of |-> r] \in Event
BY DEF NoRequest, Request, NoEvent, Event, ErrorEvent

\* Queues of events stay queues of events (ringbuff.h:46-98).
LEMMA QueueTypes ==
  ASSUME NEW q \in Seq(Event)
  PROVE  /\ <<>> \in Seq(Event)
         /\ \A e \in Event : Append(q, e) \in Seq(Event)
         /\ q # <<>> => Head(q) \in Event /\ Tail(q) \in Seq(Event)
OBVIOUS

\* pushEvent adds an event to a worker's queue or loses it (transaction.C:41-46).
LEMMA PushedTypes ==
  ASSUME msgs \in [Workers -> Seq(Event)], NEW w \in Workers, NEW k, NEW e \in Event
  PROVE  /\ Pushed(w, k, e) \in [Workers -> Seq(Event)]
         /\ \A v \in Workers \ {w} : Pushed(w, k, e)[v] = msgs[v]
         /\ Pushed(w, k, e)[w] \in {msgs[w], Append(msgs[w], e)}
         /\ k # n[w] => Pushed(w, k, e)[w] = msgs[w]
BY QueueTypes DEF Pushed

\* The next transaction begins (transaction.h:32-41).
LEMMA NewKeeps ==
  ASSUME NEW P, EngineInv(P), NEW w \in Workers, NewTransaction(w)
  PROVE  /\ EngineInv(P)' /\ \A v \in Workers \ {w} : SameEngine(v)
         /\ pc'[w] = "install" /\ n'[w] = n[w] + 1 /\ cur'[w] = 1 /\ isSend'[w] /\ msgs'[w] = <<>>
         /\ ev' = ev
BY QueueTypes, StepNumbers, BoundAssumption
   DEF EngineInv, EngineTypeOK, NewTransaction, SameEngine

\* onEvent takes an event, or goes on without one (transaction.C:54-81).
LEMMA TakeKeeps ==
  ASSUME NEW P, EngineInv(P), NEW w \in Workers, TakeEvent(w)
  PROVE  /\ EngineInv(P)' /\ \A v \in Workers \ {w} : SameEngine(v)
         /\ n' = n /\ cur' = cur /\ isSend'[w] /\ msgs[w] # <<>>
         /\ ev'[w] = Head(msgs[w]) /\ msgs'[w] = Tail(msgs[w])
         /\ pc'[w] = IF Script[cur[w]] = "send" THEN "send" ELSE "suprecv"
BY QueueTypes DEF EngineInv, EngineTypeOK, TakeEvent, RunStep, SameEngine

\* ... for which it must be its turn to send (transaction.C:64-73).
LEMMA GoOnKeeps ==
  ASSUME NEW P, EngineInv(P), NEW w \in Workers, GoOnWithout(w)
  PROVE  /\ EngineInv(P)' /\ \A v \in Workers \ {w} : SameEngine(v)
         /\ n' = n /\ cur' = cur /\ msgs' = msgs /\ isSend[w] /\ ~isSend'[w]
         /\ msgs[w] = <<>> /\ ev'[w] = NoEvent
         /\ pc'[w] = IF Script[cur[w]] = "send" THEN "send" ELSE "suprecv"
BY EventTypes DEF EngineInv, EngineTypeOK, GoOnWithout, RunStep, SameEngine

\* A step goes on to its next part, or is the last (transaction.C:81-103).
LEMMA GoToKeeps ==
  ASSUME NEW P, EngineInv(P), NEW w \in Workers, NEW to, GoTo(w, to), pc[w] # "new" \/ to = "new",
         to \in P \cup {"new", "install", "event", "send", "suprecv", "recv"}
  PROVE  /\ EngineInv(P)' /\ \A v \in Workers \ {w} : SameEngine(v)
         /\ pc'[w] = to /\ n' = n /\ cur' = cur /\ isSend' = isSend /\ ev' = ev /\ msgs' = msgs
BY DEF EngineInv, EngineTypeOK, GoTo, SameEngine

\* The transaction ends (transaction.C:84-102).
LEMMA EndKeeps ==
  ASSUME NEW P, EngineInv(P), NEW w \in Workers, End(w)
  PROVE  /\ EngineInv(P)' /\ \A v \in Workers \ {w} : SameEngine(v)
         /\ pc'[w] = "new" /\ n' = n /\ cur' = cur /\ isSend' = isSend /\ ev' = ev /\ msgs' = msgs
BY GoToKeeps DEF End

\* A step has succeeded: the next one follows, or the end (transaction.C:87-102).
LEMMA SucceedKeeps ==
  ASSUME NEW P, EngineInv(P), NEW w \in Workers, pc[w] # "new", Succeed(w)
  PROVE  /\ EngineInv(P)' /\ \A v \in Workers \ {w} : SameEngine(v)
         /\ n' = n /\ isSend' = isSend /\ ev' = ev /\ msgs' = msgs
         /\ \/ pc'[w] = "event" /\ cur'[w] = cur[w] + 1 /\ cur[w] + 1 \in Steps
            \/ pc'[w] = "new" /\ cur'[w] = cur[w] /\ cur[w] = Len(Script)
<1>1. CASE cur[w] < Len(Script)
  <2>1. /\ cur' = [cur EXCEPT ![w] = @ + 1] /\ pc' = [pc EXCEPT ![w] = "event"]
        /\ UNCHANGED <<n, isSend, ev, msgs>>
    BY <1>1 DEF Succeed
  <2>2. cur[w] + 1 \in Steps /\ cur \in [Workers -> Steps]
    BY <1>1, StepNumbers DEF EngineInv, EngineTypeOK
  <2> QED
    BY <2>1, <2>2 DEF EngineInv, EngineTypeOK, SameEngine
<1>2. CASE ~(cur[w] < Len(Script))
  <2>1. cur[w] = Len(Script)
    BY <1>2, StepNumbers DEF EngineInv, EngineTypeOK
  <2> QED
    BY <1>2, <2>1, EndKeeps DEF Succeed
<1> QED
  BY <1>1, <1>2

\* A worker starts without a transaction.
LEMMA InitKeeps ==
  ASSUME NEW P, InitEngine
  PROVE  EngineInv(P)
BY QueueTypes, EventTypes, StepNumbers, BoundAssumption DEF InitEngine, EngineInv, EngineTypeOK
=============================================================================
