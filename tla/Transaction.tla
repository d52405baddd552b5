---------------------------- MODULE Transaction -----------------------------
(***************************************************************************)
(* The loop of TTransation::onEvent (src/src/transaction.C) and the        *)
(* dispatch of TStep::run (step.C), which every protocol shares.  The      *)
(* protocols' steps are in TcpSession and HttpSession, which extend this   *)
(* module: an action here says nothing of their variables.  The workers    *)
(* run the steps of one script; a transaction's queue is the atomic FIFO   *)
(* that RingBuffer implements in this use.                                 *)
(***************************************************************************)
EXTENDS Integers, Sequences

CONSTANTS Workers,
          Script,        \* the m_type of each step, in the order of m_next
          MaxTrans,      \* bound: transactions each worker runs
          QueueCapacity  \* events a transaction's queue can hold

Steps == 1 .. Len(Script)
None == 0

ASSUME ScriptAssumption == Script \in Seq({"send", "recv"}) /\ Script # <<>>
ASSUME BoundAssumption == MaxTrans \in Nat /\ QueueCapacity \in Nat
ASSUME WorkersAssumption == None \notin Workers

VARIABLES pc, n,         \* each worker: where it is, its transactions so far
          cur, isSend,   \* m_curStep, isSend of its latest transaction
          ev,            \* pEvent
          msgs           \* m_pMsgQueue of that transaction

engine == <<pc, n, cur, isSend, ev, msgs>>

\* What an event is about: the request a step has made.
Request == [by : Workers, n : 1 .. MaxTrans, step : Steps]
NoRequest == [by |-> None, n |-> 0, step |-> 0]
\* An answer, which fits what the script expects or does not, or an error.
Event == [kind : {"none", "data", "error"}, fits : BOOLEAN, of : Request \cup {NoRequest}]
NoEvent == [kind |-> "none", fits |-> FALSE, of |-> NoRequest]
ErrorEvent(r) == [kind |-> "error", fits |-> FALSE, of |-> r]

OwnRequest(w) == [by |-> w, n |-> n[w], step |-> cur[w]]

InitEngine ==
  /\ pc = [w \in Workers |-> "new"] /\ n = [w \in Workers |-> 0]
  /\ cur = [w \in Workers |-> 1] /\ isSend = [w \in Workers |-> TRUE]
  /\ ev = [w \in Workers |-> NoEvent] /\ msgs = [w \in Workers |-> <<>>]
-----------------------------------------------------------------------------
\* new TTransation: an empty queue, the first step.
NewTransaction(w) ==
  /\ pc[w] = "new" /\ n[w] < MaxTrans
  /\ n' = [n EXCEPT ![w] = @ + 1]
  /\ msgs' = [msgs EXCEPT ![w] = <<>>]
  /\ cur' = [cur EXCEPT ![w] = 1] /\ isSend' = [isSend EXCEPT ![w] = TRUE]
  /\ pc' = [pc EXCEPT ![w] = "install"]
  /\ UNCHANGED ev

\* run() and the sup... function of the step come next.
RunStep(w) == pc' = [pc EXCEPT ![w] = IF Script[cur[w]] = "send" THEN "send" ELSE "suprecv"]

\* A bug to try: an event is taken with all that came after it.
BugTakeEventDrains(w) ==
  /\ pc[w] = "event" /\ msgs[w] # <<>>
  /\ ev' = [ev EXCEPT ![w] = Head(msgs[w])]
  /\ msgs' = [msgs EXCEPT ![w] = <<>>]
  /\ isSend' = [isSend EXCEPT ![w] = TRUE]
  /\ RunStep(w)
  /\ UNCHANGED <<n, cur>>

TakeEvent(w) ==
  /\ pc[w] = "event" /\ msgs[w] # <<>>
  /\ ev' = [ev EXCEPT ![w] = Head(msgs[w])]
  /\ msgs' = [msgs EXCEPT ![w] = Tail(@)]
  /\ isSend' = [isSend EXCEPT ![w] = TRUE]
  /\ RunStep(w)
  /\ UNCHANGED <<n, cur>>

\* A bug to try: the `continue' is missing.
BugGoOnAlways(w) ==
  /\ pc[w] = "event" /\ msgs[w] = <<>>
  /\ ev' = [ev EXCEPT ![w] = NoEvent]
  /\ isSend' = [isSend EXCEPT ![w] = FALSE]
  /\ RunStep(w)
  /\ UNCHANGED <<n, cur, msgs>>

\* There is no event.  When it is not the turn to send, `continue' makes the
\* loop spin: nothing changes until an event comes.
GoOnWithout(w) ==
  /\ pc[w] = "event" /\ msgs[w] = <<>> /\ isSend[w]
  /\ ev' = [ev EXCEPT ![w] = NoEvent]
  /\ isSend' = [isSend EXCEPT ![w] = FALSE]
  /\ RunStep(w)
  /\ UNCHANGED <<n, cur, msgs>>

\* Within a step: on to its next part.
GoTo(w, to) == pc' = [pc EXCEPT ![w] = to] /\ UNCHANGED <<n, cur, isSend, ev, msgs>>

\* SRST_ERREND: exit() and the end of onEvent.
End(w) == GoTo(w, "new")

\* A bug to try: an end before the last step.
BugSucceedEarly(w) ==
  IF cur[w] < Len(Script) - 1
  THEN /\ cur' = [cur EXCEPT ![w] = @ + 1] /\ pc' = [pc EXCEPT ![w] = "event"]
       /\ UNCHANGED <<n, isSend, ev, msgs>>
  ELSE End(w)

\* SRST_SUCC: the next step, or after the last one the same end.
Succeed(w) ==
  IF cur[w] < Len(Script)
  THEN /\ cur' = [cur EXCEPT ![w] = @ + 1] /\ pc' = [pc EXCEPT ![w] = "event"]
       /\ UNCHANGED <<n, isSend, ev, msgs>>
  ELSE End(w)

\* pushEvent to the k-th transaction of w: nobody reads the queue of a former
\* one, and what a full queue refuses is lost.
Pushed(w, k, e) ==
  IF k = n[w] /\ Len(msgs[w]) < QueueCapacity
  THEN [msgs EXCEPT ![w] = Append(@, e)] ELSE msgs

EngineTypeOK(places) ==
  /\ pc \in [Workers -> places \cup {"new", "install", "event", "send", "suprecv", "recv"}]
  /\ n \in [Workers -> 0 .. MaxTrans]
  /\ cur \in [Workers -> Steps] /\ isSend \in [Workers -> BOOLEAN]
  /\ ev \in [Workers -> Event] /\ msgs \in [Workers -> Seq(Event)]
=============================================================================
