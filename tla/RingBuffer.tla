----------------------------- MODULE RingBuffer -----------------------------
(***************************************************************************)
(* TRingbuffer (src/src/ringbuff.h), one action per access to a variable   *)
(* that two threads share, under sequential consistency.  The callers are  *)
(* part of the module, since correctness depends on how dequeue is called: *)
(*   "size"  after size() > 0            (TTransation::onEvent; nobody     *)
(*           deletes an event, whether it was refused or used)             *)
(*   "pipe"  after reading one byte that the producer writes when enqueue  *)
(*           returned true               (TMptThreadPool::order and        *)
(*           threadEventProcess, which deletes what it has used; a refused *)
(*           event is forgotten)                                           *)
(***************************************************************************)
EXTENDS Integers, Sequences

CONSTANTS Producers, Consumers,   \* threads calling enqueue / dequeue
          Items,                  \* addresses of the objects queued
          NULL,
          Junk,                   \* content of memory nobody has written
          Size,                   \* m_size
          SP, SC,                 \* m_sp, m_sc
          Guard,                  \* how a consumer decides to call dequeue
          InitSlots,              \* what `new T*[size]' may leave in a slot
          Garbage                 \* what an uninitialised headNew may hold

Slots == 0 .. Size - 1

ASSUME SizeAssumption == Size \in Nat /\ Size > 1
ASSUME PointerAssumption == NULL \notin Items /\ Junk \notin Items /\ NULL # Junk
ASSUME ModeAssumption ==
  /\ SP \in BOOLEAN /\ SC \in BOOLEAN
  /\ Guard \in {"size", "pipe"}
ASSUME MemoryAssumption == InitSlots \subseteq {NULL, Junk} /\ Garbage \subseteq Slots
                           /\ Garbage # {}

VARIABLES ring, m_head, m_tail,   \* the object
          ppc, item, tailOld,     \* a call of enqueue, by producer
          cpc, headOld, headNew, p,  \* a call of dequeue, by consumer
          enqRet, deqRet,         \* the value the last call returned
          live,                   \* allocated and not yet deleted
          leaked,                 \* history: those of them nobody refers to any more
          pipe                    \* bytes written and not yet read

object == <<ring, m_head, m_tail>>
enqLocals == <<ppc, item, tailOld, enqRet>>
deqLocals == <<cpc, headOld, headNew, p, deqRet>>
heap == <<live, leaked>>
vars == <<object, enqLocals, deqLocals, heap, pipe>>

Init ==
  /\ ring \in [Slots -> InitSlots]
  /\ m_head = 0 /\ m_tail = 0
  /\ ppc = [t \in Producers |-> "idle"]
  /\ item = [t \in Producers |-> NULL]
  /\ tailOld = [t \in Producers |-> 0]
  /\ enqRet = [t \in Producers |-> FALSE]
  /\ cpc = [t \in Consumers |-> "idle"]
  /\ headOld = [t \in Consumers |-> 0]
  /\ headNew \in [Consumers -> Garbage]
  /\ p = [t \in Consumers |-> NULL]
  /\ deqRet = [t \in Consumers |-> NULL]
  /\ live = {} /\ leaked = {} /\ pipe = 0

Succ(i) == (i + 1) % Size

\* What size() computes from the two indices it has read.
Count(h, t) == IF h <= t THEN t - h ELSE Size - h + t

-----------------------------------------------------------------------------
(* enqueue                                                                 *)

EnqCall(t) ==
  /\ ppc[t] = "idle"
  /\ \E i \in Items \ live : item' = [item EXCEPT ![t] = i] /\ live' = live \cup {i}
  /\ ppc' = [ppc EXCEPT ![t] = "tail"]
  /\ UNCHANGED <<object, tailOld, enqRet, deqLocals, leaked, pipe>>

EnqReadTail(t) ==
  /\ ppc[t] = "tail"
  /\ tailOld' = [tailOld EXCEPT ![t] = m_tail]
  /\ ppc' = [ppc EXCEPT ![t] = "head"]
  /\ UNCHANGED <<object, item, enqRet, deqLocals, heap, pipe>>

\* The object is deleted, or nobody knows of it any more.
Free(i) == live' = live \ {i} /\ UNCHANGED leaked
Leak(i) == leaked' = leaked \cup {i} /\ UNCHANGED live

\* A bug to try: full one slot too early.
BugEnqFullEarly(t) ==
  /\ ppc[t] = "head" /\ Succ(Succ(tailOld[t])) = m_head
  /\ enqRet' = [enqRet EXCEPT ![t] = FALSE]
  /\ Leak(item[t])
  /\ ppc' = [ppc EXCEPT ![t] = "idle"]
  /\ UNCHANGED <<object, item, tailOld, deqLocals, pipe>>

\* Full: the callbacks and the manager do not look at the result (socketpool.C:172,
\* 216, manager.C:176, 182).
EnqFull(t) ==
  /\ ppc[t] = "head" /\ Succ(tailOld[t]) = m_head
  /\ enqRet' = [enqRet EXCEPT ![t] = FALSE]
  /\ Leak(item[t])
  /\ ppc' = [ppc EXCEPT ![t] = "idle"]
  /\ UNCHANGED <<object, item, tailOld, deqLocals, pipe>>

\* A bug to try: the test for a full ring is missing.
BugEnqReadHeadUnchecked(t) ==
  /\ ppc[t] = "head"
  /\ ppc' = [ppc EXCEPT ![t] = "store"]
  /\ UNCHANGED <<object, item, tailOld, enqRet, deqLocals, heap, pipe>>

EnqReadHead(t) ==
  /\ ppc[t] = "head" /\ Succ(tailOld[t]) # m_head
  /\ ppc' = [ppc EXCEPT ![t] = "store"]
  /\ UNCHANGED <<object, item, tailOld, enqRet, deqLocals, heap, pipe>>

\* With m_sp false the store is CAS(slot, NULL, item), and both its outcomes
\* lead to the loop's condition: `continue' in a do-while goes there too.
EnqStore(t) ==
  /\ ppc[t] = "store"
  /\ ring' = IF SP \/ ring[tailOld[t]] = NULL
             THEN [ring EXCEPT ![tailOld[t]] = item[t]] ELSE ring
  /\ ppc' = [ppc EXCEPT ![t] = "publish"]
  /\ UNCHANGED <<m_head, m_tail, item, tailOld, enqRet, deqLocals, heap, pipe>>

EnqPublish(t) ==
  /\ ppc[t] = "publish"
  /\ m_tail' = IF SP \/ m_tail = tailOld[t] THEN Succ(tailOld[t]) ELSE m_tail
  /\ IF SP \/ m_tail = tailOld[t]
     THEN /\ enqRet' = [enqRet EXCEPT ![t] = TRUE]
          /\ ppc' = [ppc EXCEPT ![t] = IF Guard = "pipe" THEN "notify" ELSE "idle"]
     ELSE /\ ppc' = [ppc EXCEPT ![t] = "tail"]
          /\ UNCHANGED enqRet
  /\ UNCHANGED <<ring, m_head, item, tailOld, deqLocals, heap, pipe>>

\* The byte that order() writes after a successful enqueue.  When it cannot be
\* written, order() says so and returns true all the same.
Notify(t) ==
  /\ ppc[t] = "notify"
  /\ pipe' \in {pipe, pipe + 1}
  /\ ppc' = [ppc EXCEPT ![t] = "idle"]
  /\ UNCHANGED <<object, item, tailOld, enqRet, deqLocals, heap>>
-----------------------------------------------------------------------------
(* size and dequeue                                                        *)

SizeReadHead(c) ==
  /\ Guard = "size" /\ cpc[c] = "idle"
  /\ headOld' = [headOld EXCEPT ![c] = m_head]
  /\ cpc' = [cpc EXCEPT ![c] = "size"]
  /\ UNCHANGED <<object, enqLocals, headNew, p, deqRet, heap, pipe>>

SizeIsZero(c) ==
  /\ cpc[c] = "size" /\ Count(headOld[c], m_tail) = 0
  /\ deqRet' = [deqRet EXCEPT ![c] = NULL]
  /\ cpc' = [cpc EXCEPT ![c] = "idle"]
  /\ UNCHANGED <<object, enqLocals, headOld, headNew, p, heap, pipe>>

\* The start of a call: headNew is whatever the stack holds.
CallDequeue(c) ==
  /\ cpc' = [cpc EXCEPT ![c] = "head"]
  /\ \E g \in Garbage : headNew' = [headNew EXCEPT ![c] = g]
  /\ UNCHANGED <<object, enqLocals, headOld, p, deqRet, heap>>

\* A bug to try: dequeue is called without reading a byte.
BugDeqCallKeepsByte(c) ==
  cpc[c] = "idle" /\ Guard = "pipe" /\ pipe > 0 /\ UNCHANGED pipe /\ CallDequeue(c)

\* A bug to try: one read takes all the bytes there are.
BugDeqCallDrains(c) ==
  cpc[c] = "idle" /\ Guard = "pipe" /\ pipe > 0 /\ pipe' = 0 /\ CallDequeue(c)

DeqCall(c) ==
  /\ cpc[c] = IF Guard = "size" THEN "size" ELSE "idle"
  /\ Guard = "size" => Count(headOld[c], m_tail) > 0
  /\ Guard = "pipe" => pipe > 0
  /\ pipe' = IF Guard = "pipe" THEN pipe - 1 ELSE pipe
  /\ CallDequeue(c)

DeqReadHead(c) ==
  /\ cpc[c] = "head"
  /\ headOld' = [headOld EXCEPT ![c] = m_head]
  /\ cpc' = [cpc EXCEPT ![c] = "slot"]
  /\ UNCHANGED <<object, enqLocals, headNew, p, deqRet, heap, pipe>>

DeqReadSlot(c) ==
  /\ cpc[c] = "slot"
  /\ p' = [p EXCEPT ![c] = ring[headOld[c]]]
  /\ cpc' = [cpc EXCEPT ![c] = "tail"]
  /\ UNCHANGED <<object, enqLocals, headOld, headNew, deqRet, heap, pipe>>

\* An empty ring ends the call.  A NULL slot skips to the loop's condition, whatever
\* headNew holds.
DeqReadTail(c) ==
  /\ cpc[c] = "tail"
  /\ LET to == IF headOld[c] = m_tail THEN "idle"
               ELSE IF p[c] = NULL THEN "advance" ELSE "clear" IN
     /\ cpc' = [cpc EXCEPT ![c] = to]
     /\ deqRet' = [deqRet EXCEPT ![c] = IF to = "idle" THEN NULL ELSE @]
     /\ headNew' = [headNew EXCEPT ![c] = IF to = "clear" THEN Succ(headOld[c]) ELSE @]
  /\ UNCHANGED <<object, enqLocals, headOld, p, heap, pipe>>

DeqClear(c) ==
  /\ cpc[c] = "clear"
  /\ ring' = IF SC \/ ring[headOld[c]] = p[c]
             THEN [ring EXCEPT ![headOld[c]] = NULL] ELSE ring
  /\ cpc' = [cpc EXCEPT ![c] = "advance"]
  /\ UNCHANGED <<m_head, m_tail, enqLocals, headOld, headNew, p, deqRet, heap, pipe>>

DeqAdvance(c) ==
  /\ cpc[c] = "advance"
  /\ LET plain == SC /\ p[c] # NULL IN
     /\ m_head' = IF plain \/ m_head = headOld[c] THEN headNew[c] ELSE m_head
     /\ IF plain \/ m_head = headOld[c]
        THEN /\ deqRet' = [deqRet EXCEPT ![c] = p[c]]
             /\ cpc' = [cpc EXCEPT ![c] = IF p[c] = NULL THEN "idle" ELSE "got"]
        ELSE /\ cpc' = [cpc EXCEPT ![c] = "head"]
             /\ UNCHANGED deqRet
  /\ UNCHANGED <<ring, m_tail, enqLocals, headOld, headNew, p, heap, pipe>>

\* The consumer has used what it was given: a worker deletes it, a transaction
\* forgets it (transaction.C:57, 78).
Release(c) ==
  /\ cpc[c] = "got"
  /\ IF Guard = "size" THEN Leak(deqRet[c]) ELSE Free(deqRet[c])
  /\ cpc' = [cpc EXCEPT ![c] = "idle"]
  /\ UNCHANGED <<object, enqLocals, headOld, headNew, p, deqRet, pipe>>

\* A worker runs transactions, from its timer or with the event in hand, and one
\* that waits for what never comes (transaction.C:64-73) keeps it for ever.
Hang(c) ==
  /\ Guard = "pipe" /\ cpc[c] \in {"idle", "got"}
  /\ IF cpc[c] = "got" THEN Leak(deqRet[c]) ELSE UNCHANGED heap
  /\ cpc' = [cpc EXCEPT ![c] = "hung"]
  /\ UNCHANGED <<object, enqLocals, headOld, headNew, p, deqRet, pipe>>
-----------------------------------------------------------------------------
EnqStep(t) == EnqReadTail(t) \/ EnqFull(t) \/ EnqReadHead(t) \/ EnqStore(t)
              \/ EnqPublish(t) \/ Notify(t)

DeqStep(c) == SizeReadHead(c) \/ SizeIsZero(c) \/ DeqCall(c) \/ DeqReadHead(c)
              \/ DeqReadSlot(c) \/ DeqReadTail(c) \/ DeqClear(c)
              \/ DeqAdvance(c) \/ Release(c)

Next == \/ \E t \in Producers : EnqCall(t) \/ EnqStep(t)
        \/ \E c \in Consumers : DeqStep(c) \/ Hang(c)

Spec == Init /\ [][Next]_vars

\* A thread inside a call goes on, and a consumer that does not hang comes back;
\* nothing obliges anyone to enqueue.
FairSpec == Spec /\ (\A t \in Producers : WF_vars(EnqStep(t)))
                 /\ (\A c \in Consumers : WF_vars(DeqStep(c)))
-----------------------------------------------------------------------------
(* What the indices and the slots mean                                     *)

\* The consumer has emptied the slot at m_head but not yet moved m_head.
Taking(c) == cpc[c] = "advance" /\ p[c] # NULL
InDequeue(c) == cpc[c] \in {"head", "slot", "tail", "clear", "advance"}
InEnqueue(t) == ppc[t] \in {"tail", "head", "store", "publish"}

InRange(h, t, s) == IF h <= t THEN h <= s /\ s < t ELSE h <= s \/ s < t
Occupied == {s \in Slots : InRange(m_head, m_tail, s)}

Cell(s) == IF s = m_head /\ \E c \in Consumers : Taking(c)
           THEN p[CHOOSE c \in Consumers : Taking(c)] ELSE ring[s]

\* The slot k places after the oldest one.
Nth(k) == IF m_head + k < Size THEN m_head + k ELSE m_head + k - Size

Contents == [k \in 1 .. Count(m_head, m_tail) |-> Cell(Nth(k - 1))]

\* The way the program uses the object: one thread at each end, the default
\* modes, and a consumer that knows that something is queued.
Spsc == /\ SP /\ SC
        /\ \A t, u \in Producers : t = u
        /\ \A c, d \in Consumers : c = d

Capacity == Size - 1
Queue == INSTANCE BoundedQueue WITH queue <- Contents
-----------------------------------------------------------------------------
(* Properties                                                              *)

TypeOK ==
  /\ ring \in [Slots -> Items \cup {NULL, Junk}]
  /\ m_head \in Slots /\ m_tail \in Slots
  /\ ppc \in [Producers -> {"idle", "tail", "head", "store", "publish", "notify"}]
  /\ item \in [Producers -> Items \cup {NULL}]
  /\ tailOld \in [Producers -> Slots]
  /\ enqRet \in [Producers -> BOOLEAN]
  /\ cpc \in [Consumers -> {"idle", "size", "head", "slot", "tail", "clear",
                            "advance", "got", "hung"}]
  /\ headOld \in [Consumers -> Slots]
  /\ headNew \in [Consumers -> Slots]
  /\ p \in [Consumers -> Items \cup {NULL, Junk}]
  /\ deqRet \in [Consumers -> Items \cup {NULL, Junk}]
  /\ live \in SUBSET Items /\ leaked \subseteq Items \cup {NULL, Junk}
  /\ pipe \in Nat

\* What a producer knows between its reads and its writes (ringbuff.h:51-61):
\* nobody else moved m_tail, and the slot it writes is still free.
ProducerView ==
  \A t \in Producers :
    /\ InEnqueue(t) => item[t] \in Items
    /\ ppc[t] \in {"head", "store", "publish"} => tailOld[t] = m_tail
    /\ ppc[t] \in {"store", "publish"} => Succ(m_tail) # m_head
    /\ ppc[t] = "publish" => ring[m_tail] = item[t]

\* What a consumer knows (ringbuff.h:77-89): once it is in dequeue the ring
\* is not empty, and p is the oldest item although it was read before the
\* emptiness test of line 79.
ConsumerView ==
  \A c \in Consumers :
    /\ cpc[c] = "size" => Guard = "size"
    /\ cpc[c] \in {"size", "slot", "tail", "clear", "advance"} => headOld[c] = m_head
    /\ InDequeue(c) => m_head # m_tail
    /\ cpc[c] \in {"tail", "clear"} => p[c] = ring[m_head]
    /\ cpc[c] = "advance" => p[c] \in Items
    /\ cpc[c] \in {"clear", "advance"} => headNew[c] = Succ(m_head)

\* Every occupied slot holds an item, never NULL and never what the array was
\* allocated with, except the oldest one while a consumer takes it out.
OccupiedHoldItems ==
  \A s \in Occupied : \/ ring[s] \in Items
                      \/ s = m_head /\ \E c \in Consumers : Taking(c)

\* order() writes at most one byte per queued event and threadEventProcess reads
\* one before each dequeue (mptthreadpool.C:91-97, 116-122): the bytes, the one
\* about to be written and the one just read are no more than the events, so that
\* the pEvent->type() of line 123 never meets a NULL.
BytesHaveItems ==
  Guard = "pipe" =>
    pipe + (IF \E t \in Producers : ppc[t] = "notify" THEN 1 ELSE 0)
         + (IF \E c \in Consumers : InDequeue(c) THEN 1 ELSE 0)
      <= Count(m_head, m_tail)

\* The inductive invariant of the single-producer single-consumer use.
IInv == TypeOK /\ ProducerView /\ ConsumerView /\ OccupiedHoldItems /\ BytesHaveItems

\* A dequeue made after size() > 0 or after reading a byte never returns NULL
\* (transaction.C:54-57, mptthreadpool.C:122-123).
NeverEmptyHanded ==
  \A c \in Consumers : cpc[c] = "tail" => headOld[c] # m_tail /\ p[c] \in Items

\* Every object has one owner: a slot, the thread that is queueing it or the
\* thread that was given it.  None is queued or given twice, none that is in a
\* slot or in hand has been deleted, and the ring itself loses none: an object
\* without an owner is one that a caller forgot, when it was refused or when it
\* had been used (socketpool.C:172, 216, transaction.C:57, 78).
Owned(i) == \/ \E s \in Occupied : Cell(s) = i
            \/ \E t \in Producers : InEnqueue(t) /\ item[t] = i
            \/ \E c \in Consumers : cpc[c] = "got" /\ deqRet[c] = i

OneOwner ==
  /\ \A s \in Occupied : Cell(s) \in live
  /\ \A s, r \in Occupied : Cell(s) = Cell(r) => s = r
  /\ \A t \in Producers : InEnqueue(t) => 
       item[t] \in live /\ \A s \in Occupied : Cell(s) # item[t]
  /\ \A c \in Consumers : cpc[c] = "got" =>
       /\ deqRet[c] \in live
       /\ \A s \in Occupied : Cell(s) # deqRet[c]
       /\ \A t \in Producers : InEnqueue(t) => item[t] # deqRet[c]
  /\ leaked \subseteq live
  /\ \A i \in live : Owned(i) <=> i \notin leaked

\* The fine-grained object implements the atomic FIFO queue: a call takes
\* effect when it writes m_tail, writes m_head or finds the ring full or empty.
ImplementsQueue == Queue!Spec

\* An event that enough bytes announce is handed to the worker, unless it hangs:
\* although dequeue reads a slot before knowing that it is occupied, the manager
\* may always add more, and a byte that could not be written leaves as many of the
\* youngest events waiting for a later one (mptthreadpool.C:93-97, 116-122).
Announced(i) ==
  \E k \in 1 .. Count(m_head, m_tail) :
    /\ Contents[k] = i
    /\ k <= pipe + (IF \E c \in Consumers : InDequeue(c) THEN 1 ELSE 0)

AnnouncedIsDelivered ==
  \A i \in Items :
    Announced(i) ~> \E c \in Consumers : (cpc[c] = "got" /\ deqRet[c] = i) \/ cpc[c] = "hung"
=============================================================================
