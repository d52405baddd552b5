-------------------------- MODULE RingBufferProofs --------------------------
(***************************************************************************)
(* What RingBuffer promises for a ring of any size and any set of items.   *)
(* The types are kept in every mode and by any number of threads.         *)
(* In the use the program makes of it (Spsc) IInv is inductive, and from   *)
(* it follow that dequeue never comes back empty-handed, that the object   *)
(* implements BoundedQueue and that every object has one owner, whoever of *)
(* the callers deletes or forgets it.                                      *)
(***************************************************************************)
EXTENDS RingBuffer, SequenceTheorems, TLAPS

\* (tailOld+1)%m_size (ringbuff.h:52, 84) is the next slot, and another one: the
\* ring has at least two slots (the assert of line 26).
LEMMA SuccIsNext ==
  ASSUME NEW i \in Slots
  PROVE  /\ Succ(i) = IF i = Size - 1 THEN 0 ELSE i + 1
         /\ Succ(i) \in Slots
         /\ Succ(i) # i
BY SizeAssumption DEF Succ, Slots

\* Different slots have different successors (ringbuff.h:52, 83).
LEMMA SuccIsInjective ==
  ASSUME NEW i \in Slots, NEW j \in Slots, i # j
  PROVE  Succ(i) # Succ(j)
<1>1. i \in Nat /\ j \in Nat
  BY SizeAssumption DEF Slots
<1>2. CASE i = Size - 1
  <2>1. Succ(i) = 0 /\ Succ(j) = j + 1
    BY <1>2, SuccIsNext
  <2> QED
    BY <1>1, <2>1
<1>3. CASE j = Size - 1
  <2>1. Succ(j) = 0 /\ Succ(i) = i + 1
    BY <1>3, SuccIsNext
  <2> QED
    BY <1>1, <2>1
<1>4. CASE i # Size - 1 /\ j # Size - 1
  <2>1. Succ(i) = i + 1 /\ Succ(j) = j + 1
    BY <1>4, SuccIsNext
  <2> QED
    BY <1>1, <2>1
<1> QED
  BY <1>2, <1>3, <1>4

\* What moving m_tail does to the range of occupied slots: the slot it was at
\* joins it (ringbuff.h:59-60), and the count grows by one.
LEMMA GrowRange ==
  ASSUME NEW h \in Slots, NEW t \in Slots, Succ(t) # h
  PROVE  /\ ~InRange(h, t, t)
         /\ \A s \in Slots : InRange(h, Succ(t), s) <=> InRange(h, t, s) \/ s = t
         /\ Count(h, Succ(t)) = Count(h, t) + 1
BY SizeAssumption, SuccIsNext DEF InRange, Count, Slots

\* What moving m_head does to it: the oldest slot leaves it (ringbuff.h:87-88).
LEMMA ShrinkRange ==
  ASSUME NEW h \in Slots, NEW t \in Slots, h # t
  PROVE  /\ InRange(h, t, h)
         /\ \A s \in Slots : InRange(Succ(h), t, s) <=> InRange(h, t, s) /\ s # h
         /\ Count(Succ(h), t) = Count(h, t) - 1
BY SizeAssumption, SuccIsNext DEF InRange, Count, Slots

\* size() (ringbuff.h:99-105) is between zero and m_size - 1, and zero exactly
\* when the ring is empty.
LEMMA CountBounds ==
  ASSUME NEW h \in Slots, NEW t \in Slots
  PROVE  /\ Count(h, t) \in 0 .. Size - 1
         /\ Count(h, t) = 0 <=> h = t
BY SizeAssumption DEF Count, Slots

\* A ring that has just been constructed (ringbuff.h:24-33), whatever its slots
\* were allocated with, satisfies the invariant.
LEMMA InitInvariant == Init => IInv
<1> SUFFICES ASSUME Init PROVE IInv
  OBVIOUS
<1> USE DEF Init
<1>1. TypeOK
  <2>1. ring \in [Slots -> Items \cup {NULL, Junk}]
    BY MemoryAssumption
  <2>2. headNew \in [Consumers -> Slots]
    BY MemoryAssumption
  <2>3. 0 \in Slots
    BY SizeAssumption DEF Slots
  <2> QED
    BY <2>1, <2>2, <2>3 DEF TypeOK
<1>2. ProducerView /\ ConsumerView
  BY DEF ProducerView, ConsumerView, InEnqueue, InDequeue
<1>3. OccupiedHoldItems
  BY SizeAssumption DEF OccupiedHoldItems, Occupied, InRange, Slots
<1>4. BytesHaveItems
  BY DEF BytesHaveItems, InDequeue, Count
<1> QED
  BY <1>1, <1>2, <1>3, <1>4 DEF IInv

\* Each read, write and CAS of enqueue, dequeue and size keeps the types, in
\* every mode (ringbuff.h:46-105).
LEMMA StepType == TypeOK /\ [Next]_vars => TypeOK'
<1> SUFFICES ASSUME TypeOK, [Next]_vars PROVE TypeOK'
  OBVIOUS
<1> USE DEF TypeOK, heap
<1>1. ASSUME NEW t \in Producers, EnqCall(t) PROVE TypeOK'
  BY <1>1 DEF EnqCall, object, deqLocals
<1>2. ASSUME NEW t \in Producers, EnqReadTail(t) PROVE TypeOK'
  BY <1>2 DEF EnqReadTail, object, deqLocals
<1>3. ASSUME NEW t \in Producers, EnqFull(t) PROVE TypeOK'
  BY <1>3 DEF EnqFull, Leak, object, deqLocals
<1>4. ASSUME NEW t \in Producers, EnqReadHead(t) PROVE TypeOK'
  BY <1>4 DEF EnqReadHead, object, deqLocals
<1>5. ASSUME NEW t \in Producers, EnqStore(t) PROVE TypeOK'
  BY <1>5 DEF EnqStore, deqLocals
<1>6. ASSUME NEW t \in Producers, EnqPublish(t) PROVE TypeOK'
  <2>1. Succ(tailOld[t]) \in Slots
    BY SuccIsNext
  <2> QED
    BY <1>6, <2>1 DEF EnqPublish, deqLocals
<1>7. ASSUME NEW t \in Producers, Notify(t) PROVE TypeOK'
  BY <1>7 DEF Notify, object, deqLocals
<1>8. ASSUME NEW c \in Consumers, SizeReadHead(c) PROVE TypeOK'
  BY <1>8 DEF SizeReadHead, object, enqLocals
<1>9. ASSUME NEW c \in Consumers, SizeIsZero(c) PROVE TypeOK'
  BY <1>9 DEF SizeIsZero, object, enqLocals
<1>10. ASSUME NEW c \in Consumers, DeqCall(c) PROVE TypeOK'
  BY <1>10, MemoryAssumption DEF DeqCall, CallDequeue, object, enqLocals
<1>11. ASSUME NEW c \in Consumers, DeqReadHead(c) PROVE TypeOK'
  BY <1>11 DEF DeqReadHead, object, enqLocals
<1>12. ASSUME NEW c \in Consumers, DeqReadSlot(c) PROVE TypeOK'
  BY <1>12 DEF DeqReadSlot, object, enqLocals
<1>14. ASSUME NEW c \in Consumers, DeqReadTail(c) PROVE TypeOK'
  <2>1. Succ(headOld[c]) \in Slots
    BY SuccIsNext
  <2> QED
    BY <1>14, <2>1 DEF DeqReadTail, object, enqLocals
<1>15. ASSUME NEW c \in Consumers, DeqClear(c) PROVE TypeOK'
  BY <1>15 DEF DeqClear, enqLocals
<1>16. ASSUME NEW c \in Consumers, DeqAdvance(c) PROVE TypeOK'
  BY <1>16 DEF DeqAdvance, enqLocals
<1>17. ASSUME NEW c \in Consumers, Release(c) PROVE TypeOK'
  BY <1>17 DEF Release, Free, Leak, object, enqLocals
<1>19. ASSUME NEW c \in Consumers, Hang(c) PROVE TypeOK'
  BY <1>19 DEF Hang, Leak, heap, object, enqLocals
<1>18. CASE UNCHANGED vars
  BY <1>18 DEF vars, object, enqLocals, deqLocals
<1> QED
  BY <1>1, <1>2, <1>3, <1>4, <1>5, <1>6, <1>7, <1>8, <1>9, <1>10, <1>11, <1>12,
     <1>14, <1>15, <1>16, <1>17, <1>18, <1>19 DEF Next, EnqStep, DeqStep

\* Every step of the single-producer single-consumer use (ringbuff.h:57-62 and
\* 85-90) keeps the invariant.
LEMMA StepInvariant == Spsc /\ IInv /\ [Next]_vars => IInv'
<1> SUFFICES ASSUME Spsc, IInv, [Next]_vars PROVE IInv'
  OBVIOUS
<1> USE DEF Spsc, IInv, TypeOK, object, enqLocals, deqLocals, heap
<1>0. TypeOK'
  BY StepType
<1>1. ASSUME NEW t \in Producers, EnqCall(t) PROVE IInv'
  <2> USE <1>1 DEF EnqCall
  <2>1. ProducerView'
    BY DEF ProducerView, InEnqueue
  <2>2. ConsumerView' /\ OccupiedHoldItems' /\ BytesHaveItems'
    BY DEF ConsumerView, InDequeue, OccupiedHoldItems, Occupied, Taking, BytesHaveItems
  <2> QED
    BY <1>0, <2>1, <2>2
<1>2. ASSUME NEW t \in Producers, EnqReadTail(t) PROVE IInv'
  <2> USE <1>2 DEF EnqReadTail
  <2>1. ProducerView'
    BY DEF ProducerView, InEnqueue
  <2>2. ConsumerView' /\ OccupiedHoldItems' /\ BytesHaveItems'
    BY DEF ConsumerView, InDequeue, OccupiedHoldItems, Occupied, Taking, BytesHaveItems
  <2> QED
    BY <1>0, <2>1, <2>2
<1>3. ASSUME NEW t \in Producers, EnqFull(t) PROVE IInv'
  <2> USE <1>3 DEF EnqFull
  <2>1. ProducerView'
    BY DEF ProducerView, InEnqueue
  <2>2. ConsumerView' /\ OccupiedHoldItems' /\ BytesHaveItems'
    BY DEF ConsumerView, InDequeue, OccupiedHoldItems, Occupied, Taking, BytesHaveItems
  <2> QED
    BY <1>0, <2>1, <2>2
<1>4. ASSUME NEW t \in Producers, EnqReadHead(t) PROVE IInv'
  <2> USE <1>4 DEF EnqReadHead
  <2>1. ProducerView'
    BY DEF ProducerView, InEnqueue
  <2>2. ConsumerView' /\ OccupiedHoldItems' /\ BytesHaveItems'
    BY DEF ConsumerView, InDequeue, OccupiedHoldItems, Occupied, Taking, BytesHaveItems
  <2> QED
    BY <1>0, <2>1, <2>2
<1>5. ASSUME NEW t \in Producers, EnqStore(t) PROVE IInv'
  <2> USE <1>5 DEF EnqStore
  <2>1. tailOld[t] = m_tail /\ Succ(m_tail) # m_head /\ ~InRange(m_head, m_tail, m_tail)
    BY GrowRange DEF ProducerView
  <2>2. \A s \in Slots : s # m_tail => ring'[s] = ring[s]
    BY <2>1
  <2>3. ProducerView'
    BY DEF ProducerView, InEnqueue
  <2>4. ConsumerView'
    BY <2>2 DEF ConsumerView, InDequeue
  <2>5. OccupiedHoldItems'
    BY <2>1, <2>2 DEF OccupiedHoldItems, Occupied, Taking
  <2>6. BytesHaveItems'
    BY DEF BytesHaveItems, InDequeue
  <2> QED
    BY <1>0, <2>3, <2>4, <2>5, <2>6
<1>6. ASSUME NEW t \in Producers, EnqPublish(t) PROVE IInv'
  <2> USE <1>6 DEF EnqPublish
  <2>1. /\ Succ(m_tail) # m_head /\ ring[m_tail] \in Items
        /\ m_tail' = Succ(m_tail)
        /\ ppc' = [ppc EXCEPT ![t] = IF Guard = "pipe" THEN "notify" ELSE "idle"]
    BY DEF ProducerView, InEnqueue
  <2>2. /\ \A s \in Slots : s \in Occupied' <=> s \in Occupied \/ s = m_tail
        /\ Count(m_head, m_tail') = Count(m_head, m_tail) + 1
    BY <2>1, GrowRange DEF Occupied
  <2>3. ProducerView'
    BY <2>1 DEF ProducerView, InEnqueue
  <2>4. ConsumerView'
    BY <2>1 DEF ConsumerView, InDequeue
  <2>5. OccupiedHoldItems'
    <3> SUFFICES ASSUME NEW s \in Occupied'
                 PROVE  ring[s] \in Items \/ (s = m_head /\ \E c \in Consumers : Taking(c))
      BY DEF OccupiedHoldItems, Taking
    <3>1. s \in Slots /\ (s \in Occupied \/ s = m_tail)
      BY <2>2 DEF Occupied
    <3> QED
      BY <2>1, <3>1 DEF OccupiedHoldItems
  <2>6. BytesHaveItems'
    <3>1. ~(\E u \in Producers : ppc[u] = "notify")
      OBVIOUS
    <3>2. Guard = "pipe" => \E u \in Producers : ppc'[u] = "notify"
      BY <2>1
    <3>3. Count(m_head, m_tail) \in Nat
      BY CountBounds
    <3> QED
      BY <2>2, <3>1, <3>2, <3>3 DEF BytesHaveItems, InDequeue
  <2> QED
    BY <1>0, <2>3, <2>4, <2>5, <2>6
<1>7. ASSUME NEW t \in Producers, Notify(t) PROVE IInv'
  <2> USE <1>7 DEF Notify
  <2>1. ProducerView'
    BY DEF ProducerView, InEnqueue
  <2>2. ConsumerView' /\ OccupiedHoldItems'
    BY DEF ConsumerView, InDequeue, OccupiedHoldItems, Occupied, Taking
  <2>3. BytesHaveItems'
    <3>1. /\ \E u \in Producers : ppc[u] = "notify"
          /\ ~(\E u \in Producers : ppc'[u] = "notify")
      OBVIOUS
    <3>2. Count(m_head, m_tail) \in Nat
      BY CountBounds
    <3>3. UNCHANGED <<m_head, m_tail, cpc>> /\ pipe' \in Nat /\ pipe' <= pipe + 1
      OBVIOUS
    <3> QED
      BY <3>1, <3>2, <3>3 DEF BytesHaveItems, InDequeue
  <2> QED
    BY <1>0, <2>1, <2>2, <2>3
<1>8. ASSUME NEW c \in Consumers, SizeReadHead(c) PROVE IInv'
  <2> USE <1>8 DEF SizeReadHead
  <2>1. ProducerView'
    BY DEF ProducerView, InEnqueue
  <2>2. ConsumerView' /\ OccupiedHoldItems' /\ BytesHaveItems'
    BY DEF ConsumerView, InDequeue, OccupiedHoldItems, Occupied, Taking, BytesHaveItems
  <2> QED
    BY <1>0, <2>1, <2>2
<1>9. ASSUME NEW c \in Consumers, SizeIsZero(c) PROVE IInv'
  <2> USE <1>9 DEF SizeIsZero
  <2>1. ProducerView' /\ ConsumerView' /\ OccupiedHoldItems'
    BY DEF ProducerView, InEnqueue, ConsumerView, InDequeue, OccupiedHoldItems, Occupied,
           Taking
  <2>2. BytesHaveItems'
    BY DEF BytesHaveItems, InDequeue
  <2> QED
    BY <1>0, <2>1, <2>2
<1>10. ASSUME NEW c \in Consumers, DeqCall(c) PROVE IInv'
  <2> USE <1>10 DEF CallDequeue
  <2>1. Count(m_head, m_tail) \in Nat /\ (Count(m_head, m_tail) = 0 <=> m_head = m_tail)
    BY CountBounds
  <2>2. /\ cpc' = [cpc EXCEPT ![c] = "head"]
        /\ UNCHANGED <<ring, m_head, m_tail, ppc, item, tailOld, headOld>>
        /\ ~(\E d \in Consumers : InDequeue(d))
        /\ \E d \in Consumers : InDequeue(d)'
    BY DEF DeqCall, InDequeue
  <2>3. m_head # m_tail
    <3>1. CASE Guard = "size"
      BY <2>1, <3>1 DEF DeqCall, ConsumerView
    <3>2. CASE Guard = "pipe"
      <4>1. pipe \in Nat /\ pipe > 0
        BY <3>2 DEF DeqCall
      <4> QED
        BY <2>1, <2>2, <3>2, <4>1 DEF BytesHaveItems
    <3> QED
      BY <3>1, <3>2, ModeAssumption
  <2>4. ProducerView' /\ OccupiedHoldItems'
    <3>1. ~(\E d \in Consumers : Taking(d))
      BY <2>2 DEF Taking, InDequeue
    <3>2. OccupiedHoldItems'
      BY <2>2, <3>1 DEF OccupiedHoldItems, Occupied
    <3> QED
      BY <2>2, <3>2 DEF ProducerView, InEnqueue
  <2>5. ConsumerView'
    BY <2>2, <2>3 DEF ConsumerView, InDequeue
  <2>6. BytesHaveItems'
    <3>1. Guard = "pipe" => pipe' = pipe - 1
      BY <2>2 DEF DeqCall, ConsumerView
    <3> QED
      BY <2>1, <2>2, <3>1 DEF BytesHaveItems
  <2> QED
    BY <1>0, <2>4, <2>5, <2>6
<1>11. ASSUME NEW c \in Consumers, DeqReadHead(c) PROVE IInv'
  <2> USE <1>11 DEF DeqReadHead
  <2>1. ProducerView' /\ ConsumerView' /\ OccupiedHoldItems'
    BY DEF ProducerView, InEnqueue, ConsumerView, InDequeue, OccupiedHoldItems, Occupied,
           Taking
  <2>2. BytesHaveItems'
    BY DEF BytesHaveItems, InDequeue
  <2> QED
    BY <1>0, <2>1, <2>2
<1>12. ASSUME NEW c \in Consumers, DeqReadSlot(c) PROVE IInv'
  <2> USE <1>12 DEF DeqReadSlot
  <2>1. ProducerView' /\ ConsumerView' /\ OccupiedHoldItems'
    BY DEF ProducerView, InEnqueue, ConsumerView, InDequeue, OccupiedHoldItems, Occupied,
           Taking
  <2>2. BytesHaveItems'
    BY DEF BytesHaveItems, InDequeue
  <2> QED
    BY <1>0, <2>1, <2>2
<1>14. ASSUME NEW c \in Consumers, DeqReadTail(c) PROVE IInv'
  <2> USE <1>14 DEF DeqReadTail
  <2>1. /\ headOld[c] = m_head /\ p[c] = ring[m_head] /\ m_head \in Occupied
        /\ ~(\E d \in Consumers : Taking(d))
    BY ShrinkRange DEF ConsumerView, InDequeue, Occupied, Taking
  <2>2. p[c] # NULL
    BY <2>1, PointerAssumption DEF OccupiedHoldItems
  <2>7. /\ cpc' = [cpc EXCEPT ![c] = "clear"] /\ UNCHANGED deqRet
        /\ headNew' = [headNew EXCEPT ![c] = Succ(headOld[c])]
    BY <2>1, <2>2 DEF ConsumerView, InDequeue
  <2>3. ProducerView'
    BY DEF ProducerView, InEnqueue
  <2>4. ConsumerView'
    BY <2>2, <2>7, SuccIsNext DEF ConsumerView, InDequeue
  <2>5. OccupiedHoldItems'
    BY <2>1, <2>7 DEF OccupiedHoldItems, Occupied
  <2>6. BytesHaveItems'
    BY <2>7 DEF BytesHaveItems, InDequeue
  <2> QED
    BY <1>0, <2>3, <2>4, <2>5, <2>6
<1>15. ASSUME NEW c \in Consumers, DeqClear(c) PROVE IInv'
  <2> USE <1>15 DEF DeqClear
  <2>1. /\ headOld[c] = m_head /\ p[c] = ring[m_head]
        /\ m_head \in Occupied /\ m_head # m_tail
    BY ShrinkRange DEF ConsumerView, InDequeue, Occupied
  <2>2. p[c] \in Items /\ Taking(c)'
    BY <2>1, PointerAssumption DEF OccupiedHoldItems, Taking
  <2>3. \A s \in Slots : s # m_head => ring'[s] = ring[s]
    BY <2>1
  <2>4. ProducerView'
    BY <2>1, <2>3 DEF ProducerView, InEnqueue
  <2>5. ConsumerView'
    BY <2>1, <2>2 DEF ConsumerView, InDequeue
  <2>6. OccupiedHoldItems'
    BY <2>2, <2>3 DEF OccupiedHoldItems, Occupied, Taking
  <2>7. BytesHaveItems'
    BY DEF BytesHaveItems, InDequeue
  <2> QED
    BY <1>0, <2>4, <2>5, <2>6, <2>7
<1>16. ASSUME NEW c \in Consumers, DeqAdvance(c) PROVE IInv'
  <2> USE <1>16 DEF DeqAdvance
  <2>1. /\ p[c] \in Items /\ p[c] # NULL
        /\ headNew[c] = Succ(m_head) /\ m_head # m_tail /\ headOld[c] = m_head
    BY PointerAssumption DEF ConsumerView, InDequeue
  <2>2. /\ m_head' = Succ(m_head)
        /\ cpc' = [cpc EXCEPT ![c] = "got"]
    BY <2>1
  <2>3. /\ \A s \in Slots : s \in Occupied' <=> s \in Occupied /\ s # m_head
        /\ Count(m_head', m_tail) = Count(m_head, m_tail) - 1
    BY <2>1, <2>2, ShrinkRange DEF Occupied
  <2>4. Succ(m_tail) # m_head => Succ(m_tail) # m_head'
    BY <2>1, <2>2, SuccIsInjective
  <2>5. ProducerView'
    BY <2>2, <2>4 DEF ProducerView, InEnqueue
  <2>6. ConsumerView'
    BY <2>2 DEF ConsumerView, InDequeue
  <2>7. OccupiedHoldItems'
    <3>1. \A s \in Occupied' : s \in Occupied /\ s # m_head
      BY <2>3 DEF Occupied
    <3> QED
      BY <3>1 DEF OccupiedHoldItems
  <2>8. BytesHaveItems'
    <3>1. /\ \E d \in Consumers : InDequeue(d)
          /\ ~(\E d \in Consumers : InDequeue(d)')
      BY <2>2 DEF InDequeue
    <3>2. Count(m_head, m_tail) \in Nat
      BY CountBounds
    <3> QED
      BY <2>3, <3>1, <3>2 DEF BytesHaveItems
  <2> QED
    BY <1>0, <2>5, <2>6, <2>7, <2>8
<1>17. ASSUME NEW c \in Consumers, Release(c) PROVE IInv'
  <2> USE <1>17 DEF Release
  <2>1. ProducerView' /\ ConsumerView' /\ OccupiedHoldItems'
    BY DEF ProducerView, InEnqueue, ConsumerView, InDequeue, OccupiedHoldItems, Occupied,
           Taking
  <2>2. BytesHaveItems'
    BY DEF BytesHaveItems, InDequeue
  <2> QED
    BY <1>0, <2>1, <2>2
<1>19. ASSUME NEW c \in Consumers, Hang(c) PROVE IInv'
  <2> USE <1>19 DEF Hang
  <2>1. ProducerView' /\ ConsumerView' /\ OccupiedHoldItems'
    BY DEF ProducerView, InEnqueue, ConsumerView, InDequeue, OccupiedHoldItems, Occupied,
           Taking
  <2>2. BytesHaveItems'
    BY DEF BytesHaveItems, InDequeue
  <2> QED
    BY <1>0, <2>1, <2>2
<1>18. CASE UNCHANGED vars
  BY <1>18 DEF vars, ProducerView, ConsumerView, OccupiedHoldItems, BytesHaveItems,
               Occupied, Taking, InDequeue, InEnqueue
<1> QED
  BY <1>1, <1>2, <1>3, <1>4, <1>5, <1>6, <1>7, <1>8, <1>9, <1>10, <1>11, <1>12,
     <1>14, <1>15, <1>16, <1>17, <1>18, <1>19 DEF Next, EnqStep, DeqStep

\* Indices, slots and locals keep their types, in every mode and with any
\* number of threads.
THEOREM TypeCorrect == Spec => []TypeOK
<1>1. Init => TypeOK
  BY InitInvariant DEF IInv
<1>2. TypeOK /\ [Next]_vars => TypeOK'
  BY StepType
<1> QED
  BY <1>1, <1>2, PTL DEF Spec

\* With one producer, one consumer and a consumer that knows that something is
\* queued, what each thread has read of the ring stays true until it uses it
\* (ringbuff.h:51-61, 77-89).
THEOREM InductiveInvariant ==
  ASSUME Spsc
  PROVE  Spec => []IInv
<1>1. IInv /\ [Next]_vars => IInv'
  BY StepInvariant
<1> QED
  BY <1>1, InitInvariant, PTL DEF Spec

-----------------------------------------------------------------------------
(* A dequeue that was promised an item returns one.                        *)

\* While a consumer is inside dequeue and has not yet emptied the oldest slot,
\* that slot holds an item (ringbuff.h:78).
LEMMA HeadIsItem ==
  ASSUME Spsc, IInv, NEW c \in Consumers, cpc[c] \in {"tail", "clear"}
  PROVE  headOld[c] = m_head /\ m_head # m_tail /\ p[c] = ring[m_head] /\ p[c] \in Items
<1>1. headOld[c] = m_head /\ m_head # m_tail /\ p[c] = ring[m_head]
  BY DEF IInv, ConsumerView, InDequeue
<1>2. m_head \in Occupied
  BY <1>1, ShrinkRange DEF IInv, TypeOK, Occupied
<1>3. ~(\E d \in Consumers : Taking(d))
  BY DEF Spsc, Taking
<1> QED
  BY <1>1, <1>2, <1>3 DEF IInv, OccupiedHoldItems

\* A dequeue made after size() > 0 or after reading a byte never returns NULL
\* (transaction.C:54-57, mptthreadpool.C:122-123).
THEOREM DequeueFindsItem ==
  ASSUME Spsc
  PROVE  Spec => []NeverEmptyHanded
<1>1. IInv => NeverEmptyHanded
  BY HeadIsItem DEF NeverEmptyHanded
<1> QED
  BY <1>1, InductiveInvariant, PTL
-----------------------------------------------------------------------------
(* What a step does to the cells.                                          *)

\* What the cell of a slot is: the value a consumer is taking out of it
\* (ringbuff.h:87-89), or what the array holds.
LEMMA CellNow ==
  ASSUME NEW s
  PROVE  \/ \E c \in Consumers : Taking(c) /\ s = m_head /\ Cell(s) = p[c]
         \/ ~(s = m_head /\ \E c \in Consumers : Taking(c)) /\ Cell(s) = ring[s]
BY DEF Cell

\* The same in the next state.
LEMMA CellNext ==
  ASSUME NEW s
  PROVE  \/ \E c \in Consumers : Taking(c)' /\ s = m_head' /\ Cell(s)' = p'[c]
         \/ ~(s = m_head' /\ \E c \in Consumers : Taking(c)') /\ Cell(s)' = ring'[s]
BY DEF Cell

\* No step but the writes of m_tail and m_head changes what is queued.
SameCells == UNCHANGED <<m_head, m_tail>> /\ \A s \in Occupied : Cell(s)' = Cell(s)

\* The write of m_tail (ringbuff.h:60) adds the item at the old m_tail to the
\* queued cells and leaves the others alone.
LEMMA EnqueueCells ==
  ASSUME Spsc, IInv, NEW t \in Producers, EnqPublish(t)
  PROVE  /\ m_head' = m_head /\ m_tail' = Succ(m_tail) /\ Succ(m_tail) # m_head
         /\ m_tail \notin Occupied
         /\ Occupied' = Occupied \cup {m_tail}
         /\ \A s \in Occupied : Cell(s)' = Cell(s)
         /\ \A s \in Slots : s = m_tail => Cell(s)' = item[t]
         /\ enqRet' = [enqRet EXCEPT ![t] = TRUE]
<1> USE DEF IInv, TypeOK
<1>1. /\ tailOld[t] = m_tail /\ Succ(m_tail) # m_head /\ ring[m_tail] = item[t]
      /\ m_tail' = Succ(m_tail)
      /\ UNCHANGED <<ring, m_head, cpc, p>>
      /\ enqRet' = [enqRet EXCEPT ![t] = TRUE]
  BY DEF EnqPublish, ProducerView, Spsc, deqLocals
<1>2. m_tail \notin Occupied /\ Occupied' = Occupied \cup {m_tail}
  BY <1>1, GrowRange DEF Occupied
<1>3. \A s \in Occupied : Cell(s)' = Cell(s)
  BY <1>1, CellNow, CellNext DEF Taking, Spsc
<1>4. \A s \in Slots : s = m_tail => Cell(s)' = item[t]
  <2>1. ~(m_tail = m_head' /\ \E c \in Consumers : Taking(c)')
    BY <1>1 DEF Taking, ConsumerView, InDequeue
  <2> QED
    BY <1>1, <2>1, CellNext
<1> QED
  BY <1>1, <1>2, <1>3, <1>4

\* The write of m_head (ringbuff.h:88) takes the oldest cell away and leaves
\* the others alone.
LEMMA DequeueCells ==
  ASSUME Spsc, IInv, NEW c \in Consumers, DeqAdvance(c)
  PROVE  /\ m_tail' = m_tail /\ m_head' = Succ(m_head) /\ m_head # m_tail
         /\ m_head \in Occupied
         /\ Occupied' = Occupied \ {m_head}
         /\ \A s \in Occupied' : Cell(s)' = Cell(s)
         /\ Cell(m_head) = p[c]
         /\ deqRet' = [deqRet EXCEPT ![c] = p[c]]
         /\ cpc' = [cpc EXCEPT ![c] = "got"]
<1> USE DEF IInv, TypeOK
<1>1. /\ p[c] \in Items /\ p[c] # NULL /\ headNew[c] = Succ(m_head) /\ m_head # m_tail
  BY PointerAssumption DEF DeqAdvance, ConsumerView, InDequeue
<1>2. /\ m_tail' = m_tail /\ m_head' = Succ(m_head) /\ ring' = ring
      /\ deqRet' = [deqRet EXCEPT ![c] = p[c]]
      /\ cpc' = [cpc EXCEPT ![c] = "got"]
  BY <1>1 DEF DeqAdvance, Spsc
<1>3. m_head \in Occupied /\ Occupied' = Occupied \ {m_head}
  BY <1>1, <1>2, ShrinkRange DEF Occupied
<1>4. \A s \in Occupied' : Cell(s)' = Cell(s)
  <2>1. ~(\E d \in Consumers : Taking(d)')
    BY <1>2 DEF Spsc, Taking
  <2> QED
    BY <1>2, <1>3, <2>1, CellNow, CellNext
<1>5. Cell(m_head) = p[c]
  BY <1>1, CellNow DEF Spsc, Taking, DeqAdvance
<1> QED
  BY <1>1, <1>2, <1>3, <1>4, <1>5

\* Every other step leaves the queued cells alone, also the write of the slot
\* before m_tail moves (ringbuff.h:59) and its clearing before m_head does (87).
LEMMA OtherCells ==
  ASSUME Spsc, IInv, [Next]_vars,
         \A t \in Producers : ~EnqPublish(t), \A c \in Consumers : ~DeqAdvance(c)
  PROVE  SameCells
<1> USE DEF IInv, TypeOK, object, enqLocals, deqLocals, heap, SameCells
<1>1. ASSUME NEW t \in Producers, EnqStore(t) PROVE SameCells
  <2>1. /\ tailOld[t] = m_tail /\ m_tail \notin Occupied
        /\ UNCHANGED <<m_head, m_tail, cpc, p>>
    BY <1>1, GrowRange DEF EnqStore, ProducerView, Occupied
  <2>2. \A s \in Occupied : ring'[s] = ring[s]
    BY <1>1, <2>1 DEF EnqStore, Occupied
  <2> QED
    BY <2>1, <2>2, CellNow, CellNext DEF Taking, Spsc
<1>2. ASSUME NEW t \in Producers, \/ EnqCall(t) \/ EnqReadTail(t) \/ EnqFull(t)
                                  \/ EnqReadHead(t) \/ Notify(t)
      PROVE  SameCells
  <2>1. UNCHANGED <<ring, m_head, m_tail, cpc, p>>
    BY <1>2 DEF EnqCall, EnqReadTail, EnqFull, EnqReadHead, Notify
  <2> QED
    BY <2>1, CellNow, CellNext DEF Taking, Spsc
<1>3. ASSUME NEW c \in Consumers, DeqClear(c) PROVE SameCells
  <2>1. headOld[c] = m_head /\ p[c] = ring[m_head] /\ p[c] # NULL
    BY <1>3, HeadIsItem, PointerAssumption DEF DeqClear
  <2>2. /\ Taking(c)' /\ ~(\E d \in Consumers : Taking(d))
        /\ \A s \in Slots : s # m_head => ring'[s] = ring[s]
        /\ UNCHANGED <<m_head, m_tail, p>>
    BY <1>3, <2>1 DEF DeqClear, Taking, Spsc
  <2> QED
    BY <2>1, <2>2, CellNow, CellNext DEF Spsc, Occupied
<1>4. ASSUME NEW c \in Consumers, \/ SizeReadHead(c) \/ SizeIsZero(c) \/ DeqCall(c)
                                  \/ DeqReadHead(c) \/ DeqReadSlot(c)
                                  \/ DeqReadTail(c) \/ Release(c) \/ Hang(c)
      PROVE  SameCells
  <2>1. UNCHANGED <<ring, m_head, m_tail>>
    BY <1>4 DEF SizeReadHead, SizeIsZero, DeqCall, CallDequeue, DeqReadHead, DeqReadSlot,
                DeqReadTail, Release, Hang
  <2>2. cpc[c] # "advance" /\ cpc'[c] # "advance"
    <3>1. CASE DeqReadTail(c)
      BY <3>1, HeadIsItem, PointerAssumption DEF DeqReadTail
    <3> QED
      BY <1>4, <3>1 DEF SizeReadHead, SizeIsZero, DeqCall, CallDequeue, DeqReadHead,
                        DeqReadSlot, Release, Hang
  <2>3. ~(\E d \in Consumers : Taking(d)) /\ ~(\E d \in Consumers : Taking(d)')
    BY <2>2 DEF Taking, Spsc
  <2> QED
    BY <2>1, <2>3, CellNow, CellNext
<1>5. CASE UNCHANGED vars
  BY <1>5, CellNow, CellNext DEF vars, Taking, Spsc
<1> QED
  BY <1>1, <1>2, <1>3, <1>4, <1>5 DEF Next, EnqStep, DeqStep

-----------------------------------------------------------------------------
(* The object implements the atomic queue.                                 *)

\* The k-th slot after m_head is an occupied one, for every k below the count,
\* and the slot after the last is m_tail.
LEMMA NthIsOccupied ==
  ASSUME m_head \in Slots, m_tail \in Slots
  PROVE  /\ \A k \in 1 .. Count(m_head, m_tail) : Nth(k - 1) \in Occupied
         /\ m_head # m_tail => Nth(0) = m_head
         /\ Nth(Count(m_head, m_tail)) = m_tail
BY SizeAssumption DEF Nth, Count, Occupied, InRange, Slots

\* The abstract queue is as long as size() says, and empty when the indices
\* are equal.
LEMMA ContentsLength ==
  ASSUME m_head \in Slots, m_tail \in Slots
  PROVE  /\ Len(Contents) = Count(m_head, m_tail)
         /\ Contents = <<>> <=> m_head = m_tail
BY CountBounds DEF Contents

\* A step that leaves the cells alone leaves the abstract queue alone.
LEMMA SameContents ==
  ASSUME m_head \in Slots, m_tail \in Slots, SameCells
  PROVE  Contents' = Contents
<1>1. \A k \in 1 .. Count(m_head, m_tail) : Cell(Nth(k - 1))' = Cell(Nth(k - 1))
  BY NthIsOccupied DEF SameCells, Nth
<1> QED
  BY <1>1 DEF Contents, SameCells

\* The write of m_tail (ringbuff.h:60) appends the item to the abstract queue.
LEMMA EnqueueContents ==
  ASSUME Spsc, IInv, NEW t \in Producers, EnqPublish(t)
  PROVE  Contents' = Append(Contents, item[t]) /\ Len(Contents) < Capacity
<1> DEFINE n == Count(m_head, m_tail)
<1>1. /\ m_head \in Slots /\ m_tail \in Slots /\ n \in 0 .. Size - 1
      /\ m_head' = m_head /\ m_tail' \in Slots
      /\ Count(m_head, m_tail') = n + 1
  BY EnqueueCells, GrowRange, CountBounds, SuccIsNext DEF IInv, TypeOK
<1>2. n + 1 \in 0 .. Size - 1
  BY <1>1, CountBounds
<1>3. \A k \in Nat : Nth(k)' = Nth(k)
  BY <1>1 DEF Nth
<1>4. \A k \in 1 .. n : Nth(k - 1) \in Occupied
  BY <1>1, NthIsOccupied
<1>5. \A k \in 1 .. n : Cell(Nth(k - 1))' = Cell(Nth(k - 1))
  <2> SUFFICES ASSUME NEW k \in 1 .. n PROVE Cell(Nth(k - 1))' = Cell(Nth(k - 1))
    OBVIOUS
  <2>1. \A s \in Occupied : Cell(s)' = Cell(s)
    BY EnqueueCells
  <2>2. PICK s \in Occupied : s = Nth(k - 1)
    BY <1>4
  <2>3. Nth(k - 1)' = s
    BY <1>1, <1>3, <2>2
  <2> QED
    BY <2>1, <2>2, <2>3 DEF Cell
<1>6. ASSUME NEW k \in Nat, k = n + 1 PROVE Cell(Nth(k - 1))' = item[t]
  <2>1. Nth(k - 1)' = m_tail
    BY <1>1, <1>3, <1>6, NthIsOccupied
  <2>2. PICK s \in Slots : s = m_tail
    BY <1>1
  <2>3. Cell(s)' = item[t]
    BY <2>2, EnqueueCells
  <2> QED
    BY <2>1, <2>2, <2>3 DEF Cell
<1>7. Contents' = [k \in 1 .. n + 1 |-> Cell(Nth(k - 1))']
  BY <1>1 DEF Contents
<1>8. Len(Contents) = n
  BY <1>1, ContentsLength
<1> HIDE DEF n
<1>9. Append(Contents, item[t])
        = [k \in 1 .. n + 1 |-> IF k = n + 1 THEN item[t] ELSE Contents[k]]
  BY <1>8
<1>10. \A k \in 1 .. n : Contents[k] = Cell(Nth(k - 1))
  BY DEF Contents, n
<1>11. n \in Nat
  BY <1>1
<1>12. \A k \in 1 .. n + 1 :
         Cell(Nth(k - 1))' = IF k = n + 1 THEN item[t] ELSE Contents[k]
  <2> SUFFICES ASSUME NEW k \in 1 .. n + 1
               PROVE  Cell(Nth(k - 1))' = IF k = n + 1 THEN item[t] ELSE Contents[k]
    OBVIOUS
  <2>1. CASE k = n + 1
    BY <1>6, <1>11, <2>1
  <2>2. CASE k # n + 1
    <3>1. k \in 1 .. n
      BY <1>11, <2>2
    <3> QED
      BY <1>5, <1>10, <2>2, <3>1
  <2> QED
    BY <2>1, <2>2
<1>13. Contents' = Append(Contents, item[t])
  BY <1>7, <1>9, <1>12
<1>14. Len(Contents) < Capacity
  BY <1>2, <1>8, <1>11, SizeAssumption DEF Capacity
<1> QED
  BY <1>13, <1>14

\* The write of m_head (ringbuff.h:88) takes the head of the abstract queue,
\* and it is the item that dequeue returns.
LEMMA DequeueContents ==
  ASSUME Spsc, IInv, NEW c \in Consumers, DeqAdvance(c)
  PROVE  Contents # <<>> /\ Contents' = Tail(Contents) /\ p[c] = Head(Contents)
<1> DEFINE n == Count(m_head, m_tail)
<1>1. /\ m_head \in Slots /\ m_tail \in Slots /\ n \in 0 .. Size - 1
      /\ m_head # m_tail /\ m_head' = Succ(m_head) /\ m_tail' = m_tail
      /\ m_head' \in Slots
      /\ Count(m_head', m_tail') = n - 1 /\ n # 0
  BY DequeueCells, ShrinkRange, CountBounds, SuccIsNext DEF IInv, TypeOK
<1>2. \A k \in 0 .. n - 1 : Nth(k)' = Nth(k + 1)
  BY <1>1, SuccIsNext, SizeAssumption DEF Nth, Slots
<1>3. \A k \in 1 .. n : Nth(k - 1) \in Occupied
  BY <1>1, NthIsOccupied
<1>4. \A k \in 1 .. n - 1 : Nth(k) # m_head
  BY <1>1, SizeAssumption DEF Nth, Slots
<1>5. \A k \in 1 .. n - 1 : Cell(Nth(k - 1))' = Cell(Nth(k))
  <2> SUFFICES ASSUME NEW k \in 1 .. n - 1 PROVE Cell(Nth(k - 1))' = Cell(Nth(k))
    OBVIOUS
  <2>1. k + 1 \in 1 .. n /\ k - 1 \in 0 .. n - 1 /\ (k + 1) - 1 = k /\ (k - 1) + 1 = k
    BY <1>1
  <2>2. Nth(k) \in Occupied /\ Nth(k) # m_head
    BY <1>3, <1>4, <2>1
  <2>3. PICK s \in Occupied' : s = Nth(k) /\ Cell(s)' = Cell(s)
    BY <2>2, DequeueCells
  <2>4. Nth(k - 1)' = s
    BY <1>2, <2>1, <2>3
  <2> QED
    BY <2>3, <2>4 DEF Cell
<1>6. Len(Contents) = n /\ Contents # <<>>
  BY <1>1, ContentsLength
<1>7. Head(Contents) = p[c]
  <2>1. Contents[1] = Cell(Nth(0))
    BY <1>1 DEF Contents
  <2> QED
    BY <1>1, <1>6, <2>1, NthIsOccupied, DequeueCells
<1>8. Contents' = [k \in 1 .. n - 1 |-> Cell(Nth(k - 1))']
  BY <1>1 DEF Contents
<1>9. \A k \in 1 .. n - 1 : Contents[k + 1] = Cell(Nth(k))
  BY <1>1 DEF Contents
<1>11. n \in Nat
  BY <1>1
<1> HIDE DEF n
<1>10. Tail(Contents) = [k \in 1 .. n - 1 |-> Contents[k + 1]]
  <2> DEFINE S == {Contents[k] : k \in 1 .. n}
  <2>1. Contents \in Seq(S)
    BY <1>1, <1>11 DEF Contents, n
  <2>2. /\ Tail(Contents) \in Seq(S) /\ Len(Tail(Contents)) = n - 1
        /\ \A i \in 1 .. n - 1 : Tail(Contents)[i] = Contents[i + 1]
    BY <1>6, <2>1, HeadTailProperties
  <2>3. Tail(Contents) \in [1 .. n - 1 -> S]
    BY <2>2, LenProperties
  <2> HIDE DEF S
  <2> QED
    BY <2>2, <2>3
<1> QED
  BY <1>5, <1>6, <1>7, <1>8, <1>9, <1>10

\* In the single-producer single-consumer use TRingbuffer implements an atomic
\* bounded FIFO queue of m_size - 1 items (ringbuff.h:46-98).
THEOREM RefinesQueue ==
  ASSUME Spsc
  PROVE  Spec => ImplementsQueue
<1>1. Init => Queue!Init
  <2> SUFFICES ASSUME Init PROVE Queue!Init
    OBVIOUS
  <2>1. Contents = <<>>
    BY ContentsLength, SizeAssumption DEF Init, Slots
  <2> QED
    BY <2>1 DEF Init, Queue!Init
<1>2. IInv /\ [Next]_vars => [Queue!Next]_(Queue!qvars)
  <2> SUFFICES ASSUME IInv, [Next]_vars PROVE [Queue!Next]_(Queue!qvars)
    OBVIOUS
  <2> USE DEF enqLocals, deqLocals
  <2>1. m_head \in Slots /\ m_tail \in Slots
    BY DEF IInv, TypeOK
  <2>2. ASSUME NEW t \in Producers, EnqPublish(t) PROVE Queue!Next
    <3>1. item[t] \in Items
      BY <2>2 DEF IInv, ProducerView, EnqPublish, InEnqueue
    <3>2. Queue!Enqueue(t, item[t])
      BY <2>2, EnqueueContents, EnqueueCells DEF Queue!Enqueue, EnqPublish
    <3> QED
      BY <3>1, <3>2 DEF Queue!Next
  <2>3. ASSUME NEW c \in Consumers, DeqAdvance(c) PROVE Queue!Next
    <3>1. Queue!Dequeue(c)
      BY <2>3, DequeueContents, DequeueCells DEF Queue!Dequeue, DeqAdvance
    <3> QED
      BY <3>1 DEF Queue!Next
  <2>4. CASE /\ \A t \in Producers : ~EnqPublish(t)
             /\ \A c \in Consumers : ~DeqAdvance(c)
    <3>1. Contents' = Contents
      BY <2>1, <2>4, OtherCells, SameContents
    <3>2. ASSUME NEW t \in Producers, EnqFull(t) PROVE Queue!Next
      <4>1. Count(m_head, m_tail) = Size - 1
        BY <2>1, <3>2, SuccIsNext, SizeAssumption
           DEF IInv, ProducerView, EnqFull, Count, Slots
      <4>2. Queue!Refuse(t)
        BY <2>1, <3>1, <3>2, <4>1, ContentsLength DEF EnqFull, Queue!Refuse, Capacity
      <4> QED
        BY <4>2 DEF Queue!Next
    <3>3. ASSUME NEW c \in Consumers, SizeIsZero(c) PROVE Queue!Next
      <4>1. Contents = <<>>
        BY <2>1, <3>3, CountBounds, ContentsLength DEF IInv, ConsumerView, SizeIsZero
      <4>2. Queue!FindEmpty(c)
        BY <3>1, <3>3, <4>1 DEF SizeIsZero, Queue!FindEmpty
      <4> QED
        BY <4>2 DEF Queue!Next
    <3>4. ASSUME NEW c \in Consumers, DeqReadTail(c) PROVE UNCHANGED deqRet
      <4>1. headOld[c] # m_tail
        BY <3>4 DEF IInv, ConsumerView, InDequeue, DeqReadTail
      <4> QED
        BY <3>4, <4>1 DEF IInv, TypeOK, DeqReadTail
    <3>5. CASE /\ \A t \in Producers : ~EnqFull(t)
               /\ \A c \in Consumers : ~SizeIsZero(c)
      <4>1. UNCHANGED <<enqRet, deqRet>>
        BY <2>4, <3>4, <3>5
           DEF Next, vars, EnqStep, DeqStep, EnqCall, EnqReadTail, EnqReadHead, EnqStore,
               Notify, SizeReadHead, DeqCall, CallDequeue, DeqReadHead, DeqReadSlot,
               DeqReadTail, DeqClear, Release, Hang
      <4> QED
        BY <3>1, <4>1 DEF Queue!qvars
    <3> QED
      BY <3>2, <3>3, <3>5
  <2> QED
    BY <2>2, <2>3, <2>4
<1> QED
  BY <1>1, <1>2, InductiveInvariant, PTL DEF Spec, ImplementsQueue, Queue!Spec

-----------------------------------------------------------------------------
(* Every object has exactly one owner.                                     *)

\* A step that leaves the cells alone leaves the range of occupied slots alone.
LEMMA SameOccupied == SameCells => Occupied' = Occupied
BY DEF SameCells, Occupied

\* No step of enqueue or dequeue, and no caller that deletes or forgets an object
\* (test_ringbuffer.C:36-40, 55-57, transaction.C:57, mptthreadpool.C:134), makes
\* another one lose its owner or gives it to two.
LEMMA StepOwner == Spsc /\ IInv /\ OneOwner /\ [Next]_vars => OneOwner'
<1> SUFFICES ASSUME Spsc, IInv, OneOwner, [Next]_vars PROVE OneOwner'
  OBVIOUS
<1> USE DEF TypeOK, object, enqLocals, deqLocals
<1>1. ASSUME NEW t \in Producers, EnqPublish(t) PROVE OneOwner'
  <2>1. /\ UNCHANGED <<item, cpc, deqRet, live, leaked>>
        /\ InEnqueue(t) /\ ~InEnqueue(t)'
        /\ \A u \in Producers : u = t
        /\ item[t] \in live
    BY <1>1 DEF EnqPublish, heap, InEnqueue, Spsc, IInv, OneOwner
  <2>2. PICK m \in Slots : m = m_tail
    BY DEF IInv
  <2>3. /\ m \notin Occupied /\ Occupied' = Occupied \cup {m}
        /\ \A s \in Occupied : Cell(s)' = Cell(s)
        /\ Cell(m)' = item[t]
    BY <1>1, <2>2, EnqueueCells
  <2>4. \A s \in Occupied : Cell(s) # item[t]
    BY <2>1 DEF OneOwner
  <2>5. \A s \in Occupied' : Cell(s)' \in live'
    BY <2>1, <2>3 DEF OneOwner
  <2>6. \A s, r \in Occupied' : Cell(s)' = Cell(r)' => s = r
    BY <2>3, <2>4 DEF OneOwner
  <2>7. \A c \in Consumers : cpc'[c] = "got" =>
          deqRet'[c] \in live' /\ \A s \in Occupied' : Cell(s)' # deqRet'[c]
    BY <2>1, <2>3 DEF OneOwner
  <2>8. \A i \in live : Owned(i)' <=> Owned(i)
    <3> SUFFICES ASSUME NEW i \in live PROVE Owned(i)' <=> Owned(i)
      OBVIOUS
    <3>1. (\E s \in Occupied' : Cell(s)' = i) <=> (\E s \in Occupied : Cell(s) = i) \/ item[t] = i
      BY <2>3
    <3>2. /\ (\E u \in Producers : InEnqueue(u) /\ item[u] = i) <=> item[t] = i
          /\ ~(\E u \in Producers : InEnqueue(u)' /\ item'[u] = i)
      BY <2>1
    <3> QED
      BY <2>1, <3>1, <3>2 DEF Owned
  <2> QED
    BY <2>1, <2>5, <2>6, <2>7, <2>8 DEF OneOwner
<1>2. ASSUME NEW c \in Consumers, DeqAdvance(c) PROVE OneOwner'
  <2>1. /\ UNCHANGED <<item, ppc, live, leaked>>
        /\ \A d \in Consumers : d = c /\ cpc[d] # "got"
        /\ cpc'[c] = "got" /\ deqRet'[c] = p[c]
    BY <1>2, DequeueCells DEF DeqAdvance, heap, Spsc, IInv
  <2>2. PICK m \in Occupied : m = m_head
    BY <1>2, DequeueCells
  <2>3. /\ Occupied' = Occupied \ {m} /\ Cell(m) = p[c]
        /\ \A s \in Occupied' : Cell(s)' = Cell(s)
    BY <1>2, <2>2, DequeueCells
  <2>4. /\ \A s \in Occupied' : Cell(s)' \in live'
        /\ \A s, r \in Occupied' : Cell(s)' = Cell(r)' => s = r
    BY <2>1, <2>3 DEF OneOwner
  <2>5. \A t \in Producers : InEnqueue(t)' =>
          /\ item'[t] \in live'
          /\ \A s \in Occupied' : Cell(s)' # item'[t]
          /\ deqRet'[c] # item'[t]
    BY <2>1, <2>3 DEF OneOwner, InEnqueue
  <2>6. deqRet'[c] \in live' /\ \A s \in Occupied' : Cell(s)' # deqRet'[c]
    BY <2>1, <2>3 DEF OneOwner
  <2>7. \A i \in live : Owned(i)' <=> Owned(i)
    <3> SUFFICES ASSUME NEW i \in live PROVE Owned(i)' <=> Owned(i)
      OBVIOUS
    <3>1. (\E s \in Occupied : Cell(s) = i) <=> (\E s \in Occupied' : Cell(s)' = i) \/ deqRet'[c] = i
      BY <2>1, <2>3
    <3>2. /\ (\E d \in Consumers : cpc'[d] = "got" /\ deqRet'[d] = i) <=> deqRet'[c] = i
          /\ ~(\E d \in Consumers : cpc[d] = "got" /\ deqRet[d] = i)
      BY <2>1
    <3> QED
      BY <2>1, <3>1, <3>2 DEF Owned, InEnqueue
  <2> QED
    BY <2>1, <2>4, <2>5, <2>6, <2>7 DEF OneOwner
<1>3. CASE /\ \A t \in Producers : ~EnqPublish(t)
           /\ \A c \in Consumers : ~DeqAdvance(c)
  <2>1. Occupied' = Occupied /\ \A s \in Occupied : Cell(s)' = Cell(s)
    BY <1>3, OtherCells, SameOccupied DEF SameCells
  <2>2. ASSUME NEW t \in Producers, EnqCall(t) PROVE OneOwner'
    <3>1. PICK i \in Items \ live : item' = [item EXCEPT ![t] = i] /\ live' = live \cup {i}
      BY <2>2 DEF EnqCall
    <3>2. /\ UNCHANGED <<cpc, deqRet>> /\ \A u \in Producers : u = t
          /\ ~InEnqueue(t) /\ InEnqueue(t)' /\ item'[t] = i
      BY <2>2, <3>1 DEF EnqCall, InEnqueue, Spsc, IInv
    <3>3. \A s \in Occupied : Cell(s) # i
      BY DEF OneOwner
    <3>4. \A j \in live \cup {i} : Owned(j)' <=> Owned(j) \/ j = i
      BY <2>1, <3>2 DEF Owned
    <3>5. leaked' = leaked /\ i \notin leaked
      BY <2>2 DEF EnqCall, OneOwner
    <3> QED
      BY <2>1, <3>1, <3>2, <3>3, <3>4, <3>5 DEF OneOwner
  <2>3. ASSUME NEW i, Free(i) \/ Leak(i), i \in live, Owned(i),
               \A j : Owned(j)' <=> Owned(j) /\ j # i
        PROVE  /\ live' \subseteq live /\ \A j \in live : j # i => j \in live'
               /\ leaked' \subseteq live' /\ \A j \in live' : Owned(j)' <=> j \notin leaked'
    BY <2>3 DEF Free, Leak, OneOwner
  <2>4. ASSUME NEW t \in Producers, EnqFull(t) PROVE OneOwner'
    <3>1. /\ UNCHANGED <<cpc, deqRet, item>> /\ \A u \in Producers : u = t
          /\ InEnqueue(t) /\ ~InEnqueue(t)' /\ (Free(item[t]) \/ Leak(item[t]))
      BY <2>4 DEF EnqFull, InEnqueue, Spsc, IInv
    <3>2. item[t] \in live /\ Owned(item[t])
      BY <3>1 DEF OneOwner, Owned
    <3>3. \A j : Owned(j)' <=> Owned(j) /\ j # item[t]
      BY <2>1, <3>1 DEF Owned, OneOwner
    <3>4. /\ \A j \in live : j # item[t] => j \in live'
          /\ leaked' \subseteq live' /\ \A j \in live' : Owned(j)' <=> j \notin leaked'
      BY <2>3, <3>1, <3>2, <3>3
    <3> QED
      BY <2>1, <3>1, <3>4 DEF OneOwner
  <2>5. ASSUME NEW c \in Consumers, cpc[c] = "got", Release(c) \/ Hang(c) PROVE OneOwner'
    <3>1. /\ UNCHANGED <<ppc, item, deqRet>> /\ \A d \in Consumers : d = c
          /\ cpc[c] = "got" /\ cpc'[c] # "got" /\ (Free(deqRet[c]) \/ Leak(deqRet[c]))
      BY <2>5 DEF Release, Hang, Spsc, IInv
    <3>2. deqRet[c] \in live /\ Owned(deqRet[c])
      BY <3>1 DEF OneOwner, Owned
    <3>3. \A j : Owned(j)' <=> Owned(j) /\ j # deqRet[c]
      BY <2>1, <3>1 DEF Owned, OneOwner, InEnqueue
    <3>4. /\ \A j \in live : j # deqRet[c] => j \in live'
          /\ leaked' \subseteq live' /\ \A j \in live' : Owned(j)' <=> j \notin leaked'
      BY <2>3, <3>1, <3>2, <3>3
    <3> QED
      BY <2>1, <3>1, <3>4 DEF OneOwner, InEnqueue
  <2>6. CASE /\ \A t \in Producers : ~EnqCall(t) /\ ~EnqFull(t)
             /\ \A c \in Consumers : ~(cpc[c] = "got" /\ (Release(c) \/ Hang(c)))
    <3>1. /\ UNCHANGED <<item, live, leaked>>
          /\ \A t \in Producers : InEnqueue(t)' <=> InEnqueue(t)
          /\ \A c \in Consumers : (cpc'[c] = "got" <=> cpc[c] = "got")
                                  /\ (cpc[c] = "got" => deqRet'[c] = deqRet[c])
      BY <1>3, <2>6
         DEF IInv, Next, vars, heap, EnqStep, DeqStep, EnqReadTail, EnqReadHead, EnqStore,
             Notify, SizeReadHead, SizeIsZero, DeqCall, CallDequeue, DeqReadHead, Release,
             Hang, DeqReadSlot, DeqReadTail, DeqClear, InEnqueue
    <3>2. \A i \in live : Owned(i)' <=> Owned(i)
      BY <2>1, <3>1 DEF Owned
    <3> QED
      BY <2>1, <3>1, <3>2 DEF OneOwner
  <2> QED
    BY <2>2, <2>4, <2>5, <2>6
<1> QED
  BY <1>1, <1>2, <1>3

\* In the single-producer single-consumer use no object is queued, given or deleted
\* twice, and only a caller can forget one: in a transaction's queue every event that
\* was refused or used is leaked (socketpool.C:172, 216, transaction.C:57, 78), in a
\* worker's those refused and the one it hangs with (manager.C:182).
THEOREM EveryObjectHasOneOwner ==
  ASSUME Spsc
  PROVE  Spec => []OneOwner
<1>1. Init => OneOwner
  BY SizeAssumption DEF Init, OneOwner, Owned, Occupied, InRange, InEnqueue, Slots
<1>2. IInv /\ OneOwner /\ [Next]_vars => OneOwner'
  BY StepOwner
<1> QED
  BY <1>1, <1>2, InductiveInvariant, PTL DEF Spec
=============================================================================
