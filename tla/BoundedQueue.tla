---------------------------- MODULE BoundedQueue ----------------------------
(***************************************************************************)
(* What TRingbuffer promises to the code that uses it: a FIFO queue of     *)
(* bounded capacity, each call of which takes effect at one instant and    *)
(* reports what it did.                                                    *)
(***************************************************************************)
EXTENDS Naturals, Sequences

CONSTANTS Producers, Consumers,   \* the threads that call enqueue / dequeue
          Items,                  \* what is queued (pointers to events)
          NULL,                   \* what dequeue returns when there is none
          Capacity                \* number of items the queue holds

VARIABLES queue,                  \* the queued items, oldest first
          enqRet,                 \* value returned by the last enqueue of a thread
          deqRet                  \* value returned by the last dequeue of a thread

qvars == <<queue, enqRet, deqRet>>

Init ==
  /\ queue = <<>>
  /\ enqRet = [p \in Producers |-> FALSE]
  /\ deqRet = [c \in Consumers |-> NULL]

Enqueue(p, item) ==
  /\ Len(queue) < Capacity
  /\ queue' = Append(queue, item)
  /\ enqRet' = [enqRet EXCEPT ![p] = TRUE]
  /\ UNCHANGED deqRet

Refuse(p) ==
  /\ Len(queue) = Capacity
  /\ enqRet' = [enqRet EXCEPT ![p] = FALSE]
  /\ UNCHANGED <<queue, deqRet>>

Dequeue(c) ==
  /\ queue # <<>>
  /\ queue' = Tail(queue)
  /\ deqRet' = [deqRet EXCEPT ![c] = Head(queue)]
  /\ UNCHANGED enqRet

FindEmpty(c) ==
  /\ queue = <<>>
  /\ deqRet' = [deqRet EXCEPT ![c] = NULL]
  /\ UNCHANGED <<queue, enqRet>>

Next ==
  \/ \E p \in Producers : Refuse(p) \/ \E item \in Items : Enqueue(p, item)
  \/ \E c \in Consumers : Dequeue(c) \/ FindEmpty(c)

Spec == Init /\ [][Next]_qvars
=============================================================================
