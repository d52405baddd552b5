---------------------------- MODULE TimeoutQueue ----------------------------
(***************************************************************************)
(* The list of pending timeouts (timeoutqueue.C): enTqueue, which suprecv  *)
(* (tcpstep.C) calls in each worker; the thread loop() would start, which  *)
(* reads the list without the mutex; deTqueue, which only that thread and  *)
(* the destructor call.  The program itself never calls loop().            *)
(***************************************************************************)
EXTENDS Integers, Sequences, FiniteSets

CONSTANTS Receives, \* receive steps, each with its TimeoutNode
          Timers,   \* m_timer of a step
          Latest,   \* bound: the time the clock reaches
          Nobody

Null == "NULL"
Unset == "unset"  \* a member no one has assigned

ASSUME QueueAssumption ==
  Timers \subseteq Nat /\ Latest \in Nat /\ {Null, Unset, Nobody} \cap Receives = {}

VARIABLES
  clock,
  m_node,   \* the head of the list
  nodes,    \* TimeoutNode of each receive: m_time, m_next, m_parent; Unset before it is made
  count,    \* size
  mutex,    \* who holds m_tmutex
  published,\* the node enTqueue has put at the head but not yet ended
  arrived,  \* history: the nodes in the order they came
  freed,    \* nodes deTqueue has deleted
  told,     \* receive steps whose transaction has the one delayEvent in its queue
  nowtime,  \* of the walk
  walk,     \* the node the walk stands on
  broken    \* a freed node, or a member no one has assigned, has been read

queueVars == <<clock, m_node, nodes, count, mutex, published, arrived, freed, told, nowtime, walk, broken>>

QueueInit ==
  /\ clock = 0 /\ m_node = Null /\ count = 0 /\ mutex = Nobody /\ published = FALSE
  /\ nodes = [r \in Receives |-> [m_time |-> 0, m_next |-> Unset, m_parent |-> Unset]]
  /\ arrived = <<>> /\ freed = {} /\ told = {} /\ nowtime = 0 /\ walk = Null /\ broken = FALSE

Tick == /\ clock < Latest /\ clock' = clock + 1
        /\ UNCHANGED <<m_node, nodes, count, mutex, published, arrived, freed, told, nowtime, walk, broken>>

CameIn == {arrived[i] : i \in DOMAIN arrived}

\* Mutant: the mutex is not taken.
BugUnlockedNever(r) == TRUE

\* suprecv makes the node, and enTqueue takes the mutex and counts it.
Unlocked(r) == mutex = Nobody

EnterQueue(r) ==
  /\ Unlocked(r) /\ r \notin CameIn
  /\ \E timer \in Timers : nodes' = [nodes EXCEPT ![r].m_time = clock + timer]
  /\ mutex' = r
  /\ count' = count + 1
  /\ arrived' = Append(arrived, r)
  /\ UNCHANGED <<clock, m_node, published, freed, told, nowtime, walk, broken>>

\* The first node is at the head before its links are written,
PublishFirst(r) ==
  /\ mutex = r /\ m_node = Null /\ ~published
  /\ m_node' = r
  /\ published' = TRUE
  /\ UNCHANGED <<clock, nodes, count, mutex, arrived, freed, told, nowtime, walk, broken>>

LinkFirst(r) ==
  /\ mutex = r /\ published
  /\ nodes' = [nodes EXCEPT ![r].m_parent = Null, ![r].m_next = Null]
  /\ published' = FALSE
  /\ mutex' = Nobody
  /\ UNCHANGED <<clock, m_node, count, arrived, freed, told, nowtime, walk, broken>>

\* the others after; the head may have been deleted, as deTqueue leaves m_node alone.
LinkBefore(r) ==
  /\ mutex = r /\ m_node # Null /\ ~published
  /\ nodes' = [nodes EXCEPT ![m_node].m_parent = r, ![r].m_next = m_node, ![r].m_parent = Null]
  /\ m_node' = r
  /\ broken' = (broken \/ m_node \in freed)
  /\ mutex' = Nobody
  /\ UNCHANGED <<clock, count, published, arrived, freed, told, nowtime, walk>>

(***************************************************************************)
(* lookuptime, which times out what is NOT yet due, and deTqueue.          *)
(***************************************************************************)
StartWalk ==
  /\ walk = Null /\ count > 0
  /\ nowtime' = clock
  /\ walk' = m_node
  /\ UNCHANGED <<clock, m_node, nodes, count, mutex, published, arrived, freed, told, broken>>

NotDue(r) == nodes[r].m_time >= nowtime

\* On to m_next; of a node deleted under the walk, or just published, there is none.
StepOn ==
  /\ walk # Null /\ ~NotDue(walk)
  /\ IF walk \in freed \/ nodes[walk].m_next = Unset
       THEN broken' = TRUE /\ walk' = walk
       ELSE broken' = broken /\ walk' = nodes[walk].m_next
  /\ UNCHANGED <<clock, m_node, nodes, count, mutex, published, arrived, freed, told, nowtime>>

\* deTqueue: the neighbours are linked to each other, m_node stays.
Unlinked(r) ==
  LET up == nodes[r].m_parent
      down == nodes[r].m_next
  IN [n \in Receives |-> [m_time   |-> nodes[n].m_time,
                          m_next   |-> IF n = up THEN down ELSE nodes[n].m_next,
                          m_parent |-> IF n = down THEN up ELSE nodes[n].m_parent]]

\* After it the walk, or the destructor, reads m_next of what has been deleted.
TimeOut ==
  /\ walk # Null /\ NotDue(walk) /\ mutex = Nobody
  /\ told' = told \cup {walk}
  /\ nodes' = Unlinked(walk)
  /\ freed' = freed \cup {walk}
  /\ count' = count - 1
  /\ broken' = TRUE
  /\ UNCHANGED <<clock, m_node, mutex, published, arrived, nowtime, walk>>

QueueNext ==
  /\ ~broken
  /\ \/ Tick
     \/ \E r \in Receives : EnterQueue(r) \/ PublishFirst(r) \/ LinkFirst(r) \/ LinkBefore(r)
     \/ StartWalk
     \/ StepOn
     \/ TimeOut

QueueSpec == QueueInit /\ [][QueueNext]_queueVars

-----------------------------------------------------------------------------
Waiting == CameIn \ freed

\* The nodes that came in i-th and j-th wait, and none of those between them.
Adjacent(i, j) ==
  /\ i < j /\ arrived[i] \in Waiting /\ arrived[j] \in Waiting
  /\ \A k \in i + 1 .. j - 1 : arrived[k] \notin Waiting

Behind(a, b) == nodes[b].m_next = a /\ nodes[a].m_parent = b

OldestWaiting(i) == arrived[i] \in Waiting /\ \A k \in 1 .. i - 1 : arrived[k] \notin Waiting
NewestWaiting(i) ==
  arrived[i] \in Waiting /\ \A k \in i + 1 .. Len(arrived) : arrived[k] \notin Waiting

\* Whenever the mutex is free the list holds the nodes that are waiting, the last to
\* come first, linked both ways, and size counts them; and at the first timeout all of
\* that still holds but for m_node, when the node that goes was the head.
ListSound ==
  mutex = Nobody =>
    /\ count = Cardinality(Waiting)
    /\ \A i, j \in DOMAIN arrived : Adjacent(i, j) => Behind(arrived[i], arrived[j])
    /\ \A i \in DOMAIN arrived :
         /\ OldestWaiting(i) => nodes[arrived[i]].m_next = Null
         /\ NewestWaiting(i) => nodes[arrived[i]].m_parent = Null
    /\ m_node = IF arrived = <<>> THEN Null ELSE arrived[Len(arrived)]
=============================================================================
