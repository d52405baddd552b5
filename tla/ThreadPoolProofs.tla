-------------------------- MODULE ThreadPoolProofs --------------------------
(***************************************************************************)
(* What ThreadPool promises for any number of workers and tests, any plans *)
(* and any capacity of the queues.  IInv is proved inductive a conjunct at a *)
(* time (StepType, StepBytes, StepOrder, StepCounts, StepConnections), each *)
(* from itself and the ones before it.                                     *)
(***************************************************************************)
EXTENDS ThreadPool, SequenceTheorems, TLAPS

USE DEF Busy

\* What enqueueing does to a worker's queue (mptthreadpool.C:91).
LEMMA QueueAppend ==
  ASSUME NEW q \in Seq(Tests), NEW x \in Tests
  PROVE  /\ Append(q, x) \in Seq(Tests) /\ Len(Append(q, x)) = Len(q) + 1
         /\ \A a \in 1 .. Len(q) : Append(q, x)[a] = q[a]
         /\ Append(q, x)[Len(q) + 1] = x
         /\ Len(q) \in Nat
BY AppendProperties, LenProperties

\* What dequeueing does to it (mptthreadpool.C:122).
LEMMA QueueTail ==
  ASSUME NEW q \in Seq(Tests), q # <<>>
  PROVE  /\ Head(q) = q[1] /\ Head(q) \in Tests
         /\ Tail(q) \in Seq(Tests) /\ Len(Tail(q)) = Len(q) - 1
         /\ \A a \in 1 .. Len(q) - 1 : Tail(q)[a] = q[a + 1]
         /\ Len(q) \in Nat \ {0}
BY HeadTailProperties, LenProperties, EmptySeq

\* What runTask makes of a task that goes on is a task (mptthreadpool.C:222-237).
LEMMA RunTaskTypes ==
  ASSUME NEW t \in TaskType, GoesOn(t)
  PROVE  /\ NewTasks(t) \in Nat
         /\ [t EXCEPT !.nCount = @ + NewTasks(t), !.duration = @ + 1] \in TaskType
<1>1. NewTasks(t) \in Nat
  BY DEF GoesOn, NewTasks, TaskType
<1> DEFINE n == t.nCount + NewTasks(t)
           d == t.duration + 1
<1>2. n \in Nat /\ d \in Nat
  BY <1>1 DEF TaskType
<1> HIDE DEF n, d
<1>3. [t EXCEPT !.nCount = n, !.duration = d] \in TaskType
  BY <1>2 DEF TaskType
<1> QED
  BY <1>1, <1>3 DEF n, d

\* The task made of a TCmdStartEvent is a task (mptthreadpool.C:193-201).
LEMMA FreshTaskTypes ==
  ASSUME TypeOK, NEW k \in Tests
  PROVE  [test |-> k, tps |-> plan[k].tps, total |-> plan[k].total,
          duration |-> plan[k].duration, nCount |-> 0, nSecs |-> 0] \in TaskType
<1>1. plan[k] \in [tps : Nat \ {0}, total : Nat, duration : Nat]
  BY PlanAssumption DEF TypeOK
<1> QED
  BY <1>1 DEF TaskType

\* The state before the first request has the right types.
LEMMA InitType == Init => TypeOK
<1> SUFFICES ASSUME Init PROVE TypeOK
  OBVIOUS
<1>1. NoTask \in TaskType
  BY DEF NoTask, TaskType
<1>2. <<>> \in Seq(Tests)
  BY EmptySeq
<1>3. 0 \in Workers /\ None \in Tests \cup {None} /\ None = 0
  BY PoolAssumption DEF Workers, None
<1> QED
  BY <1>1, <1>2, <1>3 DEF Init, TypeOK

\* Where the manager's loops over the workers go (manager.C:147, 165, 178).
LEMMA NextWorkerTypes ==
  ASSUME TypeOK, NEW x, NEW y, NextWorker(x, y)
  PROVE  i' \in Workers /\ mpc' \in {x, y}
<1>1. i \in Nat /\ 0 \in Workers
  BY PoolAssumption DEF TypeOK, Workers
<1>2. i + 1 < NWorkers => i + 1 \in Workers
  BY <1>1, PoolAssumption DEF Workers
<1> QED
  BY <1>1, <1>2 DEF NextWorker

\* runTask concerns one worker only, keeps its test and total, and the types
\* (mptthreadpool.C:220-240).
LEMMA RunTaskStep ==
  ASSUME TypeOK, NEW w \in Workers, NEW t \in TaskType, NEW b \in BOOLEAN,
         RunTask(w, t, b)
  PROVE  /\ task' \in [Workers -> TaskType] /\ timer' \in [Workers -> BOOLEAN]
         /\ left' \in [Workers -> Nat]
         /\ wpc' \in [Workers -> {"loop", "dequeue", "dispatch", "run", "hung"}]
         /\ task'[w].test = t.test /\ task'[w].total = t.total
         /\ \A v \in Workers \ {w} : UNCHANGED <<task[v], timer[v], wpc[v], left[v]>>
<1>1. CASE GoesOn(t)
  <2> DEFINE u == [t EXCEPT !.nCount = @ + NewTasks(t), !.duration = @ + 1]
  <2>1. u \in TaskType /\ NewTasks(t) \in Nat /\ u.test = t.test /\ u.total = t.total
    BY <1>1, RunTaskTypes DEF TaskType
  <2>2. task' = [task EXCEPT ![w] = u]
    BY <1>1 DEF RunTask
  <2> HIDE DEF u
  <2> QED
    BY <1>1, <2>1, <2>2 DEF RunTask, TypeOK
<1>2. CASE ~GoesOn(t)
  BY <1>2 DEF RunTask, TypeOK
<1> QED
  BY <1>1, <1>2

\* Every step keeps the types, and a worker that runs or waits has a test: only
\* startTask lets runTask begin (mptthreadpool.C:124-127, 193-208).
LEMMA StepType == TypeOK /\ BusyHasTest /\ [Next]_vars => TypeOK' /\ BusyHasTest'
<1> SUFFICES ASSUME TypeOK, BusyHasTest, [Next]_vars PROVE TypeOK' /\ BusyHasTest'
  OBVIOUS
<1> USE DEF mvars, wvars, None
<1>0. \A k \in Tests : k # None
  BY DEF Tests
<1>1. ASSUME NewTest PROVE TypeOK' /\ BusyHasTest'
  <2>1. test' \in Tests
    BY <1>1, PoolAssumption DEF NewTest, Tests, TypeOK
  <2>2. i' \in Workers
    BY <1>1, PoolAssumption DEF NewTest, Workers
  <2>3. TypeOK'
    BY <1>1, <2>1, <2>2 DEF NewTest, TypeOK
  <2>4. BusyHasTest'
    BY <1>0, <1>1, <2>1 DEF NewTest, BusyHasTest
  <2> QED
    BY <2>3, <2>4
<1>2. ASSUME Connect \/ OrderRefused PROVE TypeOK' /\ BusyHasTest'
  <2>1. i' \in Workers /\ mpc' \in {"connect", "order", "idle"} /\ mpc # "idle"
    BY <1>2, NextWorkerTypes DEF Connect, OrderRefused
  <2>2. TypeOK'
    BY <1>2, <2>1 DEF Connect, OrderRefused, TypeOK
  <2>3. BusyHasTest'
    BY <1>2, <2>1 DEF Connect, OrderRefused, BusyHasTest
  <2> QED
    BY <2>2, <2>3
<1>3. ASSUME OrderEnqueue PROVE TypeOK' /\ BusyHasTest'
  <2>1. test \in Tests
    BY <1>3 DEF OrderEnqueue, BusyHasTest, TypeOK
  <2>2. Append(queue[i], test) \in Seq(Tests)
    BY <2>1, QueueAppend DEF TypeOK
  <2>3. queue' \in [Workers -> Seq(Tests)]
    BY <1>3, <2>2 DEF OrderEnqueue, TypeOK
  <2> QED
    BY <1>3, <2>3 DEF OrderEnqueue, TypeOK, BusyHasTest
<1>4. ASSUME OrderNotify PROVE TypeOK' /\ BusyHasTest'
  <2>1. i' \in Workers /\ mpc' \in {"order", "idle"} /\ mpc # "idle"
    BY <1>4, NextWorkerTypes DEF OrderNotify
  <2>2. bytes' \in [Workers -> Nat]
    <3>1. bytes' = bytes \/ bytes' = [bytes EXCEPT ![i] = bytes[i] + 1]
      BY <1>4 DEF OrderNotify
    <3>2. bytes[i] + 1 \in Nat
      BY DEF TypeOK
    <3> QED
      BY <3>1, <3>2 DEF TypeOK
  <2> QED
    BY <1>4, <2>1, <2>2 DEF OrderNotify, TypeOK, BusyHasTest
<1>5. ASSUME NEW w \in Workers, ReadByte(w) PROVE TypeOK' /\ BusyHasTest'
  BY <1>5, SMTT(30) DEF ReadByte, TypeOK, BusyHasTest
<1>6. ASSUME NEW w \in Workers, Dequeue(w) PROVE TypeOK' /\ BusyHasTest'
  <2>1. queue' \in [Workers -> Seq(Tests)] /\ cmd' \in [Workers -> Tests \cup {None}]
    <3>1. queue[w] # <<>> => Head(queue[w]) \in Tests /\ Tail(queue[w]) \in Seq(Tests)
      BY QueueTail DEF TypeOK
    <3> QED
      BY <1>6, <3>1 DEF Dequeue, TypeOK
  <2> QED
    BY <1>6, <2>1 DEF Dequeue, TypeOK, BusyHasTest
<1>7. ASSUME NEW w \in Workers, StartTask(w) PROVE TypeOK' /\ BusyHasTest'
  <2>1. cmd[w] \in Tests
    BY <1>7 DEF StartTask, TypeOK
  <2> DEFINE t == [test |-> cmd[w], tps |-> plan[cmd[w]].tps,
                   total |-> plan[cmd[w]].total, duration |-> plan[cmd[w]].duration,
                   nCount |-> 0, nSecs |-> 0]
  <2>2. t \in TaskType /\ t.test = cmd[w] /\ RunTask(w, t, timer[w])
    BY <1>7, <2>1, FreshTaskTypes DEF StartTask
  <2> HIDE DEF t
  <2>3. timer[w] \in BOOLEAN
    BY DEF TypeOK
  <2>4. TypeOK'
    BY <1>7, <2>2, <2>3, RunTaskStep DEF StartTask, TypeOK
  <2>5. task'[w].test # None
    BY <1>0, <2>1, <2>2, <2>3, RunTaskStep
  <2>6. BusyHasTest'
    BY <1>7, <2>2, <2>3, <2>5, RunTaskStep DEF StartTask, BusyHasTest
  <2> QED
    BY <2>4, <2>6
<1>8. ASSUME NEW w \in Workers, Tick(w) PROVE TypeOK' /\ BusyHasTest'
  <2>1. task[w] \in TaskType /\ RunTask(w, task[w], FALSE) /\ task[w].test # None
    BY <1>8 DEF Tick, TypeOK, BusyHasTest
  <2>2. TypeOK'
    BY <1>8, <2>1, RunTaskStep DEF Tick, TypeOK
  <2>3. BusyHasTest'
    <3>1. /\ task'[w].test = task[w].test /\ task'[w].total = task[w].total
          /\ \A v \in Workers \ {w} : UNCHANGED <<task[v], timer[v], wpc[v], left[v]>>
      BY <2>1, RunTaskStep
    <3> QED
      BY <1>8, <2>1, <3>1 DEF Tick, BusyHasTest
  <2> QED
    BY <2>2, <2>3
<1>9. ASSUME NEW w \in Workers, RunTransaction(w) PROVE TypeOK' /\ BusyHasTest'
  <2>1. task[w].test \in Tests /\ ran[w] \in [Tests -> Nat]
    BY <1>9 DEF RunTransaction, BusyHasTest, TypeOK, TaskType
  <2>2. ran' \in [Workers -> [Tests -> Nat]]
    BY <1>9, <2>1, SMTT(30) DEF RunTransaction, TypeOK
  <2> QED
    <3>1. left' \in [Workers -> Nat]
      BY <1>9 DEF RunTransaction, TypeOK
    <3> QED
      BY <1>9, <2>2, <3>1 DEF RunTransaction, TypeOK, BusyHasTest
<1>10. ASSUME NEW w \in Workers, ArmTimer(w) PROVE TypeOK' /\ BusyHasTest'
  BY <1>10 DEF ArmTimer, TypeOK, BusyHasTest
<1>12. ASSUME NEW w \in Workers, Hang(w) PROVE TypeOK' /\ BusyHasTest'
  BY <1>12 DEF Hang, TypeOK, BusyHasTest
<1>11. CASE UNCHANGED vars
  BY <1>11 DEF vars, TypeOK, BusyHasTest
<1> QED
  BY <1>12, <1>1, <1>2, <1>3, <1>4, <1>5, <1>6, <1>7, <1>8, <1>9, <1>10, <1>11
     DEF Next, ManagerStep, Worker
-----------------------------------------------------------------------------
(* What each step leaves alone, and what it does to the worker it is about *)

\* A step of a worker changes nothing of the manager, of cps_map or of another
\* worker: each has its own TThreadData (mptthreadpool.h:46-62).
LEMMA WorkerFrame ==
  ASSUME TypeOK, NEW w \in Workers, Worker(w)
  PROVE  /\ UNCHANGED <<mvars, conn>>
         /\ \A v \in Workers \ {w} :
              UNCHANGED <<queue[v], bytes[v], wpc[v], cmd[v], task[v], timer[v],
                          left[v], ran[v]>>
<1> USE DEF TypeOK, mvars
<1>1. CASE ReadByte(w)
  BY <1>1 DEF ReadByte
<1>2. CASE Dequeue(w)
  BY <1>2 DEF Dequeue
<1>3. CASE StartTask(w)
  BY <1>3 DEF StartTask, RunTask
<1>4. CASE Tick(w)
  BY <1>4 DEF Tick, RunTask
<1>5. CASE RunTransaction(w)
  BY <1>5 DEF RunTransaction
<1>6. CASE ArmTimer(w)
  BY <1>6 DEF ArmTimer
<1>7. CASE Hang(w)
  BY <1>7 DEF Hang
<1> QED
  BY <1>1, <1>2, <1>3, <1>4, <1>5, <1>6, <1>7 DEF Worker

\* order() adds one event to the queue of one worker (mptthreadpool.C:91).
LEMMA EnqueueEffect ==
  ASSUME TypeOK, BusyHasTest, OrderEnqueue
  PROVE  /\ test \in Tests /\ i \in Workers
         /\ \A v \in Workers \ {i} : queue'[v] = queue[v]
         /\ Len(queue[i]) \in Nat /\ Len(queue'[i]) = Len(queue[i]) + 1
         /\ \A a \in 1 .. Len(queue[i]) : queue'[i][a] = queue[i][a]
         /\ queue'[i][Len(queue[i]) + 1] = test
<1>1. test \in Tests /\ i \in Workers /\ queue[i] \in Seq(Tests)
  BY DEF OrderEnqueue, BusyHasTest, TypeOK
<1>2. queue'[i] = Append(queue[i], test)
  BY <1>1 DEF OrderEnqueue, TypeOK
<1> QED
  BY <1>1, <1>2, QueueAppend DEF OrderEnqueue, TypeOK

\* A worker that finds its queue non-empty takes the oldest event
\* (mptthreadpool.C:122).
LEMMA DequeueEffect ==
  ASSUME TypeOK, NEW w \in Workers, Dequeue(w), queue[w] # <<>>
  PROVE  /\ cmd'[w] = queue[w][1] /\ cmd'[w] \in Tests
         /\ Len(queue[w]) \in Nat \ {0} /\ Len(queue'[w]) = Len(queue[w]) - 1
         /\ \A a \in 1 .. Len(queue[w]) - 1 : queue'[w][a] = queue[w][a + 1]
         /\ wpc[w] = "dequeue" /\ wpc'[w] = "dispatch"
         /\ UNCHANGED <<bytes, task, timer, left, ran>>
<1>1. queue[w] \in Seq(Tests)
  BY DEF TypeOK
<1>2. cmd'[w] = Head(queue[w]) /\ queue'[w] = Tail(queue[w])
  BY DEF Dequeue, TypeOK
<1>3. wpc[w] = "dequeue" /\ wpc'[w] = "dispatch"
  BY DEF Dequeue, TypeOK
<1> QED
  BY <1>1, <1>2, <1>3, QueueTail DEF Dequeue

\* startTask replaces the worker's task by that of the event
\* (mptthreadpool.C:193-208).
LEMMA StartEffect ==
  ASSUME TypeOK, NEW w \in Workers, StartTask(w)
  PROVE  /\ cmd[w] \in Tests /\ task'[w].test = cmd[w]
         /\ task'[w].total = plan[cmd[w]].total
         /\ wpc[w] = "dispatch" /\ wpc'[w] \in {"loop", "run"}
         /\ UNCHANGED <<queue, bytes, ran, cmd>>
<1>1. cmd[w] \in Tests /\ timer[w] \in BOOLEAN
  BY DEF StartTask, TypeOK
<1> DEFINE t == [test |-> cmd[w], tps |-> plan[cmd[w]].tps,
                 total |-> plan[cmd[w]].total, duration |-> plan[cmd[w]].duration,
                 nCount |-> 0, nSecs |-> 0]
<1>2. t \in TaskType /\ t.test = cmd[w] /\ t.total = plan[cmd[w]].total
      /\ RunTask(w, t, timer[w])
  BY <1>1, FreshTaskTypes DEF StartTask
<1> HIDE DEF t
<1>3. task'[w].test = t.test /\ task'[w].total = t.total
  BY <1>1, <1>2, RunTaskStep
<1>4. wpc'[w] \in {"loop", "run"}
  BY <1>2 DEF RunTask, TypeOK
<1> QED
  BY <1>1, <1>2, <1>3, <1>4 DEF StartTask

\* time_cb goes on with the task the worker has (mptthreadpool.C:144-158).
LEMMA TickEffect ==
  ASSUME TypeOK, NEW w \in Workers, Tick(w)
  PROVE  /\ task'[w].test = task[w].test /\ task'[w].total = task[w].total
         /\ wpc[w] = "loop" /\ wpc'[w] \in {"loop", "run"} /\ timer[w] /\ ~timer'[w]
         /\ UNCHANGED <<queue, bytes, ran, cmd>>
<1>1. task[w] \in TaskType /\ RunTask(w, task[w], FALSE)
  BY DEF Tick, TypeOK
<1>2. task'[w].test = task[w].test /\ task'[w].total = task[w].total
  BY <1>1, RunTaskStep
<1>3. wpc'[w] \in {"loop", "run"} /\ ~timer'[w]
  BY <1>1 DEF RunTask, TypeOK
<1> QED
  BY <1>2, <1>3 DEF Tick
-----------------------------------------------------------------------------
(* The bytes in a pipe and the events in a queue.                          *)

\* A byte is written after its event is queued and read before one is taken, so
\* no step makes the bytes outnumber the events (mptthreadpool.C:91-93, 116-122).
LEMMA StepBytes ==
  TypeOK /\ BusyHasTest /\ BytesHaveEvents /\ NeverNull /\ [Next]_vars
    => BytesHaveEvents' /\ NeverNull'
<1> SUFFICES ASSUME TypeOK, BusyHasTest, BytesHaveEvents, NeverNull, [Next]_vars
             PROVE  BytesHaveEvents' /\ NeverNull'
  OBVIOUS
<1>0. \A v \in Workers : bytes[v] \in Nat /\ Len(queue[v]) \in Nat
  BY LenProperties DEF TypeOK
<1>1. ASSUME NewTest \/ Connect \/ OrderRefused PROVE BytesHaveEvents' /\ NeverNull'
  <2>1. mpc' # "notify" /\ UNCHANGED <<queue, bytes, wpc, cmd>>
    BY <1>1 DEF NewTest, Connect, OrderRefused, NextWorker, wvars
  <2> QED
    BY <1>0, <2>1 DEF BytesHaveEvents, NeverNull
<1>2. ASSUME OrderEnqueue PROVE BytesHaveEvents' /\ NeverNull'
  <2>1. mpc # "notify" /\ mpc' = "notify" /\ UNCHANGED <<i, bytes, wpc, cmd>>
    BY <1>2 DEF OrderEnqueue, wvars
  <2> QED
    BY <1>0, <1>2, <2>1, EnqueueEffect DEF BytesHaveEvents, NeverNull
<1>3. ASSUME OrderNotify PROVE BytesHaveEvents' /\ NeverNull'
  <2>1. /\ mpc = "notify" /\ mpc' # "notify" /\ UNCHANGED <<queue, wpc, cmd>>
        /\ i \in Workers
    BY <1>3 DEF OrderNotify, NextWorker, wvars, TypeOK
  <2>2. /\ bytes'[i] <= bytes[i] + 1 /\ bytes'[i] \in Nat
        /\ \A v \in Workers \ {i} : bytes'[v] = bytes[v]
    <3>1. bytes' = bytes \/ bytes' = [bytes EXCEPT ![i] = bytes[i] + 1]
      BY <1>3 DEF OrderNotify
    <3> QED
      BY <1>0, <2>1, <3>1 DEF TypeOK
  <2> QED
    BY <1>0, <2>1, <2>2 DEF BytesHaveEvents, NeverNull
<1>4. ASSUME NEW w \in Workers, ReadByte(w) PROVE BytesHaveEvents' /\ NeverNull'
  <2>1. /\ UNCHANGED <<mpc, i, queue, cmd>>
        /\ wpc[w] = "loop" /\ wpc'[w] = "dequeue" /\ bytes'[w] = bytes[w] - 1
        /\ \A v \in Workers \ {w} : bytes'[v] = bytes[v] /\ wpc'[v] = wpc[v]
    BY <1>4 DEF ReadByte, TypeOK, mvars
  <2> QED
    BY <1>0, <2>1 DEF BytesHaveEvents, NeverNull
<1>5. ASSUME NEW w \in Workers, Dequeue(w) PROVE BytesHaveEvents' /\ NeverNull'
  <2>1. Len(queue[w]) > 0
    BY <1>0, <1>5 DEF BytesHaveEvents, Dequeue
  <2>2. queue[w] # <<>>
    BY <2>1
  <2>3. cmd'[w] # None
    BY <1>5, <2>2, DequeueEffect DEF Tests, None
  <2>4. UNCHANGED <<mpc, i>> /\ \A v \in Workers \ {w} :
          UNCHANGED <<queue[v], wpc[v], cmd[v]>>
    BY <1>5, WorkerFrame DEF Worker, mvars
  <2> QED
    BY <1>0, <1>5, <2>2, <2>3, <2>4, DequeueEffect, SMTT(30) DEF BytesHaveEvents, NeverNull
<1>6. ASSUME NEW w \in Workers, \/ StartTask(w) \/ Tick(w) \/ RunTransaction(w)
                                \/ Hang(w) \/ ArmTimer(w)
      PROVE  BytesHaveEvents' /\ NeverNull'
  <2>1. Worker(w)
    BY <1>6 DEF Worker
  <2>2. UNCHANGED <<mpc, i>> /\ \A v \in Workers \ {w} : wpc'[v] = wpc[v] /\ cmd'[v] = cmd[v]
    BY <2>1, WorkerFrame DEF mvars
  <2>3. /\ UNCHANGED <<queue, bytes>>
        /\ wpc'[w] \in {"loop", "run", "hung"} /\ wpc[w] # "dequeue"
    <3>1. CASE StartTask(w)
      BY <3>1, StartEffect
    <3>2. CASE Tick(w)
      BY <3>2, TickEffect
    <3>3. CASE RunTransaction(w) \/ Hang(w) \/ ArmTimer(w)
      BY <3>3 DEF RunTransaction, Hang, ArmTimer, TypeOK
    <3> QED
      BY <1>6, <3>1, <3>2, <3>3
  <2> QED
    BY <1>0, <2>2, <2>3 DEF BytesHaveEvents, NeverNull
<1>7. CASE UNCHANGED vars
  BY <1>7 DEF vars, mvars, wvars, BytesHaveEvents, NeverNull
<1> QED
  BY <1>1, <1>2, <1>3, <1>4, <1>5, <1>6, <1>7 DEF Next, ManagerStep, Worker
-----------------------------------------------------------------------------
(* The order in which a worker takes up the tests.                         *)

\* Tests and workers are numbers, and can be compared.
LEMMA Numbers ==
  ASSUME TypeOK
  PROVE  /\ test \in Nat /\ i \in Nat /\ i < NWorkers
         /\ \A v \in Workers :
              /\ v \in Nat /\ v < NWorkers /\ Len(queue[v]) \in Nat
              /\ cmd[v] \in Nat /\ task[v].test \in Nat
              /\ \A a \in 1 .. Len(queue[v]) : queue[v][a] \in Nat
              /\ LastOrdered(v) \in Int
<1>1. test \in Nat /\ i \in Nat /\ i < NWorkers
  BY PoolAssumption DEF TypeOK, Workers, Tests, None
<1>2. ASSUME NEW v \in Workers
      PROVE  /\ v \in Nat /\ v < NWorkers /\ Len(queue[v]) \in Nat
             /\ \A a \in 1 .. Len(queue[v]) : queue[v][a] \in Nat
  <2>1. queue[v] \in Seq(Tests)
    BY DEF TypeOK
  <2> QED
    BY <2>1, PoolAssumption, LenProperties, ElementOfSeq DEF Workers, Tests
<1>3. ASSUME NEW v \in Workers PROVE cmd[v] \in Nat /\ task[v].test \in Nat
  <2>1. cmd[v] \in Tests \cup {None} /\ task[v] \in TaskType
    BY DEF TypeOK
  <2>2. task[v].test \in Tests \cup {None}
    BY <2>1 DEF TaskType
  <2> QED
    BY <2>1, <2>2 DEF Tests, None
<1> QED
  BY <1>1, <1>2, <1>3 DEF LastOrdered

\* A worker about which nothing changes but what has been ordered from it keeps
\* its place in the order (manager.C:178-182).
LEMMA KeepOrder ==
  ASSUME TypeOK, TypeOK', NEW v \in Workers, InOrderAt(v),
         LastOrdered(v)' >= LastOrdered(v),
         UNCHANGED <<queue[v], cmd[v], task[v]>>,
         wpc'[v] = wpc[v] \/ wpc'[v] # "dispatch"
  PROVE  InOrderAt(v)'
<1>1. LastOrdered(v) \in Int
  BY Numbers
<1>2. LastOrdered(v)' \in Int
  <2>1. test' \in Tests \cup {None}
    BY DEF TypeOK
  <2>2. test' \in Nat
    BY <2>1 DEF Tests, None
  <2> QED
    BY <2>2 DEF LastOrdered
<1>3. /\ \A a \in 1 .. Len(queue[v]) : queue[v][a] \in Nat
      /\ cmd[v] \in Nat /\ task[v].test \in Nat
  BY Numbers
<1>4. queue'[v] = queue[v] /\ cmd'[v] = cmd[v] /\ task'[v] = task[v]
  OBVIOUS
<1>5. \A a, b \in 1 .. Len(queue'[v]) : a < b => queue'[v][a] < queue'[v][b]
  BY <1>4 DEF InOrderAt
<1>6. ASSUME NEW a \in 1 .. Len(queue'[v])
      PROVE  /\ queue'[v][a] <= LastOrdered(v)'
             /\ task'[v].test < queue'[v][a]
             /\ wpc'[v] = "dispatch" => cmd'[v] < queue'[v][a]
  <2>1. /\ a \in 1 .. Len(queue[v]) /\ queue[v][a] \in Nat
        /\ queue[v][a] <= LastOrdered(v)
        /\ task[v].test < queue[v][a]
        /\ wpc[v] = "dispatch" => cmd[v] < queue[v][a]
    BY <1>3, <1>4 DEF InOrderAt
  <2>2. queue[v][a] <= LastOrdered(v)'
    BY <2>1, <1>1, <1>2
  <2> QED
    BY <2>1, <2>2, <1>4
<1>7. /\ task'[v].test <= LastOrdered(v)'
      /\ wpc'[v] = "dispatch" => task'[v].test < cmd'[v] /\ cmd'[v] <= LastOrdered(v)'
  <2>1. /\ task[v].test <= LastOrdered(v)
        /\ wpc[v] = "dispatch" => task[v].test < cmd[v] /\ cmd[v] <= LastOrdered(v)
    BY DEF InOrderAt
  <2> QED
    BY <2>1, <1>1, <1>2, <1>3, <1>4
<1> QED
  BY <1>5, <1>6, <1>7 DEF InOrderAt

\* No step lets a worker take up a test before an earlier one or twice
\* (manager.C:178-182, mptthreadpool.C:91, 122).
LEMMA StepOrder ==
  TypeOK /\ BusyHasTest /\ BytesHaveEvents /\ NeverNull /\ InOrder /\ [Next]_vars
    => InOrder'
<1> SUFFICES ASSUME TypeOK, BusyHasTest, BytesHaveEvents, NeverNull, InOrder, [Next]_vars,
                    NEW v \in Workers
             PROVE  InOrderAt(v)'
  BY DEF InOrder
<1>0. TypeOK' /\ InOrderAt(v)
  BY StepType DEF InOrder
<1> HIDE DEF InOrder
<1>1. CASE NewTest
  <2>1. /\ UNCHANGED <<queue, wpc, cmd, task>> /\ test' = test + 1
        /\ mpc = "idle" /\ mpc' # "notify"
    BY <1>1 DEF NewTest, wvars
  <2>2. LastOrdered(v)' >= LastOrdered(v)
    BY <2>1, Numbers DEF LastOrdered, StillToOrder
  <2> QED
    BY <1>0, <2>1, <2>2, KeepOrder
<1>2. CASE Connect \/ OrderRefused \/ OrderNotify
  <2>1. UNCHANGED <<queue, wpc, cmd, task, test>>
    BY <1>2 DEF Connect, OrderRefused, OrderNotify, wvars
  <2>2. StillToOrder(v)' => StillToOrder(v)
    BY <1>2, Numbers, PoolAssumption
       DEF Connect, OrderRefused, OrderNotify, NextWorker, StillToOrder
  <2>3. LastOrdered(v)' >= LastOrdered(v)
    BY <2>1, <2>2, Numbers DEF LastOrdered
  <2> QED
    BY <1>0, <2>1, <2>3, KeepOrder
<1>3. CASE OrderEnqueue
  <2>1. /\ mpc = "order" /\ mpc' = "notify" /\ UNCHANGED <<i, test, wpc, cmd, task>>
    BY <1>3 DEF OrderEnqueue, wvars
  <2>2. CASE v = i
    <3>1. LastOrdered(v) = test - 1 /\ LastOrdered(v)' = test
      BY <2>1, <2>2, Numbers DEF LastOrdered, StillToOrder
    <3>2. /\ Len(queue'[v]) = Len(queue[v]) + 1
          /\ \A a \in 1 .. Len(queue[v]) : queue'[v][a] = queue[v][a]
          /\ queue'[v][Len(queue[v]) + 1] = test
      BY <1>3, <2>2, EnqueueEffect
    <3> DEFINE n == Len(queue[v])
    <3>3. /\ n \in Nat /\ test \in Nat /\ cmd[v] \in Nat /\ task[v].test \in Nat
          /\ \A a \in 1 .. n : queue[v][a] \in Nat
      BY Numbers
    <3>4. \A a \in 1 .. n + 1 :
            \/ a \in 1 .. n /\ queue'[v][a] = queue[v][a]
            \/ a = n + 1 /\ queue'[v][a] = test
      BY <3>2, <3>3
    <3>5. \A a \in 1 .. n : queue[v][a] <= test - 1 /\ task[v].test < queue[v][a]
                           /\ (wpc[v] = "dispatch" => cmd[v] < queue[v][a])
      BY <1>0, <3>1 DEF InOrderAt
    <3>6. /\ wpc[v] = "dispatch" => task[v].test < cmd[v] /\ cmd[v] <= test - 1
          /\ task[v].test <= test - 1
      BY <1>0, <3>1 DEF InOrderAt
    <3>7. \A a, b \in 1 .. n + 1 : a < b => queue'[v][a] < queue'[v][b]
      <4>1. \A a, b \in 1 .. n : a < b => queue[v][a] < queue[v][b]
        BY <1>0 DEF InOrderAt
      <4> HIDE DEF n
      <4> QED
        BY <3>3, <3>4, <3>5, <4>1
    <3>8. \A a \in 1 .. n + 1 : queue'[v][a] <= test /\ task[v].test < queue'[v][a]
                               /\ (wpc[v] = "dispatch" => cmd[v] < queue'[v][a])
      <4> HIDE DEF n
      <4> QED
        BY <3>3, <3>4, <3>5, <3>6
    <3> QED
      BY <2>1, <3>1, <3>2, <3>3, <3>6, <3>7, <3>8 DEF InOrderAt
  <2>3. CASE v # i
    <3>1. queue'[v] = queue[v]
      BY <1>3, <2>3, EnqueueEffect
    <3>2. LastOrdered(v)' >= LastOrdered(v)
      BY <2>1, <2>3, Numbers DEF LastOrdered, StillToOrder
    <3> QED
      BY <1>0, <2>1, <3>1, <3>2, KeepOrder
  <2> QED
    BY <2>2, <2>3
<1>4. ASSUME NEW w \in Workers, Worker(w) PROVE InOrderAt(v)'
  <2>1. LastOrdered(v)' = LastOrdered(v)
    BY <1>4, WorkerFrame DEF LastOrdered, StillToOrder, mvars
  <2>2. LastOrdered(v)' >= LastOrdered(v)
    BY <2>1, Numbers
  <2>3. CASE v # w
    <3>1. UNCHANGED <<queue[v], cmd[v], task[v], wpc[v]>>
      BY <1>4, <2>3, WorkerFrame
    <3> QED
      BY <1>0, <2>2, <3>1, KeepOrder
  <2>4. CASE v = w /\ Dequeue(w)
    <3>1. Len(queue[w]) > 0
      BY <2>4, Numbers DEF BytesHaveEvents, Dequeue, TypeOK
    <3>2. queue[w] # <<>>
      BY <3>1
    <3> DEFINE n == Len(queue[v])
    <3>3. /\ n \in Nat \ {0} /\ task[v].test \in Nat
          /\ \A a \in 1 .. n : queue[v][a] \in Nat
          /\ LastOrdered(v) \in Int
      BY <2>4, <3>2, DequeueEffect, Numbers
    <3>4. /\ cmd'[v] = queue[v][1] /\ Len(queue'[v]) = n - 1
          /\ \A a \in 1 .. n - 1 : queue'[v][a] = queue[v][a + 1]
          /\ task' = task
      BY <2>4, <3>2, DequeueEffect
    <3>5. /\ \A a, b \in 1 .. n : a < b => queue[v][a] < queue[v][b]
          /\ \A a \in 1 .. n : queue[v][a] <= LastOrdered(v) /\ task[v].test < queue[v][a]
          /\ task[v].test <= LastOrdered(v)
      BY <1>0 DEF InOrderAt
    <3> HIDE DEF n
    <3>6. \A a \in 1 .. n - 1 : a + 1 \in 1 .. n /\ 1 \in 1 .. n /\ 1 < a + 1
      BY <3>3
    <3>7. ASSUME NEW a \in 1 .. n - 1, NEW b \in 1 .. n - 1, a < b
          PROVE  queue'[v][a] < queue'[v][b]
      <4>1. a + 1 \in 1 .. n /\ b + 1 \in 1 .. n /\ a + 1 < b + 1
        BY <3>3, <3>7
      <4>2. queue[v][a + 1] < queue[v][b + 1]
        BY <3>5, <4>1
      <4> QED
        BY <3>4, <4>2
    <3>8. \A a \in 1 .. n - 1 : /\ queue'[v][a] <= LastOrdered(v)
                               /\ task[v].test < queue'[v][a]
                               /\ cmd'[v] < queue'[v][a]
      BY <3>4, <3>5, <3>6
    <3>9. 1 \in 1 .. n /\ task[v].test < cmd'[v] /\ cmd'[v] <= LastOrdered(v)
      BY <3>3, <3>4, <3>5
    <3> QED
      BY <2>1, <3>4, <3>5, <3>7, <3>8, <3>9 DEF InOrderAt
  <2>5. CASE v = w /\ StartTask(w)
    BY <1>0, <2>1, <2>5, StartEffect, Numbers DEF InOrderAt
  <2>6. CASE v = w /\ Tick(w)
    BY <1>0, <2>1, <2>6, TickEffect, Numbers DEF InOrderAt
  <2>7. CASE v = w /\ (ReadByte(w) \/ RunTransaction(w) \/ Hang(w) \/ ArmTimer(w))
    <3>1. UNCHANGED <<queue, cmd, task>> /\ (wpc'[w] = wpc[w] \/ wpc'[w] # "dispatch")
      BY <2>7 DEF ReadByte, RunTransaction, Hang, ArmTimer, TypeOK
    <3> QED
      BY <1>0, <2>2, <2>7, <3>1, KeepOrder
  <2> QED
    BY <1>4, <2>3, <2>4, <2>5, <2>6, <2>7 DEF Worker
<1>5. CASE UNCHANGED vars
  BY <1>0, <1>5 DEF vars, mvars, wvars, InOrderAt, LastOrdered, StillToOrder
<1> QED
  BY <1>1, <1>2, <1>3, <1>4, <1>5 DEF Next, ManagerStep
-----------------------------------------------------------------------------
(* The transactions of a task, counted.                                    *)

\* What runTask does to the counts: nothing, or one more second's worth
\* (mptthreadpool.C:222-240).
LEMMA RunTaskEffect ==
  ASSUME TypeOK, NEW w \in Workers, NEW t \in TaskType, NEW b \in BOOLEAN,
         RunTask(w, t, b)
  PROVE  /\ task'[w].test = t.test /\ task'[w].total = t.total /\ timer'[w] = b
         /\ task'[w].tps = t.tps
         /\ \/ /\ GoesOn(t) /\ NewTasks(t) \in Nat /\ wpc'[w] = "run"
               /\ task'[w].nCount = t.nCount + NewTasks(t) /\ left'[w] = NewTasks(t)
            \/ /\ ~GoesOn(t) /\ wpc'[w] = "loop"
               /\ task'[w].nCount = t.nCount /\ left'[w] = left[w]
<1>1. task'[w].test = t.test /\ task'[w].total = t.total
  BY RunTaskStep
<1>2. timer'[w] = b
  BY DEF RunTask, TypeOK
<1>3. CASE GoesOn(t)
  <2> DEFINE u == [t EXCEPT !.nCount = @ + NewTasks(t), !.duration = @ + 1]
  <2>1. u.nCount = t.nCount + NewTasks(t) /\ u.tps = t.tps
    BY DEF TaskType
  <2>2. task'[w] = u
    BY <1>3 DEF RunTask, TypeOK
  <2> HIDE DEF u
  <2>3. wpc'[w] = "run" /\ left'[w] = NewTasks(t)
    BY <1>3 DEF RunTask, TypeOK
  <2> QED
    BY <1>1, <1>2, <1>3, <2>1, <2>2, <2>3, RunTaskTypes
<1>4. CASE ~GoesOn(t)
  BY <1>1, <1>2, <1>4 DEF RunTask, TypeOK
<1> QED
  BY <1>3, <1>4

\* The numbers of one worker are natural numbers.
LEMMA CountTypes ==
  ASSUME TypeOK, NEW w \in Workers
  PROVE  /\ task[w] \in TaskType /\ task[w].test \in Tests \cup {None}
         /\ task[w].total \in Nat /\ task[w].nCount \in Nat /\ left[w] \in Nat
         /\ ran[w] \in [Tests -> Nat] /\ timer[w] \in BOOLEAN
<1>1. /\ task[w] \in TaskType /\ left[w] \in Nat /\ ran[w] \in [Tests -> Nat]
      /\ timer[w] \in BOOLEAN
  BY DEF TypeOK
<1> QED
  BY <1>1 DEF TaskType

\* The transactions a worker runs of its task are those runTask counted, never
\* more than m_total, and no timer is left out before they are all run
\* (mptthreadpool.C:144-158, 193-240): the task a worker takes up is later than
\* every one it has run, and has at least one transaction in its first second.
LEMMA StepCounts ==
  TypeOK /\ BusyHasTest /\ InOrder /\ CountsAddUp /\ QuietMeansDone /\ [Next]_vars
    => CountsAddUp' /\ QuietMeansDone'
<1> SUFFICES ASSUME TypeOK, BusyHasTest, InOrder, CountsAddUp, QuietMeansDone,
                    [Next]_vars, NEW v \in Workers
             PROVE  CountsAt(v)' /\ QuietAt(v)'
  BY DEF CountsAddUp, QuietMeansDone
<1>0. CountsAt(v) /\ QuietAt(v)
  BY DEF CountsAddUp, QuietMeansDone
<1> HIDE DEF CountsAddUp, QuietMeansDone
<1>1. ASSUME UNCHANGED <<task[v], left[v], ran[v], timer[v]>>,
             ~Busy(v), ~Busy(v)'
      PROVE  CountsAt(v)' /\ QuietAt(v)'
  BY <1>0, <1>1 DEF CountsAt, QuietAt
<1>2. ASSUME UNCHANGED <<task[v], left[v], ran[v], timer[v], wpc[v]>>
      PROVE  CountsAt(v)' /\ QuietAt(v)'
  BY <1>0, <1>2 DEF CountsAt, QuietAt
<1>3. CASE NewTest \/ ManagerStep \/ UNCHANGED vars
  <2>1. UNCHANGED <<task, left, ran, timer, wpc>>
    BY <1>3 DEF NewTest, ManagerStep, Connect, OrderRefused, OrderEnqueue,
                OrderNotify, vars, wvars
  <2> QED
    BY <1>2, <2>1
<1>4. ASSUME NEW w \in Workers, Worker(w), w # v PROVE CountsAt(v)' /\ QuietAt(v)'
  BY <1>2, <1>4, WorkerFrame
<1>5. CASE ReadByte(v) \/ Dequeue(v)
  BY <1>1, <1>5 DEF ReadByte, Dequeue, TypeOK
<1>6. CASE StartTask(v)
  <2> DEFINE q == plan[cmd[v]]
             t == [test |-> cmd[v], tps |-> q.tps, total |-> q.total,
                   duration |-> q.duration, nCount |-> 0, nSecs |-> 0]
  <2>1. cmd[v] \in Tests /\ ran' = ran /\ wpc[v] = "dispatch"
    BY <1>6, StartEffect
  <2>2. t \in TaskType /\ RunTask(v, t, timer[v])
    BY <1>6, <2>1, FreshTaskTypes DEF StartTask
  <2>3. /\ t.test = cmd[v] /\ t.nCount = 0
        /\ t.tps \in Nat \ {0} /\ t.total \in Nat
    <3>1. q \in [tps : Nat \ {0}, total : Nat, duration : Nat]
      BY <2>1, PlanAssumption DEF TypeOK
    <3> QED
      BY <3>1
  <2>4. task[v].test < cmd[v]
    BY <2>1 DEF InOrder, InOrderAt
  <2>5. /\ \A k \in Tests : k > cmd[v] => ran[v][k] = 0
        /\ ran[v][cmd[v]] = 0 /\ left[v] = 0
    <3>1. cmd[v] \in Nat /\ task[v].test \in Nat /\ \A k \in Tests : k \in Nat
      BY Numbers DEF Tests
    <3>2. /\ \A k \in Tests : k > task[v].test => ran[v][k] = 0
          /\ ~Busy(v) => left[v] = 0
      BY <1>0 DEF CountsAt
    <3>3. ASSUME NEW k \in Tests, k >= cmd[v] PROVE ran[v][k] = 0
      BY <2>4, <3>1, <3>2, <3>3
    <3> QED
      BY <2>1, <3>1, <3>2, <3>3
  <2> HIDE DEF t
  <2>6. t.total > 0 => GoesOn(t) /\ NewTasks(t) <= t.total
    BY <2>3 DEF GoesOn, NewTasks
  <2>7. /\ task'[v].test = t.test /\ task'[v].total = t.total /\ task'[v].tps = t.tps
        /\ \/ /\ NewTasks(t) \in Nat /\ wpc'[v] = "run"
              /\ task'[v].nCount = NewTasks(t) /\ left'[v] = NewTasks(t)
           \/ /\ ~GoesOn(t) /\ wpc'[v] = "loop"
              /\ task'[v].nCount = 0 /\ left'[v] = 0
    BY <2>2, <2>3, <2>5, CountTypes, RunTaskEffect
  <2> QED
    BY <2>1, <2>3, <2>5, <2>6, <2>7 DEF CountsAt, QuietAt
<1>7. CASE Tick(v)
  <2> DEFINE t == task[v]
  <2>1. t \in TaskType /\ RunTask(v, t, FALSE) /\ ran' = ran /\ wpc[v] = "loop"
    BY <1>7, CountTypes DEF Tick
  <2>2. t.total \in Nat /\ t.nCount \in Nat /\ t.tps \in Nat
    BY <2>1 DEF TaskType
  <2>3. /\ t.test \in Tests /\ ran[v][t.test] = t.nCount /\ left[v] = 0 /\ t.tps > 0
        /\ t.total > 0 => t.nCount <= t.total
        /\ \A k \in Tests : k > t.test => ran[v][k] = 0
    BY <1>0, <1>7, <2>1, CountTypes DEF CountsAt, BusyHasTest, Tick
  <2>4. t.total > 0 => /\ t.nCount + NewTasks(t) <= t.total
                       /\ ~GoesOn(t) => t.nCount = t.total
    <3> HIDE DEF t
    <3> QED
      BY <2>2, <2>3 DEF GoesOn, NewTasks
  <2>5. /\ task'[v].test = t.test /\ task'[v].total = t.total /\ timer'[v] = FALSE
        /\ task'[v].tps = t.tps
        /\ \/ /\ GoesOn(t) /\ NewTasks(t) \in Nat /\ wpc'[v] = "run"
              /\ task'[v].nCount = t.nCount + NewTasks(t) /\ left'[v] = NewTasks(t)
           \/ /\ ~GoesOn(t) /\ wpc'[v] = "loop"
              /\ task'[v].nCount = t.nCount /\ left'[v] = 0
    BY <2>1, <2>3, RunTaskEffect
  <2> HIDE DEF t
  <2> QED
    BY <2>1, <2>2, <2>3, <2>4, <2>5, CountTypes DEF CountsAt, QuietAt
<1>8. CASE RunTransaction(v)
  <2>1. task[v].test \in Tests
    BY <1>8, CountTypes DEF RunTransaction, BusyHasTest
  <2>2. /\ task' = task /\ wpc' = wpc /\ wpc[v] = "run" /\ left'[v] = left[v] - 1
        /\ ran'[v] = [ran[v] EXCEPT ![task[v].test] = @ + 1]
    BY <1>8 DEF RunTransaction, TypeOK
  <2>3. /\ ran'[v][task[v].test] = ran[v][task[v].test] + 1
        /\ \A k \in Tests : k # task[v].test => ran'[v][k] = ran[v][k]
    BY <2>1, <2>2, CountTypes
  <2>4. CountsAt(v)'
    <3>1. \A k \in Tests : k > task[v].test => k # task[v].test
      BY Numbers DEF Tests
    <3>2. ran[v][task[v].test] \in Nat /\ left[v] \in Nat
      BY <2>1, CountTypes
    <3> QED
      BY <1>0, <2>1, <2>2, <2>3, <3>1, <3>2, CountTypes DEF CountsAt
  <2> QED
    BY <2>2, <2>4 DEF QuietAt
<1>9. CASE ArmTimer(v)
  BY <1>0, <1>9 DEF ArmTimer, TypeOK, CountsAt, QuietAt
<1>10. CASE Hang(v)
  BY <1>0, <1>10 DEF Hang, TypeOK, CountsAt, QuietAt
<1> QED
  BY <1>10, <1>3, <1>4, <1>5, <1>6, <1>7, <1>8, <1>9 DEF Next, Worker
-----------------------------------------------------------------------------
(* The connection a transaction gets.                                      *)

\* cps_map has the connection of a test before any worker can take that test up
\* (manager.C:145-182, mptthreadpool.C:271-283).
LEMMA StepConnections ==
  TypeOK /\ BusyHasTest /\ BytesHaveEvents /\ NeverNull /\ ConnectionsFirst /\ [Next]_vars
    => ConnectionsFirst'
<1> SUFFICES ASSUME TypeOK, BusyHasTest, BytesHaveEvents, NeverNull,
                    ConnectionsFirst, [Next]_vars
             PROVE  ConnectionsFirst'
  OBVIOUS
<1> USE DEF Connected
<1>0. /\ test \in Nat /\ i \in Nat /\ \A v \in Workers : v \in Nat /\ conn[v] \in Nat
      /\ conn \in [Workers -> Tests \cup {None}]
  <2>1. \A v \in Workers : conn[v] \in Tests \cup {None}
    BY DEF TypeOK
  <2>2. \A v \in Workers : conn[v] \in Nat
    BY <2>1 DEF Tests, None
  <2>3. conn \in [Workers -> Tests \cup {None}]
    BY DEF TypeOK
  <2> QED
    BY <2>2, <2>3, Numbers
<1>1. CASE NewTest
  <2>1. /\ test' = test + 1 /\ i' = 0 /\ mpc' \in {"idle", "connect", "order"}
        /\ mpc' = "connect" => binds[test']
        /\ mpc' = "order" => ~binds[test']
        /\ UNCHANGED <<binds, queue, conn, wpc, cmd, task>>
    BY <1>1 DEF NewTest, wvars, TypeOK
  <2> QED
    BY <1>0, <2>1 DEF ConnectionsFirst
<1>2. CASE Connect
  <2>1. /\ mpc = "connect" /\ UNCHANGED <<test, binds, queue, wpc, cmd, task>>
        /\ i \in Workers /\ conn'[i] = test
        /\ \A v \in Workers : conn'[v] \in {conn[v], test}
        /\ \A v \in Workers \ {i} : conn'[v] = conn[v]
    BY <1>0, <1>2 DEF Connect, wvars, TypeOK
  <2>2. \A v \in Workers : conn[v] <= conn'[v] /\ conn'[v] <= test /\ conn'[v] \in Nat
    BY <1>0, <2>1 DEF ConnectionsFirst
  <2>3. \/ i' = i + 1 /\ mpc' = "connect"
        \/ i + 1 >= NWorkers /\ i' = 0 /\ mpc' \in {"idle", "order"}
    BY <1>0, <1>2, PoolAssumption DEF Connect, NextWorker
  <2>4. ASSUME NEW v \in Workers, v < i + 1 PROVE conn'[v] = test
    <3>1. v = i \/ v < i
      BY <2>1, <2>4, PoolAssumption DEF Workers
    <3>2. \A u \in Workers : u < i => conn[u] = test
      BY <2>1 DEF ConnectionsFirst
    <3> QED
      BY <2>1, <3>1, <3>2
  <2>5. \A v \in Workers : v < NWorkers
    BY PoolAssumption DEF Workers
  <2>6. i + 1 >= NWorkers => \A v \in Workers : conn'[v] = test
    BY <1>0, <2>4, <2>5, PoolAssumption
  <2>7. /\ mpc' = "connect" => binds'[test'] /\ \A v \in Workers : v < i' => conn'[v] = test'
        /\ mpc' \in {"order", "notify"} => \A v \in Workers : conn'[v] = test'
    BY <2>1, <2>3, <2>4, <2>6 DEF ConnectionsFirst
  <2>8. ASSUME NEW v \in Workers, NEW k \in Nat, Connected(v, k) PROVE Connected(v, k)'
    BY <1>0, <2>1, <2>2, <2>8
  <2>9. ASSUME NEW v \in Workers
        PROVE  /\ \A a \in 1 .. Len(queue[v]) : queue[v][a] \in Nat
               /\ cmd[v] \in Nat /\ task[v].test \in Nat
    BY Numbers
  <2> QED
    BY <2>1, <2>2, <2>7, <2>8, <2>9 DEF ConnectionsFirst
<1>3. CASE OrderRefused \/ OrderNotify
  <2>1. /\ mpc \in {"order", "notify"} /\ mpc' \in {"order", "idle"}
        /\ UNCHANGED <<test, binds, queue, conn, wpc, cmd, task>>
    BY <1>3 DEF OrderRefused, OrderNotify, NextWorker, wvars
  <2> QED
    BY <2>1 DEF ConnectionsFirst
<1>4. CASE OrderEnqueue
  <2>1. /\ mpc = "order" /\ mpc' = "notify"
        /\ UNCHANGED <<i, test, binds, conn, wpc, cmd, task>>
    BY <1>4 DEF OrderEnqueue, wvars
  <2>2. ASSUME NEW v \in Workers, NEW a \in 1 .. Len(queue'[v])
        PROVE  Connected(v, queue'[v][a])
    <3>1. CASE v = i /\ a = Len(queue[i]) + 1
      <4>1. binds[test] => conn[v] = test
        BY <2>1 DEF ConnectionsFirst
      <4>2. queue'[v][a] = test
        BY <1>4, <3>1, EnqueueEffect
      <4> QED
        BY <1>0, <4>1, <4>2
    <3>2. CASE ~(v = i /\ a = Len(queue[i]) + 1)
      <4>1. a \in 1 .. Len(queue[v]) /\ queue'[v][a] = queue[v][a]
        BY <1>4, <2>2, <3>2, EnqueueEffect
      <4> QED
        BY <4>1 DEF ConnectionsFirst
    <3> QED
      BY <3>1, <3>2
  <2> QED
    BY <2>1, <2>2 DEF ConnectionsFirst
<1>5. ASSUME NEW w \in Workers, Worker(w) PROVE ConnectionsFirst'
  <2>1. UNCHANGED <<test, binds, mpc, i, conn>>
    BY <1>5, WorkerFrame DEF mvars
  <2>2. ASSUME NEW v \in Workers \ {w}
        PROVE  /\ \A a \in 1 .. Len(queue'[v]) : Connected(v, queue'[v][a])
               /\ wpc'[v] = "dispatch" /\ cmd'[v] # None => Connected(v, cmd'[v])
               /\ task'[v].test # None => Connected(v, task'[v].test)
    <3>1. UNCHANGED <<queue[v], wpc[v], cmd[v], task[v]>>
      BY <1>5, WorkerFrame
    <3> QED
      BY <3>1 DEF ConnectionsFirst
  <2>3. /\ \A a \in 1 .. Len(queue'[w]) : Connected(w, queue'[w][a])
        /\ wpc'[w] = "dispatch" /\ cmd'[w] # None => Connected(w, cmd'[w])
        /\ task'[w].test # None => Connected(w, task'[w].test)
    <3>0. /\ \A a \in 1 .. Len(queue[w]) : Connected(w, queue[w][a])
          /\ wpc[w] = "dispatch" /\ cmd[w] # None => Connected(w, cmd[w])
          /\ task[w].test # None => Connected(w, task[w].test)
      BY DEF ConnectionsFirst
    <3>1. CASE Dequeue(w)
      <4>1. Len(queue[w]) > 0
        BY <3>1, Numbers DEF BytesHaveEvents, Dequeue, TypeOK
      <4>2. queue[w] # <<>>
        BY <4>1
      <4> DEFINE n == Len(queue[w])
      <4>3. /\ n \in Nat \ {0} /\ cmd'[w] = queue[w][1] /\ Len(queue'[w]) = n - 1
            /\ \A a \in 1 .. n - 1 : queue'[w][a] = queue[w][a + 1]
            /\ task' = task
        BY <3>1, <4>2, DequeueEffect
      <4>4. 1 \in 1 .. n /\ \A a \in 1 .. n - 1 : a + 1 \in 1 .. n
        BY <4>3
      <4>5. \A a \in 1 .. n : Connected(w, queue[w][a])
        BY <3>0
      <4> HIDE DEF n, Connected
      <4>6. wpc'[w] = "dispatch" => Connected(w, cmd'[w])
        BY <4>3, <4>4, <4>5
      <4>7. \A a \in 1 .. Len(queue'[w]) : Connected(w, queue'[w][a])
        BY <4>3, <4>4, <4>5
      <4> QED
        BY <3>0, <4>3, <4>6, <4>7
    <3>2. CASE StartTask(w)
      BY <3>0, <3>2, StartEffect DEF Tests, None
    <3>3. CASE Tick(w)
      BY <3>0, <3>3, TickEffect
    <3>4. CASE ReadByte(w) \/ RunTransaction(w) \/ Hang(w) \/ ArmTimer(w)
      <4>1. UNCHANGED <<queue, cmd, task>> /\ (wpc'[w] = wpc[w] \/ wpc'[w] # "dispatch")
        BY <3>4 DEF ReadByte, RunTransaction, Hang, ArmTimer, TypeOK
      <4> QED
        BY <3>0, <4>1
    <3> QED
      BY <1>5, <3>1, <3>2, <3>3, <3>4 DEF Worker
  <2>4. ASSUME NEW v \in Workers
        PROVE  /\ \A a \in 1 .. Len(queue'[v]) : Connected(v, queue'[v][a])
               /\ wpc'[v] = "dispatch" /\ cmd'[v] # None => Connected(v, cmd'[v])
               /\ task'[v].test # None => Connected(v, task'[v].test)
    BY <2>2, <2>3
  <2> QED
    BY <2>1, <2>4 DEF ConnectionsFirst
<1>6. CASE UNCHANGED vars
  BY <1>6 DEF vars, mvars, wvars, ConnectionsFirst
<1> QED
  BY <1>1, <1>2, <1>3, <1>4, <1>5, <1>6 DEF Next, ManagerStep
-----------------------------------------------------------------------------
(* The theorems                                                            *)

\* Before the first request there is nothing queued, and no task.
LEMMA InitInvariant == Init => IInv
<1> SUFFICES ASSUME Init PROVE IInv
  OBVIOUS
<1>1. TypeOK
  BY InitType
<1>2. BytesHaveEvents /\ NeverNull
  BY DEF Init, BytesHaveEvents, NeverNull
<1>3. /\ \A w \in Workers : task[w].test = 0 /\ task[w].total = 0 /\ task[w].nCount = 0
      /\ test = 0 /\ mpc = "idle"
  BY DEF Init, NoTask, None
<1>4. InOrder
  BY <1>3 DEF Init, InOrder, InOrderAt, LastOrdered, StillToOrder
<1>5. CountsAddUp
  BY <1>3 DEF Init, CountsAddUp, CountsAt, None
<1>6. QuietMeansDone
  BY <1>3 DEF QuietMeansDone, QuietAt
<1>7. ConnectionsFirst
  BY <1>3 DEF Init, ConnectionsFirst, None
<1>8. BusyHasTest
  BY <1>3 DEF Init, BusyHasTest, None
<1> QED
  BY <1>1, <1>2, <1>4, <1>5, <1>6, <1>7, <1>8 DEF IInv

\* Every step of the manager and of a worker keeps the whole invariant.
LEMMA StepInvariant == IInv /\ [Next]_vars => IInv'
BY StepType, StepBytes, StepOrder, StepCounts, StepConnections DEF IInv

\* The variables keep their types, for any number of workers and tests and any
\* plans given to TCmdStartEvent.
THEOREM TypeCorrect == Spec => []TypeOK
<1>1. Init => TypeOK /\ BusyHasTest
  BY InitInvariant DEF IInv
<1>2. TypeOK /\ BusyHasTest /\ [Next]_vars => (TypeOK /\ BusyHasTest)'
  BY StepType
<1> QED
  BY <1>1, <1>2, PTL DEF Spec

\* The pipe, queue, task and connection of every worker fit together in every
\* state, whatever the manager and the other workers are doing.
THEOREM InductiveInvariant == Spec => []IInv
BY InitInvariant, StepInvariant, PTL DEF Spec

\* threadEventProcess never dereferences a NULL event (mptthreadpool.C:122-123):
\* there is an event in the queue for every byte a worker reads, also when the
\* write of some byte has failed.
THEOREM EventForEveryByte == Spec => []NeverNull
<1>1. IInv => NeverNull
  BY DEF IInv
<1> QED
  BY <1>1, InductiveInvariant, PTL

\* A worker takes up the tests in the order they were submitted, none twice,
\* though any of them may be refused by a full queue or left without a byte.
THEOREM TestsInOrder == Spec => []InOrder
<1>1. IInv => InOrder
  BY DEF IInv
<1> QED
  BY <1>1, InductiveInvariant, PTL

\* A task whose worker has no timer pending has run m_total transactions.
THEOREM NoTaskAbandoned == Spec => []QuietMeansDone
<1>1. IInv => QuietMeansDone
  BY DEF IInv
<1> QED
  BY <1>1, InductiveInvariant, PTL

\* runTask never looks up in cps_map a connection of an earlier test.
THEOREM FreshConnection == Spec => []NoStaleConnection
<1>1. IInv => NoStaleConnection
  <2> SUFFICES ASSUME IInv, NEW w \in Workers, Busy(w), binds[task[w].test]
               PROVE  conn[w] >= task[w].test
    BY DEF NoStaleConnection
  <2>1. task[w].test # None
    BY DEF IInv, BusyHasTest
  <2> QED
    BY <2>1 DEF IInv, ConnectionsFirst, Connected
<1> QED
  BY <1>1, InductiveInvariant, PTL

-----------------------------------------------------------------------------
(* What a step may never do                                                *)

\* A task has the total it was ordered with.
PlanInv == \A w \in Workers : task[w].test # None => task[w].total = plan[task[w].test].total

\* Only startTask gives a worker a total (mptthreadpool.C:193-201).
LEMMA StepPlan == TypeOK /\ PlanInv /\ [Next]_vars => PlanInv'
<1> SUFFICES ASSUME TypeOK, PlanInv, [Next]_vars PROVE PlanInv'
  OBVIOUS
<1>1. CASE NewTest \/ ManagerStep \/ UNCHANGED vars
  <2>1. UNCHANGED <<task, plan>>
    BY <1>1 DEF NewTest, ManagerStep, Connect, OrderRefused, OrderEnqueue, OrderNotify, vars, mvars, wvars
  <2> QED
    BY <2>1 DEF PlanInv
<1>2. ASSUME NEW w \in Workers, Worker(w) PROVE PlanInv'
  <2>1. plan' = plan /\ \A v \in Workers \ {w} : task'[v] = task[v]
    BY <1>2, WorkerFrame DEF mvars
  <2>2. CASE StartTask(w)
    <3>1. task'[w].total = plan[task'[w].test].total
      BY <2>2, StartEffect
    <3> QED
      BY <2>1, <3>1 DEF PlanInv
  <2>3. CASE Tick(w)
    <3>1. task'[w].test = task[w].test /\ task'[w].total = task[w].total
      BY <2>3, TickEffect
    <3> QED
      BY <2>1, <3>1 DEF PlanInv
  <2>4. CASE ReadByte(w) \/ Dequeue(w) \/ RunTransaction(w) \/ Hang(w) \/ ArmTimer(w)
    <3>1. task' = task
      BY <2>4 DEF ReadByte, Dequeue, RunTransaction, Hang, ArmTimer
    <3> QED
      BY <2>1, <3>1 DEF PlanInv
  <2> QED
    BY <1>2, <2>2, <2>3, <2>4 DEF Worker
<1> QED
  BY <1>1, <1>2 DEF Next

\* A worker takes up later tests only, and what it runs is counted for the test it is on
\* and fits into that one's total.
LEMMA StepForward ==
  ASSUME IInv, PlanInv, [Next]_vars, NEW v \in Workers
  PROVE  /\ task[v].test <= task'[v].test
         /\ \A k \in Tests : ran'[v][k] # ran[v][k] =>
              k = task'[v].test /\ (plan[k].total > 0 => ran'[v][k] <= plan[k].total)
<1>0. /\ TypeOK /\ InOrderAt(v) /\ CountsAt(v)
      /\ task[v].test \in Nat /\ task[v].nCount \in Nat /\ task[v].total \in Nat
      /\ ran[v] \in [Tests -> Nat] /\ left[v] \in Nat
  <2>1. TypeOK /\ InOrderAt(v) /\ CountsAt(v)
    BY DEF IInv, InOrder, CountsAddUp
  <2>2. task[v] \in TaskType /\ ran[v] \in [Tests -> Nat] /\ left[v] \in Nat
    BY <2>1 DEF TypeOK
  <2>3. task[v].test \in Nat /\ task[v].nCount \in Nat /\ task[v].total \in Nat
    BY <2>2 DEF TaskType, Tests, None
  <2> QED
    BY <2>1, <2>2, <2>3
<1>1. CASE NewTest \/ ManagerStep \/ UNCHANGED vars
  <2>1. UNCHANGED <<task, ran>>
    BY <1>1 DEF NewTest, ManagerStep, Connect, OrderRefused, OrderEnqueue, OrderNotify, vars, mvars, wvars
  <2> QED
    BY <1>0, <2>1
<1>2. ASSUME NEW w \in Workers, w # v, Worker(w)
      PROVE  UNCHANGED <<task[v], ran[v]>>
  BY <1>0, <1>2, WorkerFrame
<1>3. CASE StartTask(v)
  <2>1. task'[v].test = cmd[v] /\ wpc[v] = "dispatch" /\ ran' = ran /\ cmd[v] \in Tests
    BY <1>0, <1>3, StartEffect
  <2>2. task[v].test < cmd[v]
    BY <1>0, <2>1 DEF InOrderAt
  <2> QED
    BY <1>0, <2>1, <2>2 DEF Tests
<1>4. CASE Tick(v)
  <2>1. task'[v].test = task[v].test /\ ran' = ran
    BY <1>0, <1>4, TickEffect
  <2> QED
    BY <1>0, <2>1
<1>5. CASE RunTransaction(v)
  <2> DEFINE k == task[v].test
  <2>1. /\ wpc[v] = "run" /\ left[v] > 0 /\ task' = task
        /\ ran' = [ran EXCEPT ![v][k] = @ + 1]
    BY <1>5 DEF RunTransaction
  <2>2. k \in Tests
    BY <1>0, <2>1 DEF IInv, BusyHasTest, TypeOK, TaskType
  <2>3. ran'[v] = [ran[v] EXCEPT ![k] = @ + 1]
    BY <1>0, <2>1 DEF TypeOK
  <2> HIDE DEF k
  <2>4. ran'[v][k] = ran[v][k] + 1 /\ \A j \in Tests : j # k => ran'[v][j] = ran[v][j]
    BY <1>0, <2>2, <2>3
  <2>5. k # None /\ plan[k].total = task[v].total
    BY <2>2 DEF PlanInv, Tests, None, k
  <2>6. ran[v][k] + left[v] = task[v].nCount /\ (task[v].total > 0 => task[v].nCount <= task[v].total)
    BY <1>0, <2>5 DEF CountsAt, k
  <2>7. plan[k].total > 0 => ran'[v][k] <= plan[k].total
    BY <1>0, <2>1, <2>2, <2>4, <2>5, <2>6
  <2>8. task'[v].test = k /\ task[v].test <= task'[v].test
    BY <1>0, <2>1 DEF k
  <2> QED
    BY <2>4, <2>7, <2>8
<1>6. CASE ReadByte(v) \/ Dequeue(v) \/ ArmTimer(v) \/ Hang(v)
  <2>1. UNCHANGED <<task, ran>>
    BY <1>6 DEF ReadByte, Dequeue, ArmTimer, Hang
  <2> QED
    BY <1>0, <2>1
<1> QED
  BY <1>0, <1>1, <1>2, <1>3, <1>4, <1>5, <1>6 DEF Next, Worker

\* No worker turns back to a test that has been replaced, or runs more of one than its total:
\* whatever comes while it is at it, and whichever callback runTask is called from
\* (mptthreadpool.C:144-158, 193-263).
THEOREM NeverTurnsBack == Spec => GoesForward
<1>1. Init => PlanInv
  BY DEF Init, PlanInv, NoTask
<1>2. TypeOK /\ PlanInv /\ [Next]_vars => PlanInv'
  BY StepPlan
<1>3. IInv => TypeOK
  BY DEF IInv
<1>4. Spec => []PlanInv
  BY <1>1, <1>2, <1>3, InductiveInvariant, PTL DEF Spec
<1>5. IInv /\ PlanInv /\ [Next]_vars =>
        [\A w \in Workers :
           /\ task[w].test <= task'[w].test
           /\ \A k \in Tests : ran'[w][k] # ran[w][k] =>
                k = task'[w].test /\ (plan[k].total > 0 => ran'[w][k] <= plan[k].total)]_vars
  BY StepForward
<1> QED
  BY <1>4, <1>5, InductiveInvariant, PTL DEF Spec, GoesForward
=============================================================================
