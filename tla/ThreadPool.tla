----------------------------- MODULE ThreadPool -----------------------------
(***************************************************************************)
(* The manager's handling of /ptf/new_test (src/src/manager.C) and the     *)
(* worker threads it drives (src/src/mptthreadpool.C).  The manager is one *)
(* thread; each worker is one libevent loop that serves the read end of    *)
(* its pipe and one timer, a callback at a time.  The queue between them   *)
(* is the atomic FIFO that RingBuffer implements in this use.              *)
(***************************************************************************)
EXTENDS Integers, Sequences

CONSTANTS NWorkers,      \* m_nCount
          MaxTests,      \* bound: how many tests are submitted
          Plans,         \* [tps, total, duration] given to TCmdStartEvent
          QueueCapacity, \* events a worker's queue can hold
          WriteFails     \* whether the write of a notification byte may fail

Workers == 0 .. NWorkers - 1
Tests == 1 .. MaxTests
None == 0                \* no test, and the NULL of a pointer to one

ASSUME PoolAssumption == /\ NWorkers \in Nat /\ NWorkers > 0
                         /\ MaxTests \in Nat /\ QueueCapacity \in Nat
                         /\ WriteFails \in BOOLEAN
ASSUME PlanAssumption == Plans \subseteq [tps : Nat \ {0}, total : Nat, duration : Nat]

VARIABLES test,          \* the last test submitted: a script and its numbers
          plan, binds,   \* of each test: its numbers, whether it has connections
          mpc, loads, i, \* the manager: where it is, m_script loaded, loop index
          queue, bytes,  \* to each worker: events queued, bytes in its pipe
          conn,          \* cps_map: the test whose connection each worker has
          wpc, cmd,      \* each worker: where it is, the event it dequeued
          task, timer,   \* m_taskInfo, m_timerEvent is pending
          left,          \* transactions the current runTask has still to run
          ran            \* transactions each worker has run of each test

mvars == <<test, plan, binds, mpc, loads, i>>
wvars == <<wpc, cmd, task, timer, left, ran>>
vars == <<mvars, queue, bytes, conn, wvars>>

NoTask == [test |-> None, tps |-> 0, total |-> 0, duration |-> 0, nCount |-> 0, nSecs |-> 0]

Init ==
  /\ test = None
  /\ plan \in [Tests -> Plans] /\ binds \in [Tests -> BOOLEAN]
  /\ mpc = "idle" /\ loads = FALSE /\ i = 0
  /\ queue = [w \in Workers |-> <<>>] /\ bytes = [w \in Workers |-> 0]
  /\ conn = [w \in Workers |-> None]
  /\ wpc = [w \in Workers |-> "loop"] /\ cmd = [w \in Workers |-> None]
  /\ task = [w \in Workers |-> NoTask]
  /\ timer = [w \in Workers |-> FALSE] /\ left = [w \in Workers |-> 0]
  /\ ran = [w \in Workers |-> [k \in Tests |-> 0]]
-----------------------------------------------------------------------------
(* The manager                                                             *)

\* A bug to try: no connection is made for the test.
BugNewTestUnconnected ==
  /\ mpc = "idle" /\ test < MaxTests
  /\ test' = test + 1
  /\ i' = 0 /\ loads' \in BOOLEAN
  /\ mpc' = IF loads' THEN "order" ELSE "idle"
  /\ UNCHANGED <<plan, binds, queue, bytes, conn, wvars>>

\* A request is accepted at any time, whatever the workers are doing.
NewTest ==
  /\ mpc = "idle" /\ test < MaxTests
  /\ test' = test + 1
  /\ i' = 0 /\ loads' \in BOOLEAN
  /\ mpc' = IF binds[test'] THEN "connect" ELSE IF loads' THEN "order" ELSE "idle"
  /\ UNCHANGED <<plan, binds, queue, bytes, conn, wvars>>

\* One turn of a loop over the workers, and where it goes after the last.
NextWorker(again, after) ==
  IF i + 1 < NWorkers THEN i' = i + 1 /\ mpc' = again
                      ELSE i' = 0 /\ mpc' = after

\* initConnect and initHttpConnect: they write cps_map without its mutex, and
\* also for a script that did not load.
Connect ==
  /\ mpc = "connect"
  /\ conn' = [conn EXCEPT ![i] = test]
  /\ NextWorker("connect", IF loads THEN "order" ELSE "idle")
  /\ UNCHANGED <<test, plan, binds, loads, queue, bytes, wvars>>

\* A bug to try: the byte is written whether or not the event was queued.
BugOrderRefusedNotifies ==
  /\ mpc = "order" /\ Len(queue[i]) = QueueCapacity
  /\ bytes' = [bytes EXCEPT ![i] = @ + 1]
  /\ NextWorker("order", "idle")
  /\ UNCHANGED <<test, plan, binds, loads, queue, conn, wvars>>

\* order(), the queue is full: the event is dropped and nobody is told.
OrderRefused ==
  /\ mpc = "order" /\ Len(queue[i]) = QueueCapacity
  /\ NextWorker("order", "idle")
  /\ UNCHANGED <<test, plan, binds, loads, queue, bytes, conn, wvars>>

OrderEnqueue ==
  /\ mpc = "order" /\ Len(queue[i]) < QueueCapacity
  /\ queue' = [queue EXCEPT ![i] = Append(@, test)]
  /\ mpc' = "notify"
  /\ UNCHANGED <<test, plan, binds, loads, i, bytes, conn, wvars>>

\* A bug to try: the order is given again when its byte could not be written.
BugOrderNotifyRetries ==
  /\ mpc = "notify"
  /\ \/ bytes' = [bytes EXCEPT ![i] = @ + 1] /\ NextWorker("order", "idle")
     \/ WriteFails /\ mpc' = "order" /\ UNCHANGED <<bytes, i>>
  /\ UNCHANGED <<test, plan, binds, loads, queue, conn, wvars>>

OrderNotify ==
  /\ mpc = "notify"
  /\ \/ bytes' = [bytes EXCEPT ![i] = @ + 1]
     \/ WriteFails /\ UNCHANGED bytes
  /\ NextWorker("order", "idle")
  /\ UNCHANGED <<test, plan, binds, loads, queue, conn, wvars>>

ManagerStep == Connect \/ OrderRefused \/ OrderEnqueue \/ OrderNotify
-----------------------------------------------------------------------------
(* The workers                                                             *)

\* A bug to try: one read takes all the bytes there are.
BugReadByteReadsAll(w) ==
  /\ wpc[w] = "loop" /\ bytes[w] > 0
  /\ bytes' = [bytes EXCEPT ![w] = 0]
  /\ wpc' = [wpc EXCEPT ![w] = "dequeue"]
  /\ UNCHANGED <<mvars, queue, conn, cmd, task, timer, left, ran>>

\* threadEventProcess, its read() of one byte.
ReadByte(w) ==
  /\ wpc[w] = "loop" /\ bytes[w] > 0
  /\ bytes' = [bytes EXCEPT ![w] = @ - 1]
  /\ wpc' = [wpc EXCEPT ![w] = "dequeue"]
  /\ UNCHANGED <<mvars, queue, conn, cmd, task, timer, left, ran>>

Dequeue(w) ==
  /\ wpc[w] = "dequeue"
  /\ IF queue[w] = <<>>
     THEN cmd' = [cmd EXCEPT ![w] = None] /\ UNCHANGED queue
     ELSE /\ cmd' = [cmd EXCEPT ![w] = Head(queue[w])]
          /\ queue' = [queue EXCEPT ![w] = Tail(@)]
  /\ wpc' = [wpc EXCEPT ![w] = "dispatch"]
  /\ UNCHANGED <<mvars, bytes, conn, task, timer, left, ran>>

\* A bug to try: the last turn is not cut to what is left of the total.
BugNewTasksUncut(t) == t.tps

\* How many transactions runTask adds, and whether it goes on at all.
NewTasks(t) == IF t.total > 0 /\ t.nCount + t.tps > t.total THEN t.total - t.nCount
                                                           ELSE t.tps
\* A bug to try: the last second is dropped when it is not a full one.
BugGoesOnWholeSeconds(t) == t.total = 0 \/ t.nCount + t.tps <= t.total

GoesOn(t) == IF t.total > 0 THEN NewTasks(t) > 0
                            ELSE t.duration = 0 \/ t.nSecs + 1 <= t.duration

\* runTask up to its loop, with the timer as its caller leaves it.  The field
\* it increments with each call is m_duration, not m_nSecs.
RunTask(w, t, pending) ==
  /\ timer' = [timer EXCEPT ![w] = pending]
  /\ IF GoesOn(t)
     THEN /\ task' = [task EXCEPT ![w] = [t EXCEPT !.nCount = @ + NewTasks(t),
                                                   !.duration = @ + 1]]
          /\ left' = [left EXCEPT ![w] = NewTasks(t)]
          /\ wpc' = [wpc EXCEPT ![w] = "run"]
     ELSE /\ task' = [task EXCEPT ![w] = t]
          /\ wpc' = [wpc EXCEPT ![w] = "loop"]
          /\ UNCHANGED left

\* The new task replaces the one the worker had, whether or not that was over.
\* A NULL event is dereferenced at once: there is no step from that state.
StartTask(w) ==
  /\ wpc[w] = "dispatch" /\ cmd[w] # None
  /\ LET q == plan[cmd[w]] IN
     RunTask(w, [test |-> cmd[w], tps |-> q.tps, total |-> q.total,
                 duration |-> q.duration, nCount |-> 0, nSecs |-> 0], timer[w])
  /\ UNCHANGED <<mvars, queue, bytes, conn, cmd, ran>>

\* A bug to try: the timer is armed whether or not the task goes on.
BugTickAlwaysArms(w) ==
  /\ wpc[w] = "loop" /\ timer[w]
  /\ RunTask(w, task[w], TRUE)
  /\ UNCHANGED <<mvars, queue, bytes, conn, cmd, ran>>

\* time_cb.  A timer that fires is no longer pending.
Tick(w) ==
  /\ wpc[w] = "loop" /\ timer[w]
  /\ RunTask(w, task[w], FALSE)
  /\ UNCHANGED <<mvars, queue, bytes, conn, cmd, ran>>

\* One transaction that ends, from `new TTransation' to the return of onEvent().
RunTransaction(w) ==
  /\ wpc[w] = "run" /\ left[w] > 0
  /\ left' = [left EXCEPT ![w] = @ - 1]
  /\ ran' = [ran EXCEPT ![w][task[w].test] = @ + 1]
  /\ UNCHANGED <<mvars, queue, bytes, conn, wpc, cmd, task, timer>>

\* A transaction need not end: its loop goes round for as long as no event comes
\* (transaction.C:64-73), and the worker serves neither its pipe nor its timer again.
Hang(w) ==
  /\ wpc[w] = "run" /\ left[w] > 0
  /\ wpc' = [wpc EXCEPT ![w] = "hung"]
  /\ UNCHANGED <<mvars, queue, bytes, conn, cmd, task, timer, left, ran>>

\* Both callers of runTask arm the timer when it went on.
ArmTimer(w) ==
  /\ wpc[w] = "run" /\ left[w] = 0
  /\ timer' = [timer EXCEPT ![w] = TRUE]
  /\ wpc' = [wpc EXCEPT ![w] = "loop"]
  /\ UNCHANGED <<mvars, queue, bytes, conn, cmd, task, left, ran>>

Worker(w) == ReadByte(w) \/ Dequeue(w) \/ StartTask(w) \/ Tick(w)
             \/ RunTransaction(w) \/ Hang(w) \/ ArmTimer(w)

Next == NewTest \/ ManagerStep \/ \E w \in Workers : Worker(w)

Spec == Init /\ [][Next]_vars

\* An iteration of libevent's loop runs the callbacks of the pipe and of the
\* timer when both are ready, so neither starves the other: hence SF.  A
\* request may never come, but the manager finishes one it has begun.  A worker
\* goes on in its callbacks, unless a transaction hangs.
FairSpec ==
  /\ Spec
  /\ WF_vars(ManagerStep)
  /\ \A w \in Workers : /\ SF_vars(ReadByte(w)) /\ SF_vars(Tick(w))
                        /\ WF_vars(Dequeue(w) \/ StartTask(w) \/ RunTransaction(w)
                                   \/ ArmTimer(w))
-----------------------------------------------------------------------------
(* Properties                                                              *)

TaskType == [test : Tests \cup {None}, tps : Nat, total : Nat, duration : Nat,
             nCount : Nat, nSecs : Nat]

TypeOK ==
  /\ test \in Tests \cup {None}
  /\ plan \in [Tests -> Plans] /\ binds \in [Tests -> BOOLEAN]
  /\ mpc \in {"idle", "connect", "order", "notify"}
  /\ loads \in BOOLEAN /\ i \in Workers
  /\ queue \in [Workers -> Seq(Tests)]
  /\ bytes \in [Workers -> Nat]
  /\ conn \in [Workers -> Tests \cup {None}]
  /\ wpc \in [Workers -> {"loop", "dequeue", "dispatch", "run", "hung"}]
  /\ cmd \in [Workers -> Tests \cup {None}]
  /\ task \in [Workers -> TaskType]
  /\ timer \in [Workers -> BOOLEAN]
  /\ left \in [Workers -> Nat]
  /\ ran \in [Workers -> [Tests -> Nat]]

\* The bytes in a worker's pipe, the one it has just read and the one order()
\* is about to write never outnumber the queued events, lost writes or not.
BytesHaveEvents ==
  \A w \in Workers :
    bytes[w] + (IF mpc = "notify" /\ i = w THEN 1 ELSE 0)
             + (IF wpc[w] = "dequeue" THEN 1 ELSE 0) <= Len(queue[w])

\* threadEventProcess calls pEvent->type() without looking (mptthreadpool.C:
\* 122-123): what it has dequeued is never NULL.
NeverNull == \A w \in Workers : wpc[w] = "dispatch" => cmd[w] # None

\* The manager is at a test that it has still to order from w.
StillToOrder(w) == \/ mpc = "connect"
                   \/ mpc = "order" /\ i <= w
                   \/ mpc = "notify" /\ i < w

LastOrdered(w) == IF StillToOrder(w) THEN test - 1 ELSE test

\* The tests a worker has still to take up are in the order they were
\* submitted, none twice, and all later than the one it is on: the queue is
\* FIFO, the manager orders a test once (manager.C:179-182), and a refused
\* order is skipped, never made up for later.
InOrderAt(w) ==
  /\ \A a, b \in 1 .. Len(queue[w]) : a < b => queue[w][a] < queue[w][b]
  /\ \A a \in 1 .. Len(queue[w]) :
       /\ queue[w][a] <= LastOrdered(w)
       /\ task[w].test < queue[w][a]
       /\ wpc[w] = "dispatch" => cmd[w] < queue[w][a]
  /\ wpc[w] = "dispatch" => task[w].test < cmd[w] /\ cmd[w] <= LastOrdered(w)
  /\ task[w].test <= LastOrdered(w)

InOrder == \A w \in Workers : InOrderAt(w)

\* runTask is in its loop, where a transaction may hang.
Busy(w) == wpc[w] \in {"run", "hung"}

\* What runTask and its loop have done of the current task adds up, and stays
\* within m_total, from whichever callback runTask was called.
CountsAt(w) ==
  LET t == task[w] IN
    /\ t.test # None => ran[w][t.test] + left[w] = t.nCount /\ t.tps > 0
    /\ t.total > 0 => t.nCount <= t.total
    /\ ~Busy(w) => left[w] = 0
    /\ \A k \in Tests : k > t.test => ran[w][k] = 0

CountsAddUp == \A w \in Workers : CountsAt(w)

\* A worker whose timer is not pending has run its task to the end: a task is never
\* left half done with nothing to resume it, but for the worker that hangs in it.
QuietAt(w) == task[w].total > 0 /\ ~Busy(w) /\ ~timer[w] =>
                ran[w][task[w].test] = task[w].total

QuietMeansDone == \A w \in Workers : QuietAt(w)

\* A transaction never gets a connection older than its test, since the
\* manager writes cps_map before it orders (manager.C:145-182).
NoStaleConnection ==
  \A w \in Workers : Busy(w) /\ binds[task[w].test] => conn[w] >= task[w].test

\* What makes that so: nothing is queued for a worker before its connection.
Connected(w, k) == binds[k] => conn[w] >= k

ConnectionsFirst ==
  /\ mpc = "connect" => binds[test] /\ \A w \in Workers : w < i => conn[w] = test
  /\ mpc \in {"order", "notify"} /\ binds[test] => \A w \in Workers : conn[w] = test
  /\ \A w \in Workers :
       /\ conn[w] <= test
       /\ \A a \in 1 .. Len(queue[w]) : Connected(w, queue[w][a])
       /\ wpc[w] = "dispatch" /\ cmd[w] # None => Connected(w, cmd[w])
       /\ task[w].test # None => Connected(w, task[w].test)

\* The manager orders a test, and a worker that runs or waits for its timer
\* runs one.
BusyHasTest ==
  /\ mpc # "idle" => test # None
  /\ \A w \in Workers : /\ Busy(w) \/ timer[w] => task[w].test # None
                        /\ task[w].test = None => task[w].total = 0

\* The inductive invariant.
IInv == /\ TypeOK /\ BytesHaveEvents /\ NeverNull /\ InOrder /\ CountsAddUp
        /\ QuietMeansDone /\ ConnectionsFirst /\ BusyHasTest

\* Work goes forward: a worker never turns back to a test that a later one has replaced,
\* and runs no more of any than its total, though startTask sets the count to zero whenever
\* it is called and time_cb goes on with whatever task it finds (mptthreadpool.C:144-158,
\* 193-208).
GoesForward ==
  [][\A w \in Workers :
       /\ task[w].test <= task'[w].test
       /\ \A k \in Tests : ran'[w][k] # ran[w][k] =>
            k = task'[w].test /\ (plan[k].total > 0 => ran'[w][k] <= plan[k].total)]_vars

\* An order that a byte announces is taken up, however busy the worker's timer
\* is and whatever other writes have failed, unless the worker hangs in the
\* transaction of an order before.
Announced(w) == bytes[w] + (IF wpc[w] = "dequeue" THEN 1 ELSE 0)

EveryOrderServed ==
  \A w \in Workers, k \in Tests :
    (\E a \in 1 .. Len(queue[w]) : queue[w][a] = k /\ a <= Announced(w))
      ~> task[w].test = k \/ wpc[w] = "hung"

\* When every test has a total, each worker comes to rest, its task run to the end
\* and its timer not armed again, or hangs in a transaction.
ComeToRest == <>[](\A w \in Workers : wpc[w] = "hung" \/ (wpc[w] = "loop" /\ ~timer[w]))
=============================================================================
