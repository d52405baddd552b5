--------------------------- MODULE RequestHandler ---------------------------
(***************************************************************************)
(* What the manager does with a request (TManager::processHttpReq in       *)
(* manager.C), from the body to the last reply: the script file it writes  *)
(* and loads again, the connections it takes out of a new CSocketPool      *)
(* (socketpool.C) or makes, the orders it gives (mptthreadpool.C); and the *)
(* workers, as far as they use a connection for what it is not.  Libevent  *)
(* hands the manager one request after another in one thread.              *)
(***************************************************************************)
EXTENDS Integers, Sequences, FiniteSets, Functions

CONSTANTS Configured,     \* what the configuration may say of "workers"
          MaxWorkers,     \* the most it may say: 65535 in the code
          DefaultWorkers, \* the number taken otherwise: 4
          PoolSize,       \* connections of a pool: 20
          QueueCapacity,  \* events a worker's queue can hold
          Names,          \* file names a request may give, but for ""
          Contents,       \* contents of a script file
          MaxTests,       \* bound: requests for a new test
          None

(* A content is what TScript::init makes of it: whether it loads, which    *)
(* address its first TCP step gives, and the protocols of its steps.       *)
ContentType == [loads : BOOLEAN, address : {"", "pool", "other"}, steps : SUBSET {"TCP", "HTTP"}]

ASSUME HandlerAssumption ==
  /\ Configured \subseteq Nat /\ MaxWorkers \in Nat /\ DefaultWorkers \in 1 .. MaxWorkers
  /\ PoolSize \in Nat /\ QueueCapacity \in Nat \ {0} /\ MaxTests \in Nat
  /\ Contents \subseteq ContentType /\ None \notin Contents /\ "" \notin Names

VARIABLES
  size,      \* m_threadPool.size()
  files,     \* the files of $PTF_HOME/task
  pool,      \* m_queue of the pool csocket_map has for "127.0.0.1:8000"
  made,      \* how many connections have been made, which names them
  cps,       \* cps_map: the connection of each worker
  queue,     \* the orders each worker has not taken up
  task,      \* m_script of each worker
  pc,        \* how far the manager is with the request
  request,   \* its body, and the Testcase made of it
  opened,    \* whether fs.open succeeded
  script,    \* the TScript it has loaded
  sent,      \* history: for each test, the Testcase, whether its file could be
             \* opened, and whether all of it was written
  buff,      \* the text in buff, in parts
  replies,   \* the replies to the request so far
  refused,   \* history: workers that were not given the last test, and why
  undefined  \* an exception has ended the program, or it has used a connection
             \* that is not there or of the other kind

server == <<size, files, pool, made, cps>>
vars == <<server, queue, task, pc, request, opened, script, sent, buff, replies, refused, undefined>>

Workers == 1 .. size
NoConnection == [kind |-> "none", no |-> 0]
NoScript == [test |-> 0, file |-> "", protocol |-> "", content |-> None]
Testcase == [filename : Names \cup {""}, protocol : {"TCP", "HTTP", ""}, file : Contents]

\* The Testcase nothing has been read into; its file is "", which does not load.
Blank == [filename |-> "", protocol |-> "", file |-> None]
NoRequest == [url |-> "", body |-> "", testcase |-> Blank]

\* TPTFConfig::init
Threads(c) == IF c > MaxWorkers \/ c < 1 THEN DefaultWorkers ELSE c

\* The pool of threads of TManager::init, before the first request
Init ==
  /\ \E c \in Configured : size = Threads(c)
  /\ files = [f \in Names |-> None] /\ pool = <<>> /\ made = 0
  /\ cps = [w \in Workers |-> NoConnection]
  /\ queue = [w \in Workers |-> <<>>] /\ task = [w \in Workers |-> NoScript]
  /\ pc = "idle" /\ request = NoRequest /\ opened = FALSE /\ script = NoScript
  /\ sent = <<>> /\ buff = <<>> /\ replies = <<>> /\ refused = {} /\ undefined = FALSE

At(place) == pc = place /\ ~undefined
-----------------------------------------------------------------------------
(* Replies                                                                 *)

\* evhttp_send_reply with buff takes its text along; with NULL it leaves it.
Reply(code, text) ==
  /\ replies' = Append(replies, [code |-> code, body |-> buff \o text])
  /\ buff' = <<>>

ReplyWithout(code, text) ==
  /\ replies' = Append(replies, [code |-> code, body |-> <<>>])
  /\ buff' = buff \o text
-----------------------------------------------------------------------------
(* The request and its body                                                *)

\* The next request.  One for a new test is told at once that it has started.
Receive(url, body, testcase) ==
  /\ At("idle")
  /\ url = "/ptf/new_test" => Len(sent) < MaxTests
  /\ request' = [url |-> url, body |-> body, testcase |-> testcase]
  /\ replies' = << CASE url = "/"     -> [code |-> 200, body |-> <<"It works!">>]
                     [] url = "other" -> [code |-> 404, body |-> <<>>]
                     [] OTHER         -> [code |-> 200, body |-> <<"start">>] >>
  /\ buff' = <<>> /\ refused' = {}
  /\ pc' = IF url = "/ptf/new_test" THEN "body" ELSE "idle"
  /\ UNCHANGED <<server, queue, task, opened, script, sent, undefined>>

UnchangedByBody == UNCHANGED <<server, queue, task, request, opened, script, sent, refused>>

\* What is behind an array of no length may begin like an object or not.  The 24
\* bytes of a reply of 12 go on with those that follow it in memory.
NoObject ==
  /\ At("body") /\ request.body \in {"empty", "other"} /\ pc' = "idle"
  /\ Reply(400, <<"BAD REQUEST!", "what follows it">>)
  /\ UnchangedByBody /\ UNCHANGED undefined

\* No NUL ends the body: string(req_body) goes on with what is behind it on the
\* stack.  That does not matter to an object, as the parser stops at its end; it
\* may complete any other body that begins like one.
Completed == {"empty", "broken"}

\* asInt of what is no number throws, through the frames of libevent.
Mistyped ==
  /\ At("body") /\ request.body \in Completed \cup {"mistyped"} /\ undefined' = TRUE
  /\ UnchangedByBody /\ UNCHANGED <<pc, buff, replies>>

\* The Testcase is filled in from an object, and left blank if there is none.
ReadTestcase ==
  /\ At("body") /\ pc' = "file"
  /\ \/ request.body = "object" /\ UNCHANGED request
     \/ /\ request.body \in Completed
        /\ \E any \in Testcase \cup {Blank} : request' = [request EXCEPT !.testcase = any]
  /\ UNCHANGED <<server, queue, task, opened, script, sent, buff, replies, refused, undefined>>
-----------------------------------------------------------------------------
(* The script file                                                         *)

Note(written) ==
  sent' = Append(sent, [testcase |-> request.testcase, opened |-> opened', written |-> written])

\* A bug to try: what a file holds is not cut off before it is written.
BugWriteFileKeeps ==
  /\ At("file") /\ pc' = "load"
  /\ LET t == request.testcase IN
     \/ /\ t.filename # "" /\ opened' = TRUE
        /\ files' = IF files[t.filename] = None THEN [files EXCEPT ![t.filename] = t.file] ELSE files
        /\ Note(TRUE)
        /\ UNCHANGED <<buff, replies>>
     \/ /\ opened' = FALSE /\ UNCHANGED files /\ Note(FALSE)
        /\ ReplyWithout(400, <<"Can not create the file">>)
  /\ UNCHANGED <<size, pool, made, cps, queue, task, request, script, refused, undefined>>

\* A file that cannot be opened is one more reply, and the handler goes on.  The
\* name "" is that of the directory.  Nobody asks whether the text was written: of
\* a file cut short nothing can be loaded.
WriteFile ==
  /\ At("file") /\ pc' = "load"
  /\ LET t == request.testcase IN
     \/ /\ t.filename # "" /\ opened' = TRUE
        /\ \E all \in BOOLEAN :
             /\ files' = [files EXCEPT ![t.filename] = IF all THEN t.file ELSE None]
             /\ Note(all)
        /\ UNCHANGED <<buff, replies>>
     \/ /\ opened' = FALSE /\ UNCHANGED files /\ Note(FALSE)
        /\ ReplyWithout(400, <<"Can not create the file">>)
  /\ UNCHANGED <<size, pool, made, cps, queue, task, request, script, refused, undefined>>

\* new TScript(filename) and its init(), of whatever the file holds by now
LoadScript ==
  /\ At("load") /\ pc' = request.testcase.protocol
  /\ script' = [test |-> Len(sent), file |-> request.testcase.filename,
                protocol |-> request.testcase.protocol,
                content |-> IF request.testcase.filename \in Names
                            THEN files[request.testcase.filename] ELSE None]
  /\ UNCHANGED <<server, queue, task, request, opened, sent, buff, replies, refused, undefined>>

Loads == script.content # None /\ script.content.loads
ConnStr == IF script.content = None THEN "" ELSE script.content.address
-----------------------------------------------------------------------------
(* Connections, whether the script has loaded or not                       *)

UnchangedByConnecting ==
  UNCHANGED <<size, files, queue, task, request, opened, script, sent, buff, replies, refused>>

\* createSocketPool: the former pool and its connections are forgotten.
NewPool == [i \in 1 .. PoolSize |-> made + i]

\* A bug to try: front() without pop().
BugGetSocketKeeps(q, k) == q

\* The queue of a pool after k calls of getSocket, the first k being given away.
GetSocket(q, k) == SubSeq(q, k + 1, Len(q))

\* A bug to try: only the first worker gets a connection.
BugConnectTcpFirst ==
  /\ At("TCP") /\ pc' = "order"
  /\ made' = made + PoolSize
  /\ cps' = [cps EXCEPT ![1] = [kind |-> "TCP", no |-> NewPool[1]]]
  /\ pool' = GetSocket(NewPool, 1)
  /\ UnchangedByConnecting /\ UNCHANGED undefined

\* A TCP test takes one connection for each worker from the pool of the script's
\* address: NULL if there is none of that address, and what front() finds in an
\* empty queue if there are more workers than connections.
ConnectTcp ==
  /\ At("TCP")
  /\ IF ConnStr # "pool" \/ PoolSize < size
     THEN undefined' = TRUE /\ UNCHANGED <<pool, made, cps, pc>>
     ELSE /\ made' = made + PoolSize
          /\ cps' = [w \in Workers |-> [kind |-> "TCP", no |-> GetSocket(NewPool, w - 1)[1]]]
          /\ pool' = GetSocket(NewPool, size)
          /\ pc' = "order" /\ UNCHANGED undefined
  /\ UnchangedByConnecting

ConnectHttp ==
  /\ At("HTTP") /\ pc' = "order"
  /\ made' = made + size
  /\ cps' = [w \in Workers |-> [kind |-> "HTTP", no |-> made + w]]
  /\ UnchangedByConnecting /\ UNCHANGED <<pool, undefined>>

\* Another protocol makes no connections.
ConnectNone ==
  /\ At("") /\ pc' = "order"
  /\ UnchangedByConnecting /\ UNCHANGED <<pool, made, cps, undefined>>
-----------------------------------------------------------------------------
(* Orders and the last reply                                               *)

\* chooseWorkers chooses none, which stands for all of them.
Chosen == Workers

\* A bug to try: the test is ordered although its script has not loaded.
BugOrderUnloaded ==
  /\ At("order") /\ pc' = "idle"
  /\ queue' = [w \in Workers |-> IF Len(queue[w]) < QueueCapacity THEN Append(queue[w], script)
                                 ELSE queue[w]]
  /\ refused' = {w \in Chosen : Len(queue[w]) = QueueCapacity}
  /\ Reply(200, <<"start">>)
  /\ UNCHANGED <<server, task, request, opened, script, sent, undefined>>

\* What order() returns is not looked at.
Order ==
  /\ At("order") /\ Loads /\ pc' = "idle"
  /\ queue' = [w \in Workers |-> IF w \in Chosen /\ Len(queue[w]) < QueueCapacity
                                 THEN Append(queue[w], script) ELSE queue[w]]
  /\ refused' = {w \in Chosen : Len(queue[w]) = QueueCapacity}
  /\ Reply(200, <<"start">>)
  /\ UNCHANGED <<server, task, request, opened, script, sent, undefined>>

LoadFailed ==
  /\ At("order") /\ ~Loads /\ pc' = "idle"
  /\ ReplyWithout(500, <<"load task failed!">>)
  /\ UNCHANGED <<server, queue, task, request, opened, script, sent, refused, undefined>>
-----------------------------------------------------------------------------
(* The workers                                                             *)

UnchangedByWorker ==
  UNCHANGED <<server, pc, request, opened, script, sent, buff, replies, refused>>

StartTask(w) ==
  /\ ~undefined /\ queue[w] # <<>>
  /\ task' = [task EXCEPT ![w] = Head(queue[w])]
  /\ queue' = [queue EXCEPT ![w] = Tail(@)]
  /\ UnchangedByWorker /\ UNCHANGED undefined

\* The pointer cps_map has for the worker is cast to CSocket* or CHttpConnection*,
\* by runTask as the script's protocol says, and by a step as its own says, which
\* asks neither whether there is one nor whether runTask has told it of the
\* transaction.
Fits(connection, t) ==
  /\ connection.kind \in {"none", t.protocol} \/ t.protocol = ""
  /\ \A p \in t.content.steps : connection.kind = p /\ t.protocol = p

RunTask(w) ==
  /\ ~undefined /\ task[w] # NoScript
  /\ ~Fits(cps[w], task[w]) /\ undefined' = TRUE
  /\ UnchangedByWorker /\ UNCHANGED <<queue, task>>
-----------------------------------------------------------------------------
Urls == {"/", "/ptf/other", "/ptf/new_test", "other"}
Bodies == {"empty", "other", "mistyped", "broken", "object"}

Requests == \/ \E url \in Urls \ {"/ptf/new_test"} : Receive(url, "empty", Blank)
            \/ \E body \in Bodies \ {"object"} : Receive("/ptf/new_test", body, Blank)
            \/ \E testcase \in Testcase : Receive("/ptf/new_test", "object", testcase)

Manager == \/ Requests \/ NoObject \/ Mistyped \/ ReadTestcase
           \/ WriteFile \/ LoadScript \/ ConnectTcp \/ ConnectHttp \/ ConnectNone
           \/ Order \/ LoadFailed

Next == Manager \/ \E w \in Workers : StartTask(w) \/ RunTask(w)

Spec == Init /\ [][Next]_vars
-----------------------------------------------------------------------------
(* Properties                                                              *)

TypeOK ==
  /\ size \in 1 .. MaxWorkers /\ made \in Nat
  /\ files \in [Names -> Contents \cup {None}]
  /\ pool \in Seq(1 .. made) /\ Len(pool) <= PoolSize
  /\ cps \in [Workers -> [kind : {"none", "TCP", "HTTP"}, no : 0 .. made]]
  /\ \A w \in Workers : Len(queue[w]) <= QueueCapacity
  /\ pc \in {"idle", "body", "file", "load", "TCP", "HTTP", "", "order"}
  /\ opened \in BOOLEAN /\ Len(sent) <= MaxTests /\ Len(replies) <= 3
  /\ refused \subseteq Workers /\ undefined \in BOOLEAN

\* What the workers have been given.
Given(w) == Range(queue[w]) \cup ({task[w]} \ {NoScript})

\* A worker runs the script that came with the test, although the handler goes
\* by way of a file that other tests write, too, and that may have been cut short;
\* unless the file could not be opened, when what it held before is loaded
\* (manager.C:128-138).  What came is what the parser has read, of the body and of
\* what is behind it.
RunsWhatWasSent ==
  \A w \in Workers : \A t \in Given(w) :
    t.content = sent[t.test].testcase.file \/ ~sent[t.test].opened

\* No two workers have the same connection, and none has one that the pool would
\* give away (manager.C:154-159, socketpool.C:305-313), however many tests there
\* have been and of whatever protocol.
ConnectionsApart ==
  \A w \in Workers : cps[w].kind # "none" =>
    /\ cps[w].no \notin Range(pool)
    /\ \A v \in Workers \ {w} : cps[v].no # cps[w].no

\* The steps of a sound test are of its protocol, the one pool there is has their
\* address, and its file has been written.
Sound(s) ==
  /\ s.written /\ s.testcase.protocol \in {"TCP", "HTTP"}
  /\ s.testcase.file.loads => s.testcase.file.steps = {s.testcase.protocol}
  /\ s.testcase.protocol = "TCP" => s.testcase.file.address = "pool"

\* Each worker gets a connection, and none uses a connection that is not there or
\* is of the other kind (manager.C:155, socketpool.C:308, mptthreadpool.C:243-261),
\* unless there are more workers than a pool has connections, a test is not sound,
\* or tests of both protocols have come, as a worker may still run the one when
\* cps_map has the connection of the other; or the handler has thrown before
\* (manager.C:108-118).
ConnectionsFit ==
  undefined => \/ PoolSize < size
               \/ \E i \in DOMAIN sent : ~Sound(sent[i])
               \/ \E i, j \in DOMAIN sent : sent[i].testcase.protocol # sent[j].testcase.protocol
               \/ pc = "body" /\ request.body \in Completed \cup {"mistyped"}

\* The last of the replies to a test (manager.C:92, 190, 195) is that it has
\* started only when its script has loaded and each worker has been given it,
\* but for those whose queue was full (mptthreadpool.C:91); and there is one more
\* before it, two when the file could not be opened.  That a worker hears of what
\* is in its queue is ThreadPool's matter.
LastReplyTrue ==
  pc = "idle" /\ request.url = "/ptf/new_test" /\ request.body \in {"object", "broken"} =>
    /\ Len(replies) = IF opened THEN 2 ELSE 3
    /\ replies[Len(replies)].code = 200 =>
         /\ Loads
         /\ \A w \in Workers : (\A t \in Given(w) : t.test # Len(sent)) => w \in refused
=============================================================================
