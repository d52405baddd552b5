------------------------ MODULE RequestHandlerProofs ------------------------
(***************************************************************************)
(* What the manager does with requests, for any number of workers, tests,  *)
(* names and contents of script files: every variable keeps its type, a    *)
(* worker runs what was sent, no two workers have one connection, the last *)
(* reply to a test is true, and connections fit as long as the tests are   *)
(* sound.                                                                  *)
(***************************************************************************)
EXTENDS RequestHandler, SequenceTheorems, TLAPS

Protocols == {"TCP", "HTTP", ""}
AnyCase == [filename : Names \cup {""}, protocol : Protocols, file : Contents \cup {None}]
AnySent == [testcase : AnyCase, opened : BOOLEAN, written : BOOLEAN]
AnyScript == [test : Nat, file : Names \cup {""}, protocol : Protocols,
              content : Contents \cup {None}]
AnyRequest == [url : Urls \cup {""}, body : Bodies \cup {""}, testcase : AnyCase]
Texts == {"It works!", "start", "BAD REQUEST!", "what follows it", "Can not create the file", "load task failed!"}
AnyReply == [code : Nat, body : Seq(Texts)]

\* What the manager is in the middle of: a test it has taken a note of.
Noted == {"load", "TCP", "HTTP", "", "order"}
Loaded == {"TCP", "HTTP", "", "order"}

\* The types, in more detail than TypeOK.
TypeInv ==
  /\ size \in 1 .. MaxWorkers /\ made \in Nat
  /\ files \in [Names -> Contents \cup {None}]
  /\ pool \in Seq(1 .. made) /\ Len(pool) <= PoolSize
  /\ cps \in [Workers -> [kind : {"none", "TCP", "HTTP"}, no : 0 .. made]]
  /\ queue \in [Workers -> Seq(AnyScript)]
  /\ \A w \in Workers : Len(queue[w]) <= QueueCapacity
  /\ task \in [Workers -> AnyScript]
  /\ pc \in {"idle", "body", "file"} \cup Noted
  /\ request \in AnyRequest /\ opened \in BOOLEAN /\ script \in AnyScript
  /\ sent \in Seq(AnySent) /\ Len(sent) <= MaxTests
  /\ buff \in Seq(Texts) /\ replies \in Seq(AnyReply)
  /\ refused \subseteq Workers /\ undefined \in BOOLEAN

\* The note s of a test is of the request at hand.
Latest(s) == s.testcase = request.testcase /\ s.opened = opened /\ (s.written => s.opened)

\* What the request is, and how far its replies have come.
RequestInv ==
  /\ pc \in Protocols => pc = request.testcase.protocol
  /\ request.testcase \in Testcase \cup {Blank}
  /\ pc # "idle" => request.url = "/ptf/new_test"
  /\ pc \in {"body", "file"} => Len(sent) < MaxTests /\ Len(replies) = 1
  /\ pc \in Noted => /\ Len(replies) = IF opened THEN 1 ELSE 2
                     /\ Len(sent) >= 1
                     /\ Latest(sent[Len(sent)])
  /\ Len(replies) <= 3

\* The script t is that of a test, unless the file could not be opened; and it is
\* nothing, if not all of the file has been written.
Stems(t) ==
  /\ t.test \in 1 .. Len(sent)
  /\ t.protocol = sent[t.test].testcase.protocol
  /\ t.content = sent[t.test].testcase.file \/ ~sent[t.test].written
  /\ sent[t.test].opened /\ ~sent[t.test].written => t.content = None

\* What workers are given stems from tests, and loads.
ScriptInv ==
  /\ pc = "load" /\ opened =>
       /\ request.testcase.filename \in Names
       /\ files[request.testcase.filename] =
            IF sent[Len(sent)].written THEN request.testcase.file ELSE None
  /\ pc \in Loaded => script.test = Len(sent) /\ Stems(script)
  /\ \A w \in Workers : \A t \in Given(w) : Stems(t) /\ t.content # None /\ t.content.loads

\* A worker is given tests in their order.
OrderInv ==
  \A w \in Workers :
    /\ \A i, j \in 1 .. Len(queue[w]) : i < j => queue[w][i].test < queue[w][j].test
    /\ \A i \in 1 .. Len(queue[w]) : task[w].test < queue[w][i].test
    /\ pc \in Noted => /\ task[w].test < Len(sent)
                       /\ \A i \in 1 .. Len(queue[w]) : queue[w][i].test < Len(sent)

\* The last reply, and what it says.
ReplyInv ==
  pc = "idle" /\ request.url = "/ptf/new_test" /\ request.body \in {"object", "broken"} =>
    /\ Len(replies) = IF opened THEN 2 ELSE 3
    /\ Len(sent) >= 1
    /\ replies[Len(replies)].code = 200 =>
         /\ Loads
         /\ \A w \in Workers : w \in refused \/ \E t \in Given(w) : t.test = Len(sent)

\* Whose protocol a worker's connection is of.
KindInv ==
  /\ \A w \in Workers : cps[w].kind # "none" =>
       \E i \in 1 .. Len(sent) : sent[i].testcase.protocol = cps[w].kind
  /\ pc = "order" /\ script.protocol # "" => \A w \in Workers : cps[w].kind # "none"
  /\ \A w \in Workers : \A t \in Given(w) : t.protocol # "" => cps[w].kind # "none"
-----------------------------------------------------------------------------
(* Types                                                                   *)

\* A blank Testcase and no script are what their classes say (testcase.h:12-38,
\* script.h:22-57).
LEMMA Values ==
  /\ Blank \in AnyCase /\ NoScript \in AnyScript /\ NoRequest \in AnyRequest
  /\ Testcase \subseteq AnyCase /\ NoScript.test = 0 /\ Blank.protocol = ""
BY HandlerAssumption
   DEF Blank, NoScript, NoRequest, Testcase, AnyCase, AnyScript, AnyRequest, Protocols, Urls, Bodies

\* A text by itself is a body (manager.C:84, 92).
LEMMA OneText ==
  ASSUME NEW x \in Texts
  PROVE  <<x>> \in Seq(Texts)
OBVIOUS

\* A reply adds one to the replies (manager.C:100-102, 136, 190-196).
LEMMA OneReply ==
  ASSUME TypeInv, NEW code \in Nat, NEW text \in Seq(Texts),
         Reply(code, text) \/ ReplyWithout(code, text)
  PROVE  /\ buff' \in Seq(Texts) /\ replies' \in Seq(AnyReply)
         /\ Len(replies') = Len(replies) + 1 /\ replies'[Len(replies')].code = code
<1>1. buff \in Seq(Texts) /\ replies \in Seq(AnyReply)
  BY DEF TypeInv
<1>2. buff \o text \in Seq(Texts) /\ <<>> \in Seq(Texts) /\ <<>> \in Seq(Texts)
  BY <1>1, ConcatProperties
<1>3. buff' \in Seq(Texts)
  BY <1>2 DEF Reply, ReplyWithout
<1>4. PICK r \in AnyReply : r.code = code /\ replies' = Append(replies, r)
  BY <1>2 DEF Reply, ReplyWithout, AnyReply
<1> QED
  BY <1>1, <1>3, <1>4, AppendProperties

\* The first reply to a request (manager.C:80-94, 215-217).
LEMMA RequestEffect ==
  ASSUME Requests
  PROVE  /\ pc = "idle" /\ ~undefined
         /\ request' \in AnyRequest
         /\ request'.testcase \in Testcase \cup {Blank}
         /\ request'.url = "/ptf/new_test" => Len(sent) < MaxTests
         /\ pc' = IF request'.url = "/ptf/new_test" THEN "body" ELSE "idle"
         /\ replies' \in Seq(AnyReply) /\ Len(replies') = 1 /\ buff' = <<>> /\ refused' = {}
         /\ UNCHANGED <<server, queue, task, opened, script, sent, undefined>>
<1>1. PICK url \in Urls, body \in Bodies, testcase \in AnyCase :
        /\ Receive(url, body, testcase)
        /\ testcase \in Testcase \cup {Blank}
  BY Values DEF Requests, Urls, Bodies
<1>2. /\ request' = [url |-> url, body |-> body, testcase |-> testcase] /\ request' \in AnyRequest
      /\ request'.url = url /\ request'.body = body /\ request'.testcase = testcase
  BY <1>1 DEF Receive, AnyRequest
<1>3. replies' \in Seq(AnyReply) /\ Len(replies') = 1
  <2>1. /\ [code |-> 200, body |-> <<"It works!">>] \in AnyReply
        /\ [code |-> 404, body |-> <<>>] \in AnyReply
        /\ [code |-> 200, body |-> <<"start">>] \in AnyReply
    <3>1. "It works!" \in Texts /\ "start" \in Texts
      BY DEF Texts
    <3>2. <<"It works!">> \in Seq(Texts)
      BY <3>1, OneText
    <3>3. <<"start">> \in Seq(Texts)
      BY <3>1, OneText
    <3>4. <<>> \in Seq(Texts) /\ 200 \in Nat /\ 404 \in Nat
      OBVIOUS
    <3>5. \A code \in Nat, text \in Seq(Texts) : [code |-> code, body |-> text] \in AnyReply
      BY DEF AnyReply
    <3> QED
      BY <3>2, <3>3, <3>4, <3>5, ZenonT(30)
  <2> DEFINE r == CASE url = "/"     -> [code |-> 200, body |-> <<"It works!">>]
                    [] url = "other" -> [code |-> 404, body |-> <<>>]
                    [] OTHER         -> [code |-> 200, body |-> <<"start">>]
  <2>2. r \in AnyReply
    BY <2>1
  <2>3. replies' = <<r>>
    BY <1>1 DEF Receive
  <2> HIDE DEF r
  <2> QED
    BY <2>2, <2>3
<1> QED
  BY <1>1, <1>2, <1>3 DEF Receive, At

\* Which steps there are (manager.C:80-198, mptthreadpool.C:193-267).
LEMMA Steps ==
  ASSUME [Next]_vars
  PROVE  \/ Requests
         \/ Mistyped
         \/ NoObject
         \/ ReadTestcase
         \/ WriteFile
         \/ LoadScript
         \/ ConnectTcp \/ ConnectHttp \/ ConnectNone
         \/ Order
         \/ LoadFailed
         \/ \E w \in Workers : StartTask(w)
         \/ \E w \in Workers : RunTask(w)
         \/ UNCHANGED vars
BY DEF Next, Manager

\* The numbers the configuration gives (ptfconfig.C:58-65, socketpool.C:276).
LEMMA Numbers ==
  /\ Configured \subseteq Nat /\ MaxWorkers \in Nat /\ DefaultWorkers \in 1 .. MaxWorkers
  /\ PoolSize \in Nat /\ QueueCapacity \in Nat \ {0} /\ MaxTests \in Nat
BY HandlerAssumption

\* At the start there are no tests, no connections and no orders (manager.C:45-55,
\* ptfconfig.C:58-65).
LEMMA InitType == Init => TypeInv
<1> SUFFICES ASSUME Init PROVE TypeInv
  OBVIOUS
<1>1. size \in 1 .. MaxWorkers
  <2>1. PICK c \in Configured : size = Threads(c)
    BY DEF Init
  <2>2. c \in Nat
    BY <2>1, Numbers
  <2> QED
    BY <2>1, <2>2, Numbers DEF Threads
<1>2. /\ request \in AnyRequest /\ script \in AnyScript
      /\ task \in [Workers -> AnyScript] /\ files \in [Names -> Contents \cup {None}]
  BY Values DEF Init
<1>3. queue \in [Workers -> Seq(AnyScript)] /\ \A w \in Workers : Len(queue[w]) <= QueueCapacity
  <2>1. queue = [w \in Workers |-> <<>>] /\ <<>> \in Seq(AnyScript) /\ Len(<<>>) = 0
    BY DEF Init
  <2> QED
    BY <2>1, Numbers
<1>4. cps \in [Workers -> [kind : {"none", "TCP", "HTTP"}, no : 0 .. made]] /\ made \in Nat
  BY DEF Init, NoConnection
<1>5. pool \in Seq(1 .. made) /\ Len(pool) <= PoolSize /\ sent \in Seq(AnySent) /\ Len(sent) <= MaxTests
  BY Numbers DEF Init
<1>6. buff \in Seq(Texts) /\ replies \in Seq(AnyReply)
  BY DEF Init
<1> QED
  BY <1>1, <1>2, <1>3, <1>4, <1>5, <1>6 DEF Init, TypeInv

\* What a new pool holds, and what is left of it when each worker has taken one
\* (socketpool.C:276-314).
LEMMA PoolFacts ==
  ASSUME NEW k \in Nat, made \in Nat
  PROVE  /\ GetSocket(NewPool, k) \in Seq(made + 1 + k .. made + PoolSize)
         /\ k <= PoolSize => Len(GetSocket(NewPool, k)) = PoolSize - k
         /\ Len(GetSocket(NewPool, k)) <= PoolSize
         /\ k < PoolSize => GetSocket(NewPool, k)[1] = made + k + 1
<1>1. PoolSize \in Nat /\ Len(NewPool) = PoolSize /\ \A i \in 1 .. PoolSize : NewPool[i] = made + i
  BY Numbers DEF NewPool
<1> DEFINE S == made + 1 + k .. made + PoolSize
           q == NewPool
<1>2. \A i \in k + 1 .. PoolSize : q[i] \in S
  BY <1>1
<1>3. q = NewPool
  OBVIOUS
<1> HIDE DEF S, q
<1>4. /\ SubSeq(q, k + 1, PoolSize) \in Seq(S)
      /\ Len(SubSeq(q, k + 1, PoolSize)) = IF k + 1 <= PoolSize THEN PoolSize - (k + 1) + 1 ELSE 0
      /\ \A i \in 1 .. PoolSize - (k + 1) + 1 : SubSeq(q, k + 1, PoolSize)[i] = q[k + 1 + i - 1]
  BY <1>1, <1>2, SubSeqProperties
<1>5. GetSocket(q, k) = SubSeq(q, k + 1, PoolSize)
  BY <1>1, <1>3 DEF GetSocket
<1>6. GetSocket(q, k) \in Seq(S)
  BY <1>4, <1>5
<1>7. /\ k <= PoolSize => Len(GetSocket(q, k)) = PoolSize - k
      /\ Len(GetSocket(q, k)) <= PoolSize
  BY <1>1, <1>4, <1>5
<1>8. k < PoolSize => GetSocket(q, k)[1] = made + k + 1
  <2> HAVE k < PoolSize
  <2>1. 1 \in 1 .. PoolSize - (k + 1) + 1 /\ k + 1 + 1 - 1 = k + 1 /\ k + 1 \in 1 .. PoolSize
    BY <1>1
  <2>2. GetSocket(q, k)[1] = q[k + 1]
    BY <1>4, <1>5, <2>1
  <2> QED
    BY <1>1, <1>3, <2>1, <2>2
<1> QED
  BY <1>3, <1>6, <1>7, <1>8 DEF S

\* What a TCP or an HTTP test makes of the connections, unless it does what C++
\* leaves open (manager.C:145-169).
LEMMA ConnectEffect ==
  ASSUME TypeInv, ConnectTcp \/ ConnectHttp \/ ConnectNone
  PROVE  /\ pc \in Protocols /\ ~undefined /\ made' \in Nat /\ made <= made'
         /\ \/ /\ undefined' /\ pc = "TCP" /\ (ConnStr # "pool" \/ PoolSize < size)
               /\ UNCHANGED <<pool, made, cps, pc>>
            \/ ~undefined' /\ pc' = "order"
         /\ \/ UNCHANGED <<pool, made, cps>> /\ (undefined' \/ pc = "")
            \/ /\ pc \in {"TCP", "HTTP"} /\ ~undefined'
               /\ cps' = [w \in Workers |-> [kind |-> pc, no |-> made + w]]
               /\ made + size <= made'
               /\ pool' = pool \/ pool' \in Seq(made + size + 1 .. made')
         /\ pool' \in Seq(1 .. made') /\ Len(pool') <= PoolSize
         /\ UNCHANGED <<size, files, queue, task, request, opened, script, sent, buff, replies, refused>>
<1> USE DEF Protocols, UnchangedByConnecting, At
<1>0. Workers = 1 .. size
  BY DEF Workers
<1>1. /\ size \in Nat \ {0} /\ made \in Nat /\ PoolSize \in Nat
      /\ pool \in Seq(1 .. made) /\ Len(pool) <= PoolSize
  BY Numbers DEF TypeInv
<1>2. CASE ConnectTcp /\ (ConnStr # "pool" \/ PoolSize < size)
  BY <1>1, <1>2 DEF ConnectTcp
<1>3. CASE ConnectTcp /\ ~(ConnStr # "pool" \/ PoolSize < size)
  <2>1. /\ pc = "TCP" /\ ~undefined /\ pc' = "order" /\ undefined' = undefined
        /\ made' = made + PoolSize /\ size <= PoolSize
        /\ pool' = GetSocket(NewPool, size)
        /\ cps' = [w \in Workers |-> [kind |-> "TCP", no |-> GetSocket(NewPool, w - 1)[1]]]
    BY <1>1, <1>3 DEF ConnectTcp
  <2>2. \A w \in Workers : GetSocket(NewPool, w - 1)[1] = made + w
    <3> SUFFICES ASSUME NEW w \in Workers PROVE GetSocket(NewPool, w - 1)[1] = made + w
      OBVIOUS
    <3>1. w - 1 \in Nat /\ w - 1 < PoolSize
      BY <1>0, <1>1, <2>1
    <3>2. GetSocket(NewPool, w - 1)[1] = made + (w - 1) + 1
      BY <1>1, <3>1, PoolFacts
    <3>3. made + (w - 1) + 1 = made + w
      BY <1>0, <1>1
    <3> QED
      BY <3>2, <3>3
  <2>3. cps' = [w \in Workers |-> [kind |-> pc, no |-> made + w]]
    BY <2>1, <2>2
  <2>4. pool' \in Seq(made + 1 + size .. made + PoolSize) /\ Len(pool') <= PoolSize
    BY <1>1, <2>1, PoolFacts
  <2>5. pool' \in Seq(1 .. made') /\ pool' \in Seq(made + size + 1 .. made')
    <3>1. (made + 1 + size .. made + PoolSize) \subseteq 1 .. made'
      BY <1>1, <2>1
    <3>2. made + 1 + size = made + size + 1
      BY <1>1
    <3> QED
      BY <2>1, <2>4, <3>1, <3>2, SeqMonotonic
  <2>6. made' \in Nat /\ made + size <= made' /\ made <= made'
    BY <1>1, <2>1
  <2> QED
    BY <1>3, <2>1, <2>3, <2>4, <2>5, <2>6 DEF ConnectTcp
<1>4. CASE ConnectHttp
  <2>1. made' = made + size /\ cps' = [w \in Workers |-> [kind |-> "HTTP", no |-> made + w]] /\ pc = "HTTP"
    BY <1>4 DEF ConnectHttp
  <2>2. cps' = [w \in Workers |-> [kind |-> pc, no |-> made + w]]
    BY <1>1, <2>1 DEF Workers
  <2>3. made' \in Nat /\ made + size <= made' /\ made <= made'
    BY <1>1, <2>1
  <2>4. pool \in Seq(1 .. made')
    <3>1. (1 .. made) \subseteq 1 .. made'
      BY <1>1, <2>1
    <3> QED
      BY <1>1, <3>1, SeqMonotonic
  <2> QED
    BY <1>1, <1>4, <2>1, <2>2, <2>3, <2>4 DEF ConnectHttp
<1>5. CASE ConnectNone
  <2>1. pc = "" /\ pc' = "order" /\ UNCHANGED <<pool, made, cps, undefined>> /\ ~undefined
    BY <1>5 DEF ConnectNone
  <2>2. made' = made /\ pool' = pool
    BY <2>1
  <2>4. made' \in Nat /\ made <= made'
    BY <1>1, <2>2
  <2>5. pool' \in Seq(1 .. made') /\ Len(pool') <= PoolSize
    BY <1>1, <2>2, Zenon
  <2>3. UNCHANGED <<size, files, queue, task, request, opened, script, sent, buff, replies, refused>>
    BY <1>5 DEF ConnectNone
  <2> QED
    BY <2>1, <2>3, <2>4, <2>5
<1> QED
  BY <1>2, <1>3, <1>4, <1>5

\* What is noted of a test (manager.C:123-137).
NoteOf(all) == [testcase |-> request.testcase, opened |-> opened', written |-> all]

\* The file is written or a reply says that it cannot be, and the test is noted
\* (manager.C:123-137).
LEMMA WriteEffect ==
  ASSUME TypeInv, WriteFile
  PROVE  /\ pc = "file" /\ pc' = "load" /\ ~undefined /\ opened' \in BOOLEAN
         /\ files' \in [Names -> Contents \cup {None}]
         /\ \E all \in BOOLEAN :
              /\ all => opened'
              /\ opened' => /\ request.testcase.filename \in Names
                            /\ files'[request.testcase.filename] =
                                 IF all THEN request.testcase.file ELSE None
              /\ NoteOf(all) \in AnySent /\ sent' = Append(sent, NoteOf(all))
         /\ buff' \in Seq(Texts) /\ replies' \in Seq(AnyReply)
         /\ Len(replies') = IF opened' THEN Len(replies) ELSE Len(replies) + 1
         /\ UNCHANGED <<size, pool, made, cps, queue, task, request, script, refused, undefined>>
<1>1. /\ request.testcase \in AnyCase /\ files \in [Names -> Contents \cup {None}]
      /\ buff \in Seq(Texts) /\ replies \in Seq(AnyReply)
  BY DEF TypeInv, AnyRequest
<1>2. request.testcase.filename \in Names \cup {""} /\ request.testcase.file \in Contents \cup {None}
  BY <1>1 DEF AnyCase
<1>3. <<"Can not create the file">> \in Seq(Texts) /\ 400 \in Nat
  BY OneText DEF Texts
<1>4. PICK all \in BOOLEAN :
        /\ \/ /\ request.testcase.filename # "" /\ opened' = TRUE
              /\ files' = [files EXCEPT ![request.testcase.filename] =
                             IF all THEN request.testcase.file ELSE None]
              /\ UNCHANGED <<buff, replies>>
           \/ /\ opened' = FALSE /\ all = FALSE /\ UNCHANGED files
              /\ ReplyWithout(400, <<"Can not create the file">>)
        /\ sent' = Append(sent, NoteOf(all))
  BY DEF WriteFile, Note, NoteOf
<1>5. /\ opened' \in BOOLEAN /\ (all => opened')
      /\ files' \in [Names -> Contents \cup {None}]
      /\ opened' => /\ request.testcase.filename \in Names
                    /\ files'[request.testcase.filename] = IF all THEN request.testcase.file ELSE None
  BY <1>1, <1>2, <1>4
<1>6. /\ buff' \in Seq(Texts) /\ replies' \in Seq(AnyReply)
      /\ Len(replies') = IF opened' THEN Len(replies) ELSE Len(replies) + 1
  BY <1>1, <1>3, <1>4, OneReply, ZenonT(30)
<1>7. NoteOf(all) \in AnySent
  BY <1>1, <1>5 DEF AnySent, NoteOf
<1> QED
  BY <1>4, <1>5, <1>6, <1>7 DEF WriteFile, At

\* The script is what the file holds, whether that was written or not
\* (manager.C:138-144).
LEMMA LoadEffect ==
  ASSUME TypeInv, LoadScript
  PROVE  /\ pc = "load" /\ pc' = request.testcase.protocol /\ pc' \in Protocols /\ ~undefined
         /\ script' \in AnyScript /\ script'.test = Len(sent)
         /\ script'.protocol = request.testcase.protocol
         /\ request.testcase.filename \in Names =>
              script'.content = files[request.testcase.filename]
         /\ UNCHANGED <<server, queue, task, request, opened, sent, buff, replies, refused, undefined>>
<1>1. request.testcase \in AnyCase /\ files \in [Names -> Contents \cup {None}] /\ Len(sent) \in Nat
  <2>1. request \in AnyRequest /\ files \in [Names -> Contents \cup {None}] /\ sent \in Seq(AnySent)
    BY DEF TypeInv
  <2>2. request.testcase \in AnyCase
    BY <2>1 DEF AnyRequest
  <2> QED
    BY <2>1, <2>2
<1>2. /\ request.testcase.filename \in Names \cup {""} /\ request.testcase.protocol \in Protocols
  BY <1>1 DEF AnyCase
<1> DEFINE content == IF request.testcase.filename \in Names
                      THEN files[request.testcase.filename] ELSE None
<1>3. content \in Contents \cup {None}
  BY <1>1
<1>4. script' = [test |-> Len(sent), file |-> request.testcase.filename,
                 protocol |-> request.testcase.protocol, content |-> content]
  BY DEF LoadScript
<1>5. request.testcase.filename \in Names => content = files[request.testcase.filename]
  OBVIOUS
<1> HIDE DEF content
<1>6. script' \in AnyScript
  BY <1>1, <1>2, <1>3, <1>4 DEF AnyScript
<1>7. pc = "load" /\ pc' = request.testcase.protocol /\ ~undefined
  BY DEF LoadScript, At
<1>8. /\ script'.test = Len(sent) /\ script'.protocol = request.testcase.protocol
      /\ script'.content = content
  BY <1>4
<1>9. UNCHANGED <<server, queue, task, request, opened, sent, buff, replies, refused, undefined>>
  BY DEF LoadScript
<1> QED
  BY <1>2, <1>5, <1>6, <1>7, <1>8, <1>9

\* Each worker has been given the script or refused it (manager.C:170-192,
\* mptthreadpool.C:85-95).
LEMMA OrderEffect ==
  ASSUME TypeInv, Order
  PROVE  /\ pc = "order" /\ pc' = "idle" /\ Loads /\ ~undefined
         /\ queue' \in [Workers -> Seq(AnyScript)]
         /\ \A w \in Workers :
              /\ Len(queue'[w]) <= QueueCapacity
              /\ \/ w \in refused' /\ queue'[w] = queue[w]
                 \/ queue'[w] = Append(queue[w], script)
         /\ buff' \in Seq(Texts) /\ replies' \in Seq(AnyReply)
         /\ Len(replies') = Len(replies) + 1 /\ replies'[Len(replies')].code = 200
         /\ refused' \subseteq Workers
         /\ UNCHANGED <<server, task, request, opened, script, sent, undefined>>
<1>1. /\ queue \in [Workers -> Seq(AnyScript)] /\ script \in AnyScript /\ QueueCapacity \in Nat
      /\ \A w \in Workers : Len(queue[w]) <= QueueCapacity
  BY Numbers DEF TypeInv
<1>2. /\ queue' = [w \in Workers |-> IF Len(queue[w]) < QueueCapacity
                                     THEN Append(queue[w], script) ELSE queue[w]]
      /\ refused' = {w \in Workers : Len(queue[w]) = QueueCapacity}
  BY DEF Order, Chosen
<1>3. ASSUME NEW w \in Workers
      PROVE  /\ queue'[w] \in Seq(AnyScript) /\ Len(queue'[w]) <= QueueCapacity
             /\ \/ w \in refused' /\ queue'[w] = queue[w]
                \/ queue'[w] = Append(queue[w], script)
  <2>1. CASE Len(queue[w]) < QueueCapacity
    <3>1. queue'[w] = Append(queue[w], script)
      BY <1>2, <2>1
    <3>2. Len(Append(queue[w], script)) = Len(queue[w]) + 1 /\ Append(queue[w], script) \in Seq(AnyScript)
      BY <1>1, AppendProperties
    <3> QED
      BY <1>1, <2>1, <3>1, <3>2
  <2>2. CASE ~(Len(queue[w]) < QueueCapacity)
    BY <1>1, <1>2, <2>2
  <2> QED
    BY <2>1, <2>2
<1>4. queue' \in [Workers -> Seq(AnyScript)]
  BY <1>2, <1>3
<1>5. <<"start">> \in Seq(Texts) /\ 200 \in Nat
  BY OneText DEF Texts
<1>6. /\ buff' \in Seq(Texts) /\ replies' \in Seq(AnyReply)
      /\ Len(replies') = Len(replies) + 1 /\ replies'[Len(replies')].code = 200
  BY <1>5, OneReply DEF Order
<1> QED
  BY <1>2, <1>3, <1>4, <1>6 DEF Order, At

\* A worker takes up the first of its orders (mptthreadpool.C:193-200).
LEMMA StartEffect ==
  ASSUME TypeInv, NEW w \in Workers, StartTask(w)
  PROVE  /\ ~undefined /\ queue' \in [Workers -> Seq(AnyScript)] /\ task' \in [Workers -> AnyScript]
         /\ 1 \in 1 .. Len(queue[w]) /\ task'[w] = queue[w][1]
         /\ Len(queue'[w]) = Len(queue[w]) - 1
         /\ \A i \in 1 .. Len(queue'[w]) : i + 1 \in 1 .. Len(queue[w]) /\ queue'[w][i] = queue[w][i + 1]
         /\ \A v \in Workers : v # w => queue'[v] = queue[v] /\ task'[v] = task[v]
         /\ UNCHANGED <<server, pc, request, opened, script, sent, buff, replies, refused, undefined>>
<1>1. /\ queue \in [Workers -> Seq(AnyScript)] /\ task \in [Workers -> AnyScript]
      /\ queue[w] \in Seq(AnyScript) /\ queue[w] # <<>>
  BY DEF TypeInv, StartTask
<1>2. /\ Len(queue[w]) \in Nat \ {0} /\ Head(queue[w]) = queue[w][1] /\ queue[w][1] \in AnyScript
      /\ Tail(queue[w]) \in Seq(AnyScript) /\ Len(Tail(queue[w])) = Len(queue[w]) - 1
      /\ \A i \in 1 .. Len(Tail(queue[w])) : Tail(queue[w])[i] = queue[w][i + 1]
  BY <1>1, HeadTailProperties, EmptySeq
<1>3. /\ task' = [task EXCEPT ![w] = Head(queue[w])]
      /\ queue' = [queue EXCEPT ![w] = Tail(@)]
  BY DEF StartTask
<1>4. queue'[w] = Tail(queue[w]) /\ task'[w] = queue[w][1]
  BY <1>1, <1>2, <1>3
<1>5. \A i \in 1 .. Len(queue'[w]) : i + 1 \in 1 .. Len(queue[w]) /\ queue'[w][i] = queue[w][i + 1]
  BY <1>2, <1>4
<1> QED
  BY <1>1, <1>2, <1>3, <1>4, <1>5 DEF StartTask, UnchangedByWorker

\* The types are kept by all that the manager and the workers do (manager.C:80-198,
\* mptthreadpool.C:193-267).
LEMMA StepType ==
  ASSUME TypeInv, RequestInv, [Next]_vars
  PROVE  TypeInv'
<1>0. /\ sent \in Seq(AnySent) /\ Len(sent) \in Nat /\ replies \in Seq(AnyReply) /\ Len(replies) \in Nat
      /\ \A w \in Workers : queue[w] \in Seq(AnyScript) /\ Len(queue[w]) \in Nat
  BY DEF TypeInv
<1>1. CASE Requests
  <2>1. <<>> \in Seq(Texts) /\ {} \subseteq Workers
    OBVIOUS
  <2> QED
    BY <1>1, <2>1, RequestEffect DEF TypeInv, server, Workers
<1>2. CASE Mistyped
  <2>1. /\ undefined' = TRUE
        /\ UNCHANGED <<server, queue, task, request, opened, script, sent, refused, pc, buff, replies>>
    BY <1>2 DEF Mistyped, UnchangedByBody
  <2> QED
    BY <2>1 DEF TypeInv, server, Workers
<1>3. CASE NoObject
  <2>1. <<"BAD REQUEST!", "what follows it">> \in Seq(Texts) /\ 400 \in Nat
    BY DEF Texts
  <2>2. buff' \in Seq(Texts) /\ replies' \in Seq(AnyReply) /\ pc' = "idle"
    BY <1>3, <2>1, OneReply, ZenonT(30) DEF NoObject
  <2>3. UNCHANGED <<server, queue, task, request, opened, script, sent, refused, undefined>>
    BY <1>3 DEF NoObject, UnchangedByBody
  <2> QED
    BY <2>2, <2>3 DEF TypeInv, server, Workers
<1>4. CASE ReadTestcase
  <2>1. request' \in AnyRequest
    BY <1>4, Values DEF ReadTestcase, TypeInv, AnyRequest
  <2>2. /\ pc' = "file"
        /\ UNCHANGED <<server, queue, task, opened, script, sent, buff, replies, refused, undefined>>
    BY <1>4 DEF ReadTestcase
  <2> QED
    BY <2>1, <2>2 DEF TypeInv, server, Workers
<1>5. CASE WriteFile
  <2>1. sent' \in Seq(AnySent) /\ Len(sent') <= MaxTests
    <3>1. Len(sent) < MaxTests
      BY <1>5, WriteEffect DEF RequestInv
    <3>2. sent' \in Seq(AnySent) /\ Len(sent') = Len(sent) + 1
      <4>1. PICK s \in AnySent : sent' = Append(sent, s)
        BY <1>5, WriteEffect
      <4> QED
        BY <1>0, <4>1, AppendProperties
    <3> QED
      BY <1>0, <3>1, <3>2, Numbers
  <2> QED
    BY <1>5, <2>1, WriteEffect DEF TypeInv, Noted, Workers
<1>6. CASE LoadScript
  BY <1>6, LoadEffect DEF TypeInv, Noted, Protocols, server, Workers
<1>7. CASE ConnectTcp \/ ConnectHttp \/ ConnectNone
  <2>1. cps' \in [Workers -> [kind : {"none", "TCP", "HTTP"}, no : 0 .. made']]
    <3>1. made \in Nat /\ size \in Nat /\ made' \in Nat /\ made <= made' /\ Workers = 1 .. size
      <4>1. made' \in Nat /\ made <= made'
        BY <1>7, ConnectEffect
      <4> QED
        BY <4>1, Numbers DEF TypeInv, Workers
    <3>2. cps \in [Workers -> [kind : {"none", "TCP", "HTTP"}, no : 0 .. made]]
      BY DEF TypeInv
    <3>3. CASE cps' = cps
      BY <3>1, <3>2, <3>3
    <3>4. CASE /\ cps' = [w \in Workers |-> [kind |-> pc, no |-> made + w]]
               /\ pc \in {"TCP", "HTTP"} /\ made + size <= made'
      <4>1. \A w \in Workers : made + w \in 0 .. made'
        BY <3>1, <3>4
      <4> QED
        BY <3>4, <4>1
    <3> QED
      BY <1>7, <3>3, <3>4, ConnectEffect
  <2>2. undefined' \in BOOLEAN /\ pc' \in {"idle", "body", "file"} \cup Noted
    <3>1. \/ undefined' /\ pc' = pc
          \/ ~undefined' /\ pc' = "order"
      BY <1>7, ConnectEffect
    <3>2. undefined' \in BOOLEAN
      BY <1>7 DEF ConnectTcp, ConnectHttp, ConnectNone, TypeInv
    <3> QED
      BY <3>1, <3>2 DEF TypeInv, Noted
  <2>3. /\ made' \in Nat /\ pool' \in Seq(1 .. made') /\ Len(pool') <= PoolSize
        /\ UNCHANGED <<size, files, queue, task, request, opened, script, sent, buff, replies, refused>>
    BY <1>7, ConnectEffect
  <2> QED
    BY <2>1, <2>2, <2>3 DEF TypeInv, Workers
<1>8. CASE Order
  <2>1. /\ pc' = "idle" /\ queue' \in [Workers -> Seq(AnyScript)]
        /\ \A w \in Workers : Len(queue'[w]) <= QueueCapacity
        /\ buff' \in Seq(Texts) /\ replies' \in Seq(AnyReply) /\ refused' \subseteq Workers
        /\ UNCHANGED <<server, task, request, opened, script, sent, undefined>>
    BY <1>8, OrderEffect
  <2> QED
    BY <2>1 DEF TypeInv, server, Workers
<1>9. CASE LoadFailed
  <2>1. <<"load task failed!">> \in Seq(Texts) /\ 500 \in Nat
    BY OneText DEF Texts
  <2>2. buff' \in Seq(Texts) /\ replies' \in Seq(AnyReply) /\ pc' = "idle"
    BY <1>9, <2>1, OneReply DEF LoadFailed
  <2>3. UNCHANGED <<server, queue, task, request, opened, script, sent, refused, undefined>>
    BY <1>9 DEF LoadFailed
  <2> QED
    BY <2>2, <2>3 DEF TypeInv, server, Workers
<1>10. ASSUME NEW w \in Workers, StartTask(w) PROVE TypeInv'
  <2>1. \A v \in Workers : Len(queue'[v]) <= QueueCapacity
    <3>1. \A v \in Workers : Len(queue[v]) <= QueueCapacity /\ Len(queue[v]) \in Nat
      BY <1>0 DEF TypeInv
    <3>2. Len(queue'[w]) = Len(queue[w]) - 1 /\ \A v \in Workers : v # w => queue'[v] = queue[v]
      BY <1>10, StartEffect
    <3> QED
      BY <3>1, <3>2, Numbers
  <2> QED
    BY <1>10, <2>1, StartEffect DEF TypeInv, server, Workers
<1>11. ASSUME NEW w \in Workers, RunTask(w) PROVE TypeInv'
  BY <1>11 DEF RunTask, UnchangedByWorker, TypeInv, server, Workers
<1>12. CASE UNCHANGED vars
  BY <1>12 DEF vars, server, TypeInv, Workers
<1> QED
  BY <1>1, <1>2, <1>3, <1>4, <1>5, <1>6, <1>7, <1>8, <1>9, <1>10, <1>11, <1>12, Steps
-----------------------------------------------------------------------------
(* The request and its replies                                             *)

\* A request goes through the manager as it came, and replies are counted
\* (manager.C:80-198).
LEMMA RequestStep ==
  ASSUME TypeInv, RequestInv, [Next]_vars
  PROVE  RequestInv'
<1>0. sent \in Seq(AnySent) /\ Len(sent) \in Nat /\ Len(replies) \in Nat
  <2>1. sent \in Seq(AnySent) /\ replies \in Seq(AnyReply)
    BY DEF TypeInv
  <2> QED
    BY <2>1
<1> USE DEF Noted, Protocols
<1>1. CASE Requests
  <2>1. /\ pc' \in {"body", "idle"} /\ Len(replies') = 1 /\ sent' = sent
        /\ pc' # "idle" => request'.url = "/ptf/new_test" /\ Len(sent) < MaxTests
        /\ request'.testcase \in Testcase \cup {Blank}
    BY <1>1, RequestEffect
  <2>2. pc' \notin Noted /\ pc' \notin Protocols /\ Len(replies') <= 3
    <3>1. pc' \in {"body", "idle"} /\ Len(replies') = 1
      BY <2>1
    <3>2. pc' \notin Noted /\ pc' \notin Protocols
      BY <3>1
    <3>3. Len(replies') \in Int /\ Len(replies') <= 3
      BY <3>1
    <3> QED
      BY <3>2, <3>3
  <2> HIDE DEF Noted, Protocols
  <2> QED
    BY <2>1, <2>2 DEF RequestInv
<1>2. CASE Mistyped \/ \E w \in Workers : StartTask(w) \/ RunTask(w)
  <2>1. UNCHANGED <<pc, request, sent, replies, opened>>
    BY <1>2 DEF Mistyped, UnchangedByBody, StartTask, RunTask, UnchangedByWorker
  <2> QED
    BY <2>1 DEF RequestInv, Latest
<1>3. CASE NoObject
  <2>1. pc = "body" /\ pc' = "idle" /\ UNCHANGED <<request, sent, opened>>
    BY <1>3 DEF NoObject, UnchangedByBody, At
  <2>2. Len(replies') = 2
    <3>1. <<"BAD REQUEST!", "what follows it">> \in Seq(Texts) /\ 400 \in Nat
      BY DEF Texts
    <3>2. Len(replies) = 1
      BY <2>1 DEF RequestInv
    <3>3. Len(replies') = Len(replies) + 1
      BY <1>3, <3>1, OneReply DEF NoObject
    <3> QED
      BY <3>2, <3>3
  <2> QED
    BY <2>1, <2>2 DEF RequestInv
<1>4. CASE ReadTestcase
  <2>1. /\ pc = "body" /\ pc' = "file" /\ UNCHANGED <<sent, replies, opened>>
        /\ \/ request' = request
           \/ \E any \in Testcase \cup {Blank} : request' = [request EXCEPT !.testcase = any]
    BY <1>4 DEF ReadTestcase, At
  <2>2. request'.testcase \in Testcase \cup {Blank} /\ request'.url = request.url
    <3>1. request \in AnyRequest
      BY DEF TypeInv
    <3> QED
      BY <2>1, <3>1 DEF AnyRequest, RequestInv
  <2> QED
    BY <2>1, <2>2 DEF RequestInv
<1>5. CASE WriteFile
  <2>1. /\ pc = "file" /\ pc' = "load" /\ UNCHANGED request /\ opened' \in BOOLEAN
        /\ Len(replies') = IF opened' THEN Len(replies) ELSE Len(replies) + 1
    BY <1>5, WriteEffect
  <2>2. Len(sent') >= 1 /\ Latest(sent[Len(sent)])'
    <3>1. PICK all \in BOOLEAN :
            (all => opened') /\ NoteOf(all) \in AnySent /\ sent' = Append(sent, NoteOf(all))
      BY <1>5, WriteEffect
    <3>2. Len(sent') = Len(sent) + 1 /\ sent'[Len(sent) + 1] = NoteOf(all)
      BY <1>0, <3>1, AppendProperties
    <3>3. sent'[Len(sent')] = NoteOf(all) /\ Len(sent') >= 1
      BY <1>0, <3>2
    <3> QED
      BY <2>1, <3>1, <3>3 DEF NoteOf, Latest
  <2>3. Len(replies) = 1
    BY <2>1 DEF RequestInv
  <2> QED
    BY <2>1, <2>2, <2>3 DEF RequestInv
<1>6. CASE LoadScript
  <2>1. /\ pc = "load" /\ pc' = request.testcase.protocol /\ pc' \in Protocols
        /\ UNCHANGED <<request, sent, replies, opened>>
    BY <1>6, LoadEffect
  <2> QED
    BY <2>1 DEF RequestInv, Latest
<1>7. CASE ConnectTcp \/ ConnectHttp \/ ConnectNone
  <2>1. /\ pc \in Protocols /\ (pc' = pc \/ pc' = "order")
        /\ UNCHANGED <<request, sent, replies, opened>>
    BY <1>7, ConnectEffect
  <2> QED
    BY <2>1 DEF RequestInv, Latest
<1>8. CASE Order \/ LoadFailed
  <2>1. pc = "order" /\ pc' = "idle" /\ UNCHANGED <<request, sent, opened>>
    BY <1>8 DEF Order, LoadFailed, At
  <2>2. Len(replies') = Len(replies) + 1
    <3>1. <<"load task failed!">> \in Seq(Texts) /\ <<"start">> \in Seq(Texts) /\ 500 \in Nat /\ 200 \in Nat
      BY OneText DEF Texts
    <3> QED
      BY <1>8, <3>1, OneReply, ZenonT(30) DEF Order, LoadFailed
  <2>3. Len(replies) <= 2
    <3>1. Len(replies) = IF opened THEN 1 ELSE 2
      BY <2>1 DEF RequestInv
    <3> QED
      BY <3>1
  <2> QED
    BY <1>0, <2>1, <2>2, <2>3 DEF RequestInv
<1>9. CASE UNCHANGED vars
  BY <1>9 DEF vars, RequestInv, Latest
<1> QED
  BY <1>1, <1>2, <1>3, <1>4, <1>5, <1>6, <1>7, <1>8, <1>9, Steps
-----------------------------------------------------------------------------
(* Connections                                                             *)

\* A new test numbers its connections on from those there are, and a pool keeps
\* those it has not given away (manager.C:145-169, socketpool.C:276-314).
LEMMA ApartStep ==
  ASSUME TypeInv, ConnectionsApart, [Next]_vars
  PROVE  ConnectionsApart'
<1>0. made \in Nat /\ Workers = 1 .. size /\ size \in Nat
  BY Numbers DEF TypeInv, Workers
<1>1. CASE UNCHANGED <<cps, pool, size>>
  BY <1>1 DEF ConnectionsApart, Workers
<1>2. CASE ConnectTcp \/ ConnectHttp \/ ConnectNone
  <2>1. /\ made' \in Nat /\ made + size <= made' /\ Workers' = Workers
        /\ pool \in Seq(1 .. made)
        /\ cps' = [w \in Workers |-> [kind |-> pc, no |-> made + w]]
        /\ pool' = pool \/ pool' \in Seq(made + size + 1 .. made')
        \/ UNCHANGED <<cps, pool, size>>
    BY <1>2, ConnectEffect DEF Workers, TypeInv
  <2>2. ASSUME made' \in Nat, made + size <= made', Workers' = Workers, pool \in Seq(1 .. made),
               cps' = [w \in Workers |-> [kind |-> pc, no |-> made + w]],
               pool' = pool \/ pool' \in Seq(made + size + 1 .. made')
        PROVE  ConnectionsApart'
    <3>1. \A a \in Range(pool') : a \in 1 .. made \/ a \in made + size + 1 .. made'
      BY <2>2, RangeOfSeq
    <3>2. ASSUME NEW w \in Workers
          PROVE  /\ cps'[w].no = made + w /\ made + w \notin Range(pool')
                 /\ \A v \in Workers \ {w} : cps'[v].no # made + w
      <4>1. made + w \notin 1 .. made /\ made + w \notin made + size + 1 .. made'
        BY <1>0, <2>2
      <4> QED
        BY <1>0, <2>2, <3>1, <4>1
    <3> QED
      BY <2>2, <3>2 DEF ConnectionsApart
  <2> QED
    BY <1>1, <2>1, <2>2
<1>3. CASE ~(ConnectTcp \/ ConnectHttp \/ ConnectNone)
  <2>1. UNCHANGED <<cps, pool, size>>
    <3>1. Requests => UNCHANGED <<cps, pool, size>>
      BY RequestEffect DEF server
    <3> QED
      BY <1>3, <3>1, Steps
         DEF Mistyped, NoObject, UnchangedByBody, ReadTestcase, WriteFile, LoadScript,
             Order, LoadFailed, StartTask, RunTask, UnchangedByWorker, vars, server
  <2> QED
    BY <1>1, <2>1
<1> QED
  BY <1>2, <1>3
-----------------------------------------------------------------------------
(* Scripts                                                                 *)

\* Tests are noted one after another, and no note is changed (manager.C:106-137).
LEMMA SentKept ==
  ASSUME TypeInv, [Next]_vars
  PROVE  /\ Len(sent) \in Nat /\ Len(sent') \in Nat /\ Len(sent) <= Len(sent')
         /\ \A i \in 1 .. Len(sent) : sent'[i] = sent[i]
         /\ WriteFile \/ sent' = sent
<1>1. sent \in Seq(AnySent) /\ Len(sent) \in Nat
  BY DEF TypeInv
<1>2. CASE WriteFile
  <2>1. PICK s \in AnySent : sent' = Append(sent, s)
    BY <1>2, WriteEffect
  <2> QED
    BY <1>1, <1>2, <2>1, AppendProperties
<1>3. CASE ~WriteFile
  <2>1. Requests \/ ConnectTcp \/ ConnectHttp \/ ConnectNone => sent' = sent
    BY RequestEffect, ConnectEffect
  <2>2. sent' = sent
    BY <1>3, <2>1, Steps
       DEF Mistyped, NoObject, UnchangedByBody, ReadTestcase, LoadScript,
           Order, LoadFailed, StartTask, RunTask, UnchangedByWorker, vars
  <2> QED
    BY <1>1, <2>2
<1> QED
  BY <1>2, <1>3

\* Where a script stems from does not change.
LEMMA StemsKept ==
  ASSUME TypeInv, [Next]_vars
  PROVE  \A t : Stems(t) => Stems(t)'
<1> SUFFICES ASSUME NEW t, Stems(t) PROVE Stems(t)'
  OBVIOUS
<1>1. /\ t.test \in 1 .. Len(sent) /\ sent'[t.test] = sent[t.test]
      /\ Len(sent) \in Nat /\ Len(sent') \in Nat /\ Len(sent) <= Len(sent')
  BY SentKept DEF Stems
<1> QED
  BY <1>1 DEF Stems

\* Only an order and taking it up change what a worker has (mptthreadpool.C:85-95,
\* 193-200).
LEMMA QueuesEffect ==
  ASSUME TypeInv, [Next]_vars
  PROVE  \/ Order \/ UNCHANGED <<queue, task>>
         \/ \E w \in Workers : StartTask(w)
<1>1. Requests \/ ConnectTcp \/ ConnectHttp \/ ConnectNone \/ WriteFile => UNCHANGED <<queue, task>>
  BY RequestEffect, ConnectEffect, WriteEffect
<1> QED
  BY <1>1, Steps
     DEF Mistyped, NoObject, UnchangedByBody, ReadTestcase, LoadScript,
         LoadFailed, RunTask, UnchangedByWorker, vars

\* A worker is given scripts by orders only (mptthreadpool.C:85-95, 193-200).
LEMMA GivenKept ==
  ASSUME TypeInv, [Next]_vars
  PROVE  /\ Workers' = Workers
         /\ \A w \in Workers : \A t \in Given(w)' : t \in Given(w) \/ (Order /\ t = script)
<1>0. \A w \in Workers : queue[w] \in Seq(AnyScript)
  BY DEF TypeInv
<1>1. Workers' = Workers
  <2>1. Requests \/ ConnectTcp \/ ConnectHttp \/ ConnectNone => size' = size
    BY RequestEffect, ConnectEffect DEF server
  <2>2. size' = size
    BY <2>1, Steps
       DEF Mistyped, NoObject, UnchangedByBody, ReadTestcase, LoadScript, WriteFile,
           Order, LoadFailed, StartTask, RunTask, UnchangedByWorker, vars, server
  <2> QED
    BY <2>2 DEF Workers
<1>2. CASE Order
  <2> SUFFICES ASSUME NEW w \in Workers, NEW t \in Given(w)'
               PROVE  t \in Given(w) \/ t = script
    BY <1>1, <1>2
  <2>1. script \in AnyScript /\ task' = task
    BY <1>2 DEF TypeInv, Order
  <2>2. queue'[w] = queue[w] \/ queue'[w] = Append(queue[w], script)
    BY <1>2, OrderEffect
  <2>3. Range(Append(queue[w], script)) \subseteq Range(queue[w]) \cup {script}
    <3> SUFFICES ASSUME NEW a \in Range(Append(queue[w], script))
                 PROVE  a \in Range(queue[w]) \cup {script}
      OBVIOUS
    <3>1. /\ Append(queue[w], script) \in Seq(AnyScript)
          /\ Len(Append(queue[w], script)) = Len(queue[w]) + 1 /\ Len(queue[w]) \in Nat
          /\ \A i \in 1 .. Len(queue[w]) : Append(queue[w], script)[i] = queue[w][i]
          /\ Append(queue[w], script)[Len(queue[w]) + 1] = script
      BY <1>0, <2>1, AppendProperties
    <3>2. PICK i \in 1 .. Len(queue[w]) + 1 : a = Append(queue[w], script)[i]
      BY <3>1, RangeOfSeq DEF Range
    <3>3. CASE i \in 1 .. Len(queue[w])
      BY <1>0, <3>1, <3>2, <3>3 DEF Range
    <3>4. CASE i = Len(queue[w]) + 1
      BY <3>1, <3>2, <3>4
    <3> QED
      BY <3>1, <3>2, <3>3, <3>4
  <2> QED
    BY <2>1, <2>2, <2>3 DEF Given
<1>3. ASSUME NEW w \in Workers, StartTask(w)
      PROVE  \A v \in Workers : \A t \in Given(v)' : t \in Given(v)
  <2>1. \A v \in Workers : v # w => queue'[v] = queue[v] /\ task'[v] = task[v]
    BY <1>3, StartEffect
  <2>2. task'[w] \in Range(queue[w])
    BY <1>0, <1>3, StartEffect DEF Range
  <2>3. Range(queue'[w]) \subseteq Range(queue[w])
    <3> SUFFICES ASSUME NEW a \in Range(queue'[w]) PROVE a \in Range(queue[w])
      OBVIOUS
    <3>1. queue'[w] \in Seq(AnyScript)
      BY <1>3, StartEffect
    <3>2. PICK i \in 1 .. Len(queue'[w]) : a = queue'[w][i]
      BY <3>1 DEF Range
    <3>3. i + 1 \in 1 .. Len(queue[w]) /\ a = queue[w][i + 1]
      BY <1>3, <3>2, StartEffect
    <3> QED
      BY <1>0, <3>3 DEF Range
  <2> QED
    BY <2>1, <2>2, <2>3 DEF Given
<1>4. CASE UNCHANGED <<queue, task>>
  BY <1>1, <1>4 DEF Given
<1> QED
  BY <1>1, <1>2, <1>3, <1>4, QueuesEffect

\* How far the manager gets in a step (manager.C:80-198).
LEMMA PlaceEffect ==
  ASSUME TypeInv, [Next]_vars
  PROVE  /\ pc' = "load" => WriteFile \/ (pc = "load" /\ UNCHANGED <<request, opened, files, sent>>)
         /\ pc' \in Loaded => \/ LoadScript
                              \/ pc \in Loaded /\ UNCHANGED <<request, opened, script, sent>>
         /\ pc' = "order" => \/ ConnectTcp \/ ConnectHttp \/ ConnectNone
                             \/ pc = "order" /\ UNCHANGED <<script, sent, cps>>
<1>1. CASE Requests
  <2>1. pc' \in {"body", "idle"}
    BY <1>1, RequestEffect
  <2> QED
    BY <2>1 DEF Loaded
<1>2. CASE WriteFile
  BY <1>2, WriteEffect DEF Loaded
<1>3. CASE LoadScript
  BY <1>3, LoadEffect DEF Protocols
<1>4. CASE ConnectTcp \/ ConnectHttp \/ ConnectNone
  <2>1. /\ pc \in Protocols /\ (pc' = pc \/ pc' = "order")
        /\ UNCHANGED <<request, sent, script, opened>>
    BY <1>4, ConnectEffect
  <2> QED
    BY <1>4, <2>1 DEF Loaded, Protocols
<1>5. CASE NoObject \/ ReadTestcase \/ Order \/ LoadFailed
  BY <1>5 DEF NoObject, ReadTestcase, Order, LoadFailed, Loaded
<1>6. CASE \/ Mistyped
           \/ (\E w \in Workers : StartTask(w) \/ RunTask(w))
           \/ UNCHANGED vars
  BY <1>6 DEF Mistyped, UnchangedByBody, StartTask, RunTask, UnchangedByWorker, vars, server
<1> QED
  BY <1>1, <1>2, <1>3, <1>4, <1>5, <1>6, Steps

\* A script that is loaded stems from the test that was noted last, and only one that
\* loads is ordered (manager.C:123-192).
LEMMA ScriptStep ==
  ASSUME TypeInv, RequestInv, ScriptInv, [Next]_vars
  PROVE  ScriptInv'
<1>1. pc' = "load" /\ opened' =>
        /\ request'.testcase.filename \in Names
        /\ files'[request'.testcase.filename] =
             IF sent'[Len(sent')].written THEN request'.testcase.file ELSE None
  <2>1. CASE WriteFile
    <3>1. PICK all \in BOOLEAN :
            /\ opened' => /\ request.testcase.filename \in Names
                          /\ files'[request.testcase.filename] =
                               IF all THEN request.testcase.file ELSE None
            /\ NoteOf(all) \in AnySent /\ sent' = Append(sent, NoteOf(all))
      BY <2>1, WriteEffect
    <3>2. sent'[Len(sent')] = NoteOf(all)
      BY <3>1, AppendProperties DEF TypeInv
    <3>3. sent'[Len(sent')].written = all /\ request' = request
      BY <2>1, <3>2, WriteEffect DEF NoteOf
    <3> QED
      BY <3>1, <3>3
  <2>2. CASE pc = "load" /\ UNCHANGED <<request, opened, files, sent>>
    BY <2>2 DEF ScriptInv
  <2> QED
    BY <2>1, <2>2, PlaceEffect
<1>2. pc' \in Loaded => script'.test = Len(sent') /\ Stems(script)'
  <2>1. CASE LoadScript
    <3>1. /\ pc = "load" /\ script'.test = Len(sent) /\ script'.protocol = request.testcase.protocol
          /\ request.testcase.filename \in Names =>
               script'.content = files[request.testcase.filename]
          /\ sent' = sent
      BY <2>1, LoadEffect
    <3>2. Len(sent) >= 1 /\ Latest(sent[Len(sent)])
      BY <3>1 DEF RequestInv, Noted
    <3>3. opened => /\ request.testcase.filename \in Names
                    /\ files[request.testcase.filename] =
                         IF sent[Len(sent)].written THEN request.testcase.file ELSE None
      BY <3>1 DEF ScriptInv
    <3>4. Len(sent) \in 1 .. Len(sent)
      BY <3>2, SentKept
    <3> QED
      BY <3>1, <3>2, <3>3, <3>4 DEF Stems, Latest
  <2>2. CASE pc \in Loaded /\ UNCHANGED <<request, opened, script, sent>>
    BY <2>2 DEF ScriptInv, Stems
  <2> QED
    BY <2>1, <2>2, PlaceEffect
<1>3. ASSUME NEW w \in Workers, NEW t \in Given(w)'
      PROVE  Stems(t)' /\ t.content # None /\ t.content.loads
  <2>1. CASE t \in Given(w)
    BY <2>1, StemsKept DEF ScriptInv
  <2>2. CASE Order /\ t = script
    <3>1. pc = "order" /\ Loads
      BY <2>2, OrderEffect
    <3>2. Stems(script)
      BY <3>1 DEF ScriptInv, Loaded
    <3> QED
      BY <2>2, <3>1, <3>2, StemsKept DEF Loads
  <2> QED
    BY <2>1, <2>2, GivenKept
<1> QED
  BY <1>1, <1>2, <1>3, GivenKept DEF ScriptInv

\* A worker's orders are for tests later than the one it has taken up, in the order
\* they came (mptthreadpool.C:85-95, 193-200).
LEMMA OrderStep ==
  ASSUME TypeInv, RequestInv, ScriptInv, OrderInv, [Next]_vars
  PROVE  OrderInv'
<1>0. /\ Len(sent) \in Nat /\ Len(sent') \in Nat /\ Workers' = Workers
      /\ \A w \in Workers : /\ queue[w] \in Seq(AnyScript) /\ Len(queue[w]) \in Nat
                            /\ task[w] \in AnyScript /\ task[w].test \in Nat
                            /\ \A i \in 1 .. Len(queue[w]) : queue[w][i].test \in Nat
  <2>1. ASSUME NEW w \in Workers
        PROVE  /\ queue[w] \in Seq(AnyScript) /\ Len(queue[w]) \in Nat
               /\ task[w] \in AnyScript /\ task[w].test \in Nat
               /\ \A i \in 1 .. Len(queue[w]) : queue[w][i].test \in Nat
    <3>1. queue[w] \in Seq(AnyScript) /\ task[w] \in AnyScript
      BY DEF TypeInv
    <3>2. Len(queue[w]) \in Nat /\ \A i \in 1 .. Len(queue[w]) : queue[w][i] \in AnyScript
      BY <3>1
    <3>3. \A s \in AnyScript : s.test \in Nat
      BY DEF AnyScript
    <3> QED
      BY <3>1, <3>2, <3>3
  <2> QED
    BY <2>1, SentKept, GivenKept
<1>a. \A w \in Workers : /\ task[w].test <= Len(sent)
                         /\ \A i \in 1 .. Len(queue[w]) : queue[w][i].test <= Len(sent)
  <2> SUFFICES ASSUME NEW w \in Workers
               PROVE  /\ task[w].test <= Len(sent)
                      /\ \A i \in 1 .. Len(queue[w]) : queue[w][i].test <= Len(sent)
    OBVIOUS
  <2>1. \A t \in Given(w) : t.test <= Len(sent)
    BY <1>0 DEF ScriptInv, Stems
  <2>2. \A i \in 1 .. Len(queue[w]) : queue[w][i] \in Given(w)
    BY <1>0 DEF Given, Range
  <2>3. task[w] = NoScript \/ task[w] \in Given(w)
    BY DEF Given
  <2>4. task[w] = NoScript => task[w].test = 0
    BY Values
  <2>5. task[w].test <= Len(sent)
    BY <1>0, <2>1, <2>3, <2>4
  <2> QED
    BY <2>1, <2>2, <2>5
<1>1. CASE Order
  <2>1. /\ pc = "order" /\ pc' = "idle" /\ sent' = sent /\ task' = task
        /\ script.test = Len(sent) /\ script \in AnyScript
    BY <1>1, OrderEffect DEF ScriptInv, Loaded, TypeInv
  <2>2. ASSUME NEW w \in Workers
        PROVE  /\ \A i, j \in 1 .. Len(queue'[w]) : i < j => queue'[w][i].test < queue'[w][j].test
               /\ \A i \in 1 .. Len(queue'[w]) : task'[w].test < queue'[w][i].test
    <3>1. /\ \A i, j \in 1 .. Len(queue[w]) : i < j => queue[w][i].test < queue[w][j].test
          /\ \A i \in 1 .. Len(queue[w]) : task[w].test < queue[w][i].test
          /\ task[w].test < Len(sent)
          /\ \A i \in 1 .. Len(queue[w]) : queue[w][i].test < Len(sent)
      BY <2>1 DEF OrderInv, Noted
    <3>2. CASE queue'[w] = queue[w]
      BY <2>1, <3>1, <3>2
    <3>3. CASE queue'[w] = Append(queue[w], script)
      <4>1. /\ Len(queue'[w]) = Len(queue[w]) + 1
            /\ \A i \in 1 .. Len(queue[w]) : queue'[w][i] = queue[w][i]
            /\ queue'[w][Len(queue[w]) + 1] = script
        BY <1>0, <2>1, <3>3, AppendProperties
      <4>2. \A i \in 1 .. Len(queue'[w]) :
              \/ i \in 1 .. Len(queue[w]) /\ queue'[w][i] = queue[w][i]
              \/ i = Len(queue[w]) + 1 /\ queue'[w][i].test = Len(sent)
        BY <1>0, <2>1, <4>1
      <4>3. \A i \in 1 .. Len(queue'[w]) : task'[w].test < queue'[w][i].test
        BY <2>1, <3>1, <4>2
      <4>4. ASSUME NEW i \in 1 .. Len(queue'[w]), NEW j \in 1 .. Len(queue'[w]), i < j
            PROVE  queue'[w][i].test < queue'[w][j].test
        <5>1. i \in 1 .. Len(queue[w]) /\ queue'[w][i] = queue[w][i]
          BY <1>0, <4>1, <4>2, <4>4
        <5> QED
          BY <3>1, <4>2, <4>4, <5>1
      <4> QED
        BY <4>3, <4>4
    <3> QED
      BY <1>1, <3>2, <3>3, OrderEffect
  <2> QED
    BY <1>0, <2>1, <2>2 DEF OrderInv, Noted
<1>2. ASSUME NEW w \in Workers, StartTask(w) PROVE OrderInv'
  <2>1. pc' = pc /\ sent' = sent
    BY <1>2, StartEffect
  <2>2. ASSUME NEW v \in Workers
        PROVE  /\ \A i, j \in 1 .. Len(queue'[v]) : i < j => queue'[v][i].test < queue'[v][j].test
               /\ \A i \in 1 .. Len(queue'[v]) : task'[v].test < queue'[v][i].test
               /\ pc' \in Noted => /\ task'[v].test < Len(sent')
                                   /\ \A i \in 1 .. Len(queue'[v]) : queue'[v][i].test < Len(sent')
    <3>1. CASE v # w
      BY <1>2, <2>1, <3>1, StartEffect DEF OrderInv
    <3>2. CASE v = w
      <4>1. /\ 1 \in 1 .. Len(queue[w]) /\ task'[w] = queue[w][1]
            /\ Len(queue'[w]) = Len(queue[w]) - 1
            /\ \A i \in 1 .. Len(queue'[w]) :
                 i + 1 \in 1 .. Len(queue[w]) /\ queue'[w][i] = queue[w][i + 1]
        BY <1>2, StartEffect
      <4>2. \A i, j \in 1 .. Len(queue[w]) : i < j => queue[w][i].test < queue[w][j].test
        BY DEF OrderInv
      <4>3. pc \in Noted => \A i \in 1 .. Len(queue[w]) : queue[w][i].test < Len(sent)
        BY DEF OrderInv
      <4>4. \A i \in 1 .. Len(queue'[w]) : task'[w].test < queue'[w][i].test
        <5>1. \A i \in 1 .. Len(queue'[w]) : 1 < i + 1
          BY <1>0
        <5> QED
          BY <4>1, <4>2, <5>1
      <4>5. \A i, j \in 1 .. Len(queue'[w]) : i < j => queue'[w][i].test < queue'[w][j].test
        <5>1. \A i, j \in 1 .. Len(queue'[w]) : i < j => i + 1 < j + 1
          BY <1>0
        <5> QED
          BY <4>1, <4>2, <5>1
      <4>6. pc' \in Noted => /\ task'[w].test < Len(sent')
                              /\ \A i \in 1 .. Len(queue'[w]) : queue'[w][i].test < Len(sent')
        BY <2>1, <4>1, <4>3
      <4> QED
        BY <3>2, <4>4, <4>5, <4>6
    <3> QED
      BY <3>1, <3>2
  <2> QED
    BY <1>0, <2>2 DEF OrderInv
<1>3. CASE UNCHANGED <<queue, task>>
  <2>1. pc' \in Noted => Len(sent) < Len(sent') \/ (pc \in Noted /\ sent' = sent)
    <3>1. WriteFile => Len(sent) < Len(sent')
      <4> SUFFICES ASSUME WriteFile PROVE Len(sent) < Len(sent')
        OBVIOUS
      <4>1. PICK s \in AnySent : sent' = Append(sent, s)
        BY WriteEffect
      <4>2. sent \in Seq(AnySent)
        BY DEF TypeInv
      <4>3. Len(sent') = Len(sent) + 1
        BY <4>1, <4>2, AppendProperties
      <4> QED
        BY <1>0, <4>3
    <3>2. Noted = {"load"} \cup Loaded
      BY DEF Noted, Loaded
    <3>3. LoadScript => pc = "load" /\ sent' = sent
      BY LoadEffect
    <3> QED
      BY <3>1, <3>2, <3>3, PlaceEffect
  <2>2. ASSUME NEW w \in Workers, pc' \in Noted
        PROVE  /\ task[w].test < Len(sent')
               /\ \A i \in 1 .. Len(queue[w]) : queue[w][i].test < Len(sent')
    <3>1. CASE Len(sent) < Len(sent')
      BY <1>0, <1>a, <3>1
    <3>2. CASE pc \in Noted /\ sent' = sent
      BY <3>2 DEF OrderInv
    <3> QED
      BY <2>1, <2>2, <3>1, <3>2
  <2> QED
    BY <1>0, <1>3, <2>2 DEF OrderInv
<1> QED
  BY <1>1, <1>2, <1>3, QueuesEffect
-----------------------------------------------------------------------------
(* The last reply                                                          *)

\* That a test has started is said when each worker has been given it or has refused
\* it, and a worker keeps the latest test (manager.C:170-198,
\* mptthreadpool.C:193-200).
LEMMA ReplyStep ==
  ASSUME TypeInv, RequestInv, ScriptInv, OrderInv, ReplyInv, [Next]_vars
  PROVE  ReplyInv'
<1>0. Len(sent) \in Nat /\ Len(replies) \in Nat
  <2>1. replies \in Seq(AnyReply)
    BY DEF TypeInv
  <2> QED
    BY <2>1, SentKept
<1>1. CASE Requests
  <2>1. pc' = "idle" => request'.url # "/ptf/new_test"
    BY <1>1, RequestEffect
  <2> QED
    BY <2>1 DEF ReplyInv
<1>2. CASE NoObject
  <2>1. request'.body \notin {"object", "broken"}
    BY <1>2 DEF NoObject, UnchangedByBody
  <2> QED
    BY <2>1 DEF ReplyInv
<1>3. CASE Order \/ LoadFailed
  <2>1. /\ pc = "order" /\ UNCHANGED <<request, opened, script, sent, size>>
        /\ Len(replies') = Len(replies) + 1
        /\ replies'[Len(replies')].code = IF Order THEN 200 ELSE 500
    <3>1. CASE Order
      BY <3>1, OrderEffect DEF server
    <3>2. CASE LoadFailed
      <4>1. <<"load task failed!">> \in Seq(Texts) /\ 500 \in Nat
        BY OneText DEF Texts
      <4>2. pc = "order" /\ UNCHANGED <<request, opened, script, sent, size>> /\ ~Loads
        BY <3>2 DEF LoadFailed, At, server
      <4>3. ~Order
        BY <4>2 DEF Order
      <4>4. Len(replies') = Len(replies) + 1 /\ replies'[Len(replies')].code = 500
        BY <3>2, <4>1, OneReply, ZenonT(30) DEF LoadFailed
      <4> QED
        BY <4>2, <4>3, <4>4
    <3> QED
      BY <1>3, <3>1, <3>2
  <2>2. Len(replies) = (IF opened THEN 1 ELSE 2) /\ Len(sent) >= 1
    BY <2>1 DEF RequestInv, Noted
  <2>3. Len(replies') = IF opened' THEN 2 ELSE 3
    BY <2>1, <2>2
  <2>4. ASSUME replies'[Len(replies')].code = 200
        PROVE  Loads' /\ \A w \in Workers' : w \in refused' \/ \E t \in Given(w)' : t.test = Len(sent')
    <3>1. Order
      BY <2>1, <2>4
    <3>2. Loads' /\ Workers' = Workers
      BY <2>1, <3>1, OrderEffect DEF Loads, Workers
    <3>3. ASSUME NEW w \in Workers, w \notin refused'
          PROVE  script \in Given(w)'
      <4>1. queue'[w] = Append(queue[w], script) /\ queue[w] \in Seq(AnyScript) /\ script \in AnyScript
        BY <3>1, <3>3, OrderEffect DEF TypeInv
      <4>2. /\ Append(queue[w], script)[Len(queue[w]) + 1] = script
            /\ Len(queue[w]) + 1 \in 1 .. Len(Append(queue[w], script))
            /\ Append(queue[w], script) \in Seq(AnyScript)
        BY <4>1, AppendProperties
      <4>3. script \in Range(queue'[w])
        BY <4>1, <4>2 DEF Range
      <4> QED
        BY <4>3 DEF Given
    <3>4. script.test = Len(sent)
      BY <2>1 DEF ScriptInv, Loaded
    <3> QED
      BY <2>1, <3>2, <3>3, <3>4
  <2> QED
    BY <2>1, <2>2, <2>3, <2>4 DEF ReplyInv
<1>4. ASSUME NEW v \in Workers, StartTask(v) PROVE ReplyInv'
  <2>1. /\ UNCHANGED <<pc, request, opened, script, sent, replies, refused>>
        /\ Workers' = Workers
    BY <1>4, StartEffect, GivenKept
  <2>2. ASSUME NEW w \in Workers, NEW t \in Given(w), t.test = Len(sent), Len(sent) >= 1
        PROVE  t \in Given(w)'
    <3>1. CASE w # v
      BY <1>4, <3>1, StartEffect DEF Given
    <3>2. CASE w = v
      <4>1. /\ 1 \in 1 .. Len(queue[w]) /\ task'[w] = queue[w][1]
            /\ Len(queue'[w]) = Len(queue[w]) - 1
            /\ \A i \in 1 .. Len(queue'[w]) : queue'[w][i] = queue[w][i + 1]
            /\ queue'[w] \in Seq(AnyScript) /\ queue[w] \in Seq(AnyScript)
        BY <1>4, <3>2, StartEffect DEF TypeInv
      <4>2. t # task[w]
        <5>1. task[w].test < queue[w][1].test
          BY <4>1 DEF OrderInv
        <5>2. queue[w][1] \in Given(w)
          BY <4>1 DEF Given, Range
        <5>3. queue[w][1].test <= Len(sent) /\ queue[w][1].test \in Nat
          BY <1>0, <5>2 DEF ScriptInv, Stems
        <5> QED
          BY <1>0, <2>2, <5>1, <5>3
      <4>3. PICK i \in 1 .. Len(queue[w]) : t = queue[w][i]
        BY <4>1, <4>2 DEF Given, Range
      <4>4. CASE i = 1
        <5>1. t # NoScript
          <6>1. NoScript.test = 0
            BY Values
          <6>2. t.test # 0
            BY <1>0, <2>2
          <6> QED
            BY <6>1, <6>2
        <5> QED
          BY <3>2, <4>1, <4>3, <4>4, <5>1 DEF Given
      <4>5. CASE i # 1
        <5>1. i - 1 \in 1 .. Len(queue'[w]) /\ (i - 1) + 1 = i
          BY <4>1, <4>5
        <5>2. t = queue'[w][i - 1]
          BY <4>1, <4>3, <5>1
        <5>3. t \in Range(queue'[w])
          BY <4>1, <5>1, <5>2 DEF Range
        <5> QED
          BY <5>3 DEF Given
      <4> QED
        BY <4>4, <4>5
    <3> QED
      BY <3>1, <3>2
  <2> QED
    BY <2>1, <2>2 DEF ReplyInv, Loads
<1>5. CASE \/ Mistyped
           \/ (\E w \in Workers : RunTask(w))
           \/ UNCHANGED vars
  <2>1. UNCHANGED <<pc, request, opened, script, sent, replies, refused, queue, task, size>>
    BY <1>5 DEF Mistyped, UnchangedByBody, RunTask, UnchangedByWorker, vars, server
  <2> QED
    BY <2>1 DEF ReplyInv, Loads, Given, Workers
<1>6. CASE \/ ReadTestcase \/ WriteFile \/ LoadScript
           \/ ConnectTcp \/ ConnectHttp \/ ConnectNone
  <2>1. pc' # "idle"
    <3>1. LoadScript => pc' # "idle"
      BY LoadEffect DEF Protocols
    <3>2. ConnectTcp \/ ConnectHttp \/ ConnectNone => pc' # "idle"
      BY ConnectEffect DEF Protocols
    <3> QED
      BY <1>6, <3>1, <3>2 DEF ReadTestcase, WriteFile
  <2> QED
    BY <2>1 DEF ReplyInv
<1> QED
  BY <1>1, <1>2, <1>3, <1>4, <1>5, <1>6, Steps
-----------------------------------------------------------------------------
(* What a connection is of                                                 *)

\* The workers have connections of the protocol of the test before it is ordered, and
\* never lose them (manager.C:145-169).
LEMMA KindStep ==
  ASSUME TypeInv, RequestInv, ScriptInv, KindInv, [Next]_vars
  PROVE  KindInv'
<1>0. Workers' = Workers /\ Len(sent) \in Nat
  BY GivenKept, SentKept
<1>1. \/ UNCHANGED cps
      \/ /\ pc \in {"TCP", "HTTP"} /\ (ConnectTcp \/ ConnectHttp)
         /\ cps' = [w \in Workers |-> [kind |-> pc, no |-> made + w]]
  <2>1. ConnectTcp \/ ConnectHttp \/ ConnectNone =>
          \/ UNCHANGED cps
          \/ /\ pc \in {"TCP", "HTTP"} /\ (ConnectTcp \/ ConnectHttp)
             /\ cps' = [w \in Workers |-> [kind |-> pc, no |-> made + w]]
    <3> SUFFICES ASSUME ConnectTcp \/ ConnectHttp \/ ConnectNone, ~UNCHANGED cps
                 PROVE  /\ pc \in {"TCP", "HTTP"} /\ (ConnectTcp \/ ConnectHttp)
                        /\ cps' = [w \in Workers |-> [kind |-> pc, no |-> made + w]]
      OBVIOUS
    <3>1. ~ConnectNone
      BY DEF ConnectNone
    <3> QED
      BY <3>1, ConnectEffect
  <2>2. Requests => UNCHANGED cps
    BY RequestEffect DEF server
  <2> QED
    BY <2>1, <2>2, Steps
       DEF Mistyped, NoObject, UnchangedByBody, ReadTestcase, WriteFile, LoadScript,
           Order, LoadFailed, StartTask, RunTask, UnchangedByWorker, vars, server
<1>2. ASSUME NEW w \in Workers, cps'[w].kind # "none"
      PROVE  \E i \in 1 .. Len(sent') : sent'[i].testcase.protocol = cps'[w].kind
  <2>1. \E i \in 1 .. Len(sent) : sent[i].testcase.protocol = cps'[w].kind
    <3>1. CASE UNCHANGED cps
      BY <1>2, <3>1 DEF KindInv
    <3>2. CASE /\ pc \in {"TCP", "HTTP"}
               /\ cps' = [v \in Workers |-> [kind |-> pc, no |-> made + v]]
      <4>1. /\ pc = request.testcase.protocol /\ Len(sent) >= 1
            /\ sent[Len(sent)].testcase = request.testcase
        BY <3>2 DEF RequestInv, Protocols, Noted, Latest
      <4>2. cps'[w].kind = pc
        BY <3>2
      <4>3. Len(sent) \in 1 .. Len(sent) /\ sent[Len(sent)].testcase.protocol = pc
        BY <1>0, <4>1
      <4> QED
        BY <4>2, <4>3
    <3> QED
      BY <1>1, <3>1, <3>2
  <2> QED
    BY <2>1, SentKept
<1>3. \A w \in Workers : cps[w].kind # "none" => cps'[w].kind # "none"
  <2>1. CASE UNCHANGED cps
    BY <2>1
  <2>2. CASE /\ pc \in {"TCP", "HTTP"}
             /\ cps' = [v \in Workers |-> [kind |-> pc, no |-> made + v]]
    BY <2>2
  <2> QED
    BY <1>1, <2>1, <2>2
<1>4. pc' = "order" /\ script'.protocol # "" => \A w \in Workers : cps'[w].kind # "none"
  <2> SUFFICES ASSUME pc' = "order", script'.protocol # "", NEW w \in Workers
               PROVE  cps'[w].kind # "none"
    OBVIOUS
  <2>1. CASE pc = "order" /\ UNCHANGED <<script, sent, cps>>
    BY <2>1 DEF KindInv
  <2>2. CASE ConnectTcp \/ ConnectHttp \/ ConnectNone
    <3>1. pc \in Protocols /\ script' = script
      BY <2>2, ConnectEffect
    <3>2. script.protocol = pc
      <4>1. pc = request.testcase.protocol
        BY <3>1 DEF RequestInv, Protocols, Noted
      <4>2. sent[Len(sent)].testcase = request.testcase
        BY <3>1 DEF RequestInv, Protocols, Noted, Latest
      <4>3. script.test = Len(sent) /\ script.protocol = sent[Len(sent)].testcase.protocol
        BY <3>1 DEF ScriptInv, Loaded, Protocols, Stems
      <4> QED
        BY <4>1, <4>2, <4>3
    <3>3. CASE UNCHANGED cps /\ undefined'
      <4>1. pc' = pc
        BY <2>2, <3>3, ConnectEffect
      <4> QED
        BY <3>1, <4>1 DEF Protocols
    <3>4. CASE /\ pc \in {"TCP", "HTTP"}
               /\ cps' = [v \in Workers |-> [kind |-> pc, no |-> made + v]]
      BY <3>4
    <3> QED
      BY <2>2, <3>1, <3>2, <3>3, <3>4, ConnectEffect
  <2> QED
    BY <2>1, <2>2, PlaceEffect
<1>5. ASSUME NEW w \in Workers, NEW t \in Given(w)', t.protocol # ""
      PROVE  cps'[w].kind # "none"
  <2>1. CASE t \in Given(w)
    BY <1>3, <1>5, <2>1 DEF KindInv
  <2>2. CASE Order /\ t = script
    <3>1. pc = "order"
      BY <2>2, OrderEffect
    <3> QED
      BY <1>3, <1>5, <2>2, <3>1 DEF KindInv
  <2> QED
    BY <2>1, <2>2, GivenKept
<1> QED
  BY <1>0, <1>2, <1>4, <1>5 DEF KindInv
-----------------------------------------------------------------------------
(* Connections that fit                                                    *)

\* Connections fit in sound tests of one protocol: a loaded script gives the
\* pool's address, and a worker's connection is of the protocol of its script
\* (manager.C:97-111, 155, socketpool.C:308, mptthreadpool.C:243-261).
LEMMA FitStep ==
  ASSUME TypeInv, RequestInv, ScriptInv, KindInv, ConnectionsFit, [Next]_vars
  PROVE  ConnectionsFit'
<1>0. /\ sent \in Seq(AnySent) /\ Len(sent) \in Nat /\ DOMAIN sent = 1 .. Len(sent)
      /\ \A i \in 1 .. Len(sent) : sent[i] \in AnySent
  <2>1. sent \in Seq(AnySent)
    BY DEF TypeInv
  <2> QED
    BY <2>1
<1>1. CASE UNCHANGED vars
  BY <1>1 DEF vars, server, ConnectionsFit, Sound
<1>2. CASE Mistyped
  BY <1>2 DEF Mistyped, UnchangedByBody, ConnectionsFit, At
<1>3. CASE ConnectTcp \/ ConnectHttp \/ ConnectNone
  <2> SUFFICES ASSUME undefined', \A i \in DOMAIN sent : Sound(sent[i]), ~(PoolSize < size)
               PROVE  FALSE
    BY <1>3, ConnectEffect DEF ConnectionsFit, Sound
  <2>1. pc = "TCP" /\ ConnStr # "pool"
    BY <1>3, ConnectEffect
  <2>2. /\ Len(sent) >= 1 /\ sent[Len(sent)].testcase = request.testcase
        /\ request.testcase.protocol = "TCP" /\ script.test = Len(sent) /\ Stems(script)
    BY <2>1 DEF RequestInv, Noted, Protocols, ScriptInv, Loaded, Latest
  <2>3. Sound(sent[Len(sent)]) /\ sent[Len(sent)].written
    <3>1. Len(sent) \in DOMAIN sent
      BY <1>0, <2>2
    <3> QED
      BY <3>1 DEF Sound
  <2>4. request.testcase.file.address = "pool" /\ script.content = request.testcase.file
    BY <2>2, <2>3 DEF Sound, Stems
  <2>5. request.testcase.file # None
    <3>1. request.testcase # Blank
      BY <2>2, Values
    <3>2. request.testcase \in Testcase
      BY <3>1 DEF RequestInv
    <3>3. request.testcase.file \in Contents
      BY <3>2 DEF Testcase
    <3> QED
      BY <3>3, HandlerAssumption
  <2> QED
    BY <2>1, <2>4, <2>5 DEF ConnStr
<1>4. ASSUME NEW w \in Workers, RunTask(w) PROVE ConnectionsFit'
  <2>1. /\ task[w] # NoScript /\ ~Fits(cps[w], task[w])
        /\ UNCHANGED <<request, sent, size>>
    BY <1>4 DEF RunTask, UnchangedByWorker, server
  <2> SUFFICES ASSUME \A i \in DOMAIN sent : Sound(sent[i]),
                      \A i, j \in DOMAIN sent :
                        sent[i].testcase.protocol = sent[j].testcase.protocol
               PROVE  FALSE
    BY <2>1 DEF ConnectionsFit, Sound
  <2> DEFINE t == task[w]
             s == sent[t.test]
  <2>2. t \in Given(w)
    BY <2>1 DEF Given
  <2>3. /\ t.test \in DOMAIN sent /\ t.protocol = s.testcase.protocol
        /\ t.content = s.testcase.file \/ ~s.written
        /\ t.content.loads
    BY <1>0, <2>2 DEF ScriptInv, Stems
  <2>4. Sound(s)
    BY <2>3
  <2>5. /\ t.protocol \in {"TCP", "HTTP"} /\ t.content.steps = {t.protocol}
    BY <2>3, <2>4 DEF Sound
  <2>6. cps[w].kind # "none"
    BY <2>2, <2>5 DEF KindInv
  <2>7. PICK i \in DOMAIN sent : sent[i].testcase.protocol = cps[w].kind
    BY <1>0, <2>6 DEF KindInv
  <2>8. cps[w].kind = t.protocol
    BY <2>3, <2>7
  <2> QED
    BY <2>1, <2>5, <2>8 DEF Fits
<1>5. ~undefined \/ UNCHANGED vars
  <2>1. Requests \/ ConnectTcp \/ ConnectHttp \/ ConnectNone => ~undefined
    BY RequestEffect, ConnectEffect
  <2> QED
    BY <2>1, Steps DEF Mistyped, NoObject, ReadTestcase, WriteFile, LoadScript,
                       Order, LoadFailed, StartTask, RunTask, At
<1>6. \/ Mistyped \/ ConnectTcp \/ ConnectHttp \/ ConnectNone
      \/ \E w \in Workers : RunTask(w)
      \/ undefined' = undefined
  BY RequestEffect, Steps DEF NoObject, ReadTestcase, WriteFile, LoadScript,
                              Order, LoadFailed, StartTask, vars
<1> QED
  BY <1>1, <1>2, <1>3, <1>4, <1>5, <1>6 DEF ConnectionsFit
-----------------------------------------------------------------------------
(* The theorems                                                            *)

HandlerInv ==
  /\ TypeInv /\ RequestInv /\ ScriptInv /\ OrderInv /\ ReplyInv /\ KindInv
  /\ ConnectionsApart /\ ConnectionsFit

\* What the manager knows of a request, of the file and of the connections fits
\* together in every state (manager.C:80-198, mptthreadpool.C:85-267).
LEMMA InductiveInvariant == Spec => []HandlerInv
<1>1. Init => HandlerInv
  <2> SUFFICES ASSUME Init PROVE HandlerInv
    OBVIOUS
  <2>1. \A w \in Workers : Given(w) = {} /\ queue[w] = <<>> /\ task[w].test = 0 /\ cps[w].kind = "none"
    <3>1. Range(<<>>) = {}
      BY DEF Range
    <3> QED
      BY <3>1 DEF Init, Given, NoScript, NoConnection
  <2>2. RequestInv
    <3>1. pc = "idle" /\ request = NoRequest /\ replies = <<>>
      BY DEF Init
    <3>2. pc \notin Protocols /\ pc \notin Noted /\ request.body # "object" /\ request.testcase = Blank
      BY <3>1 DEF NoRequest, Noted, Protocols
    <3>3. Len(replies) <= 3
      BY <3>1
    <3> QED
      BY <3>1, <3>2, <3>3 DEF RequestInv
  <2>3. ScriptInv /\ OrderInv
    BY <2>1 DEF Init, ScriptInv, OrderInv, Loaded, Noted
  <2>4. ReplyInv
    BY DEF Init, ReplyInv, NoRequest
  <2>5. KindInv
    BY <2>1 DEF Init, KindInv
  <2>6. ConnectionsApart /\ ConnectionsFit
    BY <2>1 DEF Init, ConnectionsApart, ConnectionsFit
  <2> QED
    BY <2>2, <2>3, <2>4, <2>5, <2>6, InitType DEF HandlerInv
<1>2. HandlerInv /\ [Next]_vars => HandlerInv'
  <2> SUFFICES ASSUME HandlerInv, [Next]_vars PROVE HandlerInv'
    OBVIOUS
  <2>1. /\ TypeInv /\ RequestInv /\ ScriptInv /\ OrderInv /\ ReplyInv /\ KindInv
        /\ ConnectionsApart /\ ConnectionsFit
    BY DEF HandlerInv
  <2> QED
    BY <2>1, StepType, RequestStep, ScriptStep, OrderStep, ReplyStep, KindStep, ApartStep, FitStep
       DEF HandlerInv
<1> QED
  BY <1>1, <1>2, PTL DEF Spec

\* The types are kept, of the pool and the connections by number, and no request has
\* more than three replies (manager.C:80-198).
THEOREM TypeCorrect == Spec => []TypeOK
<1>1. HandlerInv => TypeOK
  <2> SUFFICES ASSUME HandlerInv PROVE TypeOK
    OBVIOUS
  <2>1. TypeInv /\ Len(replies) <= 3
    BY DEF HandlerInv, RequestInv
  <2> QED
    BY <2>1 DEF TypeInv, TypeOK, Noted
<1> QED
  BY <1>1, InductiveInvariant, PTL

\* A worker runs the script that was sent with the test it was ordered for, unless
\* the file could not be opened (manager.C:128-138).
THEOREM SentIsRun == Spec => []RunsWhatWasSent
<1>1. HandlerInv => RunsWhatWasSent
  BY DEF HandlerInv, ScriptInv, Stems, RunsWhatWasSent
<1> QED
  BY <1>1, InductiveInvariant, PTL

\* No two workers have one connection, and the pool gives away none that a worker has
\* (manager.C:154-168, socketpool.C:276-314).
THEOREM NoSharedConnection == Spec => []ConnectionsApart
<1>1. HandlerInv => ConnectionsApart
  BY DEF HandlerInv
<1> QED
  BY <1>1, InductiveInvariant, PTL

\* Each worker gets a connection and uses it for what it is, as long as the tests are
\* sound and of one protocol and the pool is large enough
\* (manager.C:155, socketpool.C:308, mptthreadpool.C:243-261).
THEOREM SoundTestsFit == Spec => []ConnectionsFit
<1>1. HandlerInv => ConnectionsFit
  BY DEF HandlerInv
<1> QED
  BY <1>1, InductiveInvariant, PTL

\* What the last reply to a test says is true (manager.C:190-198), and stays so while
\* the workers take their orders up.
THEOREM LastReplyIsTrue == Spec => []LastReplyTrue
<1>1. HandlerInv => LastReplyTrue
  <2> SUFFICES ASSUME HandlerInv, pc = "idle", request.url = "/ptf/new_test",
                      request.body \in {"object", "broken"}
               PROVE  /\ Len(replies) = IF opened THEN 2 ELSE 3
                      /\ replies[Len(replies)].code = 200 =>
                           /\ Loads
                           /\ \A w \in Workers : (\A t \in Given(w) : t.test # Len(sent)) => w \in refused
    BY DEF LastReplyTrue
  <2> QED
    BY DEF HandlerInv, ReplyInv
<1> QED
  BY <1>1, InductiveInvariant, PTL
=============================================================================
