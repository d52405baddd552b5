# A TLA+ model of ptf

ptf is a load-testing tool. An HTTP server (the *manager*) accepts a test as
JSON, saves it as an XML script, loads it, opens connections for it and orders
a pool of *worker threads* to run it; each worker runs the script as a series
of *transactions*, a send or a recv *step* at a time, over a connection of its
own. This directory models that program's concurrent core in TLA+, checks it
with TLC on small instances, and proves its main invariants with TLAPS for
every value of the constants. Source paths below are relative to the
repository; `ringbuff.h:78` means `src/ringbuff.h`, line 78.

## 1. The system

### Components, their state and their operations

| component | source (`src/`) | state | operations |
|---|---|---|---|
| ring buffer | `ringbuff.h`, `atomic.h` | `m_ring`, `m_head`, `m_tail`; modes `m_sp`, `m_sc` | `enqueue`, `dequeue`, `size` |
| worker threads | `mptthreadpool.C` | per thread: event queue, pipe, timer, `m_taskInfo` | `order`, `threadEventProcess`, `time_cb`, `startTask`, `runTask`, `stopTask`, `initConnect`, `initHttpConnect` |
| manager | `manager.C`, `main.C` | `m_script`, `m_transation`, `cps_map` (shared with the workers) | `processHttpReq` |
| script | `script.C`, `st.h` | list of steps, usage counters, statistics | `init`, `initProperty`, `enter`, `exit`, `m_send_st2redis` |
| transaction | `transaction.C` | `m_curStep`, `isSend`, event queue `m_pMsgQueue` | `pushEvent`, `onEvent` |
| step | `step.C` | type, request bytes, expected response, statistics | `init`, `run` |
| TCP step | `tcpstep.C` | `m_cSocket`, shared by the workers | `supsend`, `suprecv`, `send`, `recv` |
| HTTP step | `httpstep.C`, `httpevent.C` | connection and base of the worker | `send`, `recv`, three callbacks |
| connection and pool | `socketpool.C` | buffers, `tTransation`; the pool's queue | `sendMsg`, `read_cb`, `buffer_add_cb`, `error_cb`, `getSocket`, `backSocket` |
| timeout queue | `timeoutqueue.C` | doubly linked list of deadlines | `enTqueue`, `deTqueue`, `lookuptime` |
| framing | `protocol.C` | none | `receiveHttpResponse` |
| header parser | `httpparser.C` | type, URL and headers of a request | `parse` |
| configuration | `ptfconfig.C` | key-value pairs | `init`, getters |
| hash table | `hashtable/` | chains, `primeindex`; an iterator's place | `insert`, `search`, `remove`, the iterator's `advance`, `remove`, `search`, `change` |
| JSON library | `jsoncpp.cpp`, `json/` | a `Value`'s tree, a reader's place in a text | two readers, four writers, the calls of `Value`, paths |

The last two are copied libraries. The manager reads a request's body with
`Json::Reader`; nothing calls the hash table, `httpparser` is made by
`THTTPStep::send` to parse the step's headers, and of the timeout queue only
`enTqueue` is called. `dbstep.C`, `connpool.C`, `stepsend.h` and `socketpool/*.h` are not
compiled, and `stdoutstep.C` cannot be named by a script.

### How they interact

```
 HTTP client --/ptf/new_test--> manager --order()--> ring buffer + pipe --> worker
                                   |                                         |
                             cps_map[thread] (connection) <--- runTask ------+
                                                                   |  onEvent
   peer <--- send step --- script steps (shared by all workers) <--+
     |                                                             |
     +--> CSocketPool thread: read_cb, buffer_add_cb, error_cb --pushEvent--> ring buffer
```

* The manager is one libevent thread. It calls `order()`, which queues an event
  in the worker's ring buffer and then writes a byte in the worker's pipe.
* Each worker is one libevent thread with two callbacks, on its pipe and on a
  timer that is due at once. A task is `tps` transactions at each tick until
  `total` are run.
* A transaction is a loop in the worker, `onEvent`, which takes an event from
  the transaction's ring buffer, or goes on without one when it is its turn to
  send, or spins.
* The callbacks of all TCP connections run in the one thread of their pool and
  push events into the transaction that the connection points to at that time.
* `cps_map` and the script's steps are shared by all of these threads.

### What is hard, and what must be right

* **Ring buffer.** A lock-free ring. `dequeue` reads a slot before it knows that
  the slot is occupied. It must be a FIFO queue: no object lost, queued twice or
  handed out twice, and never NULL to a caller that knows something is there.
* **Manager and workers.** Queue and pipe are two steps, either of which may
  fail; a new test replaces a running one; the timer of the former stays armed.
  A byte must always find an event; tests must be taken up in order; a task must
  run exactly its total; a transaction must not get a connection made for an
  earlier test; the pipe must be served in spite of the timer.
* **Transactions.** Whose turn it is to send is inferred from whether an event
  came. A recv must have an event, and the right one: the answer to this
  transaction's last request. Nothing may leak from one transaction to the next.
* **Scripts.** A document may fail to load at any step, and the lists of a failed
  one are taken apart. A loaded script is used by all workers without a lock: its
  usage counters move by compare-and-swap and must count exactly; its statistics
  are plain increments and may at most miss something.
* **HTTP sessions.** The worker dispatches its own event loop inside `send`. Three
  callbacks may leave that loop and only one pushes an event; every member `send`
  uses belongs to a step that all workers share.
* **Framing and connections.** Answers come in pieces, without their last byte,
  and leave most of themselves in a buffer; a new test replaces the connection of a
  transaction that is still running; a pool is emptied and never refilled.
* **Requests.** One is answered before it is read, and again after; its body has no NUL
  at its end and is read on; the script goes by way of a file, which may be cut short, its
  connection by way of a map that knows no types.
* **The libraries.** An entry removed under an iterator, a list walked while it
  changes and its nodes are deleted, a text read on after an error, numbers and code
  points at the ends of their ranges, arrays with holes; and whatever is written must
  read back.

`PROJECT.json` lists these line by line under `hazards`, with the properties
that would catch each, or why none does.

## 2. The plan

1. `BoundedQueue`, the abstract queue; `RingBuffer`, the code, shown to implement
   it; `RingBufferProofs`. *Done.*
2. `ThreadPool`, the manager and the workers over atomic queues, which step 1
   justifies; `ThreadPoolProofs`. *Done.*
3. `Transaction`, the loop of `onEvent` that every protocol shares, and
   `TcpSession`, the TCP steps and callbacks that extend it. *Done.*
4. `Script`: loading, the usage counters, the statistics; `ScriptProofs`. *Done.*
5. `HttpSession`: the HTTP step with the event loop inside `send`. *Done.*
6. `Framing`: `read_cb`, which drops the last byte, and `receiveHttpResponse` over a
   buffer that grows in pieces, composed with `TcpSession`; `StepData` and `HttpParser`,
   the decoding of a step's bytes and of headers. *Done.*
7. `TimeoutQueue`: the list, its walker and its users; the pool of connections as a
   part of 8. *Done.*
8. `RequestHandler`: a request as `processHttpReq` reads it, what it replies, the
   script and the connections it makes. *Done.*
9. A new test that replaces the connection of a running transaction, in `TcpSession`.
   *Done.*
10. `HashTable` and the JSON library, checked against what they promise. *Done.*
11. Proofs of `Transaction` and what extends it, `HttpSessionProofs` and
    `TcpSessionProofs`; of `RequestHandler`; of the timeout queue. *Done.*
12. Action properties as theorems; what a hash table holds, with its chains stated so
    that no induction over them is needed; the loops over a step's data and over a request,
    turn by turn against what was written: `LibraryProofs`. *Done.*
13. The other meaning of CAS (`atomic.h:16-17`). *Left.*

## 3. The modules

### RingBuffer and BoundedQueue

`RingBuffer` is `TRingbuffer<T*>` with one action for each access to memory that
another thread may touch: `EnqReadTail`, `EnqReadHead` or `EnqFull`, `EnqStore`,
`EnqPublish`; `DeqReadHead`, `DeqReadSlot`, `DeqReadTail`, `DeqClear`, `DeqAdvance`;
`SizeReadHead` and `SizeIsZero`. `tailOld`, `headOld`, `headNew` and `p` are the locals of
the code. The callers belong to the module, because the code is right for some and not for
others. `Guard` says who they are. `"size"` is a transaction, which asks `size() > 0` first
and deletes no event, and its callbacks, which forget one that was refused. `"pipe"` is a
worker, which reads a byte first and deletes what it has used, and the manager, which
forgets a refused event, too, and may fail to write the byte (`Notify`); a worker may also
hang in a transaction (`Hang`). `live` is the set of objects allocated and not deleted,
`leaked` those of them that a caller has forgotten (`Free`, `Leak`, `Release`).

Uninitialised memory is a choice: `InitSlots` is what `new T*[size]` may leave in a
slot, `Garbage` what `headNew` may hold when `dequeue` is called. Memory is
sequentially consistent; the code relies on `volatile`, which orders nothing on a
weaker machine, and the model says nothing of that. The CAS is that of the
`__linux__` branch. Nobody but `test/test_ringbuffer.C` clears `m_sp` or `m_sc`; the
modes are modelled, and what is checked and proved, but for the types, is about the default
one.

`BoundedQueue` is the promise: a FIFO of `Capacity` items where each call takes
effect at one instant. Under the refinement mapping (`queue <- Contents`) the
queue is the occupied slots, with the oldest one still counted while a consumer
has emptied it and not yet moved `m_head`.

### ThreadPool

The manager (`mpc`, `loads`, `i`) goes through one request after another: `NewTest` accepts one,
which may or may not load and may or may not have connections to make; `Connect` writes
`cps_map` worker by worker; then `order()` is called worker by worker (`OrderRefused`,
`OrderEnqueue`, `OrderNotify`). Each worker (`wpc`) is in its event loop or in one callback:
`ReadByte`, `Dequeue` and `StartTask` are `threadEventProcess`; `Tick` is `time_cb`; `RunTask`
is the part of `runTask` before its loop, `RunTransaction` one turn of the loop and `ArmTimer`
the `event_add` of both callers. `Hang` is a transaction that does not come to an end
(`transaction.C:64-73`) and keeps its worker. `conn` holds, for each worker, the test its
connection was made for. A NULL event has no step: the invariant says that it does not occur.
Kept as it is: `runTask` increments `m_duration` where `m_nSecs` is tested.

`ran` is a history of the transactions each worker has run of each test. A
transaction is one step here; `TcpSession` has its inside.

### RequestHandler

`processHttpReq` for one request after another: `Receive` is its first reply, `NoObject`,
`Mistyped` and `ReadTestcase` the ways of its body, `WriteFile` and `LoadScript` the detour by
the file, `ConnectTcp`, `ConnectHttp` and `ConnectNone` the connections, `Order` and
`LoadFailed` the last reply. No NUL ends the array that the body is copied into, and
`string(req_body)` reads on (`manager.C:98-107`). That is part of every request, and modelled
by its outcomes: it does not matter to an object, as the parser stops at its end; one that
is cut short, or no body at all, may be completed (`Completed`) to any `Testcase` or to one
that throws; and the reply to what is no object has what follows its text in memory. The
file may not open, or be cut short, which nobody asks about.

`buff` is the text that replies take along or, given NULL, leave behind for the next. A
script is what `TScript::init` makes of its file: whether it loads, the address of its first
TCP step, its steps' protocols. A connection is its kind and a number; `StartTask` and
`RunTask` are the workers' side, as far as they cast the pointer `cps_map` has for them.
`undefined` is set by an exception that leaves through libevent's frames, a NULL pool, an
empty one, or a wrong cast; nothing happens after it. `ConnectionsFit` says when it is not
set by a connection: it is about connections only, and `TcpSession` has two other ways in
which sound tests may come to undefined behaviour. `Threads` is how `TPTFConfig::init`
settles the number of workers.

### Script

Loading is the loop of `TScript::init`, one action an iteration, over any document of up to
`MaxNodes` children of the root: a text, a step that loads, a TCP step that lacks its ip or its
port, one that does not load, a node without the attribute `protocol`. A step is named by the
number of its node. `address` is `m_connStr`: of an ip and a port, or, when the first TCP step
lacks one, of whatever the uninitialised ones hold (`NoAddress`), which may end the loading
there or not. `phase` ends as `loaded`, `refused` or `undefined`: the last is where the code
writes through a NULL `pLast`, stores in a step that did not load, deletes a step twice or
compares a NULL string, and nothing follows it in the model.

The other half begins with a loaded script, of a document of up to `MaxUsed` nodes. Every
worker runs transactions:
`EnterRead` and `EnterCas` are the two accesses of `enter`, `ExitRead`, `ExitCas`,
`UsedRead` and `UsedCas` those of `exit`; `RunStep` to `WriteOutcome` are the
increments of `run`, a read and a write each. `m_nUsing` and `m_nUsed` are not
initialised: `start` is what they held, and they wrap at `Modulus`. `runs` is a
ghost, what really happened. The stepping itself is here only as far as the
counters need it: a step fails or succeeds at will.

### Transaction, TcpSession and HttpSession

`Transaction` is what the protocols share: the queue, `m_curStep` and `isSend` of
each worker's transaction and the loop that moves them. `TakeEvent` and
`GoOnWithout` are its two ways; spinning changes nothing and is no action.
`Succeed` and `End` are what follows a step's result. Its actions say nothing of
the variables of the modules that extend it, which add the steps.

In `TcpSession` each worker (`pc`, `cur`, `isSend`, `ev`) works against the callbacks
(`cb`) of its connections. `LookUp` and `Write` are the halves of `TTCPStep::send`
before and after its mutex is released, `mSock` being the member they pass the
connection in. `Reconnect` is `initConnect` for a new test: `cps_map` (`test`) has a new
connection for the worker, whatever its transaction is doing. `refused` remembers that the
transaction's queue was full when an event came. `Receive` is `read_cb` with
`buffer_add_cb`, `CloseRead` and `FailWrite` are `error_cb`; each reads `tTransation`, and
`PushEvent` happens later. A byte on the wire carries the request it answers: who made
it, in which transaction and step, so that an event can be traced to it.

`Framing` is what `Receive` does to the bytes. They are sequences of marks: `"r"` and
`"n"` as the end of the header, of a line and of the last chunk need them, `"0"`, the two
words the code looks for, and `"x"` for any other byte. `ReceiveHttpResponse` is the
function of that name, with its zero positions and the single byte it lets be drained
for a Content-Length; `Kept` is `read_cb`, which leaves the last byte of every read
behind. `readbuff` is never cleared, as in the code.

In `HttpSession` the callbacks run in the worker's own thread, inside `send`. `Reconnect` is
`initHttpConnect` for a new test, up to `Tests` of them: the worker has a new connection from
then on, and the old one goes on on the same base. Without one `send` ends the transaction
(`EndWithout`). `SetBase`, `Connect`, `MakeRequest` and `Dispatch` are the parts of
`THTTPStep::send` between two uses of a member of the step (`mBase`, `mConn`, `prefixed`);
`Respond`, `FailConnect` and `FailRequest` are the chains of callbacks in which libevent may end
a request, and `CloseIdle` the one without a request. What libevent does is taken from its
interface as the code uses it. `undefined` is set where the code uses an uninitialised or
another worker's connection, dispatches another worker's event base, reconnects through a freed
name server base, or where `httpparser` throws out of `send`; the properties of a transaction
are about the behaviours, and the states, before that. `lost` marks a transaction for which no
event will come.

### StepData and HttpParser

The loop of `TStep::init` over the CDATA, on bytes, and that of `httpparser::parse`, on
characters, an action for each way a turn of the loop can go (`TakeEscape`, `TakeByte`;
`SkipLine`, `TakeLine`, `ThrowAtLine` after `ReadRequestLine`). Each has a writer before it,
who makes the text piece by piece (`WritePiece`) or header by header (`WriteField`) and keeps
in a history what each piece is and where it begins: the properties compare what the loop
makes of the text with what was meant by it. What the first promises a recv step is a
length, one byte for each escape or plain byte, and that it reads no further than the
NUL; not the bytes: `\x4f` becomes `'4' * 16 + 'f'` modulo 256 (`step.C:91`), while
`src/task/testTCP.xml` writes whole requests this way. What the second promises is each
name once, with the value that came first; that of a header without a blank behind its
colon loses a character, and one with nothing there makes `substr` throw.

### HashTable and TimeoutQueue

`HashTable` is `hashtable.c` with its iterator, one action for each call; an entry's
address is the number of the insertion that made it. Expansion works in a new table or,
when memory is short, in place. A spot is a bucket and a place in its chain; the chains
of a grown table are stated by the spots their entries come from (`Chained`): of those
with the same new bucket the last one is at the head, as each goes to the front in turn.
`HoldsWhatWasPut` holds the table to the set of what was put in and not taken out, each
entry once; `SweepSeesAll` a walk of the iterator to every entry, although it removes some
as it goes; `ShownOnce` each of its steps to an entry it has not been at.

`TimeoutQueue` is the list with its workers, each inside `enTqueue` and its mutex
(`EnterQueue` to `LinkBefore`), and the thread of `loop()`, which reads `size`, `m_node`
and `m_next` without it (`StartWalk`, `StepOn`) and takes the mutex to delete a node
(`TimeOut`) and tells the node's transaction (`told`), all of them with one and the same
event. `broken` marks the first read of a node that is freed or not yet linked;
nothing follows it, and the first timeout always leads there, since the walk goes on from
the node it has deleted. `ListSound` says that the list is whole whenever the mutex is
free, up to and after that timeout, but for `m_node`, which keeps its value when the head
is deleted.

### The JSON library

`JsonText` has what the other modules share: a text as a sequence of lexemes, a
`Value` as a record with its comments, and the grammar. `JsonReader` and `JsonOurReader`
are the two readers, each translated on its own, with the state a parse moves: place,
last token, root, errors, comments collected and where the last value ended; so the
recovery from an error skips what the code skips. `JsonWriter` has the four writers.
`JsonNumber` goes from characters to a number and back, with widths scaled down but in
the code's proportions: an `Int` of `IntBits`, a largest integer of `LargestBits`, a
double of `Mantissa` bits that cannot tell the largest integer from the power of two
after it, no double of more than `DoubleBits` before its point, and a buffer of
`BufferSize` characters to write one to. `JsonString` is the byte-by-byte half: UTF-8,
escapes, surrogates, comments.
`JsonValue` is a document on which calls are made in any order at any node, in the map
representation of the code, held to the sequence or the mapping it stands for; and the
order of values, and paths, whose arguments end at the first NUL.

`MCLibraries` runs all of these, one at a time, in one state space: `part` says which,
and the others stand still. The readers and writers of JSON are functions of an input, and
its actions type the input; the other parts have actions of their own.

The `Bug...` operators in the modules are plausible mistakes. No run uses
them; each, put in the place of the definition after it, makes a property fail,
and `PROJECT.json` says which under `mutants`. They are kept to show that no
property is vacuous.

## 4. The runs

Passing runs:

| run | instance | what it shows |
|---|---|---|
| `ring_size` | 1 producer, 1 consumer that asks `size()`, 3 slots, 5 objects | one owner for each object until a caller forgets it: the ring loses and doubles none; implements `BoundedQueue` |
| `ring_pipe` | 1 producer, 1 consumer, 3 slots, 4 objects, the pipe, writes that fail, a worker that may hang | no dequeue is empty-handed; what enough bytes announce is handed over unless the worker hangs |
| `pool_manager` | 2 workers, 3 tests, 1 place | a byte finds an event, tests are taken up in order, a worker goes on to later tests only and runs none over its total, no task is abandoned, no connection is older than its test |
| `pool_progress` | 2 workers, 2 tests, 2 places | announced orders are served, workers come to rest, but for those that hang in a transaction |
| `script` | documents of up to 4 nodes; 2 workers in those of up to 2, counters of 3 values | sound documents load and no other, the list is the document, usage is counted exactly, statistics never exceed the truth, CAS loops end |
| `tcp_solo` | 1 worker, 2 exchanges, 2 transactions, a second test at any time, answers read in two pieces, the peer may close | the right answer; on an open connection read in whole answers a recv has an event, nothing leaks, every transaction ends until the connection goes deaf; undefined behaviour in two windows only |
| `tcp_full` | 1 worker, 2 exchanges, a queue of 4, answers read in up to 5 pieces, the peer may close | the queue refuses events, and the transaction never waits for one of those |
| `http_session` | 1 worker, 2 exchanges, 3 transactions, 2 tests at any time | a recv has an event and it is the answer to its own request, every transaction ends unless no event comes |
| `request` | up to 2 tests, 1 to 3 workers, pools of 2, queues of 1, 5 kinds of script, files cut short | workers run what was sent, on connections of their own; sound tests of one protocol, with connections enough, use none that is not there or of the other kind; the last reply is true but for full queues |
| `libraries` | see below | the libraries keep what they promise |

Runs that end in a violation, each a place where the code departs from what its
comments or its tests say (`findings` quotes them):

| run | what it shows |
|---|---|
| `tcp_shared` | a worker sends on the connection that another has just looked up (`tcpstep.C:107`) |
| `tcp_chunked` | the answer `src/task/testTCP.xml` expects never makes an event, as its last byte is dropped (`socketpool.C:145`), and its transaction never ends |

What the properties name as exceptions are departures, too, of a kind no
document denies. A transaction whose answer comes in pieces may hand a NULL event to
`recv` (`RecvHasEvent` is about whole answers). A connection makes no event after as many
answers as there are bytes before the word `Content-Length`, since each drains one
(`Deaf`, in `EveryTransactionEnds`). A worker whose transaction does not end serves neither
pipe nor timer (`EveryOrderServed`, `ComeToRest`, `AnnouncedIsDelivered`), and an event
whose byte could not be written stays in its queue until a later one comes. A refused
test is reported as started (`LastReplyTrue`, which counts a test as ordered when it is
queued, whatever becomes of its byte: that is `ThreadPool`'s matter). A test after one
that could not be written runs the older script (`RunsWhatWasSent`). An event that nobody
could queue, or that was used by a transaction, is never deleted (`OneOwner`). Each is
reached in its run; without the exception TLC finds it.

**What the libraries turned out to do.** The properties of `libraries` hold with these
exceptions, each stated in the property or in the definition it uses:

* *Readers.* After a member's value and a comment any token passes for a comma; `{"":1,}`
  is taken; what follows the value is ignored, so the body of a request need not end
  where its bytes do (`manager.C:97-106`); OurReader takes a `'` it does not allow for
  the start of a comment; the two differ on numbers such as `1e`, and on `-I`, which is 0 and
  then the rest for Reader and an error for OurReader; a lone `-` is 0; a number as a name
  throws; so does a text nested as deep as the limit.
* *Writers.* The two older styled ones cut names at a NUL; without indentation a `//`
  comment swallows what follows; a dropped null that stands alone does not read back; a
  comment after a value inside another comes back in another place, and so does one of
  several lines after a value on its line; a real of precision 0 loses a zero in front of
  its point; one of more digits than the buffer of 36 has room for is cut short, and its
  length is then taken past the buffer's end (`jsoncpp.cpp:4300-4318`).
* *Numbers and strings.* A number larger than any double is refused by Reader (849) and
  infinite for OurReader; a double of 2^63 or 2^64 passes `InRange` and is cast; any `\u`
  after a high surrogate is taken for its second half; a lead byte cut short takes the
  next byte, be it a quote, with it.
* *Values.* Cutting an array behind a hole throws when it has been cut; an index without
  an entry cannot be removed; removing the last entry of an array drops the holes below it;
  `==` tells a hole from a null; `get` returns the default for a hole. A path keeps a name
  up to its first NUL (4028-4029), so that `make` makes another; a NUL in the text of a path
  makes `makePath` go on for ever (4074-4076).
* *Hash table.* Expansion in place passes an entry, not its place, to `memset`
  (`hashtable.c:106`), which writes where a bucket nobody has written points: nothing is
  said of the table after it. *Timeout queue.* The comparison at line 80 calls back those
  that are still to come.

**Bounds.** A ring of three slots has an empty, a partly full and a full state at every position
of its indices, and four objects let it wrap while one is in each thread's hands; a fifth, as
forgotten objects are not used again. A worker's queue of one place refuses the second of three
tests, and one of two places lets a lost byte leave events behind. Two workers are enough to be
served differently by one loop of the manager. The plan of the runs, two transactions a tick and
three in all, has a full tick, a cut one and the tick that finds nothing to do. `MaxTests` and
`MaxTrans` bound what is submitted and run, and nothing else. `NewTests` and `MaxSplits`, one
each in `tcp_solo`, let a connection be replaced and an answer come in two pieces, at every
place; an answer has three bytes before its length word, so that the fourth of the two
transactions' exchanges finds the connection deaf. In `tcp_full` a whole answer is five pieces,
each of which makes an event: with the failures, more than the queue's four places. In
`http_session` three transactions over two connections let a request of the first, an idle old
connection and a transaction without any meet; one worker, since callbacks run in the worker's
own thread, and what workers do to each other through the members of a step is `undefined` at
once: the theorems are about any number of workers. A pool of 2 stands for the 20 of
`socketpool.h` and three workers for 65535: both sides of "more workers than connections". Four
nodes are a first, a middle and a last step with a text or a failure at each place; a script of
two steps is used, and two workers make a CAS fail and an increment get lost; counters of three
values, all at their largest at first, wrap at once. Real queues have 256 and 512 slots.

In `libraries`: a table of sizes 2, 3 and 5 with three keys and four insertions expands
twice and has chains of two; three receives at two deadlines meet in the list in every
order. Texts have up to three lexemes, or are four longer ones with any one lexeme put
in, taken out or replaced, which leads into every error and recovery; Values to be
written are three deep with comments of both kinds; numbers have four characters,
exponents of one or two digits down to -3, integers of 6 bits, doubles of 20 and a buffer of
10 characters, so that both sides of each limit come up; strings
have three of the code points at the ends of UTF-8's ranges or of bytes that belong to
none; three calls are made on a document. A step's data has up to three pieces, the first
of them any escape; a request has up to three headers, of two names and the empty one.
`StackLimit`, 3 for the library's 1000, is reached by the texts of three opening brackets,
and `LongArray`, 2 for a line of 74, by Values of two entries and more.

**Fairness.** Ring buffer: a thread inside a call goes on (weak), nobody is obliged to enqueue,
and a worker that hangs does not come back. Pool: strong fairness of `ReadByte` and of `Tick`,
because an iteration of libevent's loop runs every callback that is ready, so that neither of
the two starves the other; weak fairness inside a callback and of the manager inside a request;
none of `NewTest`, and none against `Hang`. TCP: weak fairness of the threads, and what a peer
has sent on an open connection is read (weak); none of `Reconnect` and the faults. HTTP: the
worker's thread, none of `Reconnect`, and a request under way ends in one of libevent's ways, as
libevent gives up on it after a time. Script: each thread (weak); a CAS that fails means that
another has succeeded, and the transactions are bounded by `MaxTrans`, which is what lets every
loop end.

The libraries and `RequestHandler` have safety properties only: calls return or throw.

**Deadlock** is checked in `ring_size`. The others may stop: when a worker hangs, when the
bounded number of tests, transactions, calls or inputs is used up, or behaviour is undefined.

## 5. What is proved

All by TLAPS, from the assumptions that the modules name for their constants and
nothing else; where a theorem is about one use of a component, the use is its hypothesis,
`Spsc` or `Solo(w)`. The sizes of the runs are bounds of TLC only.

| module | component | theorems |
|---|---|---|
| `RingBufferProofs` | ring buffer | `TypeCorrect`, `InductiveInvariant`, `DequeueFindsItem`, `EveryObjectHasOneOwner`, `RefinesQueue` |
| `ThreadPoolProofs` | manager and workers | `TypeCorrect`, `InductiveInvariant`, `EventForEveryByte`, `TestsInOrder`, `NoTaskAbandoned`, `FreshConnection`, `NeverTurnsBack` |
| `ScriptProofs` | script | `TypeCorrect`, `InductiveInvariant`, `LoadedInOrder`, `LoadedAsItDeserves`, `UsersCounted`, `StatisticsAreLowerBounds` |
| `TransactionProofs` | the loop of `onEvent` | lemmas for the next two |
| `HttpSessionProofs` | HTTP step | `TypeCorrect`, `InductiveInvariant`, `RecvAlwaysHasEvent`, `AnswerIsOwn` |
| `TcpSessionProofs` | TCP step and connection | `TypeCorrect`, `SetBeforeUse`, `RecvAlwaysHasEvent`, `AnswerIsOwn`, `BetweenTransactions`, `NothingMissed` |
| `RequestHandlerProofs` | `processHttpReq` | `TypeCorrect`, `SentIsRun`, `NoSharedConnection`, `SoundTestsFit`, `LastReplyIsTrue` |
| `LibraryProofs` | hash table, timeout queue, a step's data, header parser | `HashInvariant`, `TableIsKept`, `NothingTwice`, `ListIsSound`, `StepDataIsCounted`, `RequestsAreParsed` |

**Ring buffer**, for any size above one and any sets of threads and objects:

* `TypeCorrect`: `Spec => []TypeOK`, in every mode.
* Under `Spsc` (one producer, one consumer, default modes, a consumer that knows
  something is queued), which is how the program uses it: `InductiveInvariant`,
  `DequeueFindsItem`, `EveryObjectHasOneOwner` and `RefinesQueue`.

`IInv` adds to the types what each thread's locals still tell it: between its
reads and its writes the producer knows that `m_tail` has not moved and that its
slot is free (`ProducerView`); the consumer that `m_head` has not moved, the ring is
not empty and `p` is the oldest item (`ConsumerView`); occupied slots hold items
(`OccupiedHoldItems`); and the pipe never holds more bytes than there are items
(`BytesHaveItems`), lost ones or not, which is what makes the second kind of caller right.
Ownership and refinement follow from it, step by step. `EveryObjectHasOneOwner` is about
the ring: an object that neither a slot nor a thread has is one that a caller has forgotten,
and no other.

**Pool**, for any number of workers and tests, any queue capacity, plans with a
positive `tps`, and writes that may fail: `TypeCorrect`, `InductiveInvariant`, and from
it `EventForEveryByte` (`NeverNull`), `TestsInOrder` (`InOrder`), `NoTaskAbandoned`
(`QuietMeansDone`) and `FreshConnection` (`NoStaleConnection`), whatever transactions
hang. The strengthening is:
bytes, with those in flight, never outnumber events (`BytesHaveEvents`); counts add
up and stay within the total (`CountsAddUp`); a connection is in place before its
test is queued (`ConnectionsFirst`). Each step lemma proves one conjunct over all
actions. `NeverTurnsBack` is the action property `GoesForward`: that a worker's test only
grows is the order of its queue and its task in `IInv`; that no step runs a test over its
total needs, besides the counts, that what a task still has to run is what its plan had
(`PlanInv`), as `startTask` copies the plan and `runTask` sees the copy only.

**Script**, for any document, any finite set of workers and any modulus larger than their
number: `TypeCorrect`, `InductiveInvariant`, and from it `LoadedInOrder` (`ChainInOrder`),
`LoadedAsItDeserves` (`LoadsWhatIsSound`), `UsersCounted` (`UsingCounts`) and
`StatisticsAreLowerBounds` (`NeverOvercounts`). While loading, the list is right for the nodes
before `pNode`, `pLast` is its end, no later step has a successor, and `address` is what those
nodes make of it (`LoadInv`); a worker in a transaction has a loaded script and, in a step, a
step (`PlaceInv`); and what a worker holds of a count, with all the updates on their way, is at
most what ran (`CountInv`), which is why a write based on an old read still undercounts.

**Transactions.** `TransactionProofs` says what `TakeEvent`, `GoOnWithout`, `Succeed` and
`End` do to one worker's queue, step and turn, and that they leave the others alone;
both sessions cite it. It needs `None \notin Workers` (`WorkersAssumption`).

**HTTP session**, for any number of workers, of transactions and of tests, and scripts of
any number of exchanges (`ExchangesAssumption`: a send step, the recv step of its answer, and
so on, as those under `src/task`, and what `onEvent` takes for granted when it infers whose
turn it is): `TypeCorrect`, `InductiveInvariant`, `RecvAlwaysHasEvent` (`RecvHasEvent`) and
`AnswerIsOwn` (`OwnAnswer`). `AskedInv` says that of all the connections a worker has had at
most one has a request under way, and that when the worker has left the event loop without
its answer, as the closing of an older connection makes it do, its transaction gets no
further than to wait.
`TurnInv` says where a worker is in its script, whose turn
it is, and that its queue holds an event only after `send` has left the event loop, at
most one, about the request of that step. Callbacks run inside
`send` in the worker's own thread, so that the workers do not meet but in the
members of a step; each action's lemma is about one worker, and `OthersKeep` carries the
rest.

**TCP session.** For any workers, scripts and answers: `TypeCorrect`; `SetBeforeUse`
(`UndefinedOnlyWhen`): `tTransation` is read before it is set only in the two windows named
there; and `NothingMissed` (`NeverMissed`), for scripts of no more steps than a queue has places
(512 in the code, `transaction.C:23`), however many pieces answers come in: when the queue has
refused an event, it has had one for each step that is left (`StockInv`), so that the
transaction does not wait for that one. For one worker and a script of exchanges (`Solo(w)`),
any number of exchanges and transactions, any new tests at any time, reads of any size and
failures: `RecvAlwaysHasEvent` (`RecvHasEvent`), `AnswerIsOwn` (`OwnAnswer`),
`BetweenTransactions` (`QuietBetween`). The hypothesis of one worker is no convenience: with two
the properties are false, as `tcp_shared` shows, because the step keeps the connection in a
member that all workers share. `SoloInv` has, besides the types, which connections exist and
which of them knows a transaction (`SockInv`), which events may lie in a queue or in the
callback's hands, errors last (`EventInv`), that each recv step leaves no answer behind
(`AnswerInv`) and whose turn it is to send (`TurnInv`). What `receiveHttpResponse` makes of the
bytes is used only as far as it yields a drain within the buffer, so that the theorems hold for
any framing that does.

**Requests**, for any number of workers, tests, pool sizes and queue capacities, with no
hypothesis: `TypeCorrect`, `SentIsRun` (`RunsWhatWasSent`), `NoSharedConnection`
(`ConnectionsApart`), `SoundTestsFit` (`ConnectionsFit`) and `LastReplyIsTrue`
(`LastReplyTrue`). `HandlerInv` relates what the manager has read of the request, the file's
content (`ScriptInv`: whatever is loaded or ordered stems from what was sent), the orders in
queues and tasks (`OrderInv`), the replies made so far (`ReplyInv`) and the kinds of
connections in `cps_map` (`KindInv`).
The text a file has before the first test differs from `None` (`HandlerAssumption`).

**Hash table**, for any keys, hash codes, list of sizes and number of insertions:
`HashInvariant`, and from it `TableIsKept` (`TableKept`) and `NothingTwice` (`ShownOnce`). It
says that each entry put and not taken out is at one spot, in the bucket of its key
(`ContentInv`), and that an iterator under which only it has changed the table stands where it
thinks and has been at the spots up to its own and at none behind (`SweepInv`), which is what
makes both its end and its next step right. That growing keeps every entry once is shown without
induction over chains: of finitely many spots no two have the same number of later ones, so that
each number is the place of one. Where the first key of a chain, the first full bucket or the
first prime is meant, a least number is (`LeastOf`). After an expansion in place or a misused
iterator (`corrupt`) nothing is said.

**Timeout queue**, for any number of nodes, any timers and any time: `ListIsSound`
(`ListSound`). The invariant follows the writes of `enTqueue`: with the mutex held the list
has all but the holder's node, or, for the first, has it before its links are written
(`ListInv`). The case that takes thought is the deletion, with the node at either end or in
the middle.

**A step's data**, for a text of any pieces and any number of them: `StepDataIsCounted`
(`StepDataCounted`). `DataInv` says that the pieces stand one behind the other from the first
byte to the last (`PiecesInv`); that, unless a backslash is written before an x or an escape
breaks off, the loop is at the beginning of a piece and has made one byte, none of them the NUL,
of each before (`TurnsInv`); and how far it has read (`ReadInv`). That no byte becomes the NUL
is arithmetic over the digits: sixteen times the one and the other is no multiple of 256
(`EscapedByteIs`).

**Header parser**, for any alphabet with the characters it looks for (`HttpAssumption`), any
number of headers and any text in them: `RequestsAreParsed` (`RequestsParsed`). `HttpInv` says
that the request line, the headers and the empty line stand in the request one behind the other
(`WrittenInv`), and that the loop is at the beginning of one of them, with the first value of
each name before it and none of those without a value (`LoopInv`). What `find` and `substr`
take out of a line is shown once, of a line wherever it stands (`LineIs`, `HeadIs`,
`HeaderIs`). Both proofs speak of positions and not of a decoder defined by recursion, which is
why they need no induction over the text.

The inductive invariants were invariants of runs while the proofs were made; the runs
now check what they are for.

**Only model-checked**: the liveness properties (temporal reasoning under fairness
is beyond these proofs); `TcpSession` with several workers, whose properties are false or,
for `tcp_chunked`, about what ends; and the properties of `libraries` about the JSON
library. That and the framing search are recursive definitions or folds, and what such a
definition computes for every input takes an induction over data, which the provers cannot
instantiate.

## 6. What is not modelled, and why

* `stopTask`: no code makes the event that would call it. `backSocket`, `setTTransation`,
  `setCSocket`: nobody calls them, or uses what they set.
* The timeout queue's thread as a part of the program: `loop()` is commented out where it
  would be started (`socketpool.C:300`). `TimeoutQueue` models it all the same, with the
  workers; `TcpSession` has no timeouts.
* The request's `tps` and `duration`: the handler reads neither and always orders
  10 a tick and 50 in all (`manager.C:180`); `Plans` is the general case.
* The durations of the statistics, and `m_send_st2redis`: `time_cb` calls it at every tick
  (`mptthreadpool.C:147`), and it sums up what the steps have counted, without a lock, and
  sends it to the redis server under a mutex. It changes no state of the program; what it
  reads may be less than what ran, as `NeverOvercounts` says of every reading.
* Failures while the pool starts, and its destruction; of the configuration all
  but the number of workers, as one thread reads it before any other starts; the redis
  client, a blocking call to an external server; connecting, which libevent does.
* Torn memory: what `cps_map`, a `std::map`, or a bufferevent does when two threads use it
  at once (`mptthreadpool.C:274`, `socketpool.C:126`); weaker memory than sequential
  consistency.
* Of the JSON library: the copying and releasing of memory, the places of errors in
  a text and their wording, iterators, the builders' parsing of their settings, blanks.
  Of the hash table: `hashtable_destroy`, and the macros that only add types.
* `test/test_ringbuffer.C`. It calls `dequeue` without asking, over an array nobody has
  written, so that the slot read before the test for an empty ring (`ringbuff.h:78`) may be
  what it is given; and with `-p 2` a producer whose CAS on a slot fails publishes the other's
  object (`ringbuff.h:65`), which is then queued twice. The program does neither.
* Uncompiled and unreachable code, listed in section 1.
