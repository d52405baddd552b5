------------------------------- MODULE Script -------------------------------
(***************************************************************************)
(* A script (src/src/script.C): the loading of its document into a list of *)
(* steps by the manager's thread, and then its use by the transactions of  *)
(* all workers at once: the usage counters, which are moved by CAS, and    *)
(* the statistics of its steps (step.C), which are not.                    *)
(***************************************************************************)
EXTENDS Integers, Sequences, FiniteSets, Functions

CONSTANTS Workers,
          MaxNodes,  \* bound: children of the document's root
          MaxUsed,   \* bound: nodes of a document whose script is used
          MaxTrans,  \* bound: transactions each worker runs
          Modulus,   \* the values of a counter: 2^64 in the code
          AtFirst    \* what the uninitialised counters may hold

(* A child of the root, by what becomes of it: a text, which is skipped; a *)
(* step that loads; a TCP step that would load but lacks its ip or its     *)
(* port; one of an unknown protocol, or whose init() fails; and a node     *)
(* without the attribute "protocol" (a comment, say), for which            *)
(* initProperty compares a NULL string.                                    *)
Kinds == {"text", "step", "vague", "bad", "bare"}
StepKinds == {"step", "vague"}

ASSUME BoundAssumption == MaxNodes \in Nat /\ MaxUsed \in Nat /\ MaxTrans \in Nat
ASSUME WorkersAssumption == IsFiniteSet(Workers)
ASSUME ModulusAssumption == /\ Modulus \in Nat /\ Cardinality(Workers) < Modulus
                            /\ AtFirst \subseteq 0 .. Modulus - 1

VARIABLES
  phase, doc, pNode,    \* the loading, and where it has got to
  address,              \* m_connStr: empty, of an ip and port given, or of any
  mTransaction,         \* whether the member nobody has set yet is not NULL
  script, pLast, next,  \* m_script, pLast and the steps' m_next (and m_child)
  using, used, start,   \* m_nUsing, m_nUsed and what they held at first
  pc, n, cur, old,      \* each worker: its transactions so far, m_curStep,
  ret, reg,             \* and what it holds of a counter in a register
  total, count, runs    \* the statistics of each step, and what really ran

load == <<phase, doc, pNode, address, mTransaction, script, pLast, next>>
vars == <<load, using, used, start, pc, n, cur, old, ret, reg, total, count, runs>>

\* A step is named by the node it was made of.
Steps == 1 .. MaxNodes
NULL == 0
Values == 0 .. Modulus - 1
Results == {"succ", "errend"}

\* A parser leaves no text next to another.
Documents ==
  {d \in UNION {[1 .. k -> Kinds] : k \in 0 .. MaxNodes} :
     \A i \in 1 .. Len(d) - 1 : d[i] = "text" => d[i + 1] # "text"}

Init ==
  /\ phase = "loading" /\ doc \in Documents /\ pNode = 1
  /\ address = "none"
  /\ mTransaction \in BOOLEAN
  /\ script = NULL /\ pLast = NULL /\ next = [k \in Steps |-> NULL]
  /\ start \in [using : AtFirst, used : AtFirst]
  /\ using = start.using /\ used = start.used
  /\ pc = [w \in Workers |-> "new"] /\ n = [w \in Workers |-> 0]
  /\ cur = [w \in Workers |-> NULL] /\ old = [w \in Workers |-> 0]
  /\ ret = [w \in Workers |-> "succ"] /\ reg = [w \in Workers |-> 0]
  /\ total = [k \in Steps |-> 0]
  /\ count = [k \in Steps |-> [r \in Results |-> 0]]
  /\ runs = [k \in Steps |-> [r \in Results |-> 0]]
-----------------------------------------------------------------------------
(* TScript::init                                                           *)

UnchangedUse == UNCHANGED <<using, used, start, pc, n, cur, old, ret, reg, total, count, runs>>

\* The node an iteration looks at: one text is stepped over.
Looked == IF doc[pNode] = "text" THEN pNode + 1 ELSE pNode

\* A bug to try: pLast stays at the first step.
BugLinkFirst(k) ==
  /\ script' = IF script = NULL THEN k ELSE script
  /\ next' = IF pLast = NULL THEN next ELSE [next EXCEPT ![pLast] = k]
  /\ pLast' = IF pLast = NULL THEN k ELSE pLast

Link(k) ==
  /\ script' = IF script = NULL THEN k ELSE script
  /\ next' = IF pLast = NULL THEN next ELSE [next EXCEPT ![pLast] = k]
  /\ pLast' = k

\* initProperty asks a TCP step for its address while there is none.  What a
\* step does not give is read uninitialised: an address like any other, or ...
AddressOf(kind) ==
  IF address # "none" THEN {address}
  ELSE IF kind = "vague" THEN {"any"}
  ELSE {"none", "given"}                  \* of an HTTP step, of a TCP step

LoadNode ==
  /\ phase = "loading" /\ pNode <= Len(doc) /\ Looked <= Len(doc)
  /\ doc[Looked] \in StepKinds
  /\ address' \in AddressOf(doc[Looked])
  /\ Link(Looked)
  /\ pNode' = Looked + 1
  /\ UNCHANGED <<phase, doc, mTransaction>> /\ UnchangedUse

\* ... no string at all; a step whose init() would fail comes to it first.
NoAddress ==
  /\ phase = "loading" /\ pNode <= Len(doc) /\ Looked <= Len(doc)
  /\ doc[Looked] \in {"vague", "bad"} /\ address = "none"
  /\ phase' = "undefined"
  /\ UNCHANGED <<doc, pNode, address, mTransaction, script, pLast, next>> /\ UnchangedUse

\* A bug to try: pLast is not asked for.
BugLoadedAlways ==
  /\ phase = "loading"
  /\ pNode <= Len(doc) => Looked > Len(doc)
  /\ phase' = "loaded"
  /\ UNCHANGED <<doc, pNode, address, mTransaction, script, pLast, next>> /\ UnchangedUse

\* After the last node, or a text at the end: pLast is written through.
Loaded ==
  /\ phase = "loading"
  /\ pNode <= Len(doc) => Looked > Len(doc)
  /\ phase' = IF pLast = NULL THEN "undefined" ELSE "loaded"
  /\ UNCHANGED <<doc, pNode, address, mTransaction, script, pLast, next>> /\ UnchangedUse

\* ~TStep deletes m_next and then m_child, which is the same step.
DeletesTwice == next[script] # NULL

\* A step that does not load.  m_transaction, when it is not NULL, is stored
\* in the step there is not; then pLast is written through; and the steps
\* there are get deleted.
Refused ==
  /\ phase = "loading" /\ pNode <= Len(doc) /\ Looked <= Len(doc)
  /\ doc[Looked] = "bad"
  /\ phase' = IF mTransaction \/ pLast = NULL \/ DeletesTwice
              THEN "undefined" ELSE "refused"
  /\ UNCHANGED <<doc, pNode, address, mTransaction, script, pLast, next>> /\ UnchangedUse

NoProtocol ==
  /\ phase = "loading" /\ pNode <= Len(doc) /\ Looked <= Len(doc)
  /\ doc[Looked] = "bare"
  /\ phase' = "undefined"
  /\ UNCHANGED <<doc, pNode, address, mTransaction, script, pLast, next>> /\ UnchangedUse

Load == LoadNode \/ NoAddress \/ Loaded \/ Refused \/ NoProtocol
-----------------------------------------------------------------------------
(* Transactions: enter, the statistics at the end of run(), exit           *)

Go(w, from, to) == pc[w] = from /\ pc' = [pc EXCEPT ![w] = to]

\* __sync_bool_compare_and_swap of a counter: the new value, and where to go.
CAS(w, counter, new, retry, to) ==
  IF counter = old[w] THEN counter' = new /\ pc' = [pc EXCEPT ![w] = to]
                      ELSE UNCHANGED counter /\ pc' = [pc EXCEPT ![w] = retry]

EnterRead(w) ==
  /\ \/ /\ Go(w, "new", "enter") /\ phase = "loaded"
        /\ Len(doc) <= MaxUsed /\ n[w] < MaxTrans
     \/ Go(w, "reenter", "enter")
  /\ old' = [old EXCEPT ![w] = using]
  /\ UNCHANGED <<load, using, used, start, n, cur, ret, reg, total, count, runs>>

\* A bug to try: an increment that is not a compare-and-swap.
BugEnterCasBlind(w) ==
  /\ Go(w, "enter", "run")
  /\ using' = (old[w] + 1) % Modulus
  /\ cur' = [cur EXCEPT ![w] = script]
  /\ UNCHANGED <<load, used, start, n, old, ret, reg, total, count, runs>>

EnterCas(w) ==
  /\ pc[w] = "enter"
  /\ CAS(w, using, (old[w] + 1) % Modulus, "reenter", "run")
  /\ cur' = [cur EXCEPT ![w] = script]
  /\ UNCHANGED <<load, used, start, n, old, ret, reg, total, count, runs>>

\* send() or recv(), with either result; then `m_st.total_count++', which reads ...
RunStep(w) ==
  /\ Go(w, "run", "total")
  /\ \E r \in Results :
       /\ ret' = [ret EXCEPT ![w] = r]
       /\ runs' = [runs EXCEPT ![cur[w]][r] = @ + 1]
  /\ reg' = [reg EXCEPT ![w] = total[cur[w]]]
  /\ UNCHANGED <<load, using, used, start, n, cur, old, total, count>>

\* ... and writes, and so does the count of the result.
WriteTotal(w) ==
  /\ Go(w, "total", "outcome")
  /\ total' = [total EXCEPT ![cur[w]] = reg[w] + 1]
  /\ UNCHANGED <<load, using, used, start, n, cur, old, ret, reg, count, runs>>

ReadOutcome(w) ==
  /\ Go(w, "outcome", "result")
  /\ reg' = [reg EXCEPT ![w] = count[cur[w]][ret[w]]]
  /\ UNCHANGED <<load, using, used, start, n, cur, old, ret, total, count, runs>>

\* A bug to try: a failure counts as a success as well.
BugWriteOutcomeTwice(w) ==
  /\ pc[w] = "result"
  /\ count' = [count EXCEPT ![cur[w]][ret[w]] = reg[w] + 1, ![cur[w]]["succ"] = @ + 1]
  /\ cur' = [cur EXCEPT ![w] = IF ret[w] = "succ" THEN next[cur[w]] ELSE NULL]
  /\ pc' = [pc EXCEPT ![w] = IF cur'[w] = NULL THEN "leave" ELSE "run"]
  /\ UNCHANGED <<load, using, used, start, n, old, ret, reg, total, runs>>

\* The last write, and what onEvent makes of the result.
WriteOutcome(w) ==
  /\ pc[w] = "result"
  /\ count' = [count EXCEPT ![cur[w]][ret[w]] = reg[w] + 1]
  /\ cur' = [cur EXCEPT ![w] = IF ret[w] = "succ" THEN next[cur[w]] ELSE NULL]
  /\ pc' = [pc EXCEPT ![w] = IF cur'[w] = NULL THEN "leave" ELSE "run"]
  /\ UNCHANGED <<load, using, used, start, n, old, ret, reg, total, runs>>

ExitRead(w) ==
  /\ Go(w, "leave", "exit")
  /\ old' = [old EXCEPT ![w] = using]
  /\ UNCHANGED <<load, using, used, start, n, cur, ret, reg, total, count, runs>>

\* A bug to try: the loop does not read the counter again.
BugExitCasStale(w) ==
  /\ pc[w] = "exit"
  /\ CAS(w, using, (old[w] - 1) % Modulus, "exit", "left")
  /\ UNCHANGED <<load, used, start, n, cur, old, ret, reg, total, count, runs>>

ExitCas(w) ==
  /\ pc[w] = "exit"
  /\ CAS(w, using, (old[w] - 1) % Modulus, "leave", "left")
  /\ UNCHANGED <<load, used, start, n, cur, old, ret, reg, total, count, runs>>

UsedRead(w) ==
  /\ Go(w, "left", "use")
  /\ old' = [old EXCEPT ![w] = used]
  /\ UNCHANGED <<load, using, used, start, n, cur, ret, reg, total, count, runs>>

UsedCas(w) ==
  /\ pc[w] = "use"
  /\ CAS(w, used, (old[w] + 1) % Modulus, "left", "new")
  /\ n' = IF used = old[w] THEN [n EXCEPT ![w] = @ + 1] ELSE n
  /\ UNCHANGED <<load, using, start, cur, old, ret, reg, total, count, runs>>
-----------------------------------------------------------------------------
Worker(w) == \/ EnterRead(w) \/ EnterCas(w)
             \/ RunStep(w) \/ WriteTotal(w) \/ ReadOutcome(w) \/ WriteOutcome(w)
             \/ ExitRead(w) \/ ExitCas(w) \/ UsedRead(w) \/ UsedCas(w)

Next == Load \/ \E w \in Workers : Worker(w)

Spec == Init /\ [][Next]_vars

\* The threads run.
FairSpec == Spec /\ WF_vars(Load) /\ \A w \in Workers : WF_vars(Worker(w))
-----------------------------------------------------------------------------
(* Properties                                                              *)

TypeOK ==
  /\ phase \in {"loading", "loaded", "refused", "undefined"}
  /\ doc \in Seq(Kinds) /\ Len(doc) <= MaxNodes
  /\ pNode \in 1 .. MaxNodes + 1 /\ mTransaction \in BOOLEAN
  /\ address \in {"none", "given", "any"}
  /\ script \in Steps \cup {NULL} /\ pLast \in Steps \cup {NULL}
  /\ next \in [Steps -> Steps \cup {NULL}]
  /\ using \in Values /\ used \in Values
  /\ start \in [using : AtFirst, used : AtFirst]
  /\ pc \in [Workers -> {"new", "reenter", "enter", "run", "total", "outcome",
                         "result", "leave", "exit", "left", "use"}]
  /\ n \in [Workers -> 0 .. MaxTrans]
  /\ cur \in [Workers -> Steps \cup {NULL}] /\ old \in [Workers -> Values]
  /\ ret \in [Workers -> Results] /\ reg \in [Workers -> Nat]
  /\ total \in [Steps -> Nat]
  /\ count \in [Steps -> [Results -> Nat]] /\ runs \in [Steps -> [Results -> Nat]]

\* Of the steps among the first `upto' nodes, j is the next one after k; NULL
\* when there is none.
StepAt(i) == i \in 1 .. Len(doc) /\ doc[i] \in StepKinds

IsNext(k, j, upto) ==
  IF j = NULL THEN \A i \in Steps : StepAt(i) /\ i <= upto => i <= k
  ELSE /\ StepAt(j) /\ k < j /\ j <= upto
       /\ \A i \in Steps : StepAt(i) /\ i <= upto /\ k < i => j <= i

Chain(upto) ==
  /\ IsNext(0, script, upto)
  /\ \A k \in Steps : StepAt(k) /\ k <= upto => IsNext(k, next[k], upto)

\* A script that has loaded has every step of its document once, in the order
\* of the document: each step's m_next is the step that follows it there, and
\* m_script is the first (script.C:79-108).
ChainInOrder == phase = "loaded" => Chain(Len(doc))

\* init() comes to its end and says yes only for a document of steps and texts, with one
\* step at least; it says no, and nothing is left of the steps, only when one step stood
\* before the one that does not load; of any other document it makes what C++ leaves
\* open (script.C:88-117).  A step without ip or port is harmless after one that has
\* both; where it is the first TCP step, the script that loads connects to what an
\* uninitialised pointer and number said (script.C:160-197).
LoadsWhatIsSound ==
  /\ phase = "loaded" => /\ Range(doc) \cap StepKinds # {}
                         /\ Range(doc) \subseteq StepKinds \cup {"text"}
                         /\ "vague" \in Range(doc) => address # "none"
                         /\ doc[script] = "vague" => address = "any"
  /\ address = "any" => "vague" \in Range(doc)
  /\ phase \in {"refused", "undefined"} =>
       \/ Range(doc) \cap StepKinds = {}
       \/ \E i \in DOMAIN doc : doc[i] \in {"vague", "bad", "bare"}
  /\ phase = "refused" =>
       /\ ~mTransaction
       /\ \E i, k \in DOMAIN doc : StepAt(i) /\ doc[k] = "bad"
                                 /\ \A j \in 1 .. k - 1 : j = i \/ doc[j] = "text"

\* m_nUsing counts the transactions between enter() and exit(), from whatever
\* the uninitialised member held, modulo 2^64 (script.C:214-226).
Inside == {w \in Workers : pc[w] \in {"run", "total", "outcome", "result", "leave", "exit"}}

UsingCounts ==
  /\ using \in Values
  /\ using - start.using \in {Cardinality(Inside), Cardinality(Inside) - Modulus}

\* A step's statistics may miss updates, as nothing orders those of different
\* workers, but never count what did not happen (step.C:148-170).
Ran(k) == runs[k]["succ"] + runs[k]["errend"]

NeverOvercounts ==
  \A k \in Steps : /\ total[k] <= Ran(k)
                   /\ \A r \in Results : count[k][r] <= runs[k][r]

\* Every transaction gets out of the CAS loops (script.C:216-229).
EveryoneLeaves == \A w \in Workers : pc[w] # "new" ~> pc[w] = "new"
-----------------------------------------------------------------------------
(* What the invariants above rest on                                       *)

\* The loader so far.
LoadInv ==
  /\ phase = "loading" =>
       /\ pNode <= Len(doc) + 1
       /\ Chain(pNode - 1)
       /\ \A k \in Steps : pNode <= k => next[k] = NULL
       /\ IF script = NULL THEN pLast = NULL
          ELSE /\ pLast \in Steps /\ StepAt(pLast) /\ pLast < pNode
               /\ next[pLast] = NULL
  /\ phase = "loaded" => script # NULL /\ ChainInOrder

\* Where there is a worker, there is a script; where it is in a step, a step.
Running == {"run", "total", "outcome", "result"}
PlaceInv ==
  \A w \in Workers : /\ pc[w] # "new" => phase = "loaded" /\ n[w] < MaxTrans
                     /\ pc[w] \in Running => cur[w] # NULL

\* An update that is on its way is not in the count yet, and what a worker has
\* read of the count is older than the updates on their way.
Totalling(k) == {w \in Workers : pc[w] = "total" /\ cur[w] = k}
Pending(k, r) == {w \in Workers : /\ pc[w] \in {"total", "outcome", "result"}
                                  /\ cur[w] = k /\ ret[w] = r}

CountInv ==
  \A k \in Steps :
    /\ total[k] + Cardinality(Totalling(k)) <= Ran(k)
    /\ \A w \in Totalling(k) : reg[w] + Cardinality(Totalling(k)) <= Ran(k)
    /\ \A r \in Results :
         /\ count[k][r] + Cardinality(Pending(k, r)) <= runs[k][r]
         /\ \A w \in Pending(k, r) : pc[w] = "result" =>
              reg[w] + Cardinality(Pending(k, r)) <= runs[k][r]

IInv == TypeOK /\ LoadInv /\ PlaceInv /\ UsingCounts /\ CountInv
=============================================================================
