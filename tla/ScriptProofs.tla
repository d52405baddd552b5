---------------------------- MODULE ScriptProofs ----------------------------
(***************************************************************************)
(* What Script promises for any document, any number of workers and steps  *)
(* and any modulus of the counters.  IInv is proved inductive a conjunct at *)
(* a time (StepPlace, StepType, StepLoad, StepUsing, StepCount).           *)
(***************************************************************************)
EXTENDS Script, FiniteSetTheorems, TLAPS

\* old + 1 and old - 1 on a counter of Modulus values (script.C:218-229).
LEMMA Wraps ==
  ASSUME NEW x \in Values
  PROVE  /\ (x + 1) % Modulus = IF x + 1 = Modulus THEN 0 ELSE x + 1
         /\ (x - 1) % Modulus = IF x = 0 THEN Modulus - 1 ELSE x - 1
         /\ (x + 1) % Modulus \in Values /\ (x - 1) % Modulus \in Values
<1>1. Modulus \in Nat /\ x \in Nat /\ x < Modulus
  BY ModulusAssumption DEF Values
<1>2. (x + 1) % Modulus = IF x + 1 = Modulus THEN 0 ELSE x + 1
  BY <1>1
<1>3. (x - 1) % Modulus = IF x = 0 THEN Modulus - 1 ELSE x - 1
  BY <1>1
<1> QED
  BY <1>1, <1>2, <1>3 DEF Values

\* Sets of workers are finite, smaller than the modulus, and grow and shrink
\* by one.
LEMMA Counting ==
  ASSUME NEW S \in SUBSET Workers
  PROVE  /\ Cardinality(S) \in Nat /\ Cardinality(S) < Modulus
         /\ \A w \in Workers \ S : Cardinality(S \cup {w}) = Cardinality(S) + 1
         /\ \A w \in S : Cardinality(S \ {w}) = Cardinality(S) - 1
<1>1. IsFiniteSet(S) /\ Cardinality(S) <= Cardinality(Workers)
  BY WorkersAssumption, FS_Subset
<1>2. Cardinality(S) \in Nat /\ Cardinality(Workers) \in Nat
  BY <1>1, WorkersAssumption, FS_CardinalityType
<1>3. \A w \in Workers \ S : Cardinality(S \cup {w}) = Cardinality(S) + 1
  BY <1>1, FS_AddElement
<1>4. \A w \in S : Cardinality(S \ {w}) = Cardinality(S) - 1
  BY <1>1, FS_RemoveElement
<1> QED
  BY <1>1, <1>2, <1>3, <1>4, ModulusAssumption
-----------------------------------------------------------------------------
\* The state before the loading.
LEMMA InitInv == Init => IInv
<1> SUFFICES ASSUME Init PROVE IInv
  OBVIOUS
<1> USE DEF Init
<1>1. doc \in Seq(Kinds) /\ Len(doc) <= MaxNodes
  <2>1. PICK k \in 0 .. MaxNodes : doc \in [1 .. k -> Kinds]
    BY DEF Documents
  <2> QED
    BY <2>1, BoundAssumption
<1>2. TypeOK
  BY <1>1, BoundAssumption, ModulusAssumption
     DEF TypeOK, Values, Steps, NULL, Results
<1>3. LoadInv
  BY <1>1 DEF LoadInv, Chain, IsNext, StepAt, Steps, NULL
<1>4. PlaceInv
  BY DEF PlaceInv, Running
<1>5. UsingCounts
  <2>1. Inside = {}
    BY DEF Inside
  <2> QED
    BY <1>2, <2>1, FS_EmptySet, ModulusAssumption DEF UsingCounts, TypeOK, Values
<1>6. CountInv
  <2>1. \A k \in Steps, r \in Results : Totalling(k) = {} /\ Pending(k, r) = {}
    BY DEF Totalling, Pending
  <2>2. \A k \in Steps : Totalling(k) = {} /\ total[k] = 0 /\ Ran(k) = 0
    BY DEF Totalling, Ran, Results
  <2>3. \A k \in Steps, r \in Results : count[k][r] = 0 /\ runs[k][r] = 0
    OBVIOUS
  <2>4. Cardinality({}) = 0
    BY FS_EmptySet
  <2>5. ASSUME NEW k \in Steps
        PROVE  total[k] + Cardinality(Totalling(k)) <= Ran(k)
    <3>1. Cardinality(Totalling(k)) = 0
      BY <2>2, <2>4, Zenon
    <3> QED
      BY <2>2, <3>1
  <2>6. ASSUME NEW k \in Steps, NEW r \in Results
        PROVE  count[k][r] + Cardinality(Pending(k, r)) <= runs[k][r]
    <3>1. Cardinality(Pending(k, r)) = 0
      BY <2>1, <2>4, Zenon
    <3> QED
      BY <2>3, <3>1
  <2> QED
    BY <2>1, <2>2, <2>5, <2>6 DEF CountInv
<1> QED
  BY <1>2, <1>3, <1>4, <1>5, <1>6 DEF IInv
-----------------------------------------------------------------------------
\* Where the workers are after a step.
LEMMA StepPlace == TypeOK /\ LoadInv /\ PlaceInv /\ [Next]_vars => PlaceInv'
<1> SUFFICES ASSUME TypeOK, LoadInv, PlaceInv, [Next]_vars PROVE PlaceInv'
  OBVIOUS
<1> USE DEF PlaceInv, Running, TypeOK
<1>1. CASE Load
  BY <1>1 DEF Load, LoadNode, NoAddress, Loaded, Refused, NoProtocol, UnchangedUse
<1>2. ASSUME NEW w \in Workers, EnterRead(w) PROVE PlaceInv'
  BY <1>2 DEF EnterRead, Go, load
<1>3. ASSUME NEW w \in Workers, EnterCas(w) PROVE PlaceInv'
  <2>1. phase = "loaded" /\ script # NULL
    BY <1>3 DEF EnterCas, LoadInv
  <2> QED
    BY <1>3, <2>1 DEF EnterCas, CAS, load
<1>4. ASSUME NEW w \in Workers, RunStep(w) PROVE PlaceInv'
  BY <1>4 DEF RunStep, Go, load
<1>5. ASSUME NEW w \in Workers, WriteTotal(w) PROVE PlaceInv'
  BY <1>5 DEF WriteTotal, Go, load
<1>6. ASSUME NEW w \in Workers, ReadOutcome(w) PROVE PlaceInv'
  BY <1>6 DEF ReadOutcome, Go, load
<1>7. ASSUME NEW w \in Workers, WriteOutcome(w) PROVE PlaceInv'
  BY <1>7 DEF WriteOutcome, load
<1>8. ASSUME NEW w \in Workers, ExitRead(w) PROVE PlaceInv'
  BY <1>8 DEF ExitRead, Go, load
<1>9. ASSUME NEW w \in Workers, ExitCas(w) PROVE PlaceInv'
  BY <1>9 DEF ExitCas, CAS, load
<1>10. ASSUME NEW w \in Workers, UsedRead(w) PROVE PlaceInv'
  BY <1>10 DEF UsedRead, Go, load
<1>11. ASSUME NEW w \in Workers, UsedCas(w) PROVE PlaceInv'
  BY <1>11 DEF UsedCas, CAS, load
<1>12. CASE UNCHANGED vars
  BY <1>12 DEF vars, load
<1> QED
  BY <1>1, <1>2, <1>3, <1>4, <1>5, <1>6, <1>7, <1>8, <1>9, <1>10, <1>11, <1>12
     DEF Next, Worker

\* The types after a step: a worker in a step has one.
LEMMA StepType == TypeOK /\ PlaceInv /\ [Next]_vars => TypeOK'
<1> SUFFICES ASSUME TypeOK, PlaceInv, [Next]_vars PROVE TypeOK'
  OBVIOUS
<1> USE DEF TypeOK
<1>1. CASE Load
  <2>1. Steps \subseteq Nat /\ Len(doc) \in Nat /\ MaxNodes \in Nat
    BY BoundAssumption DEF Steps
  <2>2. CASE LoadNode
    <3>1. Looked \in Steps
      BY <2>1, <2>2 DEF LoadNode, Looked, Steps
    <3>2. Looked + 1 \in 1 .. MaxNodes + 1
      BY <2>1, <3>1 DEF Steps
    <3>3. next' \in [Steps -> Steps \cup {NULL}] /\ script' \in Steps \cup {NULL}
      BY <2>2, <3>1 DEF LoadNode, Link
    <3> QED
      BY <2>2, <3>1, <3>2, <3>3 DEF LoadNode, AddressOf, Link, UnchangedUse
  <2> QED
    BY <1>1, <2>2 DEF Load, NoAddress, Loaded, Refused, NoProtocol, UnchangedUse
<1>2. ASSUME NEW w \in Workers, EnterRead(w) PROVE TypeOK'
  BY <1>2 DEF EnterRead, Go, load
<1>3. ASSUME NEW w \in Workers, EnterCas(w) PROVE TypeOK'
  BY <1>3, Wraps DEF EnterCas, CAS, load
<1>4. ASSUME NEW w \in Workers, RunStep(w) PROVE TypeOK'
  <2>1. cur[w] \in Steps
    BY <1>4 DEF RunStep, Go, PlaceInv, Running
  <2>2. PICK r \in Results : /\ ret' = [ret EXCEPT ![w] = r]
                             /\ runs' = [runs EXCEPT ![cur[w]][r] = @ + 1]
    BY <1>4 DEF RunStep
  <2>3. runs' \in [Steps -> [Results -> Nat]]
    BY <2>1, <2>2
  <2>4. total[cur[w]] \in Nat
    BY <2>1
  <2> QED
    BY <1>4, <2>2, <2>3, <2>4 DEF RunStep, Go, load
<1>5. ASSUME NEW w \in Workers, WriteTotal(w) PROVE TypeOK'
  <2>1. cur[w] \in Steps
    BY <1>5 DEF WriteTotal, Go, PlaceInv, Running
  <2>2. total' \in [Steps -> Nat]
    BY <1>5, <2>1 DEF WriteTotal
  <2> QED
    BY <1>5, <2>2 DEF WriteTotal, Go, load
<1>6. ASSUME NEW w \in Workers, ReadOutcome(w) PROVE TypeOK'
  <2>1. cur[w] \in Steps
    BY <1>6 DEF ReadOutcome, Go, PlaceInv, Running
  <2>2. count[cur[w]][ret[w]] \in Nat
    BY <2>1
  <2> QED
    BY <1>6, <2>2 DEF ReadOutcome, Go, load
<1>7. ASSUME NEW w \in Workers, WriteOutcome(w) PROVE TypeOK'
  <2>1. cur[w] \in Steps
    BY <1>7 DEF WriteOutcome, PlaceInv, Running
  <2>2. count' \in [Steps -> [Results -> Nat]]
    <3>1. count' = [count EXCEPT ![cur[w]][ret[w]] = reg[w] + 1]
      BY <1>7 DEF WriteOutcome
    <3>2. reg[w] + 1 \in Nat /\ ret[w] \in Results
      OBVIOUS
    <3> QED
      BY <2>1, <3>1, <3>2
  <2>3. cur' \in [Workers -> Steps \cup {NULL}]
    BY <1>7, <2>1 DEF WriteOutcome
  <2> QED
    BY <1>7, <2>2, <2>3 DEF WriteOutcome, load
<1>8. ASSUME NEW w \in Workers, ExitRead(w) PROVE TypeOK'
  BY <1>8 DEF ExitRead, Go, load
<1>9. ASSUME NEW w \in Workers, ExitCas(w) PROVE TypeOK'
  BY <1>9, Wraps DEF ExitCas, CAS, load
<1>10. ASSUME NEW w \in Workers, UsedRead(w) PROVE TypeOK'
  BY <1>10 DEF UsedRead, Go, load
<1>11. ASSUME NEW w \in Workers, UsedCas(w) PROVE TypeOK'
  <2>1. n[w] + 1 \in 0 .. MaxTrans
    <3>1. n[w] < MaxTrans /\ n[w] \in 0 .. MaxTrans
      BY <1>11 DEF UsedCas, PlaceInv
    <3> QED
      BY <3>1, BoundAssumption
  <2> QED
    BY <1>11, <2>1, Wraps DEF UsedCas, CAS, load
<1>12. CASE UNCHANGED vars
  BY <1>12 DEF vars, load
<1> QED
  BY <1>1, <1>2, <1>3, <1>4, <1>5, <1>6, <1>7, <1>8, <1>9, <1>10, <1>11, <1>12
     DEF Next, Worker

\* A step's m_next is still right when there are no more steps than before.
LEMMA Further ==
  ASSUME NEW k \in Nat, NEW j \in Steps \cup {NULL}, NEW a \in Int, NEW b \in Int,
         a <= b, IsNext(k, j, a), \A i \in Steps : StepAt(i) /\ i <= b => i <= a \/ (j # NULL /\ j <= i)
  PROVE  IsNext(k, j, b)
<1>1. Steps \subseteq Nat
  BY DEF Steps
<1>2. CASE j = NULL
  BY <1>1, <1>2 DEF IsNext
<1>3. CASE j # NULL
  <2>1. StepAt(j) /\ k < j /\ j <= b
    BY <1>1, <1>3 DEF IsNext
  <2>2. \A i \in Steps : StepAt(i) /\ i <= b /\ k < i => j <= i
    BY <1>1, <1>3 DEF IsNext
  <2> QED
    BY <1>3, <2>1, <2>2 DEF IsNext
<1> QED
  BY <1>2, <1>3

\* The list of steps after a step: each iteration appends at most one.
LEMMA StepLoad == TypeOK /\ LoadInv /\ [Next]_vars => LoadInv'
<1> SUFFICES ASSUME TypeOK, LoadInv, [Next]_vars PROVE LoadInv'
  OBVIOUS
<1>0. /\ Steps \subseteq Nat \ {0} /\ Len(doc) \in Nat /\ pNode \in Nat \ {0}
      /\ NULL \notin Steps /\ NULL = 0
  BY BoundAssumption DEF TypeOK, Steps, NULL
<1>1. CASE LoadNode
  <2> DEFINE k == Looked
  <2>1. /\ phase = "loading" /\ phase' = phase /\ doc' = doc /\ k <= Len(doc)
        /\ StepAt(k) /\ pNode <= k /\ pNode' = k + 1 /\ k \in Steps
    <3>1. k \in {pNode, pNode + 1} /\ k <= Len(doc) /\ doc[k] \in StepKinds
      BY <1>1 DEF LoadNode, Looked
    <3>2. k \in 1 .. Len(doc) /\ Len(doc) <= MaxNodes
      BY <1>0, <3>1 DEF TypeOK
    <3>3. StepAt(k) /\ k \in Steps
      BY <1>0, <3>1, <3>2, BoundAssumption DEF StepAt, Steps
    <3> QED
      BY <1>0, <1>1, <3>1, <3>2, <3>3 DEF LoadNode
  <2>2. \A i \in Steps : StepAt(i) /\ i <= k => i <= pNode - 1 \/ i = k
    BY <1>0, <1>1 DEF LoadNode, Looked, StepAt, StepKinds
  <2>3. /\ IsNext(0, script, pNode - 1)
        /\ \A m \in Steps : StepAt(m) /\ m <= pNode - 1 => IsNext(m, next[m], pNode - 1)
        /\ \A m \in Steps : pNode <= m => next[m] = NULL
    BY <2>1 DEF LoadInv, Chain
  <2>4. /\ script' = IF script = NULL THEN k ELSE script
        /\ next' = IF pLast = NULL THEN next ELSE [next EXCEPT ![pLast] = k]
        /\ pLast' = k
    BY <1>1 DEF LoadNode, Link
  <2>5. /\ next \in [Steps -> Steps \cup {NULL}] /\ script \in Steps \cup {NULL}
        /\ pLast \in Steps \cup {NULL}
    BY DEF TypeOK
  <2> HIDE DEF k
  <2>6. next'[k] = NULL
    <3>1. pLast # k
      BY <1>0, <2>1 DEF LoadInv
    <3> QED
      BY <2>1, <2>3, <2>4, <2>5, <3>1
  <2>7. IsNext(k, NULL, k)
    BY DEF IsNext
  <2>8. CASE script = NULL
    <3>1. pLast = NULL /\ next' = next /\ script' = k
      BY <2>1, <2>4, <2>8 DEF LoadInv
    <3>2. \A i \in Steps : StepAt(i) /\ i <= k => i = k
      BY <1>0, <2>2, <2>3, <2>8 DEF IsNext
    <3>3. IsNext(0, k, k)
      BY <1>0, <2>1, <3>2 DEF IsNext
    <3>4. \A m \in Steps : StepAt(m) /\ m <= k => IsNext(m, next'[m], k)
      BY <2>6, <2>7, <3>2
    <3> QED
      BY <1>0, <2>1, <2>3, <2>4, <2>6, <3>1, <3>3, <3>4
         DEF LoadInv, Chain, IsNext, StepAt, ChainInOrder
  <2>9. CASE script # NULL
    <3>1. /\ pLast \in Steps /\ StepAt(pLast) /\ pLast < pNode /\ next[pLast] = NULL
          /\ script' = script /\ next' = [next EXCEPT ![pLast] = k]
      BY <1>0, <2>1, <2>4, <2>9 DEF LoadInv
    <3>2. IsNext(0, script, k)
      BY <1>0, <2>1, <2>2, <2>3, <2>5, <2>9 DEF IsNext
    <3>3. \A i \in Steps : StepAt(i) /\ i <= pNode - 1 => i <= pLast
      BY <1>0, <2>3, <3>1 DEF IsNext
    <3>4. ASSUME NEW m \in Steps, StepAt(m), m <= k PROVE IsNext(m, next'[m], k)
      <4>1. CASE m = k
        BY <2>6, <2>7, <4>1
      <4>2. CASE m = pLast
        <5>1. next'[m] = k
          BY <2>5, <3>1, <4>2
        <5>2. IsNext(pLast, k, k)
          BY <1>0, <2>1, <2>2, <3>1, <3>3 DEF IsNext
        <5> QED
          BY <4>2, <5>1, <5>2
      <4>3. CASE m # k /\ m # pLast
        <5>1. m <= pNode - 1 /\ next'[m] = next[m] /\ IsNext(m, next[m], pNode - 1)
          BY <2>2, <2>3, <2>5, <3>1, <3>4, <4>3
        <5>2. m < pLast
          BY <1>0, <3>1, <3>3, <3>4, <4>3, <5>1
        <5>3. next[m] # NULL
          BY <1>0, <3>1, <5>1, <5>2 DEF IsNext
        <5>4. next[m] \in Steps /\ next[m] <= pNode - 1 /\ next[m] <= k
          <6>1. next[m] \in Steps
            BY <2>5, <5>3
          <6>2. next[m] <= pNode - 1
            BY <5>1, <5>3 DEF IsNext
          <6>3. k \in Nat /\ pNode \in Nat /\ pNode <= k /\ next[m] \in Nat
            BY <1>0, <2>1, <6>1
          <6> QED
            BY <6>1, <6>2, <6>3
        <5>5. \A i \in Steps : StepAt(i) /\ i <= k =>
                i <= pNode - 1 \/ (next[m] # NULL /\ next[m] <= i)
          BY <2>2, <5>3, <5>4
        <5>6. m \in Nat /\ pNode - 1 \in Int /\ k \in Int /\ pNode - 1 <= k
          BY <1>0, <2>1
        <5>7. IsNext(m, next[m], k)
          BY <5>1, <5>4, <5>5, <5>6, Further
        <5> QED
          BY <5>1, <5>7
      <4> QED
        BY <4>1, <4>2, <4>3
    <3>5. \A m \in Steps : k + 1 <= m => next'[m] = NULL
      BY <1>0, <2>1, <2>3, <2>5, <3>1
    <3> QED
      BY <1>0, <2>1, <2>4, <2>6, <2>9, <3>1, <3>2, <3>4, <3>5
         DEF LoadInv, Chain, IsNext, StepAt, ChainInOrder
  <2> QED
    BY <2>8, <2>9
<1>2. CASE Loaded
  <2>1. CASE pLast = NULL
    BY <1>2, <2>1 DEF Loaded, LoadInv, ChainInOrder
  <2>2. CASE pLast # NULL
    <3>1. phase = "loading" /\ script # NULL /\ Chain(pNode - 1) /\ pNode <= Len(doc) + 1
      BY <1>2, <2>2 DEF Loaded, LoadInv
    <3>2. \A i \in Steps : StepAt(i) /\ i <= Len(doc) => i <= pNode - 1
      BY <1>0, <1>2 DEF Loaded, Looked, StepAt, StepKinds
    <3>3. next \in [Steps -> Steps \cup {NULL}] /\ script \in Steps \cup {NULL}
      BY DEF TypeOK
    <3>4. pNode - 1 \in Int /\ pNode - 1 <= Len(doc)
      BY <1>0, <3>1
    <3>5. IsNext(0, script, Len(doc))
      BY <1>0, <3>1, <3>2, <3>3, <3>4, Further DEF Chain
    <3>6. ASSUME NEW k \in Steps, StepAt(k), k <= Len(doc)
          PROVE  IsNext(k, next[k], Len(doc))
      <4>1. IsNext(k, next[k], pNode - 1) /\ next[k] \in Steps \cup {NULL} /\ k \in Nat
        BY <1>0, <3>1, <3>2, <3>3, <3>6 DEF Chain
      <4>2. \A i \in Steps : StepAt(i) /\ i <= Len(doc) =>
              i <= pNode - 1 \/ (next[k] # NULL /\ next[k] <= i)
        BY <3>2
      <4>3. Len(doc) \in Int
        BY <1>0
      <4> QED
        BY <3>4, <4>1, <4>2, <4>3, Further
    <3>7. Chain(Len(doc))
      BY <3>5, <3>6 DEF Chain
    <3> QED
      BY <1>2, <3>1, <3>7 DEF Loaded, LoadInv, ChainInOrder, Chain, IsNext, StepAt
  <2> QED
    BY <2>1, <2>2
<1>3. CASE Refused \/ NoProtocol \/ NoAddress
  BY <1>3 DEF Refused, NoProtocol, NoAddress, LoadInv, ChainInOrder
<1>4. CASE UNCHANGED load
  BY <1>4 DEF load, LoadInv, ChainInOrder, Chain, IsNext, StepAt
<1>5. ASSUME NEW w \in Workers, Worker(w) PROVE UNCHANGED load
  BY <1>5 DEF Worker, EnterRead, EnterCas, RunStep, WriteTotal, ReadOutcome,
              WriteOutcome, ExitRead, ExitCas, UsedRead, UsedCas
<1> QED
  BY <1>1, <1>2, <1>3, <1>4, <1>5 DEF Next, Load, vars

\* The usage counter after a step: enter() and exit() move it when they move a
\* worker in or out.
LEMMA StepUsing == TypeOK /\ UsingCounts /\ [Next]_vars => UsingCounts'
<1> SUFFICES ASSUME TypeOK, UsingCounts, [Next]_vars PROVE UsingCounts'
  OBVIOUS
<1>0. /\ Inside \subseteq Workers /\ Cardinality(Inside) \in Nat
      /\ Cardinality(Inside) < Modulus /\ Modulus \in Nat
      /\ using \in Values /\ start.using \in Values /\ Values \subseteq Nat
  <2>1. Inside \subseteq Workers
    BY DEF Inside
  <2>2. Cardinality(Inside) \in Nat /\ Cardinality(Inside) < Modulus
    BY <2>1, Counting
  <2>3. start.using \in Values
    BY ModulusAssumption DEF TypeOK, Values
  <2> QED
    BY <2>1, <2>2, <2>3, ModulusAssumption DEF TypeOK, Values
<1> HIDE DEF Inside
<1>1. ASSUME UNCHANGED <<using, start>>, Inside' = Inside PROVE UsingCounts'
  BY <1>1 DEF UsingCounts, Values
<1>2. ASSUME NEW w \in Workers, EnterCas(w) PROVE UsingCounts'
  <2>1. pc[w] = "enter" /\ start' = start /\ w \notin Inside
    BY <1>2 DEF EnterCas, Inside
  <2>2. CASE using = old[w]
    <3>1. using' = (using + 1) % Modulus /\ pc' = [pc EXCEPT ![w] = "run"]
      BY <1>2, <2>2 DEF EnterCas, CAS
    <3>2. Inside' = Inside \cup {w}
      BY <3>1 DEF Inside, TypeOK
    <3>3. Cardinality(Inside') = Cardinality(Inside) + 1
      BY <1>0, <2>1, <3>2, Counting
    <3>4. using' = (IF using + 1 = Modulus THEN 0 ELSE using + 1) /\ using' \in Values
      BY <1>0, <3>1, Wraps
    <3> QED
      BY <1>0, <2>1, <3>3, <3>4 DEF UsingCounts, Values
  <2>3. CASE using # old[w]
    <3>1. using' = using /\ pc' = [pc EXCEPT ![w] = "reenter"]
      BY <1>2, <2>3 DEF EnterCas, CAS
    <3>2. Inside' = Inside
      BY <2>1, <3>1 DEF Inside, TypeOK
    <3> QED
      BY <1>1, <2>1, <3>1, <3>2
  <2> QED
    BY <2>2, <2>3
<1>3. ASSUME NEW w \in Workers, ExitCas(w) PROVE UsingCounts'
  <2>1. pc[w] = "exit" /\ start' = start /\ w \in Inside
    BY <1>3 DEF ExitCas, Inside
  <2>2. CASE using = old[w]
    <3>1. using' = (using - 1) % Modulus /\ pc' = [pc EXCEPT ![w] = "left"]
      BY <1>3, <2>2 DEF ExitCas, CAS
    <3>2. Inside' = Inside \ {w}
      BY <3>1 DEF Inside, TypeOK
    <3>3. Cardinality(Inside') = Cardinality(Inside) - 1
      BY <1>0, <2>1, <3>2, Counting
    <3>4. Cardinality(Inside') \in Nat
      BY <1>0, <3>2, Counting
    <3>5. using' = (IF using = 0 THEN Modulus - 1 ELSE using - 1) /\ using' \in Values
      BY <1>0, <3>1, Wraps
    <3> QED
      BY <1>0, <2>1, <3>3, <3>4, <3>5 DEF UsingCounts, Values
  <2>3. CASE using # old[w]
    <3>1. using' = using /\ pc' = [pc EXCEPT ![w] = "leave"]
      BY <1>3, <2>3 DEF ExitCas, CAS
    <3>2. Inside' = Inside
      BY <2>1, <3>1 DEF Inside, TypeOK
    <3> QED
      BY <1>1, <2>1, <3>1, <3>2
  <2> QED
    BY <2>2, <2>3
<1>4. CASE Load \/ UNCHANGED vars
  <2>1. UNCHANGED <<using, start>> /\ UNCHANGED pc
    BY <1>4 DEF Load, LoadNode, NoAddress, Loaded, Refused, NoProtocol, UnchangedUse, vars
  <2> QED
    BY <1>1, <2>1 DEF Inside
<1>5. ASSUME NEW w \in Workers, EnterRead(w) \/ UsedRead(w) \/ UsedCas(w)
      PROVE  UsingCounts'
  <2>1. UNCHANGED <<using, start>>
    BY <1>5 DEF EnterRead, UsedRead, UsedCas
  <2>2. \E to \in {"enter", "use", "left", "new"} : pc' = [pc EXCEPT ![w] = to]
    BY <1>5 DEF EnterRead, UsedRead, UsedCas, Go, CAS
  <2>3. pc[w] \in {"new", "reenter", "left", "use"}
    BY <1>5 DEF EnterRead, UsedRead, UsedCas, Go
  <2>4. Inside' = Inside
    BY <2>2, <2>3 DEF Inside, TypeOK
  <2> QED
    BY <1>1, <2>1, <2>4
<1>6. ASSUME NEW w \in Workers,
             RunStep(w) \/ WriteTotal(w) \/ ReadOutcome(w) \/ WriteOutcome(w) \/ ExitRead(w)
      PROVE  UsingCounts'
  <2>1. UNCHANGED <<using, start>>
    BY <1>6 DEF RunStep, WriteTotal, ReadOutcome, WriteOutcome, ExitRead
  <2>2. \E to \in {"run", "total", "outcome", "result", "leave", "exit"} :
          pc' = [pc EXCEPT ![w] = to]
    BY <1>6 DEF RunStep, WriteTotal, ReadOutcome, WriteOutcome, ExitRead, Go
  <2>3. pc[w] \in {"run", "total", "outcome", "result", "leave"}
    BY <1>6 DEF RunStep, WriteTotal, ReadOutcome, WriteOutcome, ExitRead, Go
  <2>4. Inside' = Inside
    BY <2>2, <2>3 DEF Inside, TypeOK
  <2> QED
    BY <1>1, <2>1, <2>4
<1> QED
  BY <1>2, <1>3, <1>4, <1>5, <1>6 DEF Next, Worker

\* A worker that is in no set of updates before and after its step, which
\* counts nothing, leaves CountInv as it is.
LEMMA CountsKept ==
  ASSUME TypeOK, CountInv, NEW w \in Workers, UNCHANGED <<ret, reg, total, count, runs>>,
         pc[w] \notin {"total", "outcome", "result"},
         pc'[w] \notin {"total", "outcome", "result"},
         \A v \in Workers \ {w} : pc'[v] = pc[v] /\ cur'[v] = cur[v]
  PROVE  CountInv'
<1>1. \A k \in Steps : Totalling(k)' = Totalling(k)
  BY DEF Totalling
<1>2. \A k \in Steps, r \in Results : Pending(k, r)' = Pending(k, r)
  BY DEF Pending
<1>3. \A k \in Steps, r \in Results : \A v \in Pending(k, r) : pc'[v] = pc[v]
  BY DEF Pending
<1>4. \A k \in Steps : Ran(k)' = Ran(k)
  BY DEF Ran
<1> QED
  BY <1>1, <1>2, <1>3, <1>4 DEF CountInv

\* The statistics after a step.
LEMMA StepCount == TypeOK /\ PlaceInv /\ CountInv /\ [Next]_vars => CountInv'
<1> SUFFICES ASSUME TypeOK, PlaceInv, CountInv, [Next]_vars PROVE CountInv'
  OBVIOUS
<1>0. \A k \in Steps : /\ total[k] \in Nat /\ Ran(k) \in Nat
                       /\ Totalling(k) \in SUBSET Workers
                       /\ \A r \in Results : /\ count[k][r] \in Nat /\ runs[k][r] \in Nat
                                             /\ Pending(k, r) \in SUBSET Workers
  <2>1. \A k \in Steps, r \in Results : count[k][r] \in Nat /\ runs[k][r] \in Nat
    BY DEF TypeOK
  <2>2. \A k \in Steps : Ran(k) \in Nat
    BY <2>1 DEF Ran, Results
  <2> QED
    BY <2>1, <2>2 DEF TypeOK, Totalling, Pending
<1>1. CASE Load \/ UNCHANGED vars
  <2>1. UNCHANGED <<pc, cur, ret, reg, total, count, runs>>
    BY <1>1 DEF Load, LoadNode, NoAddress, Loaded, Refused, NoProtocol, UnchangedUse, vars
  <2> QED
    BY <2>1 DEF CountInv, Totalling, Pending, Ran
<1>2. ASSUME NEW w \in Workers,
             \/ EnterRead(w) \/ EnterCas(w) \/ ExitRead(w) \/ ExitCas(w)
             \/ UsedRead(w) \/ UsedCas(w)
      PROVE  CountInv'
  <2>1. UNCHANGED <<ret, reg, total, count, runs>>
    BY <1>2 DEF EnterRead, EnterCas, ExitRead, ExitCas, UsedRead, UsedCas
  <2>2. pc[w] \in {"new", "reenter", "enter", "leave", "exit", "left", "use"}
    BY <1>2 DEF EnterRead, EnterCas, ExitRead, ExitCas, UsedRead, UsedCas, Go
  <2>3. \E to \in {"enter", "reenter", "run", "exit", "leave", "left", "use", "new"} :
          pc' = [pc EXCEPT ![w] = to]
    BY <1>2 DEF EnterRead, EnterCas, ExitRead, ExitCas, UsedRead, UsedCas, Go, CAS
  <2>4. cur' = cur \/ cur' = [cur EXCEPT ![w] = script]
    BY <1>2 DEF EnterRead, EnterCas, ExitRead, ExitCas, UsedRead, UsedCas
  <2>5. pc'[w] \notin {"total", "outcome", "result"}
    BY <2>3 DEF TypeOK
  <2>6. \A v \in Workers \ {w} : pc'[v] = pc[v] /\ cur'[v] = cur[v]
    BY <2>3, <2>4 DEF TypeOK
  <2>7. pc[w] \notin {"total", "outcome", "result"}
    BY <2>2
  <2> QED
    BY <2>1, <2>5, <2>6, <2>7, CountsKept, Zenon
<1>3. ASSUME NEW w \in Workers, RunStep(w) PROVE CountInv'
  <2> DEFINE c == cur[w]
  <2>1. /\ pc[w] = "run" /\ pc' = [pc EXCEPT ![w] = "total"] /\ c \in Steps
        /\ reg' = [reg EXCEPT ![w] = total[c]]
        /\ UNCHANGED <<cur, total, count>>
    BY <1>3 DEF RunStep, Go, PlaceInv, Running, TypeOK
  <2>2. PICK q \in Results : /\ ret' = [ret EXCEPT ![w] = q]
                             /\ runs' = [runs EXCEPT ![c][q] = @ + 1]
    BY <1>3 DEF RunStep
  <2>3. \A k \in Steps : Totalling(k)' = IF k = c THEN Totalling(k) \cup {w} ELSE Totalling(k)
    BY <2>1 DEF Totalling, TypeOK
  <2>4. \A k \in Steps, r \in Results :
          Pending(k, r)' = IF k = c /\ r = q THEN Pending(k, r) \cup {w} ELSE Pending(k, r)
    BY <2>1, <2>2 DEF Pending, TypeOK
  <2>5. \A k \in Steps, r \in Results :
          runs'[k][r] = IF k = c /\ r = q THEN runs[k][r] + 1 ELSE runs[k][r]
    BY <2>1, <2>2 DEF TypeOK
  <2>6. \A k \in Steps : Ran(k)' = IF k = c THEN Ran(k) + 1 ELSE Ran(k)
    <3> SUFFICES ASSUME NEW k \in Steps
                 PROVE  Ran(k)' = IF k = c THEN Ran(k) + 1 ELSE Ran(k)
      OBVIOUS
    <3> DEFINE s == "succ"
               e == "errend"
    <3>1. s \in Results /\ e \in Results /\ s # e /\ q \in {s, e}
      BY DEF Results
    <3>2. Ran(k) = runs[k][s] + runs[k][e] /\ Ran(k)' = runs'[k][s] + runs'[k][e]
      BY DEF Ran
    <3> HIDE DEF s, e
    <3>3. runs[k][s] \in Nat /\ runs[k][e] \in Nat
      BY <1>0, <3>1
    <3> QED
      BY <2>5, <3>1, <3>2, <3>3
  <2>7. /\ w \notin Totalling(c) /\ w \notin Pending(c, q)
        /\ Cardinality(Totalling(c) \cup {w}) = Cardinality(Totalling(c)) + 1
        /\ Cardinality(Pending(c, q) \cup {w}) = Cardinality(Pending(c, q)) + 1
    <3>1. w \notin Totalling(c) /\ w \notin Pending(c, q)
      BY <2>1 DEF Totalling, Pending
    <3> QED
      BY <1>0, <2>1, <2>2, <3>1, Counting
  <2> HIDE DEF c
  <2>8. ASSUME NEW k \in Steps
        PROVE  /\ total'[k] + Cardinality(Totalling(k)') <= Ran(k)'
               /\ \A v \in Totalling(k)' : reg'[v] + Cardinality(Totalling(k)') <= Ran(k)'
    <3>1. /\ total[k] + Cardinality(Totalling(k)) <= Ran(k)
          /\ \A v \in Totalling(k) : reg[v] + Cardinality(Totalling(k)) <= Ran(k)
      BY DEF CountInv
    <3>2. Cardinality(Totalling(k)) \in Nat /\ total[k] \in Nat /\ Ran(k) \in Nat
      BY <1>0, Counting
    <3>3. \A v \in Totalling(k) : reg[v] \in Nat /\ (v # w => reg'[v] = reg[v])
      BY <2>1 DEF Totalling, TypeOK
    <3>4. reg'[w] = total[c]
      BY <2>1 DEF TypeOK
    <3>5. CASE k = c
      <4>1. /\ Totalling(k)' = Totalling(k) \cup {w} /\ Ran(k)' = Ran(k) + 1
            /\ Cardinality(Totalling(k)') = Cardinality(Totalling(k)) + 1
        BY <2>3, <2>6, <2>7, <3>5
      <4>2. total'[k] = total[k] /\ reg'[w] = total[k]
        BY <2>1, <3>4, <3>5
      <4>3. total'[k] + Cardinality(Totalling(k)') <= Ran(k)'
        BY <3>1, <3>2, <4>1, <4>2
      <4>4. ASSUME NEW v \in Totalling(k)'
            PROVE  reg'[v] + Cardinality(Totalling(k)') <= Ran(k)'
        <5>1. CASE v = w
          BY <3>1, <3>2, <4>1, <4>2, <5>1
        <5>2. CASE v # w
          <6>1. v \in Totalling(k) /\ reg'[v] = reg[v] /\ reg[v] \in Nat
            BY <3>3, <4>1, <5>2
          <6> QED
            BY <3>1, <3>2, <4>1, <6>1
        <5> QED
          BY <5>1, <5>2
      <4> QED
        BY <4>3, <4>4
    <3>6. CASE k # c
      <4>1. w \notin Totalling(k)
        BY <2>1 DEF Totalling
      <4> QED
        BY <2>1, <2>3, <2>6, <3>1, <3>2, <3>3, <3>6, <4>1
    <3> QED
      BY <3>5, <3>6
  <2>9. ASSUME NEW k \in Steps, NEW r \in Results
        PROVE  /\ count'[k][r] + Cardinality(Pending(k, r)') <= runs'[k][r]
               /\ \A v \in Pending(k, r)' : pc'[v] = "result" =>
                    reg'[v] + Cardinality(Pending(k, r)') <= runs'[k][r]
    <3>1. /\ count[k][r] + Cardinality(Pending(k, r)) <= runs[k][r]
          /\ \A v \in Pending(k, r) : pc[v] = "result" =>
               reg[v] + Cardinality(Pending(k, r)) <= runs[k][r]
      BY DEF CountInv
    <3>2. Cardinality(Pending(k, r)) \in Nat /\ count[k][r] \in Nat /\ runs[k][r] \in Nat
      BY <1>0, Counting
    <3>3. \A v \in Pending(k, r) : reg[v] \in Nat /\ v # w /\ reg'[v] = reg[v] /\ pc'[v] = pc[v]
      BY <2>1 DEF Pending, TypeOK
    <3>4. pc'[w] # "result"
      BY <2>1 DEF TypeOK
    <3>5. CASE k = c /\ r = q
      <4>1. /\ Pending(k, r)' = Pending(k, r) \cup {w} /\ runs'[k][r] = runs[k][r] + 1
            /\ Cardinality(Pending(k, r)') = Cardinality(Pending(k, r)) + 1
        BY <2>4, <2>5, <2>7, <3>5
      <4>2. count'[k][r] + Cardinality(Pending(k, r)') <= runs'[k][r]
        BY <2>1, <3>1, <3>2, <4>1
      <4>3. ASSUME NEW v \in Pending(k, r)', pc'[v] = "result"
            PROVE  reg'[v] + Cardinality(Pending(k, r)') <= runs'[k][r]
        <5>1. v \in Pending(k, r)
          BY <3>4, <4>1, <4>3
        <5> QED
          BY <3>1, <3>2, <3>3, <4>1, <4>3, <5>1
      <4> QED
        BY <4>2, <4>3
    <3>6. CASE ~(k = c /\ r = q)
      BY <2>1, <2>4, <2>5, <3>1, <3>2, <3>3, <3>6
    <3> QED
      BY <3>5, <3>6
  <2> QED
    BY <2>8, <2>9, Zenon DEF CountInv
<1>4. ASSUME NEW w \in Workers, WriteTotal(w) PROVE CountInv'
  <2> DEFINE c == cur[w]
  <2>1. /\ pc[w] = "total" /\ pc' = [pc EXCEPT ![w] = "outcome"] /\ c \in Steps
        /\ total' = [total EXCEPT ![c] = reg[w] + 1]
        /\ UNCHANGED <<cur, ret, reg, count, runs>>
    BY <1>4 DEF WriteTotal, Go, PlaceInv, Running, TypeOK
  <2>2. \A k \in Steps : Totalling(k)' = IF k = c THEN Totalling(k) \ {w} ELSE Totalling(k)
    BY <2>1 DEF Totalling, TypeOK
  <2>3. \A k \in Steps, r \in Results : Pending(k, r)' = Pending(k, r)
    BY <2>1 DEF Pending, TypeOK
  <2>4. \A k \in Steps : Ran(k)' = Ran(k)
    BY <2>1 DEF Ran
  <2>5. /\ w \in Totalling(c)
        /\ Cardinality(Totalling(c) \ {w}) = Cardinality(Totalling(c)) - 1
    <3>1. w \in Totalling(c)
      BY <2>1 DEF Totalling
    <3> QED
      BY <1>0, <2>1, <3>1, Counting
  <2> HIDE DEF c
  <2>6. ASSUME NEW k \in Steps
        PROVE  /\ total'[k] + Cardinality(Totalling(k)') <= Ran(k)'
               /\ \A v \in Totalling(k)' : reg'[v] + Cardinality(Totalling(k)') <= Ran(k)'
    <3>1. /\ total[k] + Cardinality(Totalling(k)) <= Ran(k)
          /\ \A v \in Totalling(k) : reg[v] + Cardinality(Totalling(k)) <= Ran(k)
      BY DEF CountInv
    <3>2. Cardinality(Totalling(k)) \in Nat /\ total[k] \in Nat /\ Ran(k) \in Nat
      BY <1>0, Counting
    <3>3. reg[w] \in Nat /\ \A v \in Totalling(k) : reg[v] \in Nat /\ reg'[v] = reg[v]
      BY <2>1 DEF Totalling, TypeOK
    <3>4. total'[k] = IF k = c THEN reg[w] + 1 ELSE total[k]
      BY <2>1 DEF TypeOK
    <3>5. CASE k = c
      <4>1. /\ Totalling(k)' = Totalling(k) \ {w} /\ Ran(k)' = Ran(k) /\ w \in Totalling(k)
            /\ Cardinality(Totalling(k)') = Cardinality(Totalling(k)) - 1
        BY <2>2, <2>4, <2>5, <3>5
      <4>2. total'[k] = reg[w] + 1
        BY <3>4, <3>5
      <4>3. total'[k] + Cardinality(Totalling(k)') <= Ran(k)'
        BY <3>1, <3>2, <3>3, <4>1, <4>2
      <4>4. ASSUME NEW v \in Totalling(k)'
            PROVE  reg'[v] + Cardinality(Totalling(k)') <= Ran(k)'
        BY <3>1, <3>2, <3>3, <4>1
      <4> QED
        BY <4>3, <4>4
    <3>6. CASE k # c
      BY <2>1, <2>2, <2>4, <3>1, <3>2, <3>3, <3>4, <3>6
    <3> QED
      BY <3>5, <3>6
  <2>7. ASSUME NEW k \in Steps, NEW r \in Results
        PROVE  /\ count'[k][r] + Cardinality(Pending(k, r)') <= runs'[k][r]
               /\ \A v \in Pending(k, r)' : pc'[v] = "result" =>
                    reg'[v] + Cardinality(Pending(k, r)') <= runs'[k][r]
    <3>1. /\ count[k][r] + Cardinality(Pending(k, r)) <= runs[k][r]
          /\ \A v \in Pending(k, r) : pc[v] = "result" =>
               reg[v] + Cardinality(Pending(k, r)) <= runs[k][r]
      BY DEF CountInv
    <3>2. \A v \in Pending(k, r) : pc'[v] = "result" => pc[v] = "result"
      BY <2>1 DEF Pending, TypeOK
    <3> QED
      BY <2>1, <2>3, <3>1, <3>2
  <2> QED
    BY <2>6, <2>7, Zenon DEF CountInv
<1>5. ASSUME NEW w \in Workers, ReadOutcome(w) PROVE CountInv'
  <2>1. /\ pc[w] = "outcome" /\ pc' = [pc EXCEPT ![w] = "result"]
        /\ cur[w] \in Steps /\ ret[w] \in Results
        /\ reg' = [reg EXCEPT ![w] = count[cur[w]][ret[w]]]
        /\ UNCHANGED <<cur, ret, total, count, runs>>
    BY <1>5 DEF ReadOutcome, Go, PlaceInv, Running, TypeOK
  <2>2. \A k \in Steps : Totalling(k)' = Totalling(k)
    BY <2>1 DEF Totalling, TypeOK
  <2>3. \A k \in Steps, r \in Results : Pending(k, r)' = Pending(k, r)
    BY <2>1 DEF Pending, TypeOK
  <2>4. \A k \in Steps : Ran(k)' = Ran(k)
    BY <2>1 DEF Ran
  <2>5. \A k \in Steps : \A v \in Totalling(k) : reg'[v] = reg[v]
    BY <2>1 DEF Totalling, TypeOK
  <2>6. ASSUME NEW k \in Steps
        PROVE  /\ total'[k] + Cardinality(Totalling(k)') <= Ran(k)'
               /\ \A v \in Totalling(k)' : reg'[v] + Cardinality(Totalling(k)') <= Ran(k)'
    <3>1. /\ total[k] + Cardinality(Totalling(k)) <= Ran(k)
          /\ \A v \in Totalling(k) : reg[v] + Cardinality(Totalling(k)) <= Ran(k)
      BY DEF CountInv
    <3> QED
      BY <2>1, <2>2, <2>4, <2>5, <3>1
  <2>7. ASSUME NEW k \in Steps, NEW r \in Results
        PROVE  /\ count'[k][r] + Cardinality(Pending(k, r)') <= runs'[k][r]
               /\ \A v \in Pending(k, r)' : pc'[v] = "result" =>
                    reg'[v] + Cardinality(Pending(k, r)') <= runs'[k][r]
    <3>1. /\ count[k][r] + Cardinality(Pending(k, r)) <= runs[k][r]
          /\ \A v \in Pending(k, r) : pc[v] = "result" =>
               reg[v] + Cardinality(Pending(k, r)) <= runs[k][r]
      BY DEF CountInv
    <3>2. \A v \in Pending(k, r) : v # w => reg'[v] = reg[v] /\ pc'[v] = pc[v]
      BY <2>1 DEF Pending, TypeOK
    <3>3. w \in Pending(k, r) => reg'[w] = count[k][r]
      BY <2>1 DEF Pending, TypeOK
    <3> QED
      BY <2>1, <2>3, <3>1, <3>2, <3>3
  <2> QED
    BY <2>6, <2>7, Zenon DEF CountInv
<1>6. ASSUME NEW w \in Workers, WriteOutcome(w) PROVE CountInv'
  <2> DEFINE c == cur[w]
             q == ret[w]
  <2>1. /\ pc[w] = "result" /\ c \in Steps /\ q \in Results
        /\ count' = [count EXCEPT ![c][q] = reg[w] + 1]
        /\ UNCHANGED <<ret, reg, total, runs>>
    BY <1>6 DEF WriteOutcome, PlaceInv, Running, TypeOK
  <2>2. /\ pc'[w] \in {"leave", "run"}
        /\ \A v \in Workers \ {w} : pc'[v] = pc[v] /\ cur'[v] = cur[v]
    BY <1>6 DEF WriteOutcome, TypeOK
  <2>3. \A k \in Steps : Totalling(k)' = Totalling(k)
    BY <2>1, <2>2 DEF Totalling
  <2>4. \A k \in Steps, r \in Results :
          Pending(k, r)' = IF k = c /\ r = q THEN Pending(k, r) \ {w} ELSE Pending(k, r)
    BY <2>1, <2>2 DEF Pending
  <2>5. \A k \in Steps : Ran(k)' = Ran(k)
    BY <2>1 DEF Ran
  <2>6. /\ w \in Pending(c, q)
        /\ Cardinality(Pending(c, q) \ {w}) = Cardinality(Pending(c, q)) - 1
    <3>1. w \in Pending(c, q)
      BY <2>1 DEF Pending
    <3> QED
      BY <1>0, <2>1, <3>1, Counting
  <2> HIDE DEF c, q
  <2>7. ASSUME NEW k \in Steps
        PROVE  /\ total'[k] + Cardinality(Totalling(k)') <= Ran(k)'
               /\ \A v \in Totalling(k)' : reg'[v] + Cardinality(Totalling(k)') <= Ran(k)'
    <3>1. /\ total[k] + Cardinality(Totalling(k)) <= Ran(k)
          /\ \A v \in Totalling(k) : reg[v] + Cardinality(Totalling(k)) <= Ran(k)
      BY DEF CountInv
    <3> QED
      BY <2>1, <2>3, <2>5, <3>1
  <2>8. ASSUME NEW k \in Steps, NEW r \in Results
        PROVE  /\ count'[k][r] + Cardinality(Pending(k, r)') <= runs'[k][r]
               /\ \A v \in Pending(k, r)' : pc'[v] = "result" =>
                    reg'[v] + Cardinality(Pending(k, r)') <= runs'[k][r]
    <3>1. /\ count[k][r] + Cardinality(Pending(k, r)) <= runs[k][r]
          /\ \A v \in Pending(k, r) : pc[v] = "result" =>
               reg[v] + Cardinality(Pending(k, r)) <= runs[k][r]
      BY DEF CountInv
    <3>2. Cardinality(Pending(k, r)) \in Nat /\ runs[k][r] \in Nat
      BY <1>0, Counting
    <3>3. /\ reg[w] \in Nat /\ reg' = reg
          /\ \A v \in Pending(k, r) : reg[v] \in Nat /\ (v # w => pc'[v] = pc[v])
      BY <2>1, <2>2 DEF Pending, TypeOK
    <3>4. count'[k][r] = IF k = c /\ r = q THEN reg[w] + 1 ELSE count[k][r]
      BY <2>1 DEF TypeOK
    <3>5. CASE k = c /\ r = q
      <4>1. /\ Pending(k, r)' = Pending(k, r) \ {w} /\ w \in Pending(k, r)
            /\ Cardinality(Pending(k, r)') = Cardinality(Pending(k, r)) - 1
            /\ runs'[k][r] = runs[k][r]
        BY <2>1, <2>4, <2>6, <3>5
      <4>2. count'[k][r] = reg[w] + 1
        BY <3>4, <3>5
      <4>3. count'[k][r] + Cardinality(Pending(k, r)') <= runs'[k][r]
        BY <2>1, <3>1, <3>2, <3>3, <4>1, <4>2
      <4>4. ASSUME NEW v \in Pending(k, r)', pc'[v] = "result"
            PROVE  reg'[v] + Cardinality(Pending(k, r)') <= runs'[k][r]
        <5>1. v \in Pending(k, r) /\ pc[v] = "result" /\ reg[v] \in Nat /\ reg'[v] = reg[v]
          BY <3>3, <4>1, <4>4
        <5> QED
          BY <3>1, <3>2, <4>1, <5>1
      <4> QED
        BY <4>3, <4>4
    <3>6. CASE ~(k = c /\ r = q)
      BY <2>1, <2>2, <2>4, <3>1, <3>3, <3>4, <3>6
    <3> QED
      BY <3>5, <3>6
  <2> QED
    BY <2>7, <2>8, Zenon DEF CountInv
<1> QED
  BY <1>1, <1>2, <1>3, <1>4, <1>5, <1>6 DEF Next, Worker
-----------------------------------------------------------------------------
\* The loading, the usage counter and the statistics fit together in every
\* state, whatever the document and however the workers interleave
\* (script.C:54-128, 214-231; step.C:108-170).
THEOREM InductiveInvariant == Spec => []IInv
<1>1. IInv /\ [Next]_vars => IInv'
  BY StepPlace, StepType, StepLoad, StepUsing, StepCount DEF IInv
<1> QED
  BY <1>1, InitInv, PTL DEF Spec

\* Every variable keeps its type.
THEOREM TypeCorrect == Spec => []TypeOK
<1>1. IInv => TypeOK
  BY DEF IInv
<1> QED
  BY <1>1, InductiveInvariant, PTL

\* A script that has loaded has the steps of its document, in its order
\* (script.C:79-108).
THEOREM LoadedInOrder == Spec => []ChainInOrder
<1>1. IInv => ChainInOrder
  BY DEF IInv, LoadInv, ChainInOrder
<1> QED
  BY <1>1, InductiveInvariant, PTL

\* enter() and exit() keep m_nUsing the number of transactions that use the
\* script, up to its value at first and the width of the counter
\* (script.C:214-226).
THEOREM UsersCounted == Spec => []UsingCounts
<1>1. IInv => UsingCounts
  BY DEF IInv
<1> QED
  BY <1>1, InductiveInvariant, PTL

\* The statistics of a step never count what did not happen (step.C:148-170).
THEOREM StatisticsAreLowerBounds == Spec => []NeverOvercounts
<1>1. ASSUME IInv PROVE NeverOvercounts
  <2>1. ASSUME NEW k \in Steps PROVE total[k] <= Ran(k)
    <3>1. total[k] + Cardinality(Totalling(k)) <= Ran(k)
      BY <1>1 DEF IInv, CountInv
    <3>2. Totalling(k) \in SUBSET Workers /\ total[k] \in Nat
      BY <1>1 DEF IInv, TypeOK, Totalling
    <3>3. "succ" \in Results /\ "errend" \in Results /\ runs[k] \in [Results -> Nat]
      BY <1>1 DEF IInv, TypeOK, Results
    <3>4. Ran(k) \in Nat
      BY <3>3 DEF Ran
    <3> QED
      BY <3>1, <3>2, <3>4, Counting
  <2>2. ASSUME NEW k \in Steps, NEW r \in Results PROVE count[k][r] <= runs[k][r]
    <3>1. count[k][r] + Cardinality(Pending(k, r)) <= runs[k][r]
      BY <1>1 DEF IInv, CountInv
    <3>2. Pending(k, r) \in SUBSET Workers /\ count[k][r] \in Nat /\ runs[k][r] \in Nat
      BY <1>1 DEF IInv, TypeOK, Pending
    <3> QED
      BY <3>1, <3>2, Counting
  <2> QED
    BY <2>1, <2>2 DEF NeverOvercounts
<1> QED
  BY <1>1, InductiveInvariant, PTL

\* Of the nodes the loader has passed there is none that does not load; there is an
\* address once a step without one was passed, any when that is the first step.
Passed ==
  phase = "loading" =>
    /\ \A i \in DOMAIN doc : i < pNode =>
         doc[i] \in StepKinds \cup {"text"} /\ (doc[i] = "vague" => address # "none")
    /\ script = NULL => address = "none"
    /\ script # NULL => script \in DOMAIN doc /\ (doc[script] = "vague" => address = "any")

\* What the nodes before the one an iteration looks at are (script.C:79-87): those that
\* it has passed, and one text.
LEMMA BeforeLooked ==
  ASSUME TypeOK, Passed, phase = "loading", NEW i \in DOMAIN doc, i < Looked \/ Looked > Len(doc),
         pNode <= Len(doc) => pNode \in DOMAIN doc
  PROVE  /\ doc[i] \in StepKinds \cup {"text"} /\ (doc[i] \in StepKinds => i < pNode)
         /\ doc[i] = "vague" => address # "none"
<1>1. i \in Nat /\ i <= Len(doc) /\ pNode \in Nat /\ Len(doc) \in Nat
  BY BoundAssumption DEF TypeOK
<1>2. CASE i < pNode
  BY <1>2 DEF Passed
<1>3. CASE i >= pNode
  <2>1. doc[pNode] = "text" /\ i = pNode
    BY <1>1, <1>3 DEF Looked
  <2> QED
    BY <1>3, <2>1 DEF StepKinds
<1> QED
  BY <1>1, <1>2, <1>3

\* Every step of init() keeps what is known of the nodes passed, and what it makes of
\* the document in the end is what the document deserves (script.C:79-117).
LEMMA StepSound ==
  TypeOK /\ LoadInv /\ Passed /\ LoadsWhatIsSound /\ [Next]_vars => Passed' /\ LoadsWhatIsSound'
<1> SUFFICES ASSUME TypeOK, LoadInv, Passed, LoadsWhatIsSound, [Next]_vars
             PROVE  Passed' /\ LoadsWhatIsSound'
  OBVIOUS
<1>0. /\ Len(doc) \in Nat /\ DOMAIN doc = 1 .. Len(doc) /\ pNode \in Nat \ {0}
      /\ Steps \subseteq Nat \ {0} /\ NULL = 0 /\ Looked \in {pNode, pNode + 1}
      /\ Len(doc) <= MaxNodes /\ Steps = 1 .. MaxNodes /\ MaxNodes \in Nat
      /\ Range(doc) = {doc[i] : i \in DOMAIN doc}
  BY BoundAssumption DEF TypeOK, Steps, NULL, Looked, Range
<1>1. ASSUME phase = "loading", \A i \in DOMAIN doc : StepAt(i) => i <= pNode - 1
      PROVE  /\ pLast = NULL => Range(doc) \cap StepKinds = {}
             /\ pLast # NULL => Range(doc) \cap StepKinds # {}
  <2>1. IsNext(0, script, pNode - 1) /\ (script = NULL <=> pLast = NULL)
    BY <1>0, <1>1 DEF LoadInv, Chain
  <2>2. CASE pLast = NULL
    <3>1. \A i \in Steps : StepAt(i) /\ i <= pNode - 1 => i <= 0
      BY <2>1, <2>2 DEF IsNext
    <3> QED
      BY <1>0, <1>1, <2>2, <3>1 DEF StepAt
  <2>3. CASE pLast # NULL
    <3>1. StepAt(script)
      BY <2>1, <2>3 DEF IsNext
    <3> QED
      BY <1>0, <2>3, <3>1 DEF StepAt
  <2> QED
    BY <2>2, <2>3
<1>2. CASE LoadNode
  <2>1. /\ phase = "loading" /\ phase' = phase /\ doc' = doc /\ pNode' = Looked + 1
        /\ pNode <= Len(doc) /\ Looked <= Len(doc) /\ doc[Looked] \in StepKinds
    BY <1>2 DEF LoadNode
  <2>0. /\ address # "none" => address' = address
        /\ address = "none" /\ doc[Looked] = "vague" => address' = "any"
        /\ address' = "any" => address = "any" \/ doc[Looked] = "vague"
    BY <1>2 DEF LoadNode, AddressOf
  <2>2. ASSUME NEW i \in DOMAIN doc, i < Looked + 1
        PROVE  /\ doc[i] \in StepKinds \cup {"text"}
               /\ doc[i] = "vague" => address' # "none"
    <3>1. CASE i = Looked
      BY <2>0, <2>1, <3>1
    <3>2. CASE i # Looked
      <4>1. i < Looked /\ pNode \in DOMAIN doc
        BY <1>0, <2>1, <2>2, <3>2
      <4> QED
        BY <2>0, <2>1, <4>1, BeforeLooked
    <3> QED
      BY <3>1, <3>2
  <2>3. address' # "none" => script' # NULL
    BY <1>0, <2>1, <1>2 DEF LoadNode, Link
  <2>5. Looked \in DOMAIN doc /\ script' = IF script = NULL THEN Looked ELSE script
    BY <1>0, <1>2, <2>1 DEF LoadNode, Link
  <2>6. Passed'
    BY <1>0, <2>1, <2>2, <2>3, <2>0, <2>5 DEF Passed
  <2>7. LoadsWhatIsSound'
    BY <1>0, <2>1, <2>0, <2>5 DEF LoadsWhatIsSound
  <2> QED
    BY <2>6, <2>7
<1>3. CASE Loaded
  <2>1. /\ phase = "loading" /\ (pNode <= Len(doc) => Looked > Len(doc))
        /\ doc' = doc /\ address' = address /\ script' = script
        /\ phase' = IF pLast = NULL THEN "undefined" ELSE "loaded"
    BY <1>3 DEF Loaded
  <2>2. ASSUME NEW i \in DOMAIN doc
        PROVE  /\ doc[i] \in StepKinds \cup {"text"} /\ (doc[i] \in StepKinds => i < pNode)
               /\ doc[i] = "vague" => address # "none"
    <3>1. (pNode <= Len(doc) => pNode \in DOMAIN doc) /\ (pNode > Len(doc) => Looked > Len(doc))
      BY <1>0
    <3>2. Looked > Len(doc)
      BY <1>0, <2>1, <3>1
    <3> QED
      BY <2>1, <2>2, <3>1, <3>2, BeforeLooked
  <2>3. \A i \in DOMAIN doc : StepAt(i) => i <= pNode - 1
    BY <1>0, <2>2 DEF StepAt
  <2>4. /\ pLast = NULL => Range(doc) \cap StepKinds = {}
        /\ pLast # NULL => Range(doc) \cap StepKinds # {}
    BY <1>1, <2>1, <2>3
  <2>5. Range(doc) \subseteq StepKinds \cup {"text"}
    BY <1>0, <2>2
  <2>6. pLast # NULL => script # NULL
    BY <2>1 DEF LoadInv
  <2>7. "vague" \in Range(doc) => address # "none"
    BY <1>0, <2>2
  <2>8. phase' # "loading" /\ phase' # "refused" /\ Passed'
    BY <2>1 DEF Passed
  <2>9. script # NULL /\ doc[script] = "vague" => address = "any"
    BY <2>1 DEF Passed
  <2> QED
    BY <2>1, <2>4, <2>5, <2>6, <2>7, <2>8, <2>9 DEF LoadsWhatIsSound
<1>4. CASE Refused
  <2>1. /\ phase = "loading" /\ doc' = doc /\ mTransaction' = mTransaction /\ address' = address
        /\ pNode <= Len(doc) /\ Looked \in DOMAIN doc /\ doc[Looked] = "bad"
        /\ phase' \in {"undefined", "refused"}
        /\ phase' = "refused" => ~mTransaction /\ pLast # NULL /\ next[script] = NULL
    BY <1>0, <1>4 DEF Refused, DeletesTwice
  <2>2. ASSUME phase' = "refused"
        PROVE  \E i, k \in DOMAIN doc : StepAt(i) /\ doc[k] = "bad"
                                       /\ \A j \in 1 .. k - 1 : j = i \/ doc[j] = "text"
    <3>1. /\ script # NULL /\ script \in Steps /\ IsNext(0, script, pNode - 1)
      BY <1>0, <2>1, <2>2 DEF LoadInv, Chain, TypeOK
    <3>2. StepAt(script) /\ script <= pNode - 1
      BY <3>1 DEF IsNext
    <3>3. IsNext(script, NULL, pNode - 1)
      BY <2>1, <2>2, <3>1, <3>2 DEF LoadInv, Chain
    <3>4. ASSUME NEW j \in 1 .. Looked - 1 PROVE j = script \/ doc[j] = "text"
      <4>1. j \in DOMAIN doc /\ j < Looked /\ j \in Steps /\ pNode \in DOMAIN doc
        BY <1>0, <2>1
      <4>2. doc[j] \in StepKinds \cup {"text"} /\ (doc[j] \in StepKinds => j < pNode)
        BY <2>1, <4>1, BeforeLooked
      <4>3. doc[j] \in StepKinds => StepAt(j) /\ j <= pNode - 1
        BY <1>0, <4>1, <4>2 DEF StepAt
      <4>4. doc[j] \in StepKinds => script <= j
        BY <1>0, <3>1, <4>1, <4>3 DEF IsNext
      <4>5. doc[j] \in StepKinds => j <= script
        BY <3>3, <4>1, <4>3 DEF IsNext
      <4> QED
        BY <1>0, <3>1, <4>1, <4>2, <4>4, <4>5
    <3>5. script \in DOMAIN doc /\ StepAt(script)
      BY <1>0, <3>2 DEF StepAt
    <3> QED
      BY <2>1, <3>4, <3>5
  <2> QED
    BY <2>1, <2>2 DEF Passed, LoadsWhatIsSound, StepAt
<1>5. CASE NoProtocol \/ NoAddress
  <2>1. /\ phase = "loading" /\ doc' = doc /\ phase' = "undefined" /\ address' = address
        /\ Looked \in DOMAIN doc /\ doc[Looked] \in {"vague", "bad", "bare"}
    BY <1>0, <1>5 DEF NoProtocol, NoAddress
  <2> QED
    BY <2>1 DEF Passed, LoadsWhatIsSound
<1>6. CASE UNCHANGED load
  BY <1>6 DEF load, Passed, LoadsWhatIsSound, StepAt
<1>7. ASSUME NEW w \in Workers, Worker(w) PROVE UNCHANGED load
  BY <1>7 DEF Worker, EnterRead, EnterCas, RunStep, WriteTotal, ReadOutcome,
              WriteOutcome, ExitRead, ExitCas, UsedRead, UsedCas
<1> QED
  BY <1>2, <1>3, <1>4, <1>5, <1>6, <1>7 DEF Next, Load, vars

\* init() says yes, says no or does what C++ leaves open as the document deserves,
\* for documents of any length (script.C:79-117).
THEOREM LoadedAsItDeserves == Spec => []LoadsWhatIsSound
<1>1. Init => Passed /\ LoadsWhatIsSound
  <2> SUFFICES ASSUME Init PROVE Passed /\ LoadsWhatIsSound
    OBVIOUS
  <2>1. phase = "loading" /\ pNode = 1 /\ address = "none" /\ script = NULL /\ TypeOK
    BY InitInv DEF Init, IInv
  <2>2. DOMAIN doc = 1 .. Len(doc)
    BY <2>1 DEF TypeOK
  <2> QED
    BY <2>1, <2>2 DEF Passed, LoadsWhatIsSound
<1>2. IInv /\ Passed /\ LoadsWhatIsSound /\ [Next]_vars => Passed' /\ LoadsWhatIsSound'
  BY StepSound DEF IInv
<1> QED
  BY <1>1, <1>2, InductiveInvariant, PTL DEF Spec
=============================================================================
