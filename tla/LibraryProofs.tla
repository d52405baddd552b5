--------------------------- MODULE LibraryProofs ----------------------------
(***************************************************************************)
(* What the hash table, the timeout queue, the decoding of a step's data   *)
(* and the header parser promise, for any keys, hash codes and sizes, any  *)
(* receive steps, timers and clock, any text and any request.              *)
(*                                                                         *)
(* HashInv says what a table is like, where the iterator stands, and what  *)
(* it has come by, up to the first access to freed memory (corrupt).       *)
(* QueueInv says what the list of pending timeouts is like between the     *)
(* writes of enTqueue, up to the first timeout (broken).  DataInv and      *)
(* HttpInv say where the pieces a text was written in stand in it, and     *)
(* what the loop has made of those it has passed.                          *)
(***************************************************************************)
EXTENDS HashTable, TimeoutQueue, StepData, HttpParser, FiniteSetTheorems, SequenceTheorems, TLAPS

Table(size) == [0 .. size - 1 -> Seq(Entry)]
Once(t) == \A x, y \in Spots(t) : EntryAt(t, x) = EntryAt(t, y) => x = y
Hashed(t, size) == \A x \in Spots(t) : IndexFor(size, EntryAt(t, x).key) = x[1]

\* A table of a size, with each entry once and in the bucket where it belongs.
SoundTable(t, size) == t \in Table(size) /\ Once(t) /\ Hashed(t, size)
-----------------------------------------------------------------------------
\* A set of naturals below a bound has a least one.
LEMMA LeastOf ==
  ASSUME NEW n \in Nat, NEW at \in SUBSET (0 .. n), at # {}
  PROVE  Min(at) \in at /\ \A k \in at : Min(at) <= k
<1> DEFINE S == 0 .. n
           T == {I \in SUBSET S : \E i \in at : I = 0 .. i}
<1>0. IsFiniteSet(S)
  BY FS_Interval, 0 \in Int, n \in Int
<1>1. IsWellFoundedOn(StrictSubsetOrdering(S), SUBSET S)
  BY <1>0, FS_FiniteSubsetsOfFinite, FS_StrictSubsetOrderingWellFounded
<1>2. T \subseteq SUBSET S /\ T # {}
  <2>1. PICK i \in at : TRUE
    OBVIOUS
  <2>2. (0 .. i) \in SUBSET S
    OBVIOUS
  <2> QED
    BY <2>2
<1>3. PICK I \in T : \A J \in T : ~ (<<J, I>> \in StrictSubsetOrdering(S))
  <2> HIDE DEF S, T
  <2> QED
    BY <1>1, <1>2, WFMin
<1>4. PICK i \in at : I = 0 .. i
  OBVIOUS
<1>5. \A k \in at : i <= k
  <2> SUFFICES ASSUME NEW k \in at, k < i PROVE FALSE
    OBVIOUS
  <2>1. 0 .. k \in T /\ 0 .. i \in SUBSET S
    OBVIOUS
  <2>2. 0 .. k \subseteq 0 .. i /\ 0 .. k # 0 .. i
    <3>1. i \in 0 .. i /\ i \notin 0 .. k
      OBVIOUS
    <3> QED
      BY <3>1
  <2>3. <<0 .. k, I>> \in StrictSubsetOrdering(S)
    BY <1>4, <2>1, <2>2 DEF StrictSubsetOrdering
  <2> QED
    BY <1>3, <2>1, <2>3
<1> QED
  BY <1>5 DEF Min

\* A spot is a bucket and a place in its chain, and an entry is there.
LEMMA SpotsOf ==
  ASSUME NEW size \in Nat, NEW t \in Table(size)
  PROVE  /\ \A x \in Spots(t) : /\ x = <<x[1], x[2]>>
                                /\ x[1] \in 0 .. size - 1 /\ x[2] \in 1 .. Len(t[x[1]])
                                /\ EntryAt(t, x) \in Entry /\ EntryAt(t, x) \in Entries(t)
         /\ \A i \in 0 .. size - 1 : \A p \in 1 .. Len(t[i]) :
              /\ <<i, p>> \in Spots(t) /\ EntryAt(t, <<i, p>>) = t[i][p]
              /\ t[i][p] \in Entries(t)
         /\ Entries(t) \subseteq Entry
<1>1. DOMAIN t = 0 .. size - 1 /\ \A i \in 0 .. size - 1 : t[i] \in Seq(Entry) /\ DOMAIN t[i] = 1 .. Len(t[i])
  BY DEF Table
<1>2. ASSUME NEW x \in Spots(t)
      PROVE  /\ x = <<x[1], x[2]>> /\ x[1] \in 0 .. size - 1 /\ x[2] \in 1 .. Len(t[x[1]])
             /\ EntryAt(t, x) \in Entry
  <2>1. PICK i \in DOMAIN t : x \in {i} \X DOMAIN t[i]
    BY DEF Spots
  <2>2. x = <<x[1], x[2]>> /\ x[1] = i /\ x[2] \in DOMAIN t[i]
    BY <2>1
  <2> QED
    BY <1>1, <2>2 DEF EntryAt
<1>3. ASSUME NEW i \in 0 .. size - 1, NEW p \in 1 .. Len(t[i])
      PROVE  <<i, p>> \in Spots(t) /\ EntryAt(t, <<i, p>>) = t[i][p]
  <2>1. <<i, p>> \in {i} \X DOMAIN t[i]
    BY <1>1
  <2> QED
    BY <1>1, <2>1 DEF Spots, EntryAt
<1> QED
  BY <1>2, <1>3 DEF Entries

\* Every place along a chain is a spot.
LEMMA PlacesAreSpots ==
  ASSUME NEW size \in Nat, NEW t \in Table(size)
  PROVE  /\ \A i \in 0 .. size - 1 : DOMAIN t[i] = 1 .. Len(t[i])
         /\ \A i \in 0 .. size - 1 : \A p \in 1 .. Len(t[i]) :
              <<i, p>> \in Spots(t) /\ EntryAt(t, <<i, p>>) = t[i][p]
<1>1. \A i \in 0 .. size - 1 : t[i] \in Seq(Entry)
  BY DEF Table
<1> QED
  BY <1>1, SpotsOf

\* A table with finitely many entries, each once, has finitely many spots.
LEMMA SpotsFinite ==
  ASSUME NEW t, IsFiniteSet(Entries(t)), Once(t)
  PROVE  IsFiniteSet(Spots(t))
<1> DEFINE f == [x \in Spots(t) |-> EntryAt(t, x)]
<1>1. f \in Injection(Spots(t), Entries(t))
  BY DEF Injection, IsInjective, Entries, Once
<1> QED
  BY <1>1, FS_Injection

-----------------------------------------------------------------------------
(* Chains                                                                  *)

\* The spots of a table are in one order: of two one is earlier.
LEMMA SpotsOrdered ==
  ASSUME NEW size \in Nat, NEW t \in Table(size)
  PROVE  \A x, y \in Spots(t) :
           /\ x # y => Earlier(x, y) \/ Earlier(y, x)
           /\ ~Earlier(x, x)
           /\ \A z \in Spots(t) : Earlier(x, y) /\ Earlier(y, z) => Earlier(x, z)
<1> SUFFICES ASSUME NEW x \in Spots(t), NEW y \in Spots(t)
             PROVE  /\ x # y => Earlier(x, y) \/ Earlier(y, x)
                    /\ ~Earlier(x, x)
                    /\ \A z \in Spots(t) : Earlier(x, y) /\ Earlier(y, z) => Earlier(x, z)
  OBVIOUS
<1>0. \A i \in 0 .. size - 1 : Len(t[i]) \in Nat
  BY DEF Table
<1>1. \A z \in Spots(t) : z = <<z[1], z[2]>> /\ z[1] \in Int /\ z[2] \in Int
  BY <1>0, SpotsOf
<1>2. x # y => x[1] # y[1] \/ x[2] # y[2]
  BY <1>1
<1> QED
  BY <1>1, <1>2 DEF Earlier

\* A chain of the entries at some spots is made of those entries, each as often as it was
\* there (hashtable.c:88-95).
LEMMA ChainedIs ==
  ASSUME NEW size \in Nat, NEW t \in Table(size), Once(t), IsFiniteSet(Spots(t)),
         NEW S \in SUBSET Spots(t)
  PROVE  /\ Chained(t, S) \in Seq(Entry)
         /\ Len(Chained(t, S)) = Cardinality(S)
         /\ \A n \in 1 .. Cardinality(S) : \E x \in S : Chained(t, S)[n] = EntryAt(t, x)
         /\ \A x \in S : \E n \in 1 .. Cardinality(S) : Chained(t, S)[n] = EntryAt(t, x)
         /\ \A m, n \in 1 .. Cardinality(S) : Chained(t, S)[m] = Chained(t, S)[n] => m = n
<1> DEFINE later(x) == {y \in S : Earlier(x, y)}
           r == [x \in S |-> Cardinality(later(x)) + 1]
           spot(n) == CHOOSE x \in S : Cardinality(later(x)) = n - 1
<1>1. IsFiniteSet(S) /\ Cardinality(S) \in Nat
  BY FS_Subset, FS_CardinalityType
<1>2. ASSUME NEW x \in S
      PROVE  /\ IsFiniteSet(later(x)) /\ Cardinality(later(x)) \in Nat
             /\ Cardinality(later(x)) < Cardinality(S)
  <2>1. later(x) \in SUBSET S /\ x \notin later(x)
    BY SpotsOrdered
  <2> HIDE DEF later
  <2>2. IsFiniteSet(later(x)) /\ Cardinality(later(x)) <= Cardinality(S) /\ (Cardinality(S) = Cardinality(later(x)) => S = later(x))
    BY <1>1, <2>1, FS_Subset
  <2> QED
    BY <1>1, <2>1, <2>2, FS_CardinalityType
<1>3. ASSUME NEW x \in S, NEW y \in S, Earlier(x, y)
      PROVE  Cardinality(later(y)) < Cardinality(later(x))
  <2>1. later(y) \in SUBSET later(x) /\ y \in later(x) /\ y \notin later(y)
    BY <1>3, SpotsOrdered
  <2> HIDE DEF later
  <2>2. Cardinality(later(y)) <= Cardinality(later(x)) /\ (Cardinality(later(x)) = Cardinality(later(y)) => later(x) = later(y))
    BY <1>2, <2>1, FS_Subset
  <2> QED
    BY <1>2, <2>1, <2>2
<1>4. \A x, y \in S : Cardinality(later(x)) = Cardinality(later(y)) => x = y
  <2> SUFFICES ASSUME NEW x \in S, NEW y \in S, x # y PROVE Cardinality(later(x)) # Cardinality(later(y))
    OBVIOUS
  <2>1. Earlier(x, y) \/ Earlier(y, x)
    BY SpotsOrdered
  <2>2. Cardinality(later(x)) < Cardinality(later(y)) \/ Cardinality(later(y)) < Cardinality(later(x))
    BY <1>3, <2>1
  <2> HIDE DEF later
  <2> QED
    BY <1>2, <2>2
<1>5. r \in Surjection(S, 1 .. Cardinality(S))
  <2> HIDE DEF later
  <2>1. r \in [S -> 1 .. Cardinality(S)]
    BY <1>1, <1>2
  <2>2. r \in Injection(S, 1 .. Cardinality(S))
    BY <1>2, <1>4, <2>1 DEF Injection, IsInjective
  <2>3. IsFiniteSet(1 .. Cardinality(S)) /\ Cardinality(1 .. Cardinality(S)) = Cardinality(S)
    BY <1>1, FS_Interval
  <2> HIDE DEF r
  <2> QED
    BY <2>2, <2>3, FS_Injection
<1>6. ASSUME NEW n \in 1 .. Cardinality(S)
      PROVE  spot(n) \in S /\ Cardinality(later(spot(n))) = n - 1
  <2>1. \E x \in S : r[x] = n
    BY <1>5 DEF Surjection
  <2>2. \E x \in S : Cardinality(later(x)) = n - 1
    <3> HIDE DEF later
    <3> QED
      BY <1>2, <2>1
  <2> HIDE DEF later
  <2> QED
    BY <2>2
<1>7. Chained(t, S) = [n \in 1 .. Cardinality(S) |-> EntryAt(t, spot(n))]
  BY DEF Chained
<1>8. \A n \in 1 .. Cardinality(S) : EntryAt(t, spot(n)) \in Entry
  BY <1>6, SpotsOf
<1>9. ASSUME NEW x \in S PROVE \E n \in 1 .. Cardinality(S) : spot(n) = x
  <2>1. r[x] \in 1 .. Cardinality(S) /\ r[x] = Cardinality(later(x)) + 1
    <3> HIDE DEF later
    <3> QED
      BY <1>1, <1>2
  <2>2. Cardinality(later(spot(r[x]))) = r[x] - 1 /\ spot(r[x]) \in S
    <3> HIDE DEF later, r, spot
    <3> QED
      BY <1>6, <2>1
  <2> HIDE DEF later, r, spot
  <2> QED
    BY <1>2, <1>4, <2>1, <2>2
<1> HIDE DEF later, r, spot
<1>10. \A m, n \in 1 .. Cardinality(S) : spot(m) = spot(n) => m = n
  BY <1>1, <1>6
<1>11. Chained(t, S) \in Seq(Entry) /\ Len(Chained(t, S)) = Cardinality(S)
  BY <1>1, <1>7, <1>8
<1>12. \A m, n \in 1 .. Cardinality(S) : Chained(t, S)[m] = Chained(t, S)[n] => m = n
  BY <1>6, <1>7, <1>10 DEF Once
<1> QED
  BY <1>6, <1>7, <1>9, <1>11, <1>12

\* A key has a bucket (hashtable_private.h:32-35).
LEMMA IndexType ==
  ASSUME NEW size \in Nat \ {0}, NEW k \in Keys
  PROVE  IndexFor(size, k) \in 0 .. size - 1
<1>1. Hash[k] \in Nat
  BY TableAssumption
<1> QED
  BY <1>1 DEF IndexFor

\* Growing puts every entry into the bucket where it belongs, and loses or doubles none
\* (hashtable.c:70-98).
LEMMA ExpandIs ==
  ASSUME NEW size \in Nat, NEW new \in Nat \ {0}, NEW t \in Table(size),
         Once(t), IsFiniteSet(Spots(t))
  PROVE  SoundTable(Expand(t, new), new) /\ Entries(Expand(t, new)) = Entries(t)
<1> DEFINE at(i) == {x \in Spots(t) : IndexFor(new, EntryAt(t, x).key) = i}
           u == Expand(t, new)
<1>1. \A i \in 0 .. new - 1 : at(i) \in SUBSET Spots(t) /\ u[i] = Chained(t, at(i))
  BY DEF Expand
<1>2. ASSUME NEW i \in 0 .. new - 1
      PROVE  /\ u[i] \in Seq(Entry) /\ Len(u[i]) = Cardinality(at(i))
             /\ \A n \in 1 .. Len(u[i]) : \E x \in at(i) : u[i][n] = EntryAt(t, x)
             /\ \A x \in at(i) : \E n \in 1 .. Len(u[i]) : u[i][n] = EntryAt(t, x)
             /\ \A m, n \in 1 .. Len(u[i]) : u[i][m] = u[i][n] => m = n
  <2> HIDE DEF at, u
  <2> QED
    BY <1>1, ChainedIs, SMTT(30)
<1>3. u \in Table(new)
  <2>1. u = [i \in 0 .. new - 1 |-> u[i]]
    BY DEF Expand
  <2> HIDE DEF at, u
  <2> QED
    BY <1>2, <2>1 DEF Table
<1>4. ASSUME NEW y \in Spots(u)
      PROVE  \E x \in at(y[1]) : EntryAt(u, y) = EntryAt(t, x)
  <2>1. y[1] \in 0 .. new - 1 /\ y[2] \in 1 .. Len(u[y[1]])
    BY <1>3, SpotsOf
  <2> HIDE DEF at, u
  <2> QED
    BY <1>2, <2>1 DEF EntryAt
<1>5. ASSUME NEW x \in Spots(t)
      PROVE  \E y \in Spots(u) : EntryAt(u, y) = EntryAt(t, x)
  <2>1. EntryAt(t, x).key \in Keys
    BY SpotsOf DEF Entry
  <2> DEFINE i == IndexFor(new, EntryAt(t, x).key)
  <2>2. i \in 0 .. new - 1 /\ x \in at(i)
    BY <2>1, IndexType
  <2> HIDE DEF at, u, i
  <2>3. PICK n \in 1 .. Len(u[i]) : u[i][n] = EntryAt(t, x)
    BY <1>2, <2>2
  <2>4. <<i, n>> \in Spots(u) /\ EntryAt(u, <<i, n>>) = u[i][n]
    BY <1>3, <2>2, SpotsOf
  <2> QED
    BY <2>3, <2>4
<1>6. Entries(u) = Entries(t)
  <2>1. ASSUME NEW e \in Entries(u) PROVE e \in Entries(t)
    BY <1>4, <2>1 DEF Entries
  <2>2. ASSUME NEW e \in Entries(t) PROVE e \in Entries(u)
    <3> HIDE DEF u, at
    <3> QED
      BY <1>5, <2>2 DEF Entries
  <2> HIDE DEF u, at
  <2> QED
    BY <2>1, <2>2
<1>7. Hashed(u, new)
  BY <1>4 DEF Hashed
<1>8. Once(u)
  <2> SUFFICES ASSUME NEW y \in Spots(u), NEW z \in Spots(u), EntryAt(u, y) = EntryAt(u, z)
               PROVE  y = z
    BY DEF Once
  <2>1. y[1] = z[1]
    <3> HIDE DEF u, at
    <3> QED
      BY <1>7 DEF Hashed
  <2>2. /\ y = <<y[1], y[2]>> /\ y[1] \in 0 .. new - 1 /\ y[2] \in 1 .. Len(u[y[1]])
        /\ z = <<z[1], z[2]>> /\ z[2] \in 1 .. Len(u[z[1]])
    BY <1>3, SpotsOf
  <2> HIDE DEF u, at
  <2>3. u[y[1]][y[2]] = u[y[1]][z[2]]
    BY <2>1 DEF EntryAt
  <2>4. y[2] = z[2]
    BY <1>2, <2>1, <2>2, <2>3
  <2> QED
    BY <2>1, <2>2, <2>4
<1> QED
  BY <1>3, <1>6, <1>7, <1>8 DEF SoundTable

\* A new entry at the head of its chain (hashtable.c:152-157).
LEMMA HungIs ==
  ASSUME NEW size \in Nat \ {0}, NEW t, SoundTable(t, size), NEW e \in Entry, e \notin Entries(t)
  PROVE  LET i == IndexFor(size, e.key)
             u == [t EXCEPT ![i] = <<e>> \o @]
         IN SoundTable(u, size) /\ Entries(u) = Entries(t) \cup {e}
<1> DEFINE i == IndexFor(size, e.key)
           u == [t EXCEPT ![i] = <<e>> \o @]
           was(y) == IF y[1] = i THEN <<i, y[2] - 1>> ELSE y
<1>1. i \in 0 .. size - 1 /\ t \in Table(size)
  BY IndexType DEF Entry, SoundTable
<1>2. /\ u \in Table(size)
      /\ Len(t[i]) \in Nat /\ Len(u[i]) = Len(t[i]) + 1 /\ u[i][1] = e
      /\ \A q \in 2 .. Len(u[i]) : u[i][q] = t[i][q - 1]
      /\ \A j \in 0 .. size - 1 : j # i => u[j] = t[j]
  <2> HIDE DEF i
  <2>1. t[i] \in Seq(Entry) /\ u[i] = <<e>> \o t[i] /\ <<e>> \in Seq(Entry) /\ Len(<<e>>) = 1
    BY <1>1 DEF Table
  <2>2. u[i] \in Seq(Entry)
    BY <2>1
  <2>3. u = [j \in 0 .. size - 1 |-> IF j = i THEN <<e>> \o t[i] ELSE t[j]]
    BY <1>1 DEF Table
  <2>4. u \in Table(size)
    BY <1>1, <2>1, <2>2, <2>3 DEF Table
  <2> HIDE DEF u
  <2> QED
    BY <1>1, <2>1, <2>3, <2>4
<1> HIDE DEF i, u
<1>3. ASSUME NEW y \in Spots(u)
      PROVE  \/ y = <<i, 1>> /\ EntryAt(u, y) = e
             \/ /\ y # <<i, 1>> /\ was(y) \in Spots(t) /\ EntryAt(u, y) = EntryAt(t, was(y))
                /\ y[1] = was(y)[1]
  <2>1. y = <<y[1], y[2]>> /\ y[1] \in 0 .. size - 1 /\ y[2] \in 1 .. Len(u[y[1]])
    BY <1>2, SpotsOf
  <2>2. CASE y[1] = i /\ y[2] = 1
    BY <1>2, <2>1, <2>2 DEF EntryAt
  <2>3. CASE y[1] = i /\ y[2] # 1
    <3>1. y[2] - 1 \in 1 .. Len(t[i]) /\ y[2] \in 2 .. Len(u[i])
      BY <1>2, <2>1, <2>3
    <3>2. was(y) = <<i, y[2] - 1>> /\ y # <<i, 1>>
      BY <2>3
    <3>3. was(y) \in Spots(t) /\ EntryAt(t, was(y)) = t[i][y[2] - 1]
      BY <1>1, <3>1, <3>2, SpotsOf
    <3> QED
      BY <1>2, <2>3, <3>1, <3>2, <3>3 DEF EntryAt
  <2>4. CASE y[1] # i
    <3>1. y[2] \in 1 .. Len(t[y[1]]) /\ was(y) = y /\ u[y[1]] = t[y[1]]
      BY <1>2, <2>1, <2>4
    <3>2. y \in Spots(t)
      BY <1>1, <2>1, <3>1, SpotsOf
    <3> QED
      BY <2>4, <3>1, <3>2 DEF EntryAt
  <2> QED
    BY <2>2, <2>3, <2>4
<1>4. ASSUME NEW x \in Spots(t)
      PROVE  \E y \in Spots(u) : EntryAt(u, y) = EntryAt(t, x)
  <2>1. x = <<x[1], x[2]>> /\ x[1] \in 0 .. size - 1 /\ x[2] \in 1 .. Len(t[x[1]])
    BY <1>1, SpotsOf
  <2>2. CASE x[1] = i
    <3>1. x[2] + 1 \in 2 .. Len(u[i]) /\ x[2] + 1 \in 1 .. Len(u[i])
      BY <1>2, <2>1, <2>2
    <3>2. \A q \in 1 .. Len(u[i]) : <<i, q>> \in Spots(u) /\ EntryAt(u, <<i, q>>) = u[i][q]
      BY <1>1, <1>2, SpotsOf
    <3>3. u[i][x[2] + 1] = t[i][x[2]]
      BY <1>2, <2>1, <2>2, <3>1, SMTT(30)
    <3> QED
      BY <2>1, <2>2, <3>1, <3>2, <3>3 DEF EntryAt
  <2>3. CASE x[1] # i
    <3>1. u[x[1]] = t[x[1]]
      BY <1>2, <2>1, <2>3
    <3>2. x \in Spots(u)
      BY <1>2, <2>1, <3>1, SpotsOf
    <3> QED
      BY <3>1, <3>2 DEF EntryAt
  <2> QED
    BY <2>2, <2>3
<1>5. <<i, 1>> \in Spots(u) /\ EntryAt(u, <<i, 1>>) = e
  <2>1. 1 \in 1 .. Len(u[i])
    BY <1>2
  <2> QED
    BY <1>1, <1>2, <2>1, SpotsOf
<1> HIDE DEF was
<1>6. Entries(u) = Entries(t) \cup {e}
  BY <1>3, <1>4, <1>5 DEF Entries
<1>7. Hashed(u, size)
  <2> SUFFICES ASSUME NEW y \in Spots(u) PROVE IndexFor(size, EntryAt(u, y).key) = y[1]
    BY DEF Hashed
  <2>1. CASE y = <<i, 1>> /\ EntryAt(u, y) = e
    BY <2>1 DEF i
  <2>2. CASE was(y) \in Spots(t) /\ EntryAt(u, y) = EntryAt(t, was(y)) /\ y[1] = was(y)[1]
    BY <2>2 DEF SoundTable, Hashed
  <2> QED
    BY <1>3, <2>1, <2>2
<1>8. Once(u)
  <2> SUFFICES ASSUME NEW y \in Spots(u), NEW z \in Spots(u), EntryAt(u, y) = EntryAt(u, z)
               PROVE  y = z
    BY DEF Once
  <2>1. CASE y = <<i, 1>> \/ z = <<i, 1>>
    BY <1>3, <2>1 DEF Entries
  <2>2. CASE y # <<i, 1>> /\ z # <<i, 1>>
    <3>1. was(y) = was(z)
      BY <1>3, <2>2 DEF SoundTable, Once
    <3>2. /\ y = <<y[1], y[2]>> /\ y[1] \in 0 .. size - 1 /\ y[2] \in 1 .. Len(u[y[1]])
          /\ z = <<z[1], z[2]>> /\ z[1] \in 0 .. size - 1 /\ z[2] \in 1 .. Len(u[z[1]])
      BY <1>2, SpotsOf
    <3>3. y[1] = z[1]
      BY <1>3, <2>2, <3>1
    <3>4. y[1] = i => y[2] - 1 = z[2] - 1 /\ y[2] \in Int /\ z[2] \in Int
      BY <1>2, <3>1, <3>2, <3>3 DEF was
    <3> QED
      BY <3>1, <3>2, <3>3, <3>4 DEF was
  <2> QED
    BY <2>1, <2>2
<1> QED
  BY <1>2, <1>6, <1>7, <1>8 DEF SoundTable, i, u

\* One entry cut out of its chain: those behind it move up (hashtable.c:200-203,
\* hashtable_itr.c:92-101).
LEMMA CutIs ==
  ASSUME NEW size \in Nat, NEW t, SoundTable(t, size), NEW x \in Spots(t)
  PROVE  LET u == [t EXCEPT ![x[1]] = RemoveAt(@, x[2])]
         IN /\ SoundTable(u, size) /\ Entries(u) = Entries(t) \ {EntryAt(t, x)}
            /\ Len(u[x[1]]) = Len(t[x[1]]) - 1
            /\ \A q \in 1 .. Len(u[x[1]]) : u[x[1]][q] = t[x[1]][IF q < x[2] THEN q ELSE q + 1]
            /\ \A j \in 0 .. size - 1 : j # x[1] => u[j] = t[j]
<1> DEFINE i == x[1]
           p == x[2]
           u == [t EXCEPT ![i] = RemoveAt(@, p)]
           was(y) == IF y[1] = i /\ p <= y[2] THEN <<i, y[2] + 1>> ELSE y
<1>1. t \in Table(size) /\ x = <<i, p>> /\ i \in 0 .. size - 1 /\ p \in 1 .. Len(t[i]) /\ Len(t[i]) \in Nat
  <2>1. t \in Table(size)
    BY DEF SoundTable
  <2>2. x = <<i, p>> /\ i \in 0 .. size - 1 /\ p \in 1 .. Len(t[i])
    BY <2>1, SpotsOf
  <2> QED
    BY <2>1, <2>2 DEF Table
<1> HIDE DEF i, p
<1>2. /\ u \in Table(size) /\ Len(u[i]) = Len(t[i]) - 1
      /\ \A q \in 1 .. Len(u[i]) : u[i][q] = t[i][IF q < p THEN q ELSE q + 1]
      /\ \A j \in 0 .. size - 1 : j # i => u[j] = t[j]
  <2>1. t[i] \in Seq(Entry) /\ u[i] = RemoveAt(t[i], p)
    BY <1>1 DEF Table
  <2>2. /\ RemoveAt(t[i], p) \in Seq(Entry) /\ Len(RemoveAt(t[i], p)) = Len(t[i]) - 1
        /\ \A q \in 1 .. Len(t[i]) - 1 :
             RemoveAt(t[i], p)[q] = t[i][IF q < p THEN q ELSE q + 1]
    <3> DEFINE s == t[i]
               before == SubSeq(s, 1, p - 1)
               behind == SubSeq(s, p + 1, Len(s))
    <3>1. s \in Seq(Entry) /\ p \in 1 .. Len(s) /\ Len(s) \in Nat
      BY <1>1, <2>1
    <3> HIDE DEF s
    <3>2. /\ before \in Seq(Entry) /\ Len(before) = p - 1
          /\ \A q \in 1 .. p - 1 : before[q] = s[q]
      BY <3>1
    <3>3. /\ behind \in Seq(Entry) /\ Len(behind) = Len(s) - p
          /\ \A q \in 1 .. Len(s) - p : behind[q] = s[p + q]
      BY <3>1
    <3>4. RemoveAt(s, p) = before \o behind
      BY DEF RemoveAt
    <3> HIDE DEF before, behind
    <3>5. /\ before \o behind \in Seq(Entry) /\ Len(before \o behind) = Len(s) - 1
          /\ \A q \in 1 .. Len(s) - 1 :
               (before \o behind)[q] = IF q < p THEN before[q] ELSE behind[q - (p - 1)]
      <4>1. before \o behind \in Seq(Entry) /\ Len(before \o behind) = Len(before) + Len(behind)
        BY <3>2, <3>3
      <4>2. \A q \in 1 .. Len(before) + Len(behind) :
              (before \o behind)[q] = IF q <= Len(before) THEN before[q] ELSE behind[q - Len(before)]
        BY <3>2, <3>3
      <4>3. Len(before) + Len(behind) = Len(s) - 1 /\ \A q \in Nat : q <= p - 1 <=> q < p
        BY <3>1, <3>2, <3>3
      <4> QED
        BY <3>1, <3>2, <3>3, <4>1, <4>2, <4>3
    <3>6. ASSUME NEW q \in 1 .. Len(s) - 1
          PROVE  (before \o behind)[q] = s[IF q < p THEN q ELSE q + 1]
      <4>1. CASE q < p
        <5>1. q \in 1 .. p - 1
          BY <3>1, <4>1
        <5> QED
          BY <3>2, <3>5, <4>1, <5>1
      <4>2. CASE ~(q < p)
        <5>1. q - (p - 1) \in 1 .. Len(s) - p /\ p + (q - (p - 1)) = q + 1
          BY <3>1, <4>2
        <5> QED
          BY <3>3, <3>5, <4>2, <5>1
      <4> QED
        BY <4>1, <4>2
    <3> QED
      BY <3>4, <3>5, <3>6 DEF s
  <2>3. u = [j \in 0 .. size - 1 |-> IF j = i THEN RemoveAt(t[i], p) ELSE t[j]]
    BY <1>1 DEF Table
  <2>4. u \in Table(size)
    BY <1>1, <2>2, <2>3 DEF Table
  <2> HIDE DEF u
  <2> QED
    BY <1>1, <2>1, <2>2, <2>3, <2>4
<1> HIDE DEF u
<1>3. ASSUME NEW y \in Spots(u)
      PROVE  /\ was(y) \in Spots(t) /\ was(y) # x /\ EntryAt(u, y) = EntryAt(t, was(y))
             /\ y[1] = was(y)[1]
  <2>1. y = <<y[1], y[2]>> /\ y[1] \in 0 .. size - 1 /\ y[2] \in 1 .. Len(u[y[1]])
    BY <1>2, SpotsOf
  <2>2. CASE y[1] = i /\ p <= y[2]
    <3>1. y[2] + 1 \in 1 .. Len(t[i]) /\ ~(y[2] < p) /\ y[2] + 1 # p
      BY <1>1, <1>2, <2>1, <2>2
    <3>2. was(y) = <<i, y[2] + 1>>
      BY <2>2
    <3>3. was(y) \in Spots(t) /\ EntryAt(t, was(y)) = t[i][y[2] + 1]
      BY <1>1, <3>1, <3>2, SpotsOf
    <3>4. u[i][y[2]] = t[i][y[2] + 1]
      BY <1>2, <2>1, <2>2, <3>1
    <3> QED
      BY <1>1, <2>2, <3>1, <3>2, <3>3, <3>4 DEF EntryAt
  <2>3. CASE y[1] = i /\ ~(p <= y[2])
    <3>1. y[2] \in 1 .. Len(t[i]) /\ y[2] < p
      BY <1>1, <1>2, <2>1, <2>3
    <3>2. was(y) = y
      BY <2>3
    <3>3. y \in Spots(t) /\ EntryAt(t, y) = t[i][y[2]]
      BY <1>1, <2>1, <2>3, <3>1, SpotsOf
    <3>4. u[i][y[2]] = t[i][y[2]]
      BY <1>2, <2>1, <2>3, <3>1
    <3> QED
      BY <1>1, <2>3, <3>1, <3>2, <3>3, <3>4 DEF EntryAt
  <2>4. CASE y[1] # i
    <3>1. y[2] \in 1 .. Len(t[y[1]]) /\ was(y) = y /\ u[y[1]] = t[y[1]]
      BY <1>2, <2>1, <2>4
    <3>2. y \in Spots(t)
      BY <1>1, <2>1, <3>1, SpotsOf
    <3> QED
      BY <1>1, <2>4, <3>1, <3>2 DEF EntryAt
  <2> QED
    BY <2>2, <2>3, <2>4
<1>4. ASSUME NEW z \in Spots(t), z # x
      PROVE  \E y \in Spots(u) : EntryAt(u, y) = EntryAt(t, z)
  <2>1. z = <<z[1], z[2]>> /\ z[1] \in 0 .. size - 1 /\ z[2] \in 1 .. Len(t[z[1]])
    BY <1>1, SpotsOf
  <2>2. CASE z[1] = i /\ z[2] < p
    <3>1. z[2] \in 1 .. Len(u[i])
      BY <1>1, <1>2, <2>1, <2>2
    <3>2. <<i, z[2]>> \in Spots(u) /\ EntryAt(u, <<i, z[2]>>) = u[i][z[2]]
      BY <1>1, <1>2, <3>1, SpotsOf
    <3>3. u[i][z[2]] = t[i][z[2]]
      BY <1>2, <2>2, <3>1
    <3> QED
      BY <2>2, <3>2, <3>3 DEF EntryAt
  <2>3. CASE z[1] = i /\ ~(z[2] < p)
    <3>1. z[2] # p
      BY <1>1, <1>4, <2>1, <2>3
    <3>2. z[2] - 1 \in 1 .. Len(u[i]) /\ ~(z[2] - 1 < p) /\ z[2] - 1 + 1 = z[2]
      BY <1>1, <1>2, <2>1, <2>3, <3>1
    <3>3. <<i, z[2] - 1>> \in Spots(u) /\ EntryAt(u, <<i, z[2] - 1>>) = u[i][z[2] - 1]
      BY <1>1, <1>2, <3>2, SpotsOf
    <3>4. u[i][z[2] - 1] = t[i][z[2]]
      BY <1>2, <3>2
    <3> QED
      BY <2>3, <3>3, <3>4 DEF EntryAt
  <2>4. CASE z[1] # i
    <3>1. u[z[1]] = t[z[1]]
      BY <1>2, <2>1, <2>4
    <3>2. z \in Spots(u)
      BY <1>2, <2>1, <3>1, SpotsOf
    <3> QED
      BY <3>1, <3>2 DEF EntryAt
  <2> QED
    BY <2>2, <2>3, <2>4
<1>5. ASSUME NEW y \in Spots(u), NEW z \in Spots(u), was(y) = was(z) PROVE y = z
  <2>1. /\ y = <<y[1], y[2]>> /\ y[1] \in 0 .. size - 1 /\ y[2] \in 1 .. Len(u[y[1]])
        /\ z = <<z[1], z[2]>> /\ z[1] \in 0 .. size - 1 /\ z[2] \in 1 .. Len(u[z[1]])
    BY <1>2, SpotsOf
  <2>2. y[1] = z[1] /\ y[2] \in Int /\ z[2] \in Int /\ p \in Int
    <3>1. was(y)[1] = y[1] /\ was(z)[1] = z[1]
      BY <1>3
    <3>2. \A j \in 0 .. size - 1 : Len(u[j]) \in Nat
      BY <1>2 DEF Table
    <3> HIDE DEF was
    <3> QED
      BY <1>1, <1>5, <2>1, <3>1, <3>2
  <2>3. was(y)[2] = (IF y[1] = i /\ p <= y[2] THEN y[2] + 1 ELSE y[2])
    OBVIOUS
  <2>4. was(z)[2] = (IF z[1] = i /\ p <= z[2] THEN z[2] + 1 ELSE z[2])
    OBVIOUS
  <2> HIDE DEF was
  <2>5. y[2] = z[2]
    BY <1>5, <2>2, <2>3, <2>4
  <2> QED
    BY <2>1, <2>2, <2>5
<1> HIDE DEF was
<1>6. Entries(u) = Entries(t) \ {EntryAt(t, x)}
  <2>1. ASSUME NEW y \in Spots(u) PROVE EntryAt(u, y) \in Entries(t) /\ EntryAt(u, y) # EntryAt(t, x)
    BY <1>3 DEF Entries, SoundTable, Once
  <2>2. ASSUME NEW z \in Spots(t), EntryAt(t, z) # EntryAt(t, x) PROVE EntryAt(t, z) \in Entries(u)
    BY <1>4, <2>2 DEF Entries
  <2> QED
    BY <2>1, <2>2 DEF Entries
<1>7. Hashed(u, size) /\ Once(u)
  BY <1>3, <1>5 DEF SoundTable, Hashed, Once
<1> QED
  BY <1>2, <1>6, <1>7 DEF SoundTable, i, p, u

-----------------------------------------------------------------------------
(* The inductive invariant                                                 *)

TableTypes ==
  /\ primeindex \in 1 .. Len(Primes)
  /\ inserted \in 0 .. MaxInserts
  /\ itr \in [e : Nat, parent : Nat, index : Nat]

\* The table holds what is present, and an address is that of one entry.
ContentInv ==
  /\ SoundTable(table, tablelength) /\ Entries(table) = present
  /\ IsFiniteSet(present) /\ entrycount = Cardinality(present)
  /\ \A e \in present : e.at <= inserted
  /\ \A e, f \in present : e.at = f.at => e = f

\* The iterator is at a spot, and has been at all before it and at none behind.
StandsAt(x) ==
  itr = [e |-> EntryAt(table, x).at, parent |-> AddressAt(x[1], x[2] - 1), index |-> x[1]]
SweptTo(x) == \A y \in Spots(table) : EntryAt(table, y).at \in seen <=> y = x \/ Earlier(y, x)

SweepInv ==
  ~disturbed => IF itr.e = NULL THEN \A e \in present : e.at \in seen
                                ELSE \E x \in Spots(table) : StandsAt(x) /\ SweptTo(x)

TableInv == TableTypes /\ ContentInv /\ SweepInv

\* The inductive invariant.
HashInv == ~corrupt => TableInv

\* What the invariant says of the table's length and its spots.
LEMMA TableFacts ==
  ASSUME TableTypes, ContentInv
  PROVE  /\ tablelength \in Nat \ {0} /\ table \in Table(tablelength)
         /\ DOMAIN table = 0 .. tablelength - 1
         /\ \A i \in DOMAIN table : /\ Len(table[i]) \in Nat /\ DOMAIN table[i] = 1 .. Len(table[i])
                                    /\ table[i] = <<>> <=> Len(table[i]) = 0
         /\ \A x \in Spots(table) :
              /\ x = <<x[1], x[2]>> /\ x[1] \in DOMAIN table /\ x[2] \in 1 .. Len(table[x[1]])
              /\ x[1] \in Nat /\ x[2] \in Nat
              /\ EntryAt(table, x) = table[x[1]][x[2]]
              /\ EntryAt(table, x) \in present /\ EntryAt(table, x) \in Entry
              /\ EntryAt(table, x).at \in Nat /\ EntryAt(table, x).at # NULL
         /\ \A i \in DOMAIN table : \A p \in 1 .. Len(table[i]) :
              <<i, p>> \in Spots(table) /\ EntryAt(table, <<i, p>>) = table[i][p]
         /\ \A x, y \in Spots(table) : EntryAt(table, x).at = EntryAt(table, y).at => x = y
         /\ \A e \in present : \E x \in Spots(table) : EntryAt(table, x) = e
         /\ IsFiniteSet(Spots(table)) /\ present \subseteq Entry
<1>1. tablelength \in Nat \ {0}
  BY TableAssumption DEF TableTypes, tablelength
<1>2. table \in Table(tablelength)
  BY DEF ContentInv, SoundTable
<1>3. /\ DOMAIN table = 0 .. tablelength - 1
      /\ \A i \in DOMAIN table : /\ Len(table[i]) \in Nat /\ DOMAIN table[i] = 1 .. Len(table[i])
                                 /\ table[i] = <<>> <=> Len(table[i]) = 0
  BY <1>2 DEF Table
<1>4. ASSUME NEW x \in Spots(table)
      PROVE  /\ x = <<x[1], x[2]>> /\ x[1] \in DOMAIN table /\ x[2] \in 1 .. Len(table[x[1]])
             /\ x[1] \in Nat /\ x[2] \in Nat
             /\ EntryAt(table, x) = table[x[1]][x[2]]
             /\ EntryAt(table, x) \in present /\ EntryAt(table, x) \in Entry
             /\ EntryAt(table, x).at \in Nat /\ EntryAt(table, x).at # NULL
  <2>1. /\ x = <<x[1], x[2]>> /\ x[1] \in DOMAIN table /\ x[2] \in 1 .. Len(table[x[1]])
        /\ EntryAt(table, x) \in Entry /\ EntryAt(table, x) \in Entries(table)
    BY <1>1, <1>2, <1>3, SpotsOf
  <2>2. x[1] \in Nat /\ x[2] \in Nat
    BY <1>1, <1>3, <2>1
  <2>3. EntryAt(table, x).at \in 1 .. MaxInserts /\ MaxInserts \in Nat
    BY <2>1, TableAssumption DEF Entry
  <2> QED
    BY <2>1, <2>2, <2>3 DEF ContentInv, EntryAt, NULL
<1>5. \A i \in DOMAIN table : \A p \in 1 .. Len(table[i]) :
        <<i, p>> \in Spots(table) /\ EntryAt(table, <<i, p>>) = table[i][p]
  <2> SUFFICES ASSUME NEW i \in DOMAIN table, NEW p \in 1 .. Len(table[i])
               PROVE  <<i, p>> \in Spots(table) /\ EntryAt(table, <<i, p>>) = table[i][p]
    OBVIOUS
  <2>1. i \in 0 .. tablelength - 1
    BY <1>3
  <2> QED
    BY <1>1, <1>2, <2>1, SpotsOf
<1>6. \A x, y \in Spots(table) : EntryAt(table, x).at = EntryAt(table, y).at => x = y
  BY <1>4 DEF ContentInv, SoundTable, Once
<1>7. \A e \in present : \E x \in Spots(table) : EntryAt(table, x) = e
  BY DEF ContentInv, Entries
<1>8. IsFiniteSet(Spots(table)) /\ present \subseteq Entry
  BY <1>4, <1>7, SpotsFinite DEF ContentInv, SoundTable
<1> QED
  BY <1>1, <1>2, <1>3, <1>4, <1>5, <1>6, <1>7, <1>8

\* An address is in one bucket and at one place in its chain.
LEMMA Placed ==
  ASSUME TableTypes, ContentInv, NEW x \in Spots(table)
  PROVE  LET at == EntryAt(table, x).at
         IN BucketOf(at) = {x[1]} /\ PlaceIn(x[1], at) = x[2]
<1> DEFINE at == EntryAt(table, x).at
           found == {p \in 1 .. Len(table[x[1]]) : table[x[1]][p].at = at}
<1>1. /\ x[1] \in DOMAIN table /\ x[2] \in 1 .. Len(table[x[1]]) /\ x = <<x[1], x[2]>>
      /\ table[x[1]][x[2]].at = at
  BY TableFacts
<1>2. ASSUME NEW i \in DOMAIN table, NEW p \in 1 .. Len(table[i]), table[i][p].at = at
      PROVE  i = x[1] /\ p = x[2]
  <2>1. <<i, p>> \in Spots(table) /\ EntryAt(table, <<i, p>>).at = EntryAt(table, x).at
    BY <1>2, TableFacts
  <2>2. <<i, p>> = x
    BY <2>1, TableFacts
  <2> QED
    BY <1>1, <2>2
<1>3. BucketOf(at) = {x[1]}
  <2>1. \A i \in DOMAIN table : DOMAIN table[i] = 1 .. Len(table[i])
    BY TableFacts
  <2> HIDE DEF at
  <2> QED
    BY <1>1, <1>2, <2>1 DEF BucketOf
<1>4. found = {x[2]}
  BY <1>1, <1>2
<1>5. PlaceIn(x[1], at) = IF found # {} THEN Min(found) ELSE 0
  BY DEF PlaceIn, SelectInSeq
<1>6. Min({x[2]}) = x[2]
  <2>1. x[2] <= x[2]
    BY TableFacts
  <2> QED
    BY <2>1 DEF Min
<1> QED
  BY <1>3, <1>4, <1>5, <1>6

\* The walk along a chain ends at the first entry with the key, or finds none
\* (hashtable.c:168-176, 193-208).
LEMMA PositionIs ==
  ASSUME TableTypes, ContentInv, NEW k \in Keys
  PROVE  LET i == IndexFor(tablelength, k)
         IN /\ i \in DOMAIN table
            /\ Position(k) # 0 => Position(k) \in 1 .. Len(table[i]) /\ table[i][Position(k)].key = k
            /\ Position(k) = 0 => \A p \in 1 .. Len(table[i]) : table[i][p].key # k
<1> DEFINE i == IndexFor(tablelength, k)
           found == {p \in 1 .. Len(table[i]) : table[i][p].key = k}
<1>1. i \in DOMAIN table /\ Len(table[i]) \in Nat
  BY TableFacts, IndexType
<1>2. Position(k) = IF found # {} THEN Min(found) ELSE 0
  BY DEF Position, SelectInSeq
<1>3. found # {} => Min(found) \in found
  <2>1. found \in SUBSET (0 .. Len(table[i]))
    BY <1>1
  <2> HIDE DEF found, i
  <2> QED
    BY <1>1, <2>1, LeastOf
<1> QED
  BY <1>1, <1>2, <1>3

\* The first entry of the buckets from one on (hashtable_itr.c:25-33, 60-75).
LEMMA FirstFromIs ==
  ASSUME TableTypes, ContentInv, NEW i \in Nat
  PROVE  \/ /\ FirstFrom(i) = [e |-> NULL, parent |-> NULL, index |-> tablelength]
            /\ \A x \in Spots(table) : x[1] < i
         \/ \E m \in Nat : /\ i <= m /\ <<m, 1>> \in Spots(table)
                           /\ FirstFrom(i) = [e |-> EntryAt(table, <<m, 1>>).at, parent |-> NULL, index |-> m]
                           /\ \A x \in Spots(table) : i <= x[1] => m <= x[1]
<1> DEFINE full == {j \in DOMAIN table : j >= i /\ table[j] # <<>>}
<1>1. FirstFrom(i) = IF full = {} THEN [e |-> NULL, parent |-> NULL, index |-> tablelength]
                     ELSE [e |-> table[Min(full)][1].at, parent |-> NULL, index |-> Min(full)]
  BY DEF FirstFrom
<1>2. \A x \in Spots(table) : i <= x[1] => x[1] \in full
  BY TableFacts
<1>3. CASE full = {}
  <2>1. \A x \in Spots(table) : x[1] < i
    BY <1>2, <1>3, TableFacts
  <2> QED
    BY <1>1, <1>3, <2>1
<1>4. CASE full # {}
  <2>1. full \in SUBSET (0 .. tablelength) /\ tablelength \in Nat
    BY TableFacts
  <2>2. Min(full) \in full /\ \A j \in full : Min(full) <= j
    <3> HIDE DEF full
    <3> QED
      BY <1>4, <2>1, LeastOf
  <2> DEFINE m == Min(full)
  <2>3. m \in DOMAIN table /\ m \in Nat /\ i <= m /\ table[m] # <<>>
    BY <2>1, <2>2
  <2> HIDE DEF m, full
  <2>4. 1 \in 1 .. Len(table[m])
    BY <2>3, TableFacts
  <2>5. <<m, 1>> \in Spots(table) /\ EntryAt(table, <<m, 1>>) = table[m][1]
    BY <2>3, <2>4, TableFacts
  <2>6. \A x \in Spots(table) : i <= x[1] => m <= x[1]
    BY <1>2, <2>2 DEF m
  <2> QED
    BY <1>1, <1>4, <2>3, <2>5, <2>6 DEF m
<1> QED
  BY <1>3, <1>4

\* An iterator that stands at a spot knows where it is; one that is where it thinks
\* stands at a spot.
LEMMA StandsThere ==
  ASSUME TableTypes, ContentInv
  PROVE  /\ \A x \in Spots(table) : StandsAt(x) => itr.e # NULL /\ Standing
         /\ itr.e # NULL /\ Standing => \E x \in Spots(table) : StandsAt(x)
<1>1. ASSUME NEW x \in Spots(table), StandsAt(x) PROVE itr.e # NULL /\ Standing
  <2>1. itr.e = EntryAt(table, x).at /\ itr.index = x[1] /\ itr.parent = AddressAt(x[1], x[2] - 1)
    BY <1>1 DEF StandsAt
  <2> QED
    BY <2>1, Placed, TableFacts DEF Standing
<1>2. ASSUME itr.e # NULL, Standing PROVE \E x \in Spots(table) : StandsAt(x)
  <2>1. itr.index \in DOMAIN table /\ \E p \in DOMAIN table[itr.index] : table[itr.index][p].at = itr.e
    BY <1>2 DEF Standing, BucketOf
  <2>2. PICK p \in 1 .. Len(table[itr.index]) : table[itr.index][p].at = itr.e
    BY <2>1, TableFacts
  <2> DEFINE x == <<itr.index, p>>
  <2>3. x \in Spots(table) /\ EntryAt(table, x).at = itr.e
    BY <2>1, <2>2, TableFacts
  <2>4. PlaceIn(itr.index, itr.e) = p
    BY <2>3, Placed
  <2>5. itr.parent = AddressAt(itr.index, p - 1)
    BY <1>2, <2>4 DEF Standing
  <2> QED
    BY <2>3, <2>5 DEF StandsAt, TableTypes
<1> QED
  BY <1>1, <1>2

\* Where hashtable_iterator_advance goes from a spot: to the next one, and nothing is
\* left out; or to the end, and there is nothing behind (hashtable_itr.c:49-75).
LEMMA AdvancedIs ==
  ASSUME TableTypes, ContentInv, NEW x \in Spots(table), StandsAt(x)
  PROVE  \/ \E z \in Spots(table) :
              /\ \/ /\ z = <<x[1], x[2] + 1>>
                    /\ Advanced = [e |-> EntryAt(table, z).at, parent |-> itr.e, index |-> z[1]]
                 \/ /\ x[1] < z[1] /\ z[2] = 1
                    /\ Advanced = [e |-> EntryAt(table, z).at, parent |-> NULL, index |-> z[1]]
              /\ \A y \in Spots(table) : Earlier(y, z) <=> y = x \/ Earlier(y, x)
         \/ /\ Advanced = [e |-> NULL, parent |-> NULL, index |-> tablelength]
            /\ \A y \in Spots(table) : y = x \/ Earlier(y, x)
<1> DEFINE i == x[1]
           next == AddressAt(i, x[2] + 1)
<1>1. /\ i \in DOMAIN table /\ i \in Nat /\ x[2] \in 1 .. Len(table[i]) /\ x = <<i, x[2]>>
      /\ Len(table[i]) \in Nat /\ DOMAIN table[i] = 1 .. Len(table[i])
  BY TableFacts
<1>2. \A y \in Spots(table) : y = <<y[1], y[2]>> /\ y[1] \in Nat /\ y[2] \in Nat /\ y[2] \in 1 .. Len(table[y[1]])
  BY TableFacts
<1>3. Advanced = IF next # NULL THEN [itr EXCEPT !.e = next, !.parent = itr.e] ELSE FirstFrom(i + 1)
  <2>1. itr.e = EntryAt(table, x).at /\ itr.index = i
    BY DEF StandsAt
  <2>2. BucketOf(itr.e) = {i} /\ PlaceIn(i, itr.e) = x[2]
    BY <2>1, Placed
  <2>3. (CHOOSE b \in BucketOf(itr.e) : TRUE) = i
    BY <2>2
  <2> QED
    BY <2>1, <2>2, <2>3 DEF Advanced
<1>4. \A y, z \in Spots(table) : Earlier(y, x) /\ Earlier(x, z) => Earlier(y, z)
  BY TableFacts, SpotsOrdered
<1>5. CASE x[2] + 1 \in 1 .. Len(table[i])
  <2> DEFINE z == <<i, x[2] + 1>>
  <2>1. z \in Spots(table) /\ EntryAt(table, z) = table[i][x[2] + 1]
    BY <1>1, <1>5, TableFacts
  <2>2. next = EntryAt(table, z).at /\ next # NULL
    BY <1>1, <1>5, <2>1, TableFacts DEF AddressAt
  <2>3. Advanced = [e |-> EntryAt(table, z).at, parent |-> itr.e, index |-> z[1]]
    <3>1. itr.index = i
      BY DEF StandsAt
    <3> QED
      BY <1>3, <2>2, <3>1 DEF TableTypes
  <2>4. \A y \in Spots(table) : Earlier(y, z) => y = x \/ Earlier(y, x)
    <3> SUFFICES ASSUME NEW y \in Spots(table), Earlier(y, z) PROVE y = x \/ Earlier(y, x)
      OBVIOUS
    <3>1. y[1] < i \/ (y[1] = i /\ y[2] < x[2] + 1)
      BY DEF Earlier
    <3>2. y[1] < i \/ (y[1] = i /\ y[2] < x[2]) \/ (y[1] = i /\ y[2] = x[2])
      BY <1>1, <1>2, <3>1
    <3> QED
      BY <1>1, <1>2, <3>2 DEF Earlier
  <2>5. Earlier(x, z)
    BY <1>1 DEF Earlier
  <2> QED
    BY <1>4, <2>1, <2>3, <2>4, <2>5
<1>6. CASE x[2] + 1 \notin 1 .. Len(table[i])
  <2>1. Advanced = FirstFrom(i + 1) /\ x[2] = Len(table[i])
    BY <1>1, <1>3, <1>6 DEF AddressAt
  <2>2. \A y \in Spots(table) : y[1] < i + 1 => y = x \/ Earlier(y, x)
    <3> SUFFICES ASSUME NEW y \in Spots(table), y[1] < i + 1 PROVE y = x \/ Earlier(y, x)
      OBVIOUS
    <3>1. y[1] < i \/ (y[1] = i /\ y[2] <= x[2])
      BY <1>1, <1>2, <2>1
    <3>2. y[1] < i \/ (y[1] = i /\ y[2] < x[2]) \/ (y[1] = i /\ y[2] = x[2])
      BY <1>1, <1>2, <3>1
    <3> QED
      BY <1>1, <1>2, <3>2 DEF Earlier
  <2>3. CASE /\ FirstFrom(i + 1) = [e |-> NULL, parent |-> NULL, index |-> tablelength]
             /\ \A y \in Spots(table) : y[1] < i + 1
    BY <2>1, <2>2, <2>3
  <2>4. ASSUME NEW m \in Nat, i + 1 <= m, <<m, 1>> \in Spots(table),
               FirstFrom(i + 1) = [e |-> EntryAt(table, <<m, 1>>).at, parent |-> NULL, index |-> m],
               \A y \in Spots(table) : i + 1 <= y[1] => m <= y[1]
        PROVE  \E z \in Spots(table) :
                 /\ x[1] < z[1] /\ z[2] = 1
                 /\ Advanced = [e |-> EntryAt(table, z).at, parent |-> NULL, index |-> z[1]]
                 /\ \A y \in Spots(table) : Earlier(y, z) <=> y = x \/ Earlier(y, x)
    <3> DEFINE z == <<m, 1>>
    <3>1. x[1] < z[1] /\ z[2] = 1
      BY <1>1, <2>4
    <3>2. ASSUME NEW y \in Spots(table), Earlier(y, z) PROVE y = x \/ Earlier(y, x)
      <4>1. y[1] < m
        BY <1>2, <3>2 DEF Earlier
      <4>2. y[1] < i + 1
        BY <1>1, <1>2, <2>4, <4>1
      <4> QED
        BY <2>2, <4>2
    <3>3. Earlier(x, z)
      BY <3>1 DEF Earlier
    <3> QED
      BY <1>4, <2>1, <2>4, <3>1, <3>2, <3>3
  <2>5. i + 1 \in Nat
    BY <1>1
  <2> HIDE DEF i
  <2> QED
    BY <2>3, <2>4, <2>5, FirstFromIs
<1> QED
  BY <1>5, <1>6

\* Wherever the iterator goes, it is a member of its type, even if the table has changed
\* under it.
LEMMA AdvancedType ==
  ASSUME TableTypes, ContentInv, itr.e # NULL, ~Dangling
  PROVE  Advanced \in [e : Nat, parent : Nat, index : Nat]
<1> DEFINE i == CHOOSE b \in BucketOf(itr.e) : TRUE
<1>1. i \in DOMAIN table
  BY DEF Dangling, BucketOf
<1>2. \A p : AddressAt(i, p) \in Nat
  <2> SUFFICES ASSUME NEW p PROVE AddressAt(i, p) \in Nat
    OBVIOUS
  <2> HIDE DEF i
  <2>1. ASSUME p \in DOMAIN table[i] PROVE table[i][p].at \in Nat
    <3>1. p \in 1 .. Len(table[i])
      BY <1>1, <2>1, TableFacts
    <3>2. <<i, p>> \in Spots(table) /\ EntryAt(table, <<i, p>>) = table[i][p]
      BY <1>1, <3>1, TableFacts
    <3>3. EntryAt(table, <<i, p>>).at \in Nat
      BY <3>2, TableFacts
    <3> QED
      BY <3>2, <3>3
  <2> QED
    BY <2>1 DEF AddressAt, NULL
<1>3. FirstFrom(itr.index + 1) \in [e : Nat, parent : Nat, index : Nat]
  <2>1. itr.index + 1 \in Nat /\ tablelength \in Nat /\ NULL \in Nat
    BY TableFacts DEF TableTypes, NULL
  <2>2. \A m \in Nat : <<m, 1>> \in Spots(table) => EntryAt(table, <<m, 1>>).at \in Nat
    BY TableFacts
  <2>3. CASE FirstFrom(itr.index + 1) = [e |-> NULL, parent |-> NULL, index |-> tablelength]
    BY <2>1, <2>3
  <2>4. ASSUME NEW m \in Nat, <<m, 1>> \in Spots(table),
               FirstFrom(itr.index + 1) = [e |-> EntryAt(table, <<m, 1>>).at, parent |-> NULL, index |-> m]
        PROVE  FirstFrom(itr.index + 1) \in [e : Nat, parent : Nat, index : Nat]
    BY <2>1, <2>2, <2>4
  <2> QED
    BY <2>1, <2>3, <2>4, FirstFromIs
<1> HIDE DEF i
<1> QED
  BY <1>2, <1>3 DEF Advanced, TableTypes, i
-----------------------------------------------------------------------------
(* The steps                                                               *)

\* Growing before an insertion keeps what is there, whether there is memory or not
\* (hashtable.c:142-149).
LEMMA GrownIs ==
  ASSUME TableTypes, ContentInv, NEW memory
  PROVE  LET g == Grown(memory)
         IN /\ g.primeindex \in 1 .. Len(Primes) /\ Primes[g.primeindex] \in Nat \ {0}
            /\ SoundTable(g.table, Primes[g.primeindex])
            /\ Entries(g.table) = present
<1>1. \A n \in 1 .. Len(Primes) : Primes[n] \in Nat \ {0}
  BY TableAssumption
<1>2. CASE entrycount + 1 > LoadLimit(tablelength) /\ CanExpand /\ memory
  <2>1. /\ Grown(memory).table = Expand(table, Primes[primeindex + 1])
        /\ Grown(memory).primeindex = primeindex + 1
    BY <1>2 DEF Grown
  <2>2. primeindex + 1 \in 1 .. Len(Primes)
    BY <1>2, TableAssumption DEF CanExpand, TableTypes
  <2>3. Primes[primeindex + 1] \in Nat \ {0}
    BY <1>1, <2>2
  <2>4. SoundTable(Expand(table, Primes[primeindex + 1]), Primes[primeindex + 1])
        /\ Entries(Expand(table, Primes[primeindex + 1])) = Entries(table)
    BY <2>3, TableFacts, ExpandIs DEF ContentInv, SoundTable
  <2> QED
    BY <2>1, <2>2, <2>3, <2>4 DEF ContentInv
<1>3. CASE ~(entrycount + 1 > LoadLimit(tablelength) /\ CanExpand /\ memory)
  <2>1. Grown(memory).table = table /\ Grown(memory).primeindex = primeindex
    BY <1>3 DEF Grown
  <2> QED
    BY <1>1, <2>1 DEF ContentInv, TableTypes, tablelength
<1> QED
  BY <1>2, <1>3

\* An insertion keeps the invariant, whether the table grows for it or not (hashtable.c:133-159).
LEMMA InsertKeeps ==
  ASSUME TableInv, NEW k \in Keys, NEW memory, Insert(k, memory)
  PROVE  TableInv'
<1> DEFINE g == Grown(memory)
           size == Primes[g.primeindex]
           e == [key |-> k, at |-> inserted + 1]
<1>0. TableTypes /\ ContentInv /\ MaxInserts \in Nat /\ inserted \in Nat /\ inserted < MaxInserts
  BY TableAssumption DEF TableInv, TableTypes, Insert
<1>1. /\ g.primeindex \in 1 .. Len(Primes) /\ size \in Nat \ {0}
      /\ SoundTable(g.table, size) /\ Entries(g.table) = present
  BY <1>0, GrownIs
<1>2. /\ table' = [g.table EXCEPT ![IndexFor(size, k)] = <<e>> \o @]
      /\ primeindex' = g.primeindex /\ present' = present \cup {e}
      /\ entrycount' = entrycount + 1 /\ inserted' = inserted + 1
      /\ disturbed' = TRUE /\ itr' = itr
  BY DEF Insert
<1>3. e \in Entry /\ e \notin present /\ e.key = k /\ e.at = inserted + 1
      /\ \A f \in present : f.at < e.at /\ f.at \in Nat
  <2>1. e \in Entry
    BY <1>0 DEF Entry
  <2>2. \A f \in present : f \in Entry /\ f.at <= inserted /\ f.at \in Nat
    BY <1>0, TableFacts DEF ContentInv, Entry
  <2> QED
    BY <1>0, <2>1, <2>2
<1> HIDE DEF g, size, e
<1>4. SoundTable(table', size) /\ Entries(table') = present \cup {e}
  BY <1>1, <1>2, <1>3, HungIs
<1>5. tablelength' = size
  BY <1>2 DEF tablelength, size
<1>6. TableTypes'
  BY <1>0, <1>1, <1>2 DEF TableTypes
<1>7. IsFiniteSet(present') /\ entrycount' = Cardinality(present')
  BY <1>0, <1>2, <1>3, FS_AddElement DEF ContentInv
<1>8. /\ \A f \in present' : f.at <= inserted'
      /\ \A f, h \in present' : f.at = h.at => f = h
  BY <1>0, <1>2, <1>3 DEF ContentInv
<1>9. ContentInv'
  BY <1>2, <1>4, <1>5, <1>7, <1>8 DEF ContentInv
<1>10. SweepInv'
  BY <1>2 DEF SweepInv
<1> QED
  BY <1>6, <1>9, <1>10 DEF TableInv

\* ... and one that finds no memory for its entry (hashtable.c:150-151).
LEMMA InsertOomKeeps ==
  ASSUME TableInv, NEW memory, InsertOom(memory)
  PROVE  TableInv'
<1> DEFINE g == Grown(memory)
<1>0. TableTypes /\ ContentInv /\ MaxInserts \in Nat /\ inserted \in Nat /\ inserted < MaxInserts
  BY TableAssumption DEF TableInv, TableTypes, InsertOom
<1>1. /\ g.primeindex \in 1 .. Len(Primes)
      /\ SoundTable(g.table, Primes[g.primeindex]) /\ Entries(g.table) = present
  BY <1>0, GrownIs
<1>2. /\ table' = g.table /\ primeindex' = g.primeindex
      /\ inserted' = inserted + 1 /\ disturbed' = TRUE
      /\ UNCHANGED <<entrycount, itr, present>>
  BY DEF InsertOom
<1> HIDE DEF g
<1>3. tablelength' = Primes[g.primeindex]
  BY <1>2 DEF tablelength
<1>4. TableTypes'
  BY <1>0, <1>1, <1>2 DEF TableTypes
<1>5. \A f \in present : f.at <= inserted + 1
  BY <1>0, TableFacts DEF ContentInv, Entry
<1>6. ContentInv'
  BY <1>0, <1>1, <1>2, <1>3, <1>5 DEF ContentInv
<1> QED
  BY <1>2, <1>4, <1>6 DEF TableInv, SweepInv

\* An entry taken out of its chain and of what is present (hashtable.c:199-207,
\* hashtable_itr.c:86-108).
LEMMA RemovedIs ==
  ASSUME TableTypes, ContentInv, NEW x \in Spots(table),
         table' = [table EXCEPT ![x[1]] = RemoveAt(@, x[2])],
         present' = present \ {EntryAt(table, x)},
         entrycount' = entrycount - 1, primeindex' = primeindex, inserted' = inserted
  PROVE  ContentInv'
<1>1. SoundTable(table, tablelength) /\ tablelength \in Nat
  BY TableFacts DEF ContentInv
<1>2. SoundTable(table', tablelength) /\ Entries(table') = Entries(table) \ {EntryAt(table, x)}
  BY <1>1, CutIs
<1>3. tablelength' = tablelength
  BY DEF tablelength
<1>4. EntryAt(table, x) \in present
  BY TableFacts
<1>5. IsFiniteSet(present') /\ entrycount' = Cardinality(present')
  BY <1>4, FS_RemoveElement DEF ContentInv
<1>6. /\ \A f \in present' : f.at <= inserted'
      /\ \A f, h \in present' : f.at = h.at => f = h
  BY DEF ContentInv
<1> QED
  BY <1>2, <1>3, <1>5, <1>6 DEF ContentInv

\* A key taken out keeps the invariant (hashtable.c:184-212).
LEMMA RemoveKeyKeeps ==
  ASSUME TableInv, NEW k \in Keys, RemoveKey(k)
  PROVE  TableInv'
<1> DEFINE i == IndexFor(tablelength, k)
           p == Position(k)
           x == <<i, p>>
<1>0. TableTypes /\ ContentInv
  BY DEF TableInv
<1>1. i \in DOMAIN table /\ p \in 1 .. Len(table[i])
  BY <1>0, PositionIs DEF RemoveKey
<1>2. /\ table' = [table EXCEPT ![i] = RemoveAt(@, p)] /\ present' = present \ {table[i][p]}
      /\ entrycount' = entrycount - 1 /\ disturbed' = TRUE
      /\ primeindex' = primeindex /\ inserted' = inserted /\ itr' = itr
  BY DEF RemoveKey
<1> HIDE DEF i, p
<1>3. x \in Spots(table) /\ EntryAt(table, x) = table[i][p]
  BY <1>0, <1>1, TableFacts
<1>4. ContentInv'
  BY <1>0, <1>2, <1>3, RemovedIs
<1> QED
  BY <1>0, <1>2, <1>4 DEF TableInv, TableTypes, SweepInv

\* A step that leaves the table alone leaves its part of the invariant alone.
LEMMA TableLeftAlone ==
  ASSUME TableTypes, ContentInv, UNCHANGED <<table, primeindex, entrycount, inserted, present>>,
         itr' \in [e : Nat, parent : Nat, index : Nat]
  PROVE  /\ TableTypes' /\ ContentInv'
         /\ Spots(table') = Spots(table)
         /\ \A x : EntryAt(table', x) = EntryAt(table, x)
         /\ \A i, p : AddressAt(i, p)' = AddressAt(i, p)
<1>1. tablelength' = tablelength
  BY DEF tablelength
<1> QED
  BY <1>1 DEF TableTypes, ContentInv, AddressAt

\* A new iterator stands on the first entry (hashtable_itr.c:16-38).
LEMMA IterateKeeps ==
  ASSUME TableInv, Iterate
  PROVE  TableInv'
<1>0. TableTypes /\ ContentInv /\ 0 \in Nat
  BY DEF TableInv
<1>1. /\ itr' = FirstFrom(0) /\ seen' = {itr'.e} \ {NULL} /\ disturbed' = FALSE
      /\ UNCHANGED <<table, primeindex, entrycount, inserted, present>>
  BY DEF Iterate
<1>2. CASE /\ FirstFrom(0) = [e |-> NULL, parent |-> NULL, index |-> tablelength]
           /\ \A x \in Spots(table) : x[1] < 0
  <2>1. itr'.e = NULL /\ itr' \in [e : Nat, parent : Nat, index : Nat]
    BY <1>0, <1>1, <1>2, TableFacts DEF NULL
  <2>2. TableTypes' /\ ContentInv'
    BY <1>0, <1>1, <2>1, TableLeftAlone
  <2>3. \A x \in Spots(table) : FALSE
    BY <1>0, <1>2, TableFacts
  <2>4. present = {}
    BY <1>0, <2>3, TableFacts
  <2> QED
    BY <1>1, <2>1, <2>2, <2>4 DEF TableInv, SweepInv
<1>3. ASSUME NEW m \in Nat, <<m, 1>> \in Spots(table),
             FirstFrom(0) = [e |-> EntryAt(table, <<m, 1>>).at, parent |-> NULL, index |-> m],
             \A x \in Spots(table) : 0 <= x[1] => m <= x[1]
      PROVE  TableInv'
  <2> DEFINE z == <<m, 1>>
  <2>1. EntryAt(table, z).at \in Nat /\ EntryAt(table, z).at # NULL
    BY <1>0, <1>3, TableFacts
  <2>2. itr' = [e |-> EntryAt(table, z).at, parent |-> NULL, index |-> m]
        /\ itr' \in [e : Nat, parent : Nat, index : Nat]
    BY <1>1, <1>3, <2>1 DEF NULL
  <2>3. /\ TableTypes' /\ ContentInv' /\ Spots(table') = Spots(table)
        /\ \A x : EntryAt(table', x) = EntryAt(table, x)
    BY <1>0, <1>1, <2>2, TableLeftAlone
  <2>4. AddressAt(m, 0)' = NULL
    <3>1. m \in DOMAIN table /\ DOMAIN table[m] = 1 .. Len(table[m]) /\ Len(table[m]) \in Nat
      <4>1. z[1] \in DOMAIN table
        BY <1>0, <1>3, TableFacts
      <4> QED
        BY <1>0, <4>1, TableFacts
    <3>2. 0 \notin DOMAIN table[m] /\ table' = table
      BY <1>1, <3>1
    <3> QED
      BY <3>2 DEF AddressAt
  <2>5. StandsAt(z)'
    BY <2>2, <2>3, <2>4 DEF StandsAt
  <2>6. \A y \in Spots(table) : ~Earlier(y, z)
    <3> SUFFICES ASSUME NEW y \in Spots(table) PROVE ~Earlier(y, z)
      OBVIOUS
    <3>1. /\ y[1] \in Nat /\ y[2] \in 1 .. Len(table[y[1]]) /\ y[2] \in Nat
      BY <1>0, TableFacts
    <3>2. m <= y[1] /\ 1 <= y[2]
      BY <1>3, <3>1
    <3> QED
      BY <3>1, <3>2 DEF Earlier
  <2>7. seen' = {EntryAt(table, z).at}
    BY <1>1, <2>1, <2>2
  <2>8. SweptTo(z)'
    <3>1. \A y \in Spots(table) : EntryAt(table, y).at = EntryAt(table, z).at => y = z
      BY <1>0, <1>3, TableFacts
    <3> QED
      BY <2>3, <2>6, <2>7, <3>1 DEF SweptTo
  <2>9. itr'.e # NULL
    BY <2>1, <2>2
  <2>10. SweepInv'
    BY <1>3, <2>3, <2>5, <2>8, <2>9 DEF SweepInv
  <2> QED
    BY <2>3, <2>10 DEF TableInv
<1> QED
  BY <1>0, <1>2, <1>3, FirstFromIs

\* An iterator that goes on has stood on all it has passed (hashtable_itr.c:45-75).
LEMMA AdvanceKeeps ==
  ASSUME TableInv, Advance
  PROVE  TableInv'
<1>0. TableTypes /\ ContentInv /\ itr.e # NULL /\ ~Dangling
  BY DEF TableInv, Advance
<1>1. /\ itr' = Advanced /\ seen' = seen \cup ({itr'.e} \ {NULL}) /\ disturbed' = disturbed
      /\ UNCHANGED <<table, primeindex, entrycount, inserted, present>>
  BY DEF Advance
<1>2. itr' \in [e : Nat, parent : Nat, index : Nat]
  BY <1>0, <1>1, AdvancedType
<1>3. /\ TableTypes' /\ ContentInv' /\ Spots(table') = Spots(table)
      /\ \A x : EntryAt(table', x) = EntryAt(table, x)
      /\ \A i, p : AddressAt(i, p)' = AddressAt(i, p)
  BY <1>0, <1>1, <1>2, TableLeftAlone
<1>4. CASE disturbed
  BY <1>1, <1>3, <1>4 DEF TableInv, SweepInv
<1>5. CASE ~disturbed
  <2>1. PICK x \in Spots(table) : StandsAt(x) /\ SweptTo(x)
    BY <1>0, <1>5 DEF TableInv, SweepInv
  <2>2. CASE /\ Advanced = [e |-> NULL, parent |-> NULL, index |-> tablelength]
             /\ \A y \in Spots(table) : y = x \/ Earlier(y, x)
    <3>1. \A e \in present : e.at \in seen'
      BY <1>0, <1>1, <2>1, <2>2, TableFacts DEF SweptTo
    <3>2. itr'.e = NULL /\ present' = present
      BY <1>1, <2>2
    <3> QED
      BY <1>3, <3>1, <3>2 DEF TableInv, SweepInv
  <2>3. ASSUME NEW z \in Spots(table),
               \/ /\ z = <<x[1], x[2] + 1>>
                  /\ Advanced = [e |-> EntryAt(table, z).at, parent |-> itr.e, index |-> z[1]]
               \/ /\ x[1] < z[1] /\ z[2] = 1
                  /\ Advanced = [e |-> EntryAt(table, z).at, parent |-> NULL, index |-> z[1]],
               \A y \in Spots(table) : Earlier(y, z) <=> y = x \/ Earlier(y, x)
        PROVE  TableInv'
    <3>1. EntryAt(table, z).at # NULL /\ itr'.e = EntryAt(table, z).at
      BY <1>0, <1>1, <2>3, TableFacts, SMTT(30)
    <3>2. StandsAt(z)'
      <4>1. CASE /\ z = <<x[1], x[2] + 1>>
                 /\ Advanced = [e |-> EntryAt(table, z).at, parent |-> itr.e, index |-> z[1]]
        <5>1. x[2] \in 1 .. Len(table[x[1]]) /\ x[1] \in DOMAIN table
              /\ DOMAIN table[x[1]] = 1 .. Len(table[x[1]]) /\ x[2] \in Nat
              /\ EntryAt(table, x) = table[x[1]][x[2]]
          BY <1>0, TableFacts
        <5>2. AddressAt(x[1], x[2]) = itr.e
          BY <2>1, <5>1 DEF AddressAt, StandsAt
        <5>3. z[1] = x[1] /\ z[2] - 1 = x[2]
          BY <4>1, <5>1
        <5>4. AddressAt(z[1], z[2] - 1)' = itr.e
          BY <1>3, <5>2, <5>3
        <5> QED
          BY <1>1, <1>3, <4>1, <5>4 DEF StandsAt
      <4>2. CASE /\ x[1] < z[1] /\ z[2] = 1
                 /\ Advanced = [e |-> EntryAt(table, z).at, parent |-> NULL, index |-> z[1]]
        <5>1. z[1] \in DOMAIN table /\ DOMAIN table[z[1]] = 1 .. Len(table[z[1]])
              /\ z[2] - 1 = 0 /\ 0 \notin 1 .. Len(table[z[1]])
          BY <1>0, <4>2, TableFacts
        <5>2. AddressAt(z[1], z[2] - 1) = NULL
          BY <5>1 DEF AddressAt
        <5>3. AddressAt(z[1], z[2] - 1)' = NULL
          BY <1>3, <5>2
        <5> QED
          BY <1>1, <1>3, <4>2, <5>3 DEF StandsAt
      <4> QED
        BY <2>3, <4>1, <4>2
    <3>3. SweptTo(z)'
      <4>1. seen' = seen \cup {EntryAt(table, z).at}
        BY <1>1, <3>1
      <4>2. \A y \in Spots(table) : EntryAt(table, y).at = EntryAt(table, z).at => y = z
        BY <1>0, TableFacts
      <4>3. \A y \in Spots(table) : EntryAt(table, y).at \in seen' <=> y = z \/ Earlier(y, z)
        BY <2>1, <2>3, <4>1, <4>2 DEF SweptTo
      <4> QED
        BY <1>3, <4>3 DEF SweptTo
    <3> QED
      BY <1>3, <3>1, <3>2, <3>3 DEF TableInv, SweepInv
  <2> QED
    BY <1>0, <2>1, <2>2, <2>3, AdvancedIs
<1> QED
  BY <1>4, <1>5

\* What an iterator does when it has been told to find a key: it stands there, and nobody
\* promises that it has been anywhere (hashtable_itr.c:122-165).
LEMMA IterSearchKeeps ==
  ASSUME TableInv, NEW k \in Keys, IterSearch(k)
  PROVE  TableInv'
<1> DEFINE i == IndexFor(tablelength, k)
<1>0. TableTypes /\ ContentInv
  BY DEF TableInv
<1>1. /\ itr' = [e |-> AddressAt(i, Position(k)), parent |-> AddressAt(i, Position(k) - 1), index |-> i]
      /\ disturbed' = TRUE
      /\ UNCHANGED <<table, primeindex, entrycount, inserted, present>>
  BY DEF IterSearch
<1>2. i \in DOMAIN table /\ i \in Nat
  BY <1>0, PositionIs, TableFacts
<1>3. \A p : AddressAt(i, p) \in Nat
  <2> SUFFICES ASSUME NEW p \in DOMAIN table[i] PROVE table[i][p].at \in Nat
    BY DEF AddressAt, NULL
  <2> HIDE DEF i
  <2>1. p \in 1 .. Len(table[i])
    BY <1>0, <1>2, TableFacts
  <2>2. <<i, p>> \in Spots(table) /\ EntryAt(table, <<i, p>>) = table[i][p]
    BY <1>0, <1>2, <2>1, TableFacts
  <2>3. EntryAt(table, <<i, p>>).at \in Nat
    BY <1>0, <2>2, TableFacts
  <2> QED
    BY <2>2, <2>3
<1> HIDE DEF i
<1>4. itr' \in [e : Nat, parent : Nat, index : Nat]
  BY <1>1, <1>2, <1>3
<1>5. TableTypes' /\ ContentInv'
  BY <1>0, <1>1, <1>4, TableLeftAlone
<1> QED
  BY <1>1, <1>5 DEF TableInv, SweepInv

\* Where the entries that are left stand: those earlier in the chain, and those of the other
\* chains, where they were.
LEMMA CutSpots ==
  ASSUME NEW size \in Nat, NEW t \in Table(size), NEW u \in Table(size), NEW x \in Spots(t),
         Len(u[x[1]]) = Len(t[x[1]]) - 1,
         \A q \in 1 .. Len(u[x[1]]) : u[x[1]][q] = t[x[1]][IF q < x[2] THEN q ELSE q + 1],
         \A j \in 0 .. size - 1 : j # x[1] => u[j] = t[j]
  PROVE  /\ \A y \in Spots(u) : \E w \in Spots(t) : w[1] = y[1] /\ EntryAt(u, y) = EntryAt(t, w)
         /\ \A y \in Spots(u) : Earlier(y, x) => y \in Spots(t) /\ EntryAt(u, y) = EntryAt(t, y)
<1>1. /\ Len(u[x[1]]) = Len(t[x[1]]) - 1
      /\ \A q \in 1 .. Len(u[x[1]]) : u[x[1]][q] = t[x[1]][IF q < x[2] THEN q ELSE q + 1]
      /\ \A j \in 0 .. size - 1 : j # x[1] => u[j] = t[j]
  OBVIOUS
<1>2. ASSUME NEW y \in Spots(u)
      PROVE  /\ y = <<y[1], y[2]>> /\ y[1] \in 0 .. size - 1 /\ y[2] \in 1 .. Len(u[y[1]])
             /\ y[2] \in Nat /\ EntryAt(u, y) = u[y[1]][y[2]]
  <2>1. y = <<y[1], y[2]>> /\ y[1] \in 0 .. size - 1 /\ y[2] \in 1 .. Len(u[y[1]])
    BY SpotsOf
  <2>2. Len(u[y[1]]) \in Nat
    BY <2>1 DEF Table
  <2> QED
    BY <2>1, <2>2 DEF EntryAt
<1>3. x[1] \in 0 .. size - 1 /\ x[2] \in 1 .. Len(t[x[1]]) /\ Len(t[x[1]]) \in Nat
  <2>1. x[1] \in 0 .. size - 1 /\ x[2] \in 1 .. Len(t[x[1]])
    BY SpotsOf
  <2> QED
    BY <2>1 DEF Table
<1>4. \A i \in 0 .. size - 1 : \A p \in 1 .. Len(t[i]) : <<i, p>> \in Spots(t) /\ EntryAt(t, <<i, p>>) = t[i][p]
  BY SpotsOf
<1>5. ASSUME NEW y \in Spots(u)
      PROVE  \E w \in Spots(t) : w[1] = y[1] /\ EntryAt(u, y) = EntryAt(t, w)
  <2>1. CASE y[1] # x[1]
    <3>1. u[y[1]] = t[y[1]]
      BY <1>1, <1>2, <2>1
    <3>2. <<y[1], y[2]>> \in Spots(t) /\ EntryAt(t, <<y[1], y[2]>>) = t[y[1]][y[2]]
      BY <1>2, <1>4, <3>1
    <3> QED
      BY <1>2, <3>1, <3>2
  <2>2. CASE y[1] = x[1]
    <3> DEFINE q == IF y[2] < x[2] THEN y[2] ELSE y[2] + 1
    <3>1. q \in 1 .. Len(t[x[1]])
      BY <1>1, <1>2, <1>3, <2>2
    <3>2. u[y[1]][y[2]] = t[x[1]][q]
      <4>1. y[2] \in 1 .. Len(u[x[1]])
        BY <1>2, <2>2
      <4>2. u[x[1]][y[2]] = t[x[1]][IF y[2] < x[2] THEN y[2] ELSE y[2] + 1]
        BY <1>1, <4>1
      <4> QED
        BY <2>2, <4>2
    <3> HIDE DEF q
    <3>3. <<x[1], q>> \in Spots(t) /\ EntryAt(t, <<x[1], q>>) = t[x[1]][q]
      BY <1>3, <1>4, <3>1
    <3>4. <<x[1], q>>[1] = y[1]
      BY <2>2
    <3> QED
      BY <1>2, <3>2, <3>3, <3>4
  <2> QED
    BY <2>1, <2>2
<1>6. ASSUME NEW y \in Spots(u), Earlier(y, x)
      PROVE  y \in Spots(t) /\ EntryAt(u, y) = EntryAt(t, y)
  <2>1. CASE y[1] # x[1]
    <3>1. u[y[1]] = t[y[1]]
      BY <1>1, <1>2, <2>1
    <3>2. <<y[1], y[2]>> \in Spots(t) /\ EntryAt(t, <<y[1], y[2]>>) = t[y[1]][y[2]]
      BY <1>2, <1>4, <3>1
    <3> QED
      BY <1>2, <3>1, <3>2
  <2>2. CASE y[1] = x[1]
    <3>1. y[2] < x[2] /\ y[2] \in 1 .. Len(t[x[1]])
      BY <1>2, <1>3, <1>6, <2>2 DEF Earlier
    <3>2. u[y[1]][y[2]] = t[y[1]][y[2]]
      BY <1>1, <1>2, <2>2, <3>1, SMTT(30)
    <3>3. <<y[1], y[2]>> \in Spots(t) /\ EntryAt(t, <<y[1], y[2]>>) = t[y[1]][y[2]]
      BY <1>3, <1>4, <2>2, <3>1
    <3> QED
      BY <1>2, <3>2, <3>3
  <2> QED
    BY <2>1, <2>2
<1> QED
  BY <1>5, <1>6

\* An iterator that removes what it stands on goes on to the next entry, which now is
\* where that was, or in another chain; nothing is left out (hashtable_itr.c:82-117).
LEMMA IterRemoveKeeps ==
  ASSUME TableInv, IterRemove
  PROVE  TableInv'
<1>0. TableTypes /\ ContentInv /\ itr.e # NULL /\ Standing
  BY DEF TableInv, IterRemove
<1>1. PICK x \in Spots(table) : StandsAt(x) /\ (~disturbed => SweptTo(x))
  <2>1. CASE disturbed
    BY <1>0, <2>1, StandsThere
  <2>2. CASE ~disturbed
    BY <1>0, <2>2 DEF TableInv, SweepInv
  <2> QED
    BY <2>1, <2>2
<1>2. x[1] = itr.index /\ PlaceIn(itr.index, itr.e) = x[2] /\ itr.e = EntryAt(table, x).at
      /\ itr.parent = AddressAt(x[1], x[2] - 1)
  BY <1>0, <1>1, Placed DEF StandsAt
<1>3. /\ table' = [table EXCEPT ![x[1]] = RemoveAt(@, x[2])]
      /\ present' = present \ {EntryAt(table, x)}
      /\ entrycount' = entrycount - 1 /\ itr' = Corrected /\ disturbed' = disturbed
      /\ seen' = seen \cup ({itr'.e} \ {NULL})
      /\ primeindex' = primeindex /\ inserted' = inserted
  <2>1. EntryAt(table, x) = table[x[1]][x[2]]
    BY <1>0, TableFacts
  <2> QED
    BY <1>2, <2>1 DEF IterRemove
<1>4. ContentInv'
  BY <1>0, <1>3, RemovedIs
<1>5. TableTypes'
  <2>1. ~Dangling
    BY <1>0 DEF Standing, Dangling
  <2>2. Advanced \in [e : Nat, parent : Nat, index : Nat]
    BY <1>0, <2>1, AdvancedType
  <2>3. Corrected \in [e : Nat, parent : Nat, index : Nat]
    BY <1>0, <2>2 DEF Corrected, TableTypes
  <2> QED
    BY <1>0, <1>3, <2>3 DEF TableTypes
<1>6. CASE disturbed
  BY <1>3, <1>4, <1>5, <1>6 DEF TableInv, SweepInv
<1>7. CASE ~disturbed
  <2>0. /\ tablelength \in Nat /\ SoundTable(table, tablelength)
        /\ DOMAIN table = 0 .. tablelength - 1
        /\ x[1] \in DOMAIN table /\ x[2] \in 1 .. Len(table[x[1]]) /\ x[1] \in Nat /\ x[2] \in Nat
        /\ x = <<x[1], x[2]>> /\ Len(table[x[1]]) \in Nat
        /\ DOMAIN table[x[1]] = 1 .. Len(table[x[1]])
    BY <1>0, TableFacts DEF ContentInv
  <2>1. /\ table' \in Table(tablelength)
        /\ \A y \in Spots(table') : \E w \in Spots(table) :
             w[1] = y[1] /\ EntryAt(table', y) = EntryAt(table, w)
        /\ \A y \in Spots(table') : Earlier(y, x) =>
             y \in Spots(table) /\ EntryAt(table', y) = EntryAt(table, y)
        /\ Len(table'[x[1]]) = Len(table[x[1]]) - 1
        /\ \A q \in 1 .. Len(table'[x[1]]) :
             table'[x[1]][q] = table[x[1]][IF q < x[2] THEN q ELSE q + 1]
        /\ \A j \in 0 .. tablelength - 1 : j # x[1] => table'[j] = table[j]
    <3>1. /\ SoundTable(table', tablelength)
          /\ Len(table'[x[1]]) = Len(table[x[1]]) - 1
          /\ \A q \in 1 .. Len(table'[x[1]]) :
               table'[x[1]][q] = table[x[1]][IF q < x[2] THEN q ELSE q + 1]
          /\ \A j \in 0 .. tablelength - 1 : j # x[1] => table'[j] = table[j]
      BY <1>3, <2>0, CutIs
    <3>2. table \in Table(tablelength) /\ table' \in Table(tablelength)
      BY <2>0, <3>1 DEF SoundTable
    <3> QED
      BY <2>0, <3>1, <3>2, CutSpots
  <2>2. /\ \A i \in 0 .. tablelength - 1 : DOMAIN table'[i] = 1 .. Len(table'[i])
        /\ \A i \in 0 .. tablelength - 1 : \A p \in 1 .. Len(table'[i]) :
             <<i, p>> \in Spots(table') /\ EntryAt(table', <<i, p>>) = table'[i][p]
    <3>1. tablelength \in Nat /\ table' \in Table(tablelength)
      BY <2>0, <2>1
    <3> QED
      BY <3>1, PlacesAreSpots
  <2>3. SweptTo(x)
    BY <1>1, <1>7
  <2>4. \A y, w \in Spots(table') : EntryAt(table', y).at = EntryAt(table', w).at => y = w
    <3>1. \A y \in Spots(table') : EntryAt(table', y) \in present'
      BY <1>4 DEF ContentInv, Entries
    <3> QED
      BY <1>4, <3>1 DEF ContentInv, SoundTable, Once
  <2>5. \A y \in Spots(table') :
          (\E w \in Spots(table) : EntryAt(table, w).at = EntryAt(table', y).at /\ (w = x \/ Earlier(w, x)))
            => Earlier(y, x)
    <3> SUFFICES ASSUME NEW y \in Spots(table'), NEW w \in Spots(table),
                        EntryAt(table, w).at = EntryAt(table', y).at, w = x \/ Earlier(w, x)
                 PROVE  Earlier(y, x)
      OBVIOUS
    <3>1. PICK v \in Spots(table) : v[1] = y[1] /\ EntryAt(table', y) = EntryAt(table, v)
      BY <2>1
    <3>2. w = v /\ EntryAt(table, v) # EntryAt(table, x)
      <4>1. EntryAt(table', y) \in present'
        BY <1>4 DEF ContentInv, Entries
      <4>2. w = v
        BY <1>0, <3>1, TableFacts
      <4> QED
        BY <1>3, <3>1, <4>1, <4>2
    <3>3. /\ Earlier(v, x) /\ v = <<v[1], v[2]>> /\ v[1] \in Nat /\ v[2] \in Nat
          /\ v[2] \in 1 .. Len(table[v[1]]) /\ EntryAt(table, v) = table[v[1]][v[2]]
      BY <1>0, <3>2, TableFacts
    <3>4. CASE v[1] < x[1]
      BY <3>1, <3>4 DEF Earlier
    <3>5. CASE v[1] = x[1] /\ v[2] < x[2]
      <4>1. v[2] \in 1 .. Len(table'[x[1]])
        BY <2>0, <2>1, <3>3, <3>5
      <4>2. table'[x[1]][v[2]] = table[x[1]][v[2]]
        BY <2>1, <3>5, <4>1
      <4>3. <<x[1], v[2]>> \in Spots(table') /\ EntryAt(table', <<x[1], v[2]>>) = table'[x[1]][v[2]]
        BY <2>0, <2>2, <4>1
      <4>4. v \in Spots(table') /\ EntryAt(table', v) = EntryAt(table, v)
        BY <3>3, <3>5, <4>2, <4>3
      <4>5. y = v
        BY <2>4, <3>1, <4>4
      <4> QED
        BY <3>3, <4>5
    <3> QED
      BY <3>3, <3>4, <3>5 DEF Earlier
  <2>6. CASE /\ Advanced = [e |-> NULL, parent |-> NULL, index |-> tablelength]
             /\ \A y \in Spots(table) : y = x \/ Earlier(y, x)
    <3>1. itr'.e = NULL
      BY <1>0, <1>3, <2>6 DEF Corrected
    <3>2. \A e \in present' : e.at \in seen'
      BY <1>0, <1>3, <2>3, <2>6, TableFacts DEF SweptTo
    <3> QED
      BY <1>4, <1>5, <3>1, <3>2 DEF TableInv, SweepInv
  <2>7. ASSUME NEW z \in Spots(table), z = <<x[1], x[2] + 1>>,
               Advanced = [e |-> EntryAt(table, z).at, parent |-> itr.e, index |-> z[1]]
        PROVE  TableInv'
    <3>1. z[1] = x[1] /\ z[2] = x[2] + 1 /\ EntryAt(table, z).at # NULL
          /\ z[2] \in 1 .. Len(table[z[1]]) /\ EntryAt(table, z) = table[z[1]][z[2]]
      BY <1>0, <2>7, TableFacts
    <3>2. itr' = [e |-> EntryAt(table, z).at, parent |-> AddressAt(x[1], x[2] - 1), index |-> x[1]]
      BY <1>2, <1>3, <2>7, <3>1 DEF Corrected
    <3>3. x[2] \in 1 .. Len(table'[x[1]])
      BY <2>0, <2>1, <3>1
    <3>4. x \in Spots(table') /\ EntryAt(table', x) = table'[x[1]][x[2]]
      BY <2>0, <2>2, <3>3
    <3>5. EntryAt(table', x) = EntryAt(table, z)
      BY <2>0, <2>1, <3>1, <3>3, <3>4
    <3>6. AddressAt(x[1], x[2] - 1)' = AddressAt(x[1], x[2] - 1)
      <4>1. CASE x[2] = 1
        <5>1. x[2] - 1 \notin DOMAIN table[x[1]] /\ x[2] - 1 \notin DOMAIN table'[x[1]]
          BY <2>0, <2>2, <4>1
        <5> QED
          BY <5>1 DEF AddressAt
      <4>2. CASE x[2] # 1
        <5>1. x[2] - 1 \in 1 .. Len(table[x[1]]) /\ x[2] - 1 \in 1 .. Len(table'[x[1]])
              /\ x[2] - 1 < x[2]
          BY <2>0, <3>3, <4>2
        <5>2. table'[x[1]][x[2] - 1] = table[x[1]][x[2] - 1]
          BY <2>1, <5>1
        <5> QED
          BY <2>0, <2>2, <5>1, <5>2 DEF AddressAt
      <4> QED
        BY <4>1, <4>2
    <3>7. StandsAt(x)'
      BY <3>2, <3>5, <3>6 DEF StandsAt
    <3>8. SweptTo(x)'
      <4>1. seen' = seen \cup {EntryAt(table', x).at}
        BY <1>3, <3>1, <3>2, <3>5
      <4>2. \A y \in Spots(table') : Earlier(y, x) => EntryAt(table', y).at \in seen'
        BY <2>1, <2>3, <4>1 DEF SweptTo
      <4>3. ASSUME NEW y \in Spots(table'), EntryAt(table', y).at \in seen
            PROVE  Earlier(y, x)
        <5>1. PICK w \in Spots(table) : EntryAt(table', y) = EntryAt(table, w)
          BY <2>1, <4>3
        <5>2. w = x \/ Earlier(w, x)
          BY <2>3, <4>3, <5>1 DEF SweptTo
        <5> QED
          BY <2>5, <4>3, <5>1, <5>2
      <4>4. \A y \in Spots(table') : EntryAt(table', y).at = EntryAt(table', x).at => y = x
        BY <2>4, <3>4
      <4> QED
        BY <4>1, <4>2, <4>3, <4>4 DEF SweptTo
    <3> QED
      BY <1>4, <1>5, <3>1, <3>2, <3>4, <3>7, <3>8 DEF TableInv, SweepInv
  <2>8. ASSUME NEW z \in Spots(table), x[1] < z[1], z[2] = 1,
               Advanced = [e |-> EntryAt(table, z).at, parent |-> NULL, index |-> z[1]],
               \A y \in Spots(table) : Earlier(y, z) <=> y = x \/ Earlier(y, x)
        PROVE  TableInv'
    <3>1. /\ z = <<z[1], 1>> /\ z[1] \in DOMAIN table /\ 1 \in 1 .. Len(table[z[1]]) /\ z[1] # x[1]
          /\ EntryAt(table, z) = table[z[1]][1] /\ EntryAt(table, z).at # NULL
      BY <1>0, <2>0, <2>8, TableFacts, SMTT(30)
    <3>2. itr' = [e |-> EntryAt(table, z).at, parent |-> NULL, index |-> z[1]]
      BY <1>0, <1>3, <2>8 DEF Corrected
    <3>3. table'[z[1]] = table[z[1]]
      BY <2>0, <2>1, <3>1
    <3>4. z \in Spots(table') /\ EntryAt(table', z) = EntryAt(table, z)
      BY <2>0, <2>2, <3>1, <3>3
    <3>5. AddressAt(z[1], z[2] - 1)' = NULL
      <4>1. z[2] - 1 \notin DOMAIN table'[z[1]]
        BY <2>0, <2>2, <2>8, <3>1
      <4> QED
        BY <4>1 DEF AddressAt
    <3>6. StandsAt(z)'
      BY <3>2, <3>4, <3>5 DEF StandsAt
    <3>7. SweptTo(z)'
      <4>1. seen' = seen \cup {EntryAt(table', z).at}
        BY <1>3, <3>1, <3>2, <3>4
      <4>2. ASSUME NEW y \in Spots(table'), Earlier(y, z) PROVE EntryAt(table', y).at \in seen'
        <5>1. y[1] < z[1]
          <6>1. y[2] \in 1 .. Len(table'[y[1]]) /\ y[1] \in 0 .. tablelength - 1
            BY <2>0, <2>1, SpotsOf
          <6>2. ~(y[2] < 1)
            BY <2>1, <6>1 DEF Table
          <6> QED
            BY <2>8, <4>2, <6>2 DEF Earlier
        <5>2. PICK w \in Spots(table) : w[1] = y[1] /\ EntryAt(table', y) = EntryAt(table, w)
          BY <2>1
        <5>3. w = x \/ Earlier(w, x)
          BY <2>8, <5>1, <5>2 DEF Earlier
        <5> QED
          BY <2>3, <4>1, <5>2, <5>3 DEF SweptTo
      <4>3. ASSUME NEW y \in Spots(table'), EntryAt(table', y).at \in seen
            PROVE  Earlier(y, z)
        <5>1. Earlier(y, x)
          <6>1. PICK w \in Spots(table) : EntryAt(table', y) = EntryAt(table, w)
            BY <2>1, <4>3
          <6>2. w = x \/ Earlier(w, x)
            BY <2>3, <4>3, <6>1 DEF SweptTo
          <6> QED
            BY <2>5, <4>3, <6>1, <6>2
        <5>2. y[1] \in Int /\ x[1] \in Int /\ z[1] \in Int
          BY <2>0, <2>1, <3>1, SpotsOf
        <5> QED
          BY <2>8, <5>1, <5>2 DEF Earlier
      <4>4. \A y \in Spots(table') : EntryAt(table', y).at = EntryAt(table', z).at => y = z
        BY <2>4, <3>4
      <4> QED
        BY <4>1, <4>2, <4>3, <4>4 DEF SweptTo
    <3> QED
      BY <1>4, <1>5, <3>1, <3>2, <3>4, <3>6, <3>7 DEF TableInv, SweepInv
  <2> QED
    BY <1>0, <1>1, <2>6, <2>7, <2>8, AdvancedIs
<1> QED
  BY <1>6, <1>7

\* A new table is empty, and as large as the first prime above what was asked for
\* (hashtable.c:24-55).
LEMMA TableInitHolds ==
  TableInit => TableInv
<1> SUFFICES ASSUME TableInit PROVE TableInv
  OBVIOUS
<1>1. PICK minsize \in 0 .. Primes[Len(Primes)] - 1 : Create(minsize)
  BY DEF TableInit
<1> DEFINE larger == {i \in DOMAIN Primes : Primes[i] > minsize}
           first(i) == /\ Primes[i] > minsize
                       /\ \A j \in 1 .. i - 1 : Primes[j] <= minsize
           pindex == CHOOSE i \in DOMAIN Primes : first(i)
<1>2. /\ Len(Primes) \in Nat /\ Len(Primes) \in DOMAIN Primes /\ DOMAIN Primes = 1 .. Len(Primes)
      /\ \A i \in DOMAIN Primes : Primes[i] \in Nat \ {0}
  BY TableAssumption
<1>3. minsize \in Nat /\ minsize < Primes[Len(Primes)]
  BY <1>1, <1>2
<1>4. \E i \in DOMAIN Primes : first(i)
  <2>1. larger # {} /\ larger \in SUBSET (0 .. Len(Primes))
    BY <1>2, <1>3
  <2> HIDE DEF larger
  <2>2. Min(larger) \in larger /\ \A i \in larger : Min(larger) <= i
    BY <1>2, <2>1, LeastOf
  <2> DEFINE m == Min(larger)
  <2>3. m \in DOMAIN Primes /\ Primes[m] > minsize /\ m \in 1 .. Len(Primes)
    BY <1>2, <2>2 DEF larger
  <2> HIDE DEF m
  <2>4. ASSUME NEW j \in 1 .. m - 1 PROVE Primes[j] <= minsize
    <3>1. j \in DOMAIN Primes /\ ~(m <= j)
      BY <1>2, <2>3
    <3>2. j \notin larger
      BY <2>2, <3>1 DEF m
    <3> QED
      BY <1>2, <1>3, <3>1, <3>2 DEF larger
  <2> QED
    BY <2>3, <2>4
<1>5. pindex \in DOMAIN Primes
  <2> HIDE DEF first
  <2> QED
    BY <1>4
<1>6. primeindex = pindex /\ table = EmptyTable(Primes[pindex]) /\ entrycount = 0
  BY <1>1 DEF Create
<1> HIDE DEF pindex
<1>7. itr = NoIterator /\ inserted = 0 /\ present = {} /\ disturbed = TRUE
  BY DEF TableInit
<1>8. tablelength = Primes[pindex] /\ tablelength \in Nat \ {0}
  BY <1>2, <1>5, <1>6 DEF tablelength
<1>9. Spots(table) = {}
  <2>1. DOMAIN table = 0 .. tablelength - 1 /\ \A i \in DOMAIN table : table[i] = <<>>
    BY <1>6, <1>8 DEF EmptyTable
  <2>2. \A i \in DOMAIN table : DOMAIN table[i] = {}
    BY <2>1
  <2> QED
    BY <2>2 DEF Spots
<1>10. table \in Table(tablelength)
  BY <1>6, <1>8 DEF EmptyTable, Table
<1>11. ContentInv
  BY <1>6, <1>7, <1>9, <1>10, FS_EmptySet DEF ContentInv, SoundTable, Once, Hashed, Entries
<1>12. TableTypes
  BY <1>2, <1>5, <1>6, <1>7, TableAssumption DEF TableTypes, NoIterator, NULL
<1> QED
  BY <1>7, <1>11, <1>12 DEF TableInv, SweepInv

\* No step breaks the invariant but by corrupting memory.
LEMMA TableStepKeeps ==
  ASSUME HashInv, [TableNext]_tableVars
  PROVE  HashInv'
<1>1. CASE UNCHANGED tableVars
  <2>1. tablelength' = tablelength /\ \A i, p : AddressAt(i, p)' = AddressAt(i, p)
    BY <1>1 DEF tableVars, tablelength, AddressAt
  <2> QED
    BY <1>1, <2>1 DEF tableVars, HashInv, TableInv, TableTypes, ContentInv, SweepInv, StandsAt, SweptTo
<1>2. CASE TableNext
  <2>1. TableInv
    BY <1>2 DEF TableNext, HashInv
  <2>2. ASSUME NEW k \in Keys, NEW memory \in BOOLEAN, Insert(k, memory) PROVE HashInv'
    BY <2>1, <2>2, InsertKeeps DEF HashInv
  <2>3. ASSUME NEW memory \in BOOLEAN, InsertOom(memory) PROVE HashInv'
    BY <2>1, <2>3, InsertOomKeeps DEF HashInv
  <2>4. ASSUME NEW k \in Keys, RemoveKey(k) PROVE HashInv'
    BY <2>1, <2>4, RemoveKeyKeeps DEF HashInv
  <2>5. ASSUME NEW k \in Keys, IterSearch(k) PROVE HashInv'
    BY <2>1, <2>5, IterSearchKeeps DEF HashInv
  <2>6. CASE Iterate
    BY <2>1, <2>6, IterateKeeps DEF HashInv
  <2>7. CASE Advance
    BY <2>1, <2>7, AdvanceKeeps DEF HashInv
  <2>8. CASE IterRemove
    BY <2>1, <2>8, IterRemoveKeeps DEF HashInv
  <2>9. CASE InsertRealloc \/ IterMisuse
    BY <2>9 DEF InsertRealloc, IterMisuse, HashInv
  <2> QED
    BY <1>2, <2>2, <2>3, <2>4, <2>5, <2>6, <2>7, <2>8, <2>9 DEF TableNext
<1> QED
  BY <1>1, <1>2

\* What the invariant says to a caller: he finds a key if it has been put and not taken out.
LEMMA SearchFinds ==
  ASSUME TableTypes, ContentInv, NEW k \in Keys
  PROVE  IF \E e \in present : e.key = k THEN [key |-> k, at |-> Search(k)] \in present
                                         ELSE Search(k) = NULL
<1> DEFINE i == IndexFor(tablelength, k)
<1>1. /\ i \in DOMAIN table
      /\ Position(k) # 0 => Position(k) \in 1 .. Len(table[i]) /\ table[i][Position(k)].key = k
      /\ Position(k) = 0 => \A p \in 1 .. Len(table[i]) : table[i][p].key # k
  BY PositionIs
<1>2. Search(k) = IF Position(k) = 0 THEN NULL ELSE table[i][Position(k)].at
  BY DEF Search
<1>3. CASE Position(k) = 0
  <2>1. ASSUME NEW e \in present, e.key = k PROVE FALSE
    <3>1. PICK x \in Spots(table) : EntryAt(table, x) = e
      BY TableFacts
    <3>2. x[1] = i
      BY <2>1, <3>1 DEF ContentInv, SoundTable, Hashed
    <3>3. x[2] \in 1 .. Len(table[x[1]]) /\ EntryAt(table, x) = table[x[1]][x[2]]
      BY TableFacts
    <3> HIDE DEF i
    <3> QED
      BY <1>1, <1>3, <2>1, <3>1, <3>2, <3>3
  <2> QED
    BY <1>2, <1>3, <2>1
<1>4. CASE Position(k) # 0
  <2> DEFINE x == <<i, Position(k)>>
             e == EntryAt(table, x)
  <2>1. x \in Spots(table) /\ e = table[i][Position(k)]
    <3> HIDE DEF i
    <3> QED
      BY <1>1, <1>4, TableFacts
  <2>2. e \in present /\ e \in Entry /\ e.key = k /\ e.at = Search(k)
    <3>1. e.key = k /\ e.at = Search(k)
      BY <1>1, <1>2, <1>4, <2>1
    <3> HIDE DEF i, e
    <3>2. e \in present /\ e \in Entry
      BY <2>1, TableFacts DEF e
    <3> QED
      BY <3>1, <3>2
  <2> HIDE DEF i, e, x
  <2>3. e = [key |-> k, at |-> Search(k)]
    BY <2>2 DEF Entry
  <2> QED
    BY <2>2, <2>3
<1> QED
  BY <1>3, <1>4

\* The invariant holds.
THEOREM HashInvariant == TableSpec => []HashInv
<1>1. TableInit => HashInv
  BY TableInitHolds DEF HashInv
<1>2. HashInv /\ [TableNext]_tableVars => HashInv'
  BY TableStepKeeps
<1> QED
  BY <1>1, <1>2, PTL DEF TableSpec

\* The table holds what was put into it and not taken out, each entry once and where a search
\* finds it, as long as no memory has been corrupted; and an iterator under which nobody
\* else changes the table comes by every entry and knows where it stands, whatever it removes
\* on its way (hashtable.c:113-212, hashtable_itr.c:16-165).
THEOREM TableIsKept == TableSpec => []TableKept
<1>1. ASSUME HashInv, ~corrupt PROVE HoldsWhatWasPut
  <2>1. TableTypes /\ ContentInv
    BY <1>1 DEF HashInv, TableInv
  <2> QED
    BY <2>1, SearchFinds DEF HoldsWhatWasPut, ContentInv, SoundTable, Once
<1>2. ASSUME HashInv, ~corrupt PROVE SweepSeesAll
  <2>1. TableTypes /\ ContentInv /\ SweepInv
    BY <1>2 DEF HashInv, TableInv
  <2> QED
    BY <2>1, StandsThere DEF SweepSeesAll, SweepInv
<1>3. HashInv => TableKept
  BY <1>1, <1>2 DEF TableKept, HoldsWhatWasPut, SweepSeesAll
<1> QED
  BY <1>3, HashInvariant, PTL

\* Where an iterator goes on to, it has not been.
LEMMA GoesOn ==
  ASSUME TableInv, ~disturbed, Advance \/ IterRemove, itr'.e # NULL
  PROVE  itr'.e \notin seen
<1>0. TableTypes /\ ContentInv /\ itr.e # NULL
  BY DEF TableInv, Advance, IterRemove
<1>1. PICK x \in Spots(table) : StandsAt(x) /\ SweptTo(x)
  BY <1>0 DEF TableInv, SweepInv
<1>2. itr'.e = Advanced.e
  <2>1. Advanced \in [e : Nat, parent : Nat, index : Nat]
    <3>1. ~Dangling
      BY <1>0, <1>1, Placed DEF Dangling, StandsAt
    <3> QED
      BY <1>0, <3>1, AdvancedType
  <2>2. itr' = Advanced \/ itr' = Corrected
    BY DEF Advance, IterRemove
  <2> QED
    BY <2>1, <2>2 DEF Corrected
<1>3. PICK z \in Spots(table) :
        /\ Advanced.e = EntryAt(table, z).at
        /\ \A y \in Spots(table) : Earlier(y, z) <=> y = x \/ Earlier(y, x)
  BY <1>0, <1>1, <1>2, AdvancedIs
<1>4. ~(z = x \/ Earlier(z, x))
  BY <1>0, <1>3, TableFacts, SpotsOrdered
<1> QED
  BY <1>1, <1>2, <1>3, <1>4 DEF SweptTo

\* An iterator under which only it changes the table comes by no entry twice
\* (hashtable_itr.c:41-112).
THEOREM NothingTwice == TableSpec => ShownOnce
<1>1. HashInv /\ [TableNext]_tableVars =>
        [~disturbed /\ (Advance \/ IterRemove) /\ itr'.e # NULL => itr'.e \notin seen]_tableVars
  <2>1. ASSUME HashInv, ~corrupt, ~disturbed, Advance \/ IterRemove, itr'.e # NULL
        PROVE  itr'.e \notin seen
    BY <2>1, GoesOn DEF HashInv
  <2>2. TableNext => ~corrupt
    BY DEF TableNext
  <2> QED
    BY <2>1, <2>2
<1> QED
  BY <1>1, HashInvariant, PTL DEF TableSpec, ShownOnce
-----------------------------------------------------------------------------
(* The timeout queue                                                       *)

\* The first m nodes that came in are linked both ways, the oldest last.
Listed(m) ==
  /\ \A i \in 1 .. m - 1 : Behind(arrived[i], arrived[i + 1])
  /\ m > 0 => nodes[arrived[1]].m_next = Null /\ nodes[arrived[m]].m_parent = Null

Node == [m_time : Nat, m_next : Receives \cup {Null, Unset}, m_parent : Receives \cup {Null, Unset}]

QueueTypes ==
  /\ clock \in Nat
  /\ arrived \in Seq(Receives)
  /\ mutex \in Receives \cup {Nobody}
  /\ published \in BOOLEAN
  /\ nodes \in [Receives -> Node]
  /\ m_node \in CameIn \cup {Null}
  /\ walk \in CameIn \cup {Null}
  /\ \A r \in Receives : nodes[r].m_next \in CameIn \cup {Null, Unset}

NewestOr(nobody) == IF arrived = <<>> THEN nobody ELSE arrived[Len(arrived)]

\* With the mutex free all that came in are listed; with the mutex held, all but
\* the last, which is its holder's: and the first of all is at the head too soon.
ListInv ==
  /\ QueueTypes
  /\ \A i, j \in 1 .. Len(arrived) : arrived[i] = arrived[j] => i = j
  /\ count = Len(arrived) /\ freed = {}
  /\ mutex = Nobody => ~published /\ Listed(Len(arrived)) /\ m_node = NewestOr(Null)
  /\ mutex # Nobody =>
       /\ arrived # <<>> /\ mutex = arrived[Len(arrived)]
       /\ published => Len(arrived) = 1 /\ m_node = mutex
       /\ ~published =>
            /\ Listed(Len(arrived) - 1)
            /\ m_node = IF Len(arrived) = 1 THEN Null ELSE arrived[Len(arrived) - 1]

\* The inductive invariant.
QueueInv == ListSound /\ (~broken => ListInv)

\* There are as many nodes as arrivals, as none comes in twice (timeoutqueue.C:32-51).
LEMMA CameInCount ==
  ASSUME arrived \in Seq(Receives),
         \A i, j \in 1 .. Len(arrived) : arrived[i] = arrived[j] => i = j
  PROVE  IsFiniteSet(CameIn) /\ Cardinality(CameIn) = Len(arrived)
<1>1. Len(arrived) \in Nat /\ DOMAIN arrived = 1 .. Len(arrived)
  OBVIOUS
<1>2. IsFiniteSet(1 .. Len(arrived)) /\ Cardinality(1 .. Len(arrived)) = Len(arrived)
  BY <1>1, FS_Interval, SMTT(30)
<1>3. arrived \in Surjection(1 .. Len(arrived), CameIn)
  BY <1>1 DEF Surjection, CameIn
<1>4. arrived \in Bijection(1 .. Len(arrived), CameIn)
  BY <1>1, <1>3 DEF Bijection, Injection, Surjection, IsInjective
<1> QED
  BY <1>2, <1>4, FS_Surjection DEF Bijection

\* While nothing has gone wrong the invariant is all that ListSound says
\* (timeoutqueue.C:32-51).
LEMMA ListedIsSound == ListInv => ListSound
<1> SUFFICES ASSUME ListInv, mutex = Nobody
             PROVE  /\ count = Cardinality(Waiting)
                    /\ \A i, j \in DOMAIN arrived : Adjacent(i, j) => Behind(arrived[i], arrived[j])
                    /\ \A i \in DOMAIN arrived :
                         /\ OldestWaiting(i) => nodes[arrived[i]].m_next = Null
                         /\ NewestWaiting(i) => nodes[arrived[i]].m_parent = Null
                    /\ m_node = IF arrived = <<>> THEN Null ELSE arrived[Len(arrived)]
  BY DEF ListSound
<1>1. /\ Len(arrived) \in Nat /\ DOMAIN arrived = 1 .. Len(arrived)
      /\ Waiting = CameIn /\ \A i \in DOMAIN arrived : arrived[i] \in Waiting
  BY DEF ListInv, QueueTypes, Waiting, CameIn
<1>2. Listed(Len(arrived))
  BY DEF ListInv
<1>3. count = Cardinality(Waiting)
  BY <1>1, CameInCount DEF ListInv, QueueTypes
<1>4. ASSUME NEW i \in DOMAIN arrived, NEW j \in DOMAIN arrived, Adjacent(i, j)
      PROVE  Behind(arrived[i], arrived[j])
  <2>1. i < j /\ i \in Nat /\ j \in Nat
    BY <1>1, <1>4 DEF Adjacent
  <2>2. j = i + 1
    <3> SUFFICES ASSUME i + 1 < j PROVE FALSE
      BY <2>1
    <3>1. i + 1 \in i + 1 .. j - 1 /\ i + 1 \in DOMAIN arrived
      BY <1>1, <2>1
    <3> QED
      BY <1>1, <1>4, <3>1 DEF Adjacent
  <2>3. i \in 1 .. Len(arrived) - 1
    BY <1>1, <2>1, <2>2
  <2> QED
    BY <1>2, <2>2, <2>3 DEF Listed
<1>5. ASSUME NEW i \in DOMAIN arrived, OldestWaiting(i) PROVE nodes[arrived[i]].m_next = Null
  <2>1. i = 1
    <3> SUFFICES ASSUME i # 1 PROVE FALSE
      OBVIOUS
    <3>1. 1 \in 1 .. i - 1 /\ 1 \in DOMAIN arrived
      BY <1>1
    <3> QED
      BY <1>1, <1>5, <3>1 DEF OldestWaiting
  <2> QED
    BY <1>1, <1>2, <2>1 DEF Listed
<1>6. ASSUME NEW i \in DOMAIN arrived, NewestWaiting(i) PROVE nodes[arrived[i]].m_parent = Null
  <2>1. i = Len(arrived)
    <3> SUFFICES ASSUME i # Len(arrived) PROVE FALSE
      OBVIOUS
    <3>1. Len(arrived) \in i + 1 .. Len(arrived) /\ Len(arrived) \in DOMAIN arrived
      BY <1>1
    <3> QED
      BY <1>1, <1>6, <3>1 DEF NewestWaiting
  <2> QED
    BY <1>1, <1>2, <2>1 DEF Listed
<1> QED
  BY <1>3, <1>4, <1>5, <1>6 DEF ListInv, NewestOr

\* What only the walk and the clock change leaves the list as it is
\* (timeoutqueue.C:65-93).
LEMMA ListUntouched ==
  ASSUME ListInv, UNCHANGED <<m_node, nodes, count, mutex, published, arrived, freed>>,
         clock' \in Nat, walk' \in CameIn \cup {Null}
  PROVE  ListInv'
BY DEF ListInv, QueueTypes, Listed, Behind, NewestOr, CameIn

-----------------------------------------------------------------------------
(* The writes of enTqueue keep the list as it should be.                   *)

\* Taking the mutex, with a node that has not come in before, leaves the list
\* one behind (timeoutqueue.C:34-35).
LEMMA EnterKeeps ==
  ASSUME ListInv, NEW r \in Receives, EnterQueue(r)
  PROVE  ListInv'
<1> USE DEF ListInv, QueueTypes
<1>1. PICK timer \in Timers : nodes' = [nodes EXCEPT ![r].m_time = clock + timer]
  BY DEF EnterQueue
<1>2. /\ mutex = Nobody /\ r \notin CameIn /\ mutex' = r /\ count' = count + 1
      /\ arrived' = Append(arrived, r)
      /\ UNCHANGED <<clock, m_node, published, freed, walk>>
  BY DEF EnterQueue, Unlocked
<1>3. /\ Len(arrived) \in Nat /\ Len(arrived') = Len(arrived) + 1
      /\ \A i \in 1 .. Len(arrived) : arrived'[i] = arrived[i] /\ arrived[i] \in CameIn
      /\ arrived'[Len(arrived')] = r /\ arrived' \in Seq(Receives) /\ arrived' # <<>>
  BY <1>2 DEF CameIn
<1>4. CameIn \subseteq CameIn'
  <2> SUFFICES ASSUME NEW i \in DOMAIN arrived PROVE arrived[i] \in CameIn'
    BY DEF CameIn
  <2>1. i \in DOMAIN arrived' /\ arrived'[i] = arrived[i]
    BY <1>3
  <2> QED
    BY <2>1 DEF CameIn
<1>5. /\ nodes' \in [Receives -> Node]
      /\ \A n \in Receives : nodes'[n].m_next = nodes[n].m_next /\ nodes'[n].m_parent = nodes[n].m_parent
  <2>1. clock + timer \in Nat
    BY QueueAssumption
  <2> QED
    BY <1>1, <2>1 DEF Node
<1>6. QueueTypes'
  BY <1>2, <1>3, <1>4, <1>5
<1>7. \A i, j \in 1 .. Len(arrived') : arrived'[i] = arrived'[j] => i = j
  <2> SUFFICES ASSUME NEW i \in 1 .. Len(arrived'), NEW j \in 1 .. Len(arrived'),
                      arrived'[i] = arrived'[j]
               PROVE  i = j
    OBVIOUS
  <2>1. \A k \in 1 .. Len(arrived') : k \in 1 .. Len(arrived) \/ k = Len(arrived')
    BY <1>3
  <2> QED
    BY <1>2, <1>3, <2>1
<1>8. mutex' # Nobody
  BY <1>2, QueueAssumption
<1>9. Listed(Len(arrived) - 1)'
  <2>1. Len(arrived') - 1 = Len(arrived)
    BY <1>3
  <2>2. \A i \in 1 .. Len(arrived) : arrived[i] \in Receives
    OBVIOUS
  <2>3. \A i \in 1 .. Len(arrived) - 1 : Behind(arrived[i], arrived[i + 1])'
    <3> SUFFICES ASSUME NEW i \in 1 .. Len(arrived) - 1
                 PROVE  Behind(arrived[i], arrived[i + 1])'
      OBVIOUS
    <3>1. i \in 1 .. Len(arrived) /\ i + 1 \in 1 .. Len(arrived)
      BY <1>3
    <3>2. Behind(arrived[i], arrived[i + 1])
      BY <1>2 DEF Listed
    <3> QED
      BY <1>3, <1>5, <2>2, <3>1, <3>2 DEF Behind
  <2>4. Len(arrived) > 0 => nodes'[arrived'[1]].m_next = Null /\ nodes'[arrived'[Len(arrived)]].m_parent = Null
    BY <1>2, <1>3, <1>5, <2>2 DEF Listed
  <2> QED
    BY <2>1, <2>3, <2>4 DEF Listed
<1>10. m_node' = IF Len(arrived') = 1 THEN Null ELSE arrived'[Len(arrived') - 1]
  BY <1>2, <1>3 DEF NewestOr
<1>11. /\ count' = Len(arrived') /\ freed' = {} /\ ~published'
       /\ mutex' = arrived'[Len(arrived')] /\ arrived' # <<>>
  BY <1>2, <1>3
<1> QED
  BY <1>6, <1>7, <1>8, <1>9, <1>10, <1>11

\* The first node is put at the head before its links are written
\* (timeoutqueue.C:36-37).
LEMMA PublishKeeps ==
  ASSUME ListInv, NEW r \in Receives, PublishFirst(r)
  PROVE  ListInv'
<1> USE DEF ListInv, QueueTypes
<1>1. /\ mutex = r /\ mutex # Nobody /\ m_node = Null /\ ~published
      /\ m_node' = r /\ published'
      /\ UNCHANGED <<clock, nodes, count, mutex, arrived, freed, walk>>
  BY QueueAssumption DEF PublishFirst
<1>2. Len(arrived) \in Nat /\ Len(arrived) # 0 /\ r = arrived[Len(arrived)] /\ r \in CameIn
  <2>1. arrived # <<>> /\ r = arrived[Len(arrived)]
    BY <1>1
  <2>2. Len(arrived) \in DOMAIN arrived /\ Len(arrived) # 0 /\ Len(arrived) \in Nat
    BY <2>1
  <2> QED
    BY <2>1, <2>2 DEF CameIn
<1>3. Len(arrived) = 1
  <2> SUFFICES ASSUME Len(arrived) # 1 PROVE FALSE
    OBVIOUS
  <2>1. arrived[Len(arrived) - 1] = Null
    BY <1>1
  <2>2. Len(arrived) - 1 \in DOMAIN arrived
    BY <1>2
  <2>3. arrived[Len(arrived) - 1] \in Receives
    BY <2>2
  <2> QED
    BY <2>1, <2>3, QueueAssumption
<1>4. QueueTypes'
  BY <1>1, <1>2 DEF CameIn
<1> QED
  BY <1>1, <1>2, <1>3, <1>4

\* Then they are written, and the mutex is released (timeoutqueue.C:38-40, 50).
LEMMA LinkFirstKeeps ==
  ASSUME ListInv, NEW r \in Receives, LinkFirst(r)
  PROVE  ListInv'
<1> USE DEF ListInv, QueueTypes
<1>1. /\ mutex = r /\ mutex # Nobody /\ published
      /\ nodes' = [nodes EXCEPT ![r].m_parent = Null, ![r].m_next = Null]
      /\ published' = FALSE /\ mutex' = Nobody
      /\ UNCHANGED <<clock, m_node, count, arrived, freed, walk>>
  BY QueueAssumption DEF LinkFirst
<1>2. Len(arrived) = 1 /\ arrived[1] = r /\ m_node = r /\ arrived # <<>>
  BY <1>1
<1>3. /\ nodes' \in [Receives -> Node]
      /\ nodes'[r].m_next = Null /\ nodes'[r].m_parent = Null
      /\ \A n \in Receives \ {r} : nodes'[n] = nodes[n]
  <2> DEFINE linked == [nodes[r] EXCEPT !.m_parent = Null, !.m_next = Null]
  <2>1. nodes[r] \in Node
    OBVIOUS
  <2>2. linked \in Node /\ linked.m_next = Null /\ linked.m_parent = Null
    BY <2>1 DEF Node
  <2>3. nodes' = [nodes EXCEPT ![r] = linked]
    BY <1>1
  <2> HIDE DEF linked
  <2> QED
    BY <2>2, <2>3
<1>4. QueueTypes'
  <2>1. CameIn' = CameIn
    BY <1>1 DEF CameIn
  <2>2. \A n \in Receives : nodes'[n].m_next \in CameIn \cup {Null, Unset}
    BY <1>3
  <2>3. published' \in BOOLEAN /\ mutex' \in Receives \cup {Nobody}
    BY <1>1
  <2> QED
    BY <1>1, <1>3, <2>1, <2>2, <2>3
<1>5. Listed(Len(arrived))'
  BY <1>1, <1>2, <1>3 DEF Listed
<1> QED
  BY <1>1, <1>2, <1>4, <1>5 DEF NewestOr

\* Every other node is linked before the head and becomes the head
\* (timeoutqueue.C:42-48).
LEMMA LinkBeforeKeeps ==
  ASSUME ListInv, NEW r \in Receives, LinkBefore(r)
  PROVE  ListInv'
<1> USE DEF ListInv, QueueTypes
<1> DEFINE n == Len(arrived)
<1>1. /\ mutex = r /\ mutex # Nobody /\ ~published /\ m_node # Null
      /\ nodes' = [nodes EXCEPT ![m_node].m_parent = r, ![r].m_next = m_node, ![r].m_parent = Null]
      /\ m_node' = r /\ mutex' = Nobody
      /\ UNCHANGED <<clock, count, published, arrived, freed, walk>>
  BY QueueAssumption DEF LinkBefore
<1>2. /\ arrived # <<>> /\ n # 1 /\ arrived[n] = r /\ arrived[n - 1] = m_node
      /\ Listed(n - 1)
  BY <1>1
<1>3. n \in Nat /\ n >= 2 /\ DOMAIN arrived = 1 .. n
  <2>1. n \in Nat /\ n # 0 /\ DOMAIN arrived = 1 .. n
    BY <1>2
  <2> QED
    BY <1>2, <2>1
<1>4. \A i \in 1 .. n : arrived[i] \in Receives /\ arrived[i] \in CameIn
  BY <1>3 DEF CameIn
<1>5. n - 1 \in 1 .. n /\ n \in 1 .. n /\ n - 1 # n
  BY <1>3
<1>6. m_node \in Receives /\ m_node \in CameIn /\ r \in CameIn /\ m_node # r
  BY <1>2, <1>4, <1>5
<1>7. /\ nodes' \in [Receives -> Node]
      /\ nodes'[r].m_next = m_node /\ nodes'[r].m_parent = Null
      /\ nodes'[m_node].m_parent = r /\ nodes'[m_node].m_next = nodes[m_node].m_next
      /\ \A k \in Receives \ {r, m_node} : nodes'[k] = nodes[k]
  <2> DEFINE head == [nodes[m_node] EXCEPT !.m_parent = r]
             first == [nodes[r] EXCEPT !.m_next = m_node, !.m_parent = Null]
  <2>1. nodes[r] \in Node /\ nodes[m_node] \in Node
    BY <1>6
  <2>2. /\ head \in Node /\ head.m_parent = r /\ head.m_next = nodes[m_node].m_next
        /\ first \in Node /\ first.m_next = m_node /\ first.m_parent = Null
    BY <1>6, <2>1 DEF Node
  <2>3. nodes' = [nodes EXCEPT ![m_node] = head, ![r] = first]
    BY <1>1, <1>6
  <2> HIDE DEF head, first
  <2> QED
    BY <1>6, <2>2, <2>3
<1>8. QueueTypes'
  <2>1. CameIn' = CameIn
    BY <1>1 DEF CameIn
  <2>2. \A k \in Receives : nodes'[k].m_next \in CameIn \cup {Null, Unset}
    BY <1>6, <1>7
  <2> QED
    BY <1>1, <1>6, <1>7, <2>1, <2>2
<1>9. \A i \in 1 .. n - 1 : Behind(arrived[i], arrived[i + 1])'
  <2> SUFFICES ASSUME NEW i \in 1 .. n - 1
               PROVE  nodes'[arrived[i + 1]].m_next = arrived[i] /\ nodes'[arrived[i]].m_parent = arrived[i + 1]
    BY <1>1 DEF Behind
  <2>1. i \in 1 .. n /\ i + 1 \in 1 .. n /\ i # n /\ i # i + 1
    BY <1>3
  <2>2. CASE i = n - 1
    <3>1. i + 1 = n
      BY <1>3, <2>2
    <3> QED
      BY <1>2, <1>7, <2>2, <3>1
  <2>3. CASE i # n - 1
    <3>1. i \in 1 .. (n - 1) - 1 /\ i # n - 1 /\ i + 1 # n
      BY <1>3, <2>3
    <3>2. nodes[arrived[i + 1]].m_next = arrived[i] /\ nodes[arrived[i]].m_parent = arrived[i + 1]
      BY <1>2, <3>1 DEF Listed, Behind
    <3>3. arrived[i] # r /\ arrived[i] # m_node /\ arrived[i + 1] # r
      BY <1>2, <1>5, <2>1, <3>1
    <3>4. nodes'[arrived[i]] = nodes[arrived[i]]
      BY <1>4, <1>7, <2>1, <3>3
    <3>5. nodes'[arrived[i + 1]].m_next = nodes[arrived[i + 1]].m_next
      BY <1>4, <1>7, <2>1, <3>3
    <3> QED
      BY <3>2, <3>4, <3>5
  <2> QED
    BY <2>2, <2>3
<1>10. nodes'[arrived[1]].m_next = Null
  <2>1. nodes[arrived[1]].m_next = Null
    BY <1>2, <1>3 DEF Listed
  <2>2. arrived[1] # r /\ arrived[1] \in Receives
    BY <1>2, <1>3, <1>4, <1>5
  <2> QED
    BY <1>7, <2>1, <2>2
<1>11. Listed(Len(arrived))'
  BY <1>1, <1>2, <1>7, <1>9, <1>10 DEF Listed
<1> QED
  BY <1>1, <1>2, <1>8, <1>11, ZenonT(30) DEF NewestOr

-----------------------------------------------------------------------------
(* The first timeout.                                                      *)

\* What deTqueue leaves of the neighbours of the node it takes out, wherever that
\* stood in the list (timeoutqueue.C:95-118).
LEMMA TimeOutIsSound ==
  ASSUME ListInv, TimeOut
  PROVE  ListSound'
<1> USE DEF ListInv, QueueTypes
<1> DEFINE n == Len(arrived)
           Links(a, b) == nodes'[b].m_next = a /\ nodes'[a].m_parent = b
<1>1. /\ walk # Null /\ mutex = Nobody /\ nodes' = Unlinked(walk)
      /\ freed' = {walk} /\ count' = count - 1
      /\ UNCHANGED <<m_node, mutex, arrived>>
  BY DEF TimeOut
<1>2. n \in Nat /\ DOMAIN arrived = 1 .. n /\ Listed(n)
  BY <1>1
<1>3. PICK w \in 1 .. n : walk = arrived[w]
  BY <1>1, <1>2 DEF CameIn
<1>4. \A i \in 1 .. n : arrived[i] \in Receives /\ arrived[i] # Null /\ arrived[i] \in CameIn
  BY <1>2, QueueAssumption DEF CameIn
<1>5. CameIn' = CameIn /\ Waiting' = CameIn \ {walk}
  BY <1>1 DEF CameIn, Waiting
<1>6. \A i \in 1 .. n : arrived[i] \in Waiting' <=> i # w
  BY <1>3, <1>4, <1>5
<1>7. count' = Cardinality(Waiting')
  <2>1. IsFiniteSet(CameIn) /\ Cardinality(CameIn) = n
    BY CameInCount
  <2>2. walk \in CameIn
    BY <1>3, <1>4
  <2>3. Cardinality(CameIn \ {walk}) = n - 1
    BY <2>1, <2>2, FS_RemoveElement
  <2>4. count' = n - 1
    BY <1>1
  <2> QED
    BY <1>5, <2>3, <2>4
<1>8. /\ \A i \in 1 .. n : i > 1 => nodes[arrived[i]].m_next = arrived[i - 1]
      /\ \A i \in 1 .. n : i < n => nodes[arrived[i]].m_parent = arrived[i + 1]
      /\ nodes[arrived[1]].m_next = Null /\ nodes[arrived[n]].m_parent = Null
  <2>1. \A i \in 1 .. n - 1 : /\ nodes[arrived[i + 1]].m_next = arrived[i]
                              /\ nodes[arrived[i]].m_parent = arrived[i + 1]
    BY <1>2 DEF Listed, Behind
  <2>2. \A i \in 1 .. n : i > 1 => nodes[arrived[i]].m_next = arrived[i - 1]
    <3> SUFFICES ASSUME NEW i \in 1 .. n, i > 1 PROVE nodes[arrived[i]].m_next = arrived[i - 1]
      OBVIOUS
    <3>1. i - 1 \in 1 .. n - 1 /\ (i - 1) + 1 = i
      BY <1>2
    <3> QED
      BY <2>1, <3>1
  <2>3. \A i \in 1 .. n : i < n => nodes[arrived[i]].m_parent = arrived[i + 1]
    BY <1>2, <2>1
  <2> QED
    BY <1>2, <1>3, <2>2, <2>3 DEF Listed
<1>9. \A i \in 1 .. n :
        /\ nodes'[arrived[i]].m_next = IF arrived[i] = nodes[walk].m_parent THEN nodes[walk].m_next
                                       ELSE nodes[arrived[i]].m_next
        /\ nodes'[arrived[i]].m_parent = IF arrived[i] = nodes[walk].m_next THEN nodes[walk].m_parent
                                         ELSE nodes[arrived[i]].m_parent
  BY <1>1, <1>4 DEF Unlinked
<1>10. /\ \A i \in 1 .. n : arrived[i] = nodes[walk].m_parent <=> i = w + 1
       /\ \A i \in 1 .. n : arrived[i] = nodes[walk].m_next <=> i = w - 1
  <2>1. \A i \in 1 .. n : arrived[i] = nodes[walk].m_parent <=> i = w + 1
    <3>1. CASE w = n
      BY <1>2, <1>3, <1>4, <1>8, <3>1
    <3>2. CASE w # n
      <4>1. w + 1 \in 1 .. n /\ w < n
        BY <1>2, <3>2
      <4> QED
        BY <1>3, <1>8, <4>1
    <3> QED
      BY <3>1, <3>2
  <2>2. \A i \in 1 .. n : arrived[i] = nodes[walk].m_next <=> i = w - 1
    <3>1. CASE w = 1
      BY <1>2, <1>3, <1>4, <1>8, <3>1
    <3>2. CASE w # 1
      <4>1. w - 1 \in 1 .. n /\ w > 1
        BY <1>2, <3>2
      <4> QED
        BY <1>3, <1>8, <4>1
    <3> QED
      BY <3>1, <3>2
  <2> QED
    BY <2>1, <2>2
<1>11. ASSUME NEW i \in 1 .. n, NEW j \in 1 .. n, Adjacent(i, j)'
       PROVE  Links(arrived[i], arrived[j])
  <2>1. /\ i < j /\ i # w /\ j # w
        /\ \A k \in i + 1 .. j - 1 : k = w
    <3>1. i < j /\ arrived[i] \in Waiting' /\ arrived[j] \in Waiting'
      BY <1>1, <1>11 DEF Adjacent
    <3>2. \A k \in i + 1 .. j - 1 : arrived[k] \notin Waiting'
      BY <1>1, <1>11 DEF Adjacent
    <3>3. \A k \in i + 1 .. j - 1 : k \in 1 .. n
      BY <1>2
    <3> QED
      BY <1>6, <3>1, <3>2, <3>3
  <2>2. CASE j = i + 1
    <3>1. /\ nodes[arrived[j]].m_next = arrived[i] /\ nodes[arrived[i]].m_parent = arrived[j]
      <4>1. j > 1 /\ i < n /\ j - 1 = i
        BY <1>2, <2>2
      <4> QED
        BY <1>8, <2>2, <4>1
    <3>2. j # w + 1 /\ i # w - 1
      BY <2>1, <2>2
    <3> QED
      BY <1>9, <1>10, <3>1, <3>2
  <2>3. CASE j # i + 1
    <3>1. i + 1 = w
      <4>1. i + 1 \in i + 1 .. j - 1
        BY <2>1, <2>3
      <4> QED
        BY <2>1, <4>1
    <3>2. j - 1 = w
      <4>1. j - 1 \in i + 1 .. j - 1
        BY <2>1, <2>3
      <4> QED
        BY <2>1, <4>1
    <3>3. j = w + 1 /\ i = w - 1 /\ w > 1 /\ w < n
      BY <3>1, <3>2, <1>2
    <3>4. nodes[walk].m_next = arrived[i] /\ nodes[walk].m_parent = arrived[j]
      BY <1>3, <1>8, <3>3
    <3> QED
      BY <1>9, <1>10, <3>3, <3>4
  <2> QED
    BY <2>2, <2>3
<1>12. ASSUME NEW i \in 1 .. n, OldestWaiting(i)' PROVE nodes'[arrived[i]].m_next = Null
  <2>1. i # w /\ \A k \in 1 .. i - 1 : k = w
    <3>1. arrived[i] \in Waiting' /\ \A k \in 1 .. i - 1 : arrived[k] \notin Waiting'
      BY <1>1, <1>12 DEF OldestWaiting
    <3>2. \A k \in 1 .. i - 1 : k \in 1 .. n
      BY <1>2
    <3> QED
      BY <1>6, <3>1, <3>2
  <2>2. CASE i = 1
    <3>1. i # w + 1
      BY <2>2
    <3> QED
      BY <1>8, <1>9, <1>10, <2>2, <3>1
  <2>3. CASE i # 1
    <3>1. 1 \in 1 .. i - 1 /\ i - 1 \in 1 .. i - 1
      BY <2>3
    <3>2. w = 1 /\ i = w + 1
      <4>1. 1 = w /\ i - 1 = w
        BY <2>1, <3>1
      <4> QED
        BY <1>2, <4>1
    <3> QED
      BY <1>3, <1>8, <1>9, <1>10, <3>2
  <2> QED
    BY <2>2, <2>3
<1>13. ASSUME NEW i \in 1 .. n, NewestWaiting(i)' PROVE nodes'[arrived[i]].m_parent = Null
  <2>1. i # w /\ \A k \in i + 1 .. n : k = w
    <3>1. arrived[i] \in Waiting' /\ \A k \in i + 1 .. n : arrived[k] \notin Waiting'
      BY <1>1, <1>13 DEF NewestWaiting
    <3>2. \A k \in i + 1 .. n : k \in 1 .. n
      BY <1>2
    <3> QED
      BY <1>6, <3>1, <3>2
  <2>2. CASE i = n
    <3>1. i # w - 1
      BY <1>2, <2>2
    <3> QED
      BY <1>8, <1>9, <1>10, <2>2, <3>1
  <2>3. CASE i # n
    <3>1. n \in i + 1 .. n /\ i + 1 \in i + 1 .. n
      BY <1>2, <2>3
    <3>2. w = n /\ i = w - 1
      BY <2>1, <3>1
    <3> QED
      BY <1>3, <1>8, <1>9, <1>10, <3>2
  <2> QED
    BY <2>2, <2>3
<1>14. m_node' = IF arrived' = <<>> THEN Null ELSE arrived'[Len(arrived')]
  BY <1>1 DEF NewestOr
<1> QED
  BY <1>1, <1>2, <1>7, <1>11, <1>12, <1>13, <1>14 DEF ListSound, Behind

-----------------------------------------------------------------------------
(* The whole.                                                              *)

\* An empty list is sound (timeoutqueue.C:11-16).
LEMMA QueueInitHolds == QueueInit => QueueInv
<1> SUFFICES ASSUME QueueInit PROVE QueueInv
  OBVIOUS
<1> USE DEF QueueInit
<1>1. QueueTypes
  <2>1. \A r \in Receives : nodes[r] = [m_time |-> 0, m_next |-> Unset, m_parent |-> Unset]
    OBVIOUS
  <2>2. nodes \in [Receives -> Node]
    BY DEF Node
  <2>3. clock \in Nat /\ published \in BOOLEAN
    OBVIOUS
  <2>4. arrived \in Seq(Receives)
    <3>1. arrived = <<>>
      OBVIOUS
    <3> QED
      BY <3>1
  <2>5. \A r \in Receives : nodes[r].m_next = Unset
    BY <2>1
  <2>6. mutex = Nobody /\ m_node = Null /\ walk = Null
    OBVIOUS
  <2> QED
    BY <2>2, <2>3, <2>4, <2>5, <2>6 DEF QueueTypes
<1>2. ListInv
  <2>1. Len(arrived) = 0
    OBVIOUS
  <2>2. Listed(Len(arrived))
    BY <2>1 DEF Listed
  <2> QED
    BY <1>1, <2>1, <2>2 DEF ListInv, NewestOr
<1> QED
  BY <1>2, ListedIsSound DEF QueueInv

\* Every step of enTqueue, of the walk and of deTqueue keeps the invariant
\* (timeoutqueue.C:32-118).
LEMMA QueueStepKeeps == QueueInv /\ [QueueNext]_queueVars => QueueInv'
<1> SUFFICES ASSUME QueueInv, [QueueNext]_queueVars PROVE QueueInv'
  OBVIOUS
<1>1. CASE UNCHANGED queueVars
  BY <1>1 DEF queueVars, QueueInv, ListInv, QueueTypes, Listed, Behind, NewestOr, CameIn, ListSound,
              Waiting, Adjacent, OldestWaiting, NewestWaiting
<1>2. CASE QueueNext
  <2>1. ~broken /\ ListInv
    BY <1>2 DEF QueueInv, QueueNext
  <2>2. ASSUME ListInv' PROVE QueueInv'
    <3>1. ListSound'
      BY <2>2, ListedIsSound, PTL
    <3> QED
      BY <2>2, <3>1 DEF QueueInv
  <2>3. ASSUME NEW r \in Receives, EnterQueue(r) \/ PublishFirst(r) \/ LinkFirst(r) \/ LinkBefore(r)
        PROVE  QueueInv'
    BY <2>1, <2>2, <2>3, EnterKeeps, PublishKeeps, LinkFirstKeeps, LinkBeforeKeeps
  <2>4. CASE Tick \/ StartWalk \/ StepOn
    <3>1. /\ UNCHANGED <<m_node, nodes, count, mutex, published, arrived, freed>>
          /\ clock' \in Nat
      BY <2>1, <2>4 DEF Tick, StartWalk, StepOn, ListInv, QueueTypes
    <3>2. walk' \in CameIn \cup {Null}
      <4>1. CASE Tick
        BY <2>1, <4>1 DEF Tick, ListInv, QueueTypes
      <4>2. CASE StartWalk
        BY <2>1, <4>2 DEF StartWalk, ListInv, QueueTypes
      <4>3. CASE StepOn
        <5>1. walk \in CameIn /\ walk \in Receives
          BY <2>1, <4>3 DEF StepOn, ListInv, QueueTypes, CameIn
        <5>2. nodes[walk].m_next \in CameIn \cup {Null, Unset}
          BY <2>1, <5>1 DEF ListInv, QueueTypes
        <5> QED
          BY <4>3, <5>1, <5>2 DEF StepOn
      <4> QED
        BY <2>4, <4>1, <4>2, <4>3
    <3> QED
      BY <2>1, <2>2, <3>1, <3>2, ListUntouched
  <2>5. CASE TimeOut
    <3>1. ListSound'
      BY <2>1, <2>5, TimeOutIsSound
    <3> QED
      BY <2>5, <3>1 DEF QueueInv, TimeOut
  <2> QED
    BY <1>2, <2>3, <2>4, <2>5 DEF QueueNext
<1> QED
  BY <1>1, <1>2

\* Whenever nobody is in enTqueue the list is linked both ways, ends in NULL both
\* ways and is as long as size says, up to and after the first timeout; so what is
\* wrong afterwards is m_node and the node read once freed, nothing else
\* (timeoutqueue.C:32-118).
THEOREM ListIsSound == QueueSpec => []ListSound
<1>1. QueueInv => ListSound
  BY DEF QueueInv
<1> QED
  BY <1>1, QueueInitHolds, QueueStepKeeps, PTL DEF QueueSpec
-----------------------------------------------------------------------------
(* A step's data                                                           *)

\* Where the piece k begins; behind the last, where the text ends.
BeginOf(k) == IF k \in DOMAIN written THEN written[k].at ELSE Len(pValue) + 1

PlacedPiece == [at : Nat \ {0}, as : DataPieces]

DataTypes ==
  /\ pValue \in Seq(Byte)
  /\ written \in Seq(PlacedPiece)
  /\ nextByte \in Nat \ {0} /\ m_data \in Seq(Byte \cup {NUL}) /\ furthest \in Nat

\* The text is made of the pieces, one behind the other.
PiecesInv ==
  /\ BeginOf(1) = 1
  /\ \A k \in DOMAIN written :
       /\ written[k].at + Len(written[k].as) = BeginOf(k + 1)
       /\ BeginOf(k + 1) <= Len(pValue) + 1
       /\ \A j \in DOMAIN written[k].as : pValue[written[k].at + j - 1] = written[k].as[j]

\* The loop has taken one byte for each piece before the one it is at.
TurnsInv ==
  /\ Len(m_data) < nextByte /\ Len(m_data) <= Len(pValue)
  /\ Writable =>
       /\ Len(m_data) <= Len(written) /\ nextByte = BeginOf(Len(m_data) + 1)
       /\ \A k \in DOMAIN m_data :
            m_data[k] # NUL /\ (Len(written[k].as) = 1 => m_data[k] = written[k].as[1])

ReadInv == furthest <= Len(pValue) + 1 \/ (Len(pValue) > 1 /\ IsEscape(Len(pValue) - 1))

DataInv == DataTypes /\ PiecesInv /\ TurnsInv /\ ReadInv /\ (nextByte = 1 => furthest = 0)

\* A piece has up to four bytes, an escape begins with the mark and an x.
LEMMA PieceIs ==
  ASSUME NEW p \in DataPieces
  PROVE  /\ p \in Seq(Byte) /\ Len(p) \in 1 .. 4 /\ DOMAIN p = 1 .. Len(p)
         /\ p \in WholePieces => Len(p) \in {1, 4}
         /\ Len(p) = 4 => /\ p[1] = EscapeMark /\ p[2] \in LettersX
                          /\ p[3] \in HexDigit /\ p[4] \in HexDigit
         /\ Len(p) = 1 => p = <<p[1]>>
<1> DEFINE Of(q) == /\ q \in Seq(Byte) /\ Len(q) \in 1 .. 4 /\ DOMAIN q = 1 .. Len(q)
                    /\ Len(q) = 4 => /\ q[1] = EscapeMark /\ q[2] \in LettersX
                                     /\ q[3] \in HexDigit /\ q[4] \in HexDigit
                    /\ Len(q) = 1 => q = <<q[1]>>
<1>1. ASSUME NEW q \in PlainPieces PROVE Of(q) /\ Len(q) = 1
  <2>1. PICK c \in Byte : q = <<c>>
    BY DEF PlainPieces
  <2> QED
    BY <2>1
<1>0. EscapeMark \in Byte /\ LettersX \subseteq Byte /\ HexDigit \subseteq Byte
  BY DEF EscapeMark, LettersX, HexDigit, Byte
<1>2. ASSUME NEW q \in EscapePieces PROVE Of(q) /\ Len(q) = 4
  <2>1. PICK x \in LettersX, h \in HexDigit, l \in HexDigit : q = <<EscapeMark, x, h, l>>
    BY DEF EscapePieces
  <2> QED
    BY <1>0, <2>1
<1>3. ASSUME NEW q \in BrokenPieces PROVE Of(q)
  <2>1. CASE \E x \in LettersX : q = <<EscapeMark, x>>
    BY <1>0, <2>1
  <2>2. CASE \E x \in LettersX, h \in HexDigit : q = <<EscapeMark, x, h>>
    BY <1>0, <2>2
  <2> QED
    BY <2>1, <2>2 DEF BrokenPieces
<1> QED
  BY <1>1, <1>2, <1>3 DEF WholePieces, DataPieces

LEMMA PieceAt ==
  ASSUME DataInv, NEW k \in DOMAIN written
  PROVE  /\ written[k].at \in Nat \ {0} /\ written[k].as \in DataPieces
         /\ Len(written[k].as) \in 1 .. 4 /\ DOMAIN written[k].as = 1 .. Len(written[k].as)
<1>1. written[k] \in PlacedPiece
  BY DEF DataInv, DataTypes
<1>2. written[k].at \in Nat \ {0} /\ written[k].as \in DataPieces
  BY <1>1 DEF PlacedPiece
<1> QED
  BY <1>2, PieceIs

\* What is made of two digits is a byte, and never the NUL (step.C:91-92).
LEMMA EscapedByteIs ==
  /\ \A h, l \in Byte \cup {NUL} : EscapedByte(h, l) \in Byte \cup {NUL}
  /\ \A h, l \in HexDigit : EscapedByte(h, l) # NUL
<1>1. ASSUME NEW h \in HexDigit, NEW l \in HexDigit PROVE EscapedByte(h, l) # NUL
  BY DEF EscapedByte, HexDigit, NUL
<1>2. ASSUME NEW h \in Byte \cup {NUL}, NEW l \in Byte \cup {NUL}
      PROVE EscapedByte(h, l) \in Byte \cup {NUL}
  BY DEF EscapedByte, Byte, NUL
<1> QED
  BY <1>1, <1>2

\* Someone writes one more piece.
LEMMA WritePieceKeeps ==
  ASSUME DataInv, NEW p \in DataPieces, WritePiece(p)
  PROVE  DataInv'
<1>a. Len(written) \in Nat /\ Len(pValue) + 1 \in Nat \ {0}
  BY DEF DataInv, DataTypes
<1>b. PICK n \in Nat, at \in Nat \ {0} : n = Len(written) /\ at = Len(pValue) + 1
  BY <1>a
<1>0. /\ pValue \in Seq(Byte) /\ p \in Seq(Byte) /\ n \in Nat /\ Len(pValue) \in Nat /\ Len(p) \in 1 .. 4
      /\ DOMAIN written = 1 .. n /\ DOMAIN pValue = 1 .. Len(pValue) /\ DOMAIN p = 1 .. Len(p)
      /\ nextByte = 1 /\ furthest = 0
  BY <1>b, PieceIs DEF DataInv, DataTypes, WritePiece
<1>1. /\ pValue' = pValue \o p /\ Len(pValue') = Len(pValue) + Len(p)
      /\ DOMAIN pValue' = 1 .. Len(pValue')
      /\ \A j \in 1 .. Len(pValue) : pValue'[j] = pValue[j]
      /\ \A j \in 1 .. Len(p) : pValue'[Len(pValue) + j] = p[j]
  BY <1>0 DEF WritePiece
<1>2. /\ written' = Append(written, [at |-> at, as |-> p]) /\ DOMAIN written' = 1 .. n + 1 /\ Len(written') = n + 1
      /\ \A k \in 1 .. n : written'[k] = written[k]
      /\ written'[n + 1] = [at |-> at, as |-> p]
  BY <1>0, <1>b DEF WritePiece, DataInv, DataTypes
<1>3. UNCHANGED <<nextByte, m_data, furthest>> /\ m_data = <<>> /\ Len(m_data) = 0
  BY <1>0 DEF WritePiece, DataInv, DataTypes, TurnsInv
<1>4. DataTypes'
  <2>1. [at |-> at, as |-> p] \in PlacedPiece
    BY DEF PlacedPiece
  <2> QED
    BY <1>0, <1>1, <1>2, <1>3, <2>1 DEF DataInv, DataTypes
<1>5. /\ BeginOf(n + 2)' = Len(pValue') + 1 /\ BeginOf(n + 1)' = at /\ BeginOf(n + 1) = at
      /\ \A k \in 1 .. n : BeginOf(k)' = BeginOf(k)
  <2>1. n + 2 \notin 1 .. n + 1 /\ n + 1 \notin 1 .. n /\ n + 1 \in 1 .. n + 1
    OBVIOUS
  <2>2. BeginOf(n + 2)' = Len(pValue') + 1
    BY <1>2, <2>1 DEF BeginOf
  <2>3. BeginOf(n + 1)' = at /\ BeginOf(n + 1) = at
    BY <1>0, <1>2, <1>b, <2>1 DEF BeginOf
  <2>4. ASSUME NEW k \in 1 .. n PROVE BeginOf(k)' = BeginOf(k)
    <3>1. k \in 1 .. n + 1
      OBVIOUS
    <3> QED
      BY <1>0, <1>2, <3>1 DEF BeginOf
  <2> QED
    BY <2>2, <2>3, <2>4
<1>6. PiecesInv'
  <2>1. BeginOf(1)' = 1
    <3>1. CASE n = 0
      <4>1. BeginOf(1)' = at /\ BeginOf(1) = at
        BY <1>5, <3>1
      <4> QED
        BY <4>1 DEF DataInv, PiecesInv
    <3>2. CASE n # 0
      <4>1. 1 \in 1 .. n
        BY <3>2
      <4> QED
        BY <1>5, <4>1 DEF DataInv, PiecesInv
    <3> QED
      BY <3>1, <3>2
  <2>2. ASSUME NEW k \in 1 .. n
        PROVE  /\ written'[k].at + Len(written'[k].as) = BeginOf(k + 1)'
               /\ BeginOf(k + 1)' <= Len(pValue') + 1
               /\ \A j \in DOMAIN written'[k].as : pValue'[written'[k].at + j - 1] = written'[k].as[j]
    <3>1. /\ written'[k] = written[k] /\ written[k].at \in Nat \ {0} /\ Len(written[k].as) \in Nat
          /\ DOMAIN written[k].as = 1 .. Len(written[k].as)
      BY <1>0, <1>2, PieceAt
    <3>2. BeginOf(k + 1)' = BeginOf(k + 1) /\ BeginOf(k + 1) \in Nat
      <4>1. CASE k = n
        BY <1>5, <4>1
      <4>2. CASE k # n
        <5>1. k + 1 \in 1 .. n
          BY <4>2
        <5>2. BeginOf(k + 1) = written[k + 1].at
          BY <1>0, <5>1 DEF BeginOf
        <5> QED
          BY <1>0, <1>5, <5>1, <5>2, PieceAt
      <4> QED
        BY <4>1, <4>2
    <3>3. /\ written[k].at + Len(written[k].as) = BeginOf(k + 1)
          /\ BeginOf(k + 1) <= Len(pValue) + 1
          /\ \A j \in DOMAIN written[k].as : pValue[written[k].at + j - 1] = written[k].as[j]
      BY <1>0 DEF DataInv, PiecesInv
    <3>4. ASSUME NEW j \in 1 .. Len(written[k].as)
          PROVE  pValue'[written[k].at + j - 1] = written[k].as[j]
      <4>1. written[k].at + j - 1 \in 1 .. Len(pValue)
        BY <1>0, <3>1, <3>3, SMTT(30)
      <4> QED
        BY <1>1, <3>1, <3>3, <4>1
    <3>5. BeginOf(k + 1)' <= Len(pValue') + 1
      BY <1>0, <1>1, <3>2, <3>3
    <3> QED
      BY <3>1, <3>2, <3>3, <3>4, <3>5
  <2>3. /\ written'[n + 1].at + Len(written'[n + 1].as) = BeginOf(n + 2)'
        /\ BeginOf(n + 2)' <= Len(pValue') + 1
        /\ \A j \in DOMAIN written'[n + 1].as : pValue'[written'[n + 1].at + j - 1] = written'[n + 1].as[j]
    <3>1. written'[n + 1].at = at /\ written'[n + 1].as = p
      BY <1>2
    <3>2. \A j \in 1 .. Len(p) : at + j - 1 = Len(pValue) + j
      BY <1>0, <1>b
    <3>3. \A j \in 1 .. Len(p) : pValue'[at + j - 1] = p[j]
      BY <1>1, <3>2
    <3>4. at + Len(p) = Len(pValue') + 1
      BY <1>0, <1>1, <1>b
    <3>5. BeginOf(n + 2)' <= Len(pValue') + 1
      BY <1>0, <1>1, <1>5
    <3> QED
      BY <1>0, <1>5, <3>1, <3>3, <3>4, <3>5
  <2>4. \A k \in 1 .. n + 1 : k \in 1 .. n \/ (k = n + 1 /\ k + 1 = n + 2)
    OBVIOUS
  <2> QED
    BY <1>2, <2>1, <2>2, <2>3, <2>4, SMTT(30) DEF PiecesInv
<1>7. TurnsInv'
  BY <1>0, <1>1, <1>2, <1>3, <1>6 DEF TurnsInv, PiecesInv
<1> QED
  BY <1>0, <1>1, <1>3, <1>4, <1>6, <1>7 DEF DataInv, ReadInv

\* Where the loop is when the text was written without a break or a doubt.
LEMMA AtPiece ==
  ASSUME DataInv, InLoop, Writable
  PROVE  LET k == Len(m_data) + 1
         IN /\ k \in DOMAIN written /\ nextByte = written[k].at /\ written[k].as \in WholePieces
            /\ BeginOf(k + 1) = nextByte + Len(written[k].as)
            /\ \A j \in 1 .. Len(written[k].as) :
                 nextByte + j - 1 \in DOMAIN pValue /\ pValue[nextByte + j - 1] = written[k].as[j]
            /\ IsEscape(nextByte) <=> Len(written[k].as) = 4
<1> DEFINE k == Len(m_data) + 1
           p == written[k].as
<1>0. /\ DOMAIN written = 1 .. Len(written) /\ Len(written) \in Nat /\ Len(m_data) \in Nat /\ Len(pValue) \in Nat
      /\ DOMAIN pValue = 1 .. Len(pValue) /\ nextByte \in 1 .. Len(pValue)
      /\ pValue \in Seq(Byte)
  BY DEF DataInv, DataTypes, InLoop
<1>1. k \in 1 .. Len(written) /\ nextByte = written[k].at
  BY <1>0 DEF DataInv, TurnsInv, BeginOf
<1>2. p \in WholePieces /\ DOMAIN p = 1 .. Len(p) /\ Len(p) \in {1, 4}
  BY <1>0, <1>1, PieceIs DEF Writable, Unbroken, DataPieces
<1>3. /\ BeginOf(k + 1) = nextByte + Len(p) /\ BeginOf(k + 1) <= Len(pValue) + 1
      /\ \A j \in DOMAIN p : pValue[written[k].at + j - 1] = p[j]
  BY <1>0, <1>1 DEF DataInv, PiecesInv
<1>4. ASSUME NEW j \in 1 .. Len(p)
      PROVE  nextByte + j - 1 \in DOMAIN pValue /\ pValue[nextByte + j - 1] = p[j]
  <2>1. nextByte + j - 1 \in 1 .. Len(pValue)
    BY <1>0, <1>2, <1>3
  <2> QED
    BY <1>0, <1>1, <1>2, <1>3, <2>1
<1>5. CASE Len(p) = 4
  <2>1. p[1] = EscapeMark /\ p[2] \in LettersX
    BY <1>2, <1>5, PieceIs DEF DataPieces
  <2>2. pValue[nextByte] = EscapeMark /\ nextByte + 1 \in DOMAIN pValue /\ pValue[nextByte + 1] \in LettersX
    BY <1>0, <1>4, <1>5, <2>1
  <2> QED
    BY <1>0, <1>1, <1>2, <1>3, <1>4, <1>5, <2>2 DEF IsEscape, ReadAt
<1>6. CASE Len(p) = 1
  <2>1. ASSUME IsEscape(nextByte) PROVE FALSE
    <3>1. p = <<EscapeMark>>
      <4>1. p[1] = EscapeMark
        BY <1>0, <1>4, <1>6, <2>1 DEF IsEscape
      <4> QED
        BY <1>2, <1>6, <4>1, PieceIs DEF DataPieces
    <3>2. nextByte + 1 \in DOMAIN pValue /\ pValue[nextByte + 1] \in LettersX
      BY <1>0, <2>1 DEF IsEscape, ReadAt, NUL, LettersX
    <3>3. k + 1 \in 1 .. Len(written) /\ written[k + 1].at = nextByte + 1
      BY <1>0, <1>1, <1>3, <1>6, <3>2 DEF BeginOf
    <3>4. written[k + 1].as \in WholePieces
      BY <1>0, <3>3 DEF Writable, Unbroken
    <3>5. DOMAIN written[k + 1].as = 1 .. Len(written[k + 1].as) /\ 1 \in DOMAIN written[k + 1].as
      BY <3>4, PieceIs DEF DataPieces
    <3>6. pValue[nextByte + 1] = written[k + 1].as[1]
      BY <1>0, <3>3, <3>5, SMTT(30) DEF DataInv, PiecesInv
    <3> QED
      BY <1>0, <1>1, <3>1, <3>2, <3>3, <3>6 DEF Writable
  <2> QED
    BY <1>0, <1>1, <1>2, <1>3, <1>4, <1>6, <2>1
<1> QED
  BY <1>0, <1>2, <1>5, <1>6

\* A turn of the loop appends one byte, for the piece it is at.
LEMMA TurnKeeps ==
  ASSUME DataInv, InLoop, NEW b \in Byte \cup {NUL}, m_data' = Append(m_data, b),
         UNCHANGED <<pValue, written>>, nextByte' \in Nat, furthest' \in Nat,
         nextByte' = nextByte + IF IsEscape(nextByte) THEN 4 ELSE 1,
         ReadInv',
         Writable => IF IsEscape(nextByte) THEN b # NUL ELSE b = pValue[nextByte]
  PROVE  DataInv'
<1> DEFINE n == Len(m_data)
<1>0. /\ n \in Nat /\ nextByte \in 1 .. Len(pValue) /\ Len(pValue) \in Nat /\ n < nextByte /\ n <= Len(pValue)
      /\ m_data \in Seq(Byte \cup {NUL}) /\ DOMAIN m_data = 1 .. n /\ pValue \in Seq(Byte)
      /\ DOMAIN written = 1 .. Len(written) /\ Len(written) \in Nat
  BY DEF DataInv, DataTypes, TurnsInv, InLoop
<1>1. /\ Len(m_data') = n + 1 /\ DOMAIN m_data' = 1 .. n + 1 /\ m_data' \in Seq(Byte \cup {NUL})
      /\ m_data'[n + 1] = b /\ \A k \in 1 .. n : m_data'[k] = m_data[k]
  BY <1>0
<1>2. /\ DataTypes' /\ PiecesInv'
  BY <1>0, <1>1 DEF DataInv, DataTypes, PiecesInv, BeginOf
<1>3. Writable' = Writable /\ \A k : BeginOf(k)' = BeginOf(k)
  BY DEF Writable, Unbroken, BeginOf
<1>4. Len(m_data') < nextByte' /\ Len(m_data') <= Len(pValue') /\ nextByte' # 1
  BY <1>0, <1>1
<1>5. ASSUME Writable
      PROVE  /\ n + 1 <= Len(written) /\ nextByte' = BeginOf(n + 2)
             /\ \A k \in DOMAIN m_data' :
                  m_data'[k] # NUL /\ (Len(written[k].as) = 1 => m_data'[k] = written[k].as[1])
  <2>1. /\ n + 1 \in DOMAIN written /\ written[n + 1].as \in WholePieces
        /\ BeginOf(n + 2) = nextByte + Len(written[n + 1].as)
        /\ \A j \in 1 .. Len(written[n + 1].as) :
             nextByte + j - 1 \in DOMAIN pValue /\ pValue[nextByte + j - 1] = written[n + 1].as[j]
        /\ IsEscape(nextByte) <=> Len(written[n + 1].as) = 4
    BY <1>0, <1>5, AtPiece
  <2>2. Len(written[n + 1].as) \in {1, 4}
    BY <2>1, PieceIs DEF DataPieces
  <2>3. nextByte' = BeginOf(n + 2)
    BY <2>1, <2>2
  <2>4. b # NUL /\ (Len(written[n + 1].as) = 1 => b = written[n + 1].as[1])
    <3>1. CASE IsEscape(nextByte)
      BY <1>5, <2>1, <3>1
    <3>2. CASE ~IsEscape(nextByte)
      <4>1. b = pValue[nextByte] /\ pValue[nextByte] \in Byte
        BY <1>0, <1>5, <3>2
      <4>2. pValue[nextByte] = written[n + 1].as[1]
        BY <1>0, <2>1, <2>2, <3>2, SMTT(30)
      <4>3. \A c \in Byte : c # NUL
        BY DEF Byte, NUL
      <4> QED
        BY <4>1, <4>2, <4>3
    <3> QED
      BY <3>1, <3>2
  <2>5. \A k \in 1 .. n : m_data[k] # NUL /\ (Len(written[k].as) = 1 => m_data[k] = written[k].as[1])
    BY <1>0, <1>5 DEF DataInv, TurnsInv
  <2> QED
    BY <1>0, <1>1, <2>1, <2>3, <2>4, <2>5, SMTT(30)
<1>6. TurnsInv'
  BY <1>0, <1>1, <1>3, <1>4, <1>5 DEF TurnsInv
<1> QED
  BY <1>2, <1>4, <1>6 DEF DataInv

\* TStep::init keeps the invariant.
LEMMA DataNextKeeps ==
  ASSUME DataInv, [DataNext]_dataVars
  PROVE  DataInv'
<1>0. /\ pValue \in Seq(Byte) /\ Len(pValue) \in Nat /\ DOMAIN pValue = 1 .. Len(pValue)
      /\ nextByte \in Nat \ {0} /\ furthest \in Nat
  BY DEF DataInv, DataTypes
<1>1. ASSUME NEW p \in DataPieces, WritePiece(p) PROVE DataInv'
  BY <1>1, WritePieceKeeps
<1>2. ASSUME NEW stray \in Byte \cup {NUL}, TakeEscape(stray) PROVE DataInv'
  <2> DEFINE b == EscapedByte(ReadAt(nextByte + 2, stray), ReadAt(nextByte + 3, stray))
  <2>1. \A k \in Nat : ReadAt(k, stray) \in Byte \cup {NUL}
    BY <1>0 DEF ReadAt
  <2>2. b \in Byte \cup {NUL}
    <3>1. ReadAt(nextByte + 2, stray) \in Byte \cup {NUL} /\ ReadAt(nextByte + 3, stray) \in Byte \cup {NUL}
      <4>1. nextByte + 2 \in Nat /\ nextByte + 3 \in Nat
        BY <1>0
      <4> QED
        BY <2>1, <4>1
    <3> QED
      BY <3>1, EscapedByteIs
  <2>3. ReadInv'
    <3>1. nextByte \in 1 .. Len(pValue) /\ nextByte + 1 \in 1 .. Len(pValue)
      BY <1>0, <1>2 DEF TakeEscape, InLoop, IsEscape, ReadAt, NUL, LettersX
    <3>2. CASE nextByte + 1 = Len(pValue)
      BY <1>0, <1>2, <3>1, <3>2 DEF TakeEscape, ReadInv, IsEscape, ReadAt
    <3>3. CASE nextByte + 1 # Len(pValue)
      <4>1. furthest' = nextByte + 3 /\ pValue' = pValue
        BY <1>2 DEF TakeEscape
      <4>2. nextByte + 3 <= Len(pValue) + 1
        <5>1. Len(pValue) \in Nat /\ nextByte \in Nat
          BY <1>0
        <5>2. \A c, d \in Nat : c + 1 \in 1 .. d /\ c + 1 # d => c + 3 <= d + 1
          OBVIOUS
        <5> QED
          BY <3>1, <3>3, <5>1, <5>2
      <4> QED
        BY <4>1, <4>2 DEF ReadInv
    <3> QED
      BY <3>2, <3>3
  <2>4. ASSUME Writable PROVE b # NUL
    <3> DEFINE k == Len(m_data) + 1
               q == written[k].as
    <3>1. /\ k \in DOMAIN written /\ q \in WholePieces /\ Len(q) = 4
          /\ \A j \in 1 .. 4 : nextByte + j - 1 \in DOMAIN pValue /\ pValue[nextByte + j - 1] = q[j]
      BY <1>2, <2>4, AtPiece DEF TakeEscape
    <3>2. q[3] \in HexDigit /\ q[4] \in HexDigit
      BY <3>1, PieceIs DEF DataPieces
    <3>3. ReadAt(nextByte + 2, stray) = q[3] /\ ReadAt(nextByte + 3, stray) = q[4]
      <4>1. nextByte + 3 - 1 = nextByte + 2 /\ nextByte + 4 - 1 = nextByte + 3
        BY <1>0
      <4>2. /\ nextByte + 2 \in DOMAIN pValue /\ pValue[nextByte + 2] = q[3]
            /\ nextByte + 3 \in DOMAIN pValue /\ pValue[nextByte + 3] = q[4]
        BY <3>1, <4>1
      <4> QED
        BY <4>2 DEF ReadAt
    <3> QED
      BY <3>2, <3>3, EscapedByteIs
  <2> HIDE DEF b
  <2>5. /\ m_data' = Append(m_data, b) /\ nextByte' = nextByte + 4 /\ furthest' = nextByte + 3
        /\ UNCHANGED <<pValue, written>> /\ InLoop /\ IsEscape(nextByte)
    BY <1>2 DEF TakeEscape, b
  <2> QED
    BY <1>0, <2>2, <2>3, <2>4, <2>5, TurnKeeps
<1>3. ASSUME TakeByte PROVE DataInv'
  <2>1. /\ m_data' = Append(m_data, pValue[nextByte]) /\ nextByte' = nextByte + 1 /\ furthest' \in {nextByte, nextByte + 1}
        /\ UNCHANGED <<pValue, written>> /\ InLoop /\ ~IsEscape(nextByte)
    BY <1>3 DEF TakeByte
  <2>2. pValue[nextByte] \in Byte /\ nextByte <= Len(pValue)
    BY <1>0, <2>1 DEF InLoop
  <2>3. ReadInv'
    BY <1>0, <2>1, <2>2 DEF ReadInv
  <2> QED
    BY <1>0, <2>1, <2>2, <2>3, TurnKeeps
<1>4. CASE UNCHANGED dataVars
  BY <1>4 DEF dataVars, DataInv, DataTypes, PiecesInv, BeginOf, TurnsInv, Writable, Unbroken,
              ReadInv, IsEscape, ReadAt
<1> QED
  BY <1>1, <1>2, <1>3, <1>4 DEF DataNext

LEMMA DataInitHolds == DataInit => DataInv
  BY DEF DataInit, DataInv, DataTypes, PiecesInv, BeginOf, TurnsInv, ReadInv

\* At the end the loop is behind the last piece, and has made no NUL.
LEMMA DataInvImplies == DataInv => StepDataCounted
<1> SUFFICES ASSUME DataInv PROVE StepDataCounted
  OBVIOUS
<1>1. StaysInside
  BY DEF DataInv, TurnsInv, ReadInv, StaysInside
<1>2. ASSUME Writable, nextByte > Len(pValue)
      PROVE  /\ Len(AsString(m_data)) = Len(written)
             /\ \A k \in DOMAIN written : Len(written[k].as) = 1 => AsString(m_data)[k] = written[k].as[1]
  <2> DEFINE n == Len(m_data)
  <2>1. /\ n \in Nat /\ Len(written) \in Nat /\ DOMAIN written = 1 .. Len(written) /\ DOMAIN m_data = 1 .. n
        /\ n <= Len(written) /\ nextByte = BeginOf(n + 1) /\ Len(pValue) \in Nat /\ nextByte \in Nat
        /\ \A k \in DOMAIN m_data :
             m_data[k] # NUL /\ (Len(written[k].as) = 1 => m_data[k] = written[k].as[1])
    BY <1>2 DEF DataInv, DataTypes, TurnsInv
  <2>2. AsString(m_data) = m_data
    BY <2>1 DEF AsString
  <2>3. n = Len(written)
    <3>0. n \in Nat /\ Len(written) \in Nat /\ n <= Len(written) /\ DOMAIN written = 1 .. Len(written)
          /\ nextByte \in Nat /\ Len(pValue) \in Nat
      BY <2>1
    <3> SUFFICES ASSUME n # Len(written) PROVE FALSE
      OBVIOUS
    <3>a. n + 1 \in DOMAIN written
      <4>1. \A c, d \in Nat : c <= d /\ c # d => c + 1 \in 1 .. d
        OBVIOUS
      <4> QED
        BY <3>0, <4>1
    <3>1. written[n + 1].at \in Nat \ {0}
      BY <3>a, PieceAt
    <3>2. Len(written[n + 1].as) \in 1 .. 4
      BY <3>a, PieceAt
    <3>3. /\ nextByte = written[n + 1].at
          /\ written[n + 1].at + Len(written[n + 1].as) <= Len(pValue) + 1
      <4>1. nextByte = written[n + 1].at
        BY <2>1, <3>a DEF BeginOf
      <4>2. /\ written[n + 1].at + Len(written[n + 1].as) = BeginOf(n + 2)
            /\ BeginOf(n + 2) <= Len(pValue) + 1
        <5>1. (n + 1) + 1 = n + 2
          BY <3>0
        <5> QED
          BY <3>a, <5>1 DEF DataInv, PiecesInv
      <4> QED
        BY <4>1, <4>2
    <3>4. \A c, d \in Nat : \A e \in 1 .. 4 : ~(c > d /\ c + e <= d + 1)
      OBVIOUS
    <3> QED
      BY <1>2, <3>0, <3>2, <3>3, <3>4
  <2> QED
    BY <2>1, <2>2, <2>3
<1> QED
  BY <1>1, <1>2 DEF StepDataCounted, CountsAsWritten

\* For any text of a step, of any length, the loop of TStep::init makes of it as many bytes as
\* were meant, and keeps to its text and its buffer (step.C:80-98).
THEOREM StepDataIsCounted == DataSpec => []StepDataCounted
<1>1. DataInit => DataInv
  BY DataInitHolds
<1>2. DataInv /\ [DataNext]_dataVars => DataInv'
  BY DataNextKeeps
<1>3. DataInv => StepDataCounted
  BY DataInvImplies
<1> QED
  BY <1>1, <1>2, <1>3, PTL DEF DataSpec
-----------------------------------------------------------------------------
(* Texts                                                                   *)

\* Of two texts, one behind the other.
LEMMA JoinedIs ==
  ASSUME NEW s \in Text, NEW t \in Text
  PROVE  /\ s \o t \in Text /\ Len(s) \in Nat /\ Len(t) \in Nat /\ Len(s \o t) = Len(s) + Len(t)
         /\ DOMAIN s = 1 .. Len(s) /\ DOMAIN t = 1 .. Len(t) /\ DOMAIN (s \o t) = 1 .. Len(s) + Len(t)
         /\ \A n \in 1 .. Len(s) : (s \o t)[n] = s[n]
         /\ \A n \in 1 .. Len(t) : (s \o t)[Len(s) + n] = t[n]
  BY DEF Text

\* Of three texts, it does not matter which two are joined first.
AreTexts(s, t, u) == s \in Text /\ t \in Text /\ u \in Text

LEMMA JoinedInTurn ==
  ASSUME NEW s, NEW t, NEW u, AreTexts(s, t, u)
  PROVE  (s \o t) \o u = s \o (t \o u)
  BY ConcatAssociative DEF AreTexts, Text

LEMMA PartIs ==
  ASSUME NEW t \in Text, NEW first \in Nat \ {0}, NEW last \in Nat, last <= Len(t), first <= last + 1
  PROVE  /\ SubSeq(t, first, last) \in Text /\ Len(SubSeq(t, first, last)) = last - first + 1
         /\ \A n \in 1 .. last - first + 1 : SubSeq(t, first, last)[n] = t[first + n - 1]
  BY DEF Text

\* The same, with the length at hand.
IsPart(r, t, first, last, length) ==
  /\ t \in Text /\ first \in Nat \ {0} /\ last \in Nat /\ last <= Len(t) /\ first <= last + 1
  /\ length = last - first + 1 /\ r = SubSeq(t, first, last)

Copies(r, t, first, length) == r \in Text /\ Len(r) = length /\ \A n \in 1 .. length : r[n] = t[first + n - 1]

LEMMA PartOfLength ==
  ASSUME NEW t, NEW first, NEW last, NEW length, NEW r, IsPart(r, t, first, last, length)
  PROVE  Copies(r, t, first, length)
  BY PartIs DEF IsPart, Copies

LEMMA SameText ==
  ASSUME NEW s \in Text, NEW t \in Text, Len(s) = Len(t), \A n \in 1 .. Len(s) : s[n] = t[n]
  PROVE  s = t
  BY DEF Text

\* A character is found where it stands first, or nowhere.
FirstOf(t, c, from, p) ==
  /\ from \in Nat /\ Len(t) \in Nat /\ p \in from .. Len(t) /\ t[p] = c
  /\ \A q \in from .. Len(t) : q < p => t[q] # c

LEMMA FoundAt ==
  ASSUME NEW t, NEW c, NEW from, NEW p, FirstOf(t, c, from, p)
  PROVE  Find(t, c, from) = p
<1> USE DEF FirstOf
<1>1. p \in PlacesOf(t, c, from) /\ \A q \in PlacesOf(t, c, from) : q \in Int /\ p <= q
  BY DEF PlacesOf
<1> HIDE DEF FirstOf
<1>2. Min(PlacesOf(t, c, from)) = p
  <2> DEFINE S == PlacesOf(t, c, from)
  <2> SUFFICES Min(S) = p
    OBVIOUS
  <2>1. p \in S /\ (\A q \in S : p <= q) /\ S \subseteq Int
    BY <1>1
  <2> HIDE DEF S
  <2>2. \A x \in S : (\A q \in S : x <= q) => x = p
    BY <2>1
  <2>3. Min(S) \in S /\ \A q \in S : Min(S) <= q
    BY <2>1 DEF Min
  <2> QED
    BY <2>2, <2>3
<1> QED
  BY <1>1, <1>2 DEF Find

LEMMA FoundNowhere ==
  ASSUME NEW t, NEW c, NEW from \in Nat, \A q \in from .. Len(t) : t[q] # c
  PROVE  Find(t, c, from) = 0
  BY DEF Find, PlacesOf

\* What a line ends with, but for the LF itself.
CROf(ended) == SubSeq(ended, 1, Len(ended) - 1)

LEMMA EndIs ==
  ASSUME NEW ended \in LineEnds
  PROVE  /\ ended \in Text /\ CROf(ended) \in Text /\ Len(ended) = Len(CROf(ended)) + 1 /\ Len(CROf(ended)) \in {0, 1}
         /\ ended[Len(ended)] = LF
         /\ \A n \in 1 .. Len(CROf(ended)) : ended[n] = CR /\ CROf(ended)[n] = CR
<1>0. LF \in Alphabet /\ CR \in Alphabet
  BY HttpAssumption
<1>1. CASE ended = <<LF>>
  <2>1. ended \in Text /\ Len(ended) = 1 /\ ended[1] = LF
    BY <1>0, <1>1 DEF Text
  <2>2. CROf(ended) \in Text /\ Len(CROf(ended)) = 0
    BY <2>1, PartIs DEF CROf
  <2> QED
    BY <2>1, <2>2
<1>2. CASE ended = <<CR, LF>>
  <2>1. ended \in Text /\ Len(ended) = 2 /\ ended[1] = CR /\ ended[2] = LF
    BY <1>0, <1>2 DEF Text
  <2>2. CROf(ended) = SubSeq(ended, 1, 1)
    BY <2>1 DEF CROf
  <2>3. SubSeq(ended, 1, 1) \in Text /\ Len(SubSeq(ended, 1, 1)) = 1
        /\ \A n \in 1 .. 1 : SubSeq(ended, 1, 1)[n] = ended[1 + n - 1]
    <3> DEFINE r == SubSeq(ended, 1, 1)
    <3>1. IsPart(r, ended, 1, 1, 1)
      BY <2>1 DEF IsPart
    <3> HIDE DEF r
    <3>2. Copies(r, ended, 1, 1)
      BY <3>1, PartOfLength
    <3> QED
      BY <3>2 DEF Copies, r
  <2>4. SubSeq(ended, 1, 1)[1] = ended[1]
    <3>1. 1 \in 1 .. 1 /\ 1 + 1 - 1 = 1
      OBVIOUS
    <3> QED
      BY <2>3, <3>1
  <2> QED
    BY <2>1, <2>2, <2>3, <2>4
<1> QED
  BY <1>1, <1>2 DEF LineEnds

\* What stands in neither of two texts does not stand in the two together.
LEMMA WithoutIs ==
  ASSUME NEW s \in Text, NEW t \in Text, NEW c, Without(s, {c}), Without(t, {c})
  PROVE  Without(s \o t, {c})
<1> SUFFICES ASSUME NEW n \in 1 .. Len(s) + Len(t) PROVE (s \o t)[n] # c
  BY JoinedIs DEF Without
<1>1. /\ Len(s) \in Nat /\ Len(t) \in Nat /\ DOMAIN s = 1 .. Len(s) /\ DOMAIN t = 1 .. Len(t)
      /\ \A k \in 1 .. Len(s) : (s \o t)[k] = s[k]
      /\ \A k \in 1 .. Len(t) : (s \o t)[Len(s) + k] = t[k]
  BY JoinedIs
<1>2. CASE n \in 1 .. Len(s)
  BY <1>1, <1>2 DEF Without
<1>3. CASE n \notin 1 .. Len(s)
  <2>1. n - Len(s) \in 1 .. Len(t) /\ n = Len(s) + (n - Len(s))
    BY <1>1, <1>3
  <2> QED
    BY <1>1, <2>1 DEF Without
<1> QED
  BY <1>2, <1>3

StandsAtIn(text, t, b) == \A n \in 1 .. Len(t) : b + n - 1 \in DOMAIN text /\ text[b + n - 1] = t[n]

\* What stands in a text still does when more is written, and what is written stands at the end.
LEMMA StandsStill ==
  ASSUME NEW s \in Text, NEW u \in Text, NEW t \in Text, NEW b \in Nat \ {0}, StandsAtIn(s, t, b)
  PROVE  StandsAtIn(s \o u, t, b)
<1>1. /\ Len(s) \in Nat /\ Len(u) \in Nat /\ DOMAIN s = 1 .. Len(s) /\ DOMAIN (s \o u) = 1 .. Len(s) + Len(u)
      /\ \A n \in 1 .. Len(s) : (s \o u)[n] = s[n]
  BY JoinedIs
<1>2. 1 .. Len(s) \subseteq 1 .. Len(s) + Len(u)
  BY <1>1
<1> QED
  BY <1>1, <1>2 DEF StandsAtIn

LEMMA StandsBehind ==
  ASSUME NEW s \in Text, NEW t \in Text
  PROVE  StandsAtIn(s \o t, t, Len(s) + 1)
<1>1. /\ Len(s) \in Nat /\ Len(t) \in Nat /\ DOMAIN (s \o t) = 1 .. Len(s) + Len(t)
      /\ \A n \in 1 .. Len(t) : (s \o t)[Len(s) + n] = t[n]
  BY JoinedIs
<1>2. ASSUME NEW n \in 1 .. Len(t)
      PROVE  (Len(s) + 1) + n - 1 \in DOMAIN (s \o t) /\ (s \o t)[(Len(s) + 1) + n - 1] = t[n]
  <2>1. (Len(s) + 1) + n - 1 = Len(s) + n /\ Len(s) + n \in 1 .. Len(s) + Len(t)
    BY <1>1
  <2> QED
    BY <1>1, <2>1
<1> QED
  BY <1>2 DEF StandsAtIn

LEMMA StandsWhole ==
  ASSUME NEW t \in Text
  PROVE  StandsAtIn(t, t, 1)
<1>1. Len(t) \in Nat /\ DOMAIN t = 1 .. Len(t)
  BY DEF Text
<1>2. \A n \in 1 .. Len(t) : 1 + n - 1 = n
  BY <1>1
<1> QED
  BY <1>1, <1>2 DEF StandsAtIn

\* A line is found as it was written.
LineStands(text, b, t, ended) ==
  /\ text \in Text /\ b \in Nat \ {0} /\ t \in Text /\ ended \in LineEnds /\ Without(t, {LF})
  /\ StandsAtIn(text, t \o ended, b)
LineFound(text, b, t, ended) ==
  /\ Find(text, LF, b) = b + Len(t) + Len(ended) - 1
  /\ SubSeq(text, b, Find(text, LF, b) - 1) = t \o CROf(ended)

LEMMA LineIs ==
  ASSUME NEW text, NEW b, NEW t, NEW ended, LineStands(text, b, t, ended)
  PROVE  LineFound(text, b, t, ended)
<1> SUFFICES ASSUME text \in Text, b \in Nat \ {0}, t \in Text, ended \in LineEnds, Without(t, {LF}),
                    StandsAtIn(text, t \o ended, b)
             PROVE  /\ Find(text, LF, b) = b + Len(t) + Len(ended) - 1
                    /\ SubSeq(text, b, Find(text, LF, b) - 1) = t \o CROf(ended)
  BY DEF LineStands, LineFound
<1> DEFINE p == b + Len(t) + Len(ended) - 1
           n == Len(t)
           e == Len(ended)
<1>1. /\ ended \in Text /\ CROf(ended) \in Text /\ e = Len(CROf(ended)) + 1 /\ Len(CROf(ended)) \in {0, 1}
      /\ e \in {1, 2} /\ ended[e] = LF
      /\ \A k \in 1 .. Len(CROf(ended)) : ended[k] = CR /\ CROf(ended)[k] = CR
  <2>1. Len(ended) = Len(CROf(ended)) + 1 /\ Len(CROf(ended)) \in {0, 1}
    BY EndIs
  <2>2. Len(ended) \in {1, 2}
    <3>1. \A k \in {0, 1} : k + 1 \in {1, 2}
      OBVIOUS
    <3> QED
      BY <2>1, <3>1
  <2> QED
    BY <2>2, EndIs
<1>2. /\ n \in Nat /\ Len(t \o ended) = n + e /\ t \o ended \in Text /\ DOMAIN t = 1 .. n
      /\ \A k \in 1 .. n : (t \o ended)[k] = t[k]
      /\ \A k \in 1 .. e : (t \o ended)[n + k] = ended[k]
  BY <1>1, JoinedIs
<1>3. DOMAIN text = 1 .. Len(text) /\ Len(text) \in Nat
  BY DEF Text
<1>4. p \in b .. Len(text) /\ p - 1 \in Nat /\ p = b + (n + e) - 1
  <2>1. n + e \in 1 .. Len(t \o ended)
    BY <1>1, <1>2
  <2>2. b + (n + e) - 1 \in DOMAIN text
    BY <2>1 DEF StandsAtIn
  <2> QED
    BY <1>1, <1>2, <1>3, <2>2
<1>5. text[p] = LF
  <2>1. n + e \in 1 .. Len(t \o ended) /\ e \in 1 .. e
    BY <1>1, <1>2
  <2>2. text[b + (n + e) - 1] = (t \o ended)[n + e]
    BY <2>1 DEF StandsAtIn
  <2> QED
    BY <1>1, <1>2, <1>4, <2>1, <2>2
<1>6. ASSUME NEW k \in 1 .. n + e - 1 PROVE text[b + k - 1] = (t \o CROf(ended))[k] /\ text[b + k - 1] # LF
  <2>1. k \in 1 .. Len(t \o ended)
    BY <1>1, <1>2
  <2>2. text[b + k - 1] = (t \o ended)[k]
    BY <2>1 DEF StandsAtIn
  <2>3. /\ Len(t \o CROf(ended)) = n + e - 1
        /\ \A j \in 1 .. n : (t \o CROf(ended))[j] = t[j]
        /\ \A j \in 1 .. Len(CROf(ended)) : (t \o CROf(ended))[n + j] = CROf(ended)[j]
    BY <1>1, <1>2, JoinedIs
  <2>4. CASE k \in 1 .. n
    BY <1>2, <2>2, <2>3, <2>4 DEF Without
  <2>5. CASE k \notin 1 .. n
    <3>1. PICK j \in 1 .. Len(CROf(ended)) : k = n + j
      <4>1. k - n \in 1 .. Len(CROf(ended)) /\ k = n + (k - n)
        BY <1>1, <1>2, <2>5
      <4> QED
        BY <4>1
    <3>2. j \in 1 .. e
      BY <1>1
    <3>3. (t \o ended)[k] = CR /\ (t \o CROf(ended))[k] = CR
      BY <1>1, <1>2, <2>3, <3>1, <3>2
    <3> QED
      BY <2>2, <3>3 DEF LF, CR
  <2> QED
    BY <2>4, <2>5
<1>7. Find(text, LF, b) = p
  <2>1. ASSUME NEW q \in b .. Len(text), q < p PROVE text[q] # LF
    <3>1. q - b + 1 \in 1 .. n + e - 1 /\ b + (q - b + 1) - 1 = q
      BY <1>1, <1>2, <1>4, <2>1
    <3> QED
      BY <1>6, <3>1
  <2>2. b \in Nat /\ Len(text) \in Nat /\ p \in b .. Len(text) /\ text[p] = LF
    BY <1>3, <1>4, <1>5
  <2> HIDE DEF p
  <2>3. FirstOf(text, LF, b, p)
    BY <2>1, <2>2 DEF FirstOf
  <2> QED
    BY <2>3, FoundAt
<1>8. SubSeq(text, b, p - 1) = t \o CROf(ended)
  <2>1. /\ t \o CROf(ended) \in Text /\ Len(t \o CROf(ended)) = n + e - 1
    BY <1>1, <1>2, JoinedIs
  <2>2. /\ SubSeq(text, b, p - 1) \in Text /\ Len(SubSeq(text, b, p - 1)) = (p - 1) - b + 1
        /\ \A k \in 1 .. (p - 1) - b + 1 : SubSeq(text, b, p - 1)[k] = text[b + k - 1]
    <3>1. p - 1 \in Nat /\ p - 1 <= Len(text) /\ b <= (p - 1) + 1
      BY <1>3, <1>4
    <3> HIDE DEF p
    <3> QED
      BY <3>1, PartIs
  <2>3. (p - 1) - b + 1 = n + e - 1
    BY <1>1, <1>2
  <2> HIDE DEF p, n, e
  <2>4. \A k \in 1 .. n + e - 1 : SubSeq(text, b, p - 1)[k] = (t \o CROf(ended))[k]
    BY <1>6, <2>2, <2>3
  <2>5. Len(SubSeq(text, b, p - 1)) = n + e - 1
    BY <2>2, <2>3
  <2> QED
    BY <2>1, <2>2, <2>4, <2>5, SameText
<1> QED
  BY <1>7, <1>8

-----------------------------------------------------------------------------
(* The lines of a request                                                  *)

\* What stands behind the colon.
LEMMA BehindIs ==
  ASSUME NEW f \in Field, NEW ended \in LineEnds, asked.ended = ended
  PROVE  /\ BehindColon(f) \in Text /\ LineOf(f) \in Text /\ Without(LineOf(f), {LF})
         /\ LineOf(f) \o CROf(ended) = f.name \o (<<Colon>> \o BehindColon(f))
<1>1. f.name \in Text /\ f.blank \in Text /\ f.value \in Text /\ CROf(ended) \in Text /\ <<Colon>> \in Text
  <2>1. f.name \in Text /\ f.value \in Text /\ f.blank \in {<<>>, <<SP>>}
    BY DEF Field
  <2>2. <<>> \in Text /\ <<SP>> \in Text /\ <<Colon>> \in Text
    BY HttpAssumption DEF Text
  <2> QED
    BY <2>1, <2>2, EndIs
<1>2. Without(f.name, {LF}) /\ Without(f.blank, {LF}) /\ Without(f.value, {LF}) /\ Without(<<Colon>>, {LF})
  <2>1. Without(f.name, {Colon, LF}) /\ Without(f.value, {LF}) /\ f.blank \in {<<>>, <<SP>>}
    BY DEF Field
  <2>2. Without(f.name, {LF})
    BY <2>1 DEF Without
  <2>3. Without(<<>>, {LF})
    BY DEF Without
  <2>4. \A c : c # LF => Without(<<c>>, {LF})
    BY DEF Without
  <2>5. SP # LF /\ Colon # LF
    BY DEF LF, SP, Colon
  <2> QED
    BY <2>1, <2>2, <2>3, <2>4, <2>5
<1>3. \A s, t \in Text : Without(s, {LF}) /\ Without(t, {LF}) => Without(s \o t, {LF})
  BY WithoutIs
<1>5. \A s, t \in Text : s \o t \in Text
  BY JoinedIs
<1>6. LineOf(f) \in Text /\ BehindColon(f) \in Text
  BY <1>1, <1>5 DEF LineOf, BehindColon, CROf
<1>7. Without(LineOf(f), {LF})
  BY <1>1, <1>2, <1>3, <1>5 DEF LineOf
<1>8. LineOf(f) \o CROf(ended) = f.name \o (<<Colon>> \o BehindColon(f))
  <2> DEFINE a == f.name
             c == <<Colon>>
             d == f.blank
             v == f.value
             e == CROf(ended)
  <2>1. a \in Text /\ c \in Text /\ d \in Text /\ v \in Text /\ e \in Text
    BY <1>1
  <2>2. LineOf(f) \o e = (((a \o c) \o d) \o v) \o e /\ BehindColon(f) = (d \o v) \o e
    BY DEF LineOf, BehindColon, CROf
  <2> HIDE DEF a, c, d, v, e
  <2>3. d \o v \in Text /\ v \o e \in Text /\ a \o c \in Text /\ d \o (v \o e) \in Text
    BY <1>5, <2>1
  <2>4. (a \o c) \o d \in Text
    BY <1>5, <2>1, <2>3
  <2>5. (((a \o c) \o d) \o v) \o e = ((a \o c) \o d) \o (v \o e)
    <3>1. AreTexts((a \o c) \o d, v, e)
      BY <2>1, <2>4 DEF AreTexts
    <3> QED
      BY <3>1, JoinedInTurn, SMTT(30)
  <2>6. ((a \o c) \o d) \o (v \o e) = (a \o c) \o (d \o (v \o e))
    <3>1. AreTexts(a \o c, d, v \o e)
      BY <2>1, <2>3 DEF AreTexts
    <3> QED
      BY <3>1, JoinedInTurn, SMTT(30)
  <2>7. (a \o c) \o (d \o (v \o e)) = a \o (c \o (d \o (v \o e)))
    <3>1. AreTexts(a, c, d \o (v \o e))
      BY <2>1, <2>3 DEF AreTexts
    <3> QED
      BY <3>1, JoinedInTurn, SMTT(30)
  <2>8. (d \o v) \o e = d \o (v \o e)
    <3>1. AreTexts(d, v, e)
      BY <2>1 DEF AreTexts
    <3> QED
      BY <3>1, JoinedInTurn, SMTT(30)
  <2>9. LineOf(f) \o e = a \o (c \o BehindColon(f))
    BY <2>2, <2>5, <2>6, <2>7, <2>8
  <2> QED
    BY <2>9 DEF a, c, e
<1> QED
  BY <1>6, <1>7, <1>8

\* The parser takes a header's line apart at its first colon (httpparser.C:30-34).
LEMMA HeaderIs ==
  ASSUME NEW name \in Text, Without(name, {Colon}), NEW rest \in Text, NEW line,
         line = name \o (<<Colon>> \o rest)
  PROVE  /\ Find(line, Colon, 1) = Len(name) + 1
         /\ Throws(line) <=> rest = <<>>
         /\ SubSeq(line, 1, Find(line, Colon, 1) - 1) = name
         /\ rest # <<>> => ValueOf(line) = Tail(rest)
<1>1. <<Colon>> \in Text /\ Len(<<Colon>>) = 1 /\ <<Colon>>[1] = Colon
  BY HttpAssumption DEF Text
<1> DEFINE u == <<Colon>> \o rest
<1>2. /\ u \in Text /\ Len(rest) \in Nat /\ Len(u) = 1 + Len(rest) /\ u[1] = Colon
      /\ \A k \in 1 .. Len(rest) : u[1 + k] = rest[k]
  BY <1>1, JoinedIs
<1> HIDE DEF u
<1>3. /\ line \in Text /\ Len(name) \in Nat /\ Len(line) = Len(name) + 1 + Len(rest) /\ DOMAIN name = 1 .. Len(name)
      /\ \A k \in 1 .. Len(name) : line[k] = name[k]
      /\ \A k \in 1 .. Len(u) : line[Len(name) + k] = u[k]
  <2>1. line = name \o u
    BY DEF u
  <2>2. /\ name \o u \in Text /\ Len(name) \in Nat /\ Len(name \o u) = Len(name) + Len(u) /\ DOMAIN name = 1 .. Len(name)
        /\ \A k \in 1 .. Len(name) : (name \o u)[k] = name[k]
        /\ \A k \in 1 .. Len(u) : (name \o u)[Len(name) + k] = u[k]
    BY <1>2, JoinedIs
  <2>3. Len(name) + Len(u) = Len(name) + 1 + Len(rest)
    BY <1>2, <2>2
  <2> QED
    BY <2>1, <2>2, <2>3
<1>4. Find(line, Colon, 1) = Len(name) + 1
  <2> DEFINE p == Len(name) + 1
  <2>1. ASSUME NEW q \in 1 .. Len(line), q < p PROVE line[q] # Colon
    <3>1. q \in 1 .. Len(name)
      BY <1>3, <2>1
    <3> QED
      BY <1>3, <3>1 DEF Without
  <2>2. line[p] = Colon
    BY <1>2, <1>3
  <2>3. p \in 1 .. Len(line) /\ Len(line) \in Nat /\ 1 \in Nat
    BY <1>2, <1>3
  <2> HIDE DEF p
  <2>4. FirstOf(line, Colon, 1, p)
    BY <2>1, <2>2, <2>3 DEF FirstOf
  <2>5. Find(line, Colon, 1) = p
    BY <2>4, FoundAt
  <2> QED
    BY <2>5 DEF p
<1>5. Throws(line) <=> rest = <<>>
  <2>1. Len(rest) = 0 <=> rest = <<>>
    BY DEF Text
  <2>2. line # <<>>
    BY <1>2, <1>3
  <2> QED
    BY <1>2, <1>3, <1>4, <2>1, <2>2 DEF Throws
<1>6. SubSeq(line, 1, Find(line, Colon, 1) - 1) = name
  <2>1. Find(line, Colon, 1) - 1 = Len(name) /\ Len(name) <= Len(line) /\ 1 <= Len(name) + 1 /\ Len(name) - 1 + 1 = Len(name)
    BY <1>2, <1>3, <1>4
  <2>2. /\ SubSeq(line, 1, Len(name)) \in Text /\ Len(SubSeq(line, 1, Len(name))) = Len(name)
        /\ \A k \in 1 .. Len(name) : SubSeq(line, 1, Len(name))[k] = line[1 + k - 1]
    <3> DEFINE r == SubSeq(line, 1, Len(name))
    <3>1. IsPart(r, line, 1, Len(name), Len(name))
      BY <1>3, <2>1 DEF IsPart
    <3> HIDE DEF r
    <3>2. Copies(r, line, 1, Len(name))
      BY <3>1, PartOfLength
    <3> QED
      BY <3>2 DEF Copies, r
  <2>3. ASSUME NEW k \in 1 .. Len(name) PROVE SubSeq(line, 1, Len(name))[k] = name[k]
    <3>1. 1 + k - 1 = k
      OBVIOUS
    <3> QED
      BY <1>3, <2>2, <3>1
  <2> QED
    BY <2>1, <2>2, <2>3, SameText
<1>7. ASSUME rest # <<>> PROVE ValueOf(line) = Tail(rest)
  <2>1. Len(rest) \in Nat \ {0} /\ Tail(rest) \in Text /\ Len(Tail(rest)) = Len(rest) - 1
        /\ \A k \in 1 .. Len(rest) - 1 : Tail(rest)[k] = rest[k + 1]
    BY <1>7 DEF Text
  <2> DEFINE first == Len(name) + 3
             v == SubSeq(line, first, Len(line))
  <2>2. /\ first \in Nat \ {0} /\ Len(line) \in Nat /\ first <= Len(line) + 1 /\ Len(line) - first + 1 = Len(rest) - 1
    BY <1>2, <1>3, <2>1
  <2>3. ValueOf(line) = v
    <3>1. Find(line, Colon, 1) + 2 = first
      BY <1>3, <1>4
    <3> QED
      BY <3>1 DEF ValueOf
  <2>4. /\ v \in Text /\ Len(v) = Len(rest) - 1
        /\ \A k \in 1 .. Len(rest) - 1 : v[k] = line[first + k - 1]
    <3>1. IsPart(v, line, first, Len(line), Len(rest) - 1)
      BY <1>3, <2>2 DEF IsPart
    <3> HIDE DEF first, v
    <3>2. Copies(v, line, first, Len(rest) - 1)
      BY <3>1, PartOfLength
    <3> QED
      BY <3>2 DEF Copies, v
  <2>5. ASSUME NEW k \in 1 .. Len(rest) - 1 PROVE v[k] = Tail(rest)[k]
    <3>1. first + k - 1 = Len(name) + (k + 2) /\ k + 2 \in 1 .. Len(u) /\ k + 1 \in 1 .. Len(rest) /\ 1 + (k + 1) = k + 2
      BY <1>2, <1>3, <2>1
    <3>2. line[Len(name) + (k + 2)] = u[k + 2] /\ u[k + 2] = rest[k + 1]
      <4>1. line[Len(name) + (k + 2)] = u[k + 2]
        BY <1>3, <3>1
      <4>2. u[1 + (k + 1)] = rest[k + 1]
        BY <1>2, <3>1
      <4> QED
        BY <3>1, <4>1, <4>2
    <3> QED
      BY <2>1, <2>4, <3>1, <3>2
  <2> QED
    BY <2>1, <2>3, <2>4, <2>5, SameText
<1> QED
  BY <1>4, <1>5, <1>6, <1>7

\* It takes the request line apart at its first two blanks (httpparser.C:14-24).
IsHead(header, method, target, rest) ==
  /\ method \in Text /\ target \in Text /\ rest \in Text /\ Without(method, {SP}) /\ Without(target, {SP})
  /\ header = method \o (<<SP>> \o (target \o (<<SP>> \o rest)))
ReadAs(header, method, target) ==
  LET pos4 == Find(header, SP, 1)
      pos5 == Find(header, SP, pos4 + 1)
  IN /\ pos4 # 0 /\ pos5 # 0
     /\ SubSeq(header, 1, pos4 - 1) = method
     /\ SubSeq(header, pos4 + 1, pos5) = target \o <<SP>>

LEMMA HeadIs ==
  ASSUME NEW method, NEW target, NEW rest, NEW header, IsHead(header, method, target, rest)
  PROVE  ReadAs(header, method, target)
<1>0. /\ method \in Text /\ target \in Text /\ rest \in Text /\ Without(method, {SP}) /\ Without(target, {SP})
      /\ header = method \o (<<SP>> \o (target \o (<<SP>> \o rest)))
  BY DEF IsHead
<1> DEFINE v == <<SP>> \o rest
           w == target \o v
           u == <<SP>> \o w
           m == Len(method)
           n == Len(target)
<1>1. <<SP>> \in Text /\ Len(<<SP>>) = 1 /\ <<SP>>[1] = SP
  BY HttpAssumption DEF Text
<1>2. /\ v \in Text /\ Len(rest) \in Nat /\ Len(v) = 1 + Len(rest) /\ v[1] = SP
  BY <1>0, <1>1, JoinedIs
<1> HIDE DEF v
<1>3. /\ w \in Text /\ n \in Nat /\ Len(w) = n + Len(v) /\ DOMAIN target = 1 .. n
      /\ \A k \in 1 .. n : w[k] = target[k]
      /\ \A k \in 1 .. Len(v) : w[n + k] = v[k]
  BY <1>0, <1>2, JoinedIs
<1> HIDE DEF w
<1>4. /\ u \in Text /\ Len(u) = 1 + Len(w) /\ u[1] = SP
      /\ \A k \in 1 .. Len(w) : u[1 + k] = w[k]
  <2>1. w \in Text
    BY <1>3
  <2> QED
    BY <1>1, <2>1, JoinedIs
<1> HIDE DEF u
<1>5. /\ header \in Text /\ m \in Nat /\ Len(header) = m + Len(u) /\ DOMAIN method = 1 .. m
      /\ \A k \in 1 .. m : header[k] = method[k]
      /\ \A k \in 1 .. Len(u) : header[m + k] = u[k]
  <2>1. header = method \o u
    BY <1>0 DEF u, v, w
  <2>2. u \in Text
    BY <1>4
  <2>3. method \o u \in Text /\ Len(method) \in Nat /\ Len(method \o u) = Len(method) + Len(u) /\ DOMAIN method = 1 .. Len(method)
        /\ (\A k \in 1 .. Len(method) : (method \o u)[k] = method[k])
        /\ \A k \in 1 .. Len(u) : (method \o u)[Len(method) + k] = u[k]
    BY <1>0, <2>2, JoinedIs
  <2> QED
    BY <2>1, <2>3
<1>6. Len(header) = m + n + 2 + Len(rest)
  BY <1>2, <1>3, <1>4, <1>5
<1>7. \A k \in 1 .. n : header[m + 1 + k] = target[k]
  <2> SUFFICES ASSUME NEW k \in 1 .. n PROVE header[m + 1 + k] = target[k]
    OBVIOUS
  <2>1. 1 + k \in 1 .. Len(u) /\ k \in 1 .. Len(w) /\ m + 1 + k = m + (1 + k)
    BY <1>2, <1>3, <1>4, <1>5
  <2> QED
    BY <1>3, <1>4, <1>5, <2>1
<1>8. header[m + 1] = SP /\ header[m + n + 2] = SP
  <2>1. 1 \in 1 .. Len(u) /\ n + 1 \in 1 .. Len(w) /\ n + 2 \in 1 .. Len(u) /\ 1 \in 1 .. Len(v)
        /\ m + n + 2 = m + (n + 2) /\ n + 2 = 1 + (n + 1)
    BY <1>2, <1>3, <1>4, <1>5
  <2>2. header[m + 1] = SP
    BY <1>4, <1>5, <2>1
  <2>3. w[n + 1] = SP
    BY <1>2, <1>3, <2>1
  <2>4. u[n + 2] = SP
    BY <1>4, <2>1, <2>3
  <2> QED
    BY <1>5, <2>1, <2>2, <2>4
<1> HIDE DEF m, n
<1>9. Find(header, SP, 1) = m + 1
  <2> DEFINE p == m + 1
  <2>1. ASSUME NEW q \in 1 .. Len(header), q < p PROVE header[q] # SP
    <3>1. q \in 1 .. m
      BY <1>5, <2>1
    <3> QED
      BY <1>0, <1>5, <3>1 DEF Without
  <2>2. p \in 1 .. Len(header) /\ 1 \in Nat /\ Len(header) \in Nat /\ header[p] = SP
    BY <1>2, <1>3, <1>5, <1>6, <1>8
  <2> HIDE DEF p
  <2>3. FirstOf(header, SP, 1, p)
    BY <2>1, <2>2 DEF FirstOf
  <2>4. Find(header, SP, 1) = p
    BY <2>3, FoundAt
  <2> QED
    BY <2>4 DEF p
<1>10. Find(header, SP, m + 2) = m + n + 2
  <2> DEFINE p == m + n + 2
             from == m + 2
  <2>1. ASSUME NEW q \in from .. Len(header), q < p PROVE header[q] # SP
    <3>1. q - m - 1 \in 1 .. n /\ m + 1 + (q - m - 1) = q
      BY <1>3, <1>5, <2>1
    <3>2. header[q] = target[q - m - 1]
      BY <1>7, <3>1
    <3> QED
      BY <1>0, <1>3, <3>1, <3>2 DEF Without
  <2>2. p \in from .. Len(header) /\ from \in Nat /\ Len(header) \in Nat /\ header[p] = SP
    BY <1>2, <1>3, <1>5, <1>6, <1>8
  <2> HIDE DEF p, from
  <2>3. FirstOf(header, SP, from, p)
    BY <2>1, <2>2 DEF FirstOf
  <2>4. Find(header, SP, from) = p
    BY <2>3, FoundAt
  <2> QED
    BY <2>4 DEF p, from
<1>11. SubSeq(header, 1, m) = method
  <2>1. m <= Len(header) /\ 1 <= m + 1 /\ m - 1 + 1 = m
    BY <1>2, <1>3, <1>5, <1>6
  <2>2. /\ SubSeq(header, 1, m) \in Text /\ Len(SubSeq(header, 1, m)) = m
        /\ \A k \in 1 .. m : SubSeq(header, 1, m)[k] = header[1 + k - 1]
    <3> DEFINE r == SubSeq(header, 1, m)
    <3>1. IsPart(r, header, 1, m, m)
      BY <1>5, <2>1 DEF IsPart
    <3> HIDE DEF r
    <3>2. Copies(r, header, 1, m)
      BY <3>1, PartOfLength
    <3> QED
      BY <3>2 DEF Copies, r
  <2>3. ASSUME NEW k \in 1 .. m PROVE SubSeq(header, 1, m)[k] = method[k]
    <3>1. 1 + k - 1 = k
      OBVIOUS
    <3> QED
      BY <1>5, <2>2, <3>1
  <2> QED
    BY <1>0, <2>2, <2>3, SameText DEF m
<1>12. SubSeq(header, m + 2, m + n + 2) = target \o <<SP>>
  <2> DEFINE s == SubSeq(header, m + 2, m + n + 2)
             t == target \o <<SP>>
  <2>1. /\ m + 2 \in Nat \ {0} /\ m + n + 2 \in Nat /\ m + n + 2 <= Len(header) /\ m + 2 <= (m + n + 2) + 1
        /\ (m + n + 2) - (m + 2) + 1 = n + 1
    BY <1>2, <1>3, <1>5, <1>6
  <2>2. s \in Text /\ Len(s) = n + 1 /\ \A k \in 1 .. n + 1 : s[k] = header[(m + 2) + k - 1]
    <3>1. IsPart(s, header, m + 2, m + n + 2, n + 1)
      BY <1>5, <2>1 DEF IsPart
    <3> HIDE DEF s
    <3>2. Copies(s, header, m + 2, n + 1)
      BY <3>1, PartOfLength
    <3> QED
      BY <3>2 DEF Copies, s
  <2>3. t \in Text /\ Len(t) = n + 1 /\ (\A k \in 1 .. n : t[k] = target[k]) /\ t[n + 1] = SP
    BY <1>0, <1>1, JoinedIs DEF n
  <2> HIDE DEF s, t
  <2>4. ASSUME NEW k \in 1 .. n + 1 PROVE s[k] = t[k]
    <3>1. CASE k = n + 1
      <4>1. (m + 2) + k - 1 = m + n + 2
        BY <1>3, <1>5, <3>1
      <4> QED
        BY <1>8, <2>2, <2>3, <3>1, <4>1
    <3>2. CASE k # n + 1
      <4>1. (m + 2) + k - 1 = m + 1 + k /\ k \in 1 .. n
        BY <1>3, <1>5, <3>2
      <4> QED
        BY <1>7, <2>2, <2>3, <4>1
    <3> QED
      BY <3>1, <3>2
  <2>5. s = t
    BY <2>2, <2>3, <2>4, SameText
  <2> QED
    BY <2>5 DEF s, t
<1>13. (m + 1) - 1 = m /\ (m + 1) + 1 = m + 2 /\ m + 1 # 0 /\ m + n + 2 # 0
  BY <1>3, <1>5
<1> QED
  BY <1>9, <1>10, <1>11, <1>12, <1>13 DEF ReadAs

-----------------------------------------------------------------------------
(* A request                                                               *)

HeadOf(a) == a.method \o <<SP>> \o a.target \o <<SP>> \o a.version
HeadLine == HeadOf(asked)

\* Where a header begins, the empty line behind the last, and what is behind that.
HeadersEnd == IF parsing = "not" THEN Len(str) + 1 ELSE Len(str) + 1 - Len(asked.ended)
BeginsAt(k) == IF k \in DOMAIN fields THEN fields[k].at ELSE IF k = Len(fields) + 1 THEN HeadersEnd ELSE Len(str) + 1

PlacedField == [at : Nat \ {0}, as : Field]

HttpTypes ==
  /\ str \in Text /\ asked \in Asked \cup {Nothing} /\ fields \in Seq(PlacedField)
  /\ parsing \in {"not", "called", "lines", "thrown"} /\ HeadersEnd \in Nat \ {0}

HeaderStands(k) ==
  /\ StandsAtIn(str, LineOf(fields[k].as) \o asked.ended, BeginsAt(k))
  /\ BeginsAt(k + 1) = BeginsAt(k) + Len(LineOf(fields[k].as)) + Len(asked.ended)

\* The request line, the headers and the empty line stand one behind the other.
WrittenInv ==
  /\ asked = Nothing => str = <<>> /\ fields = <<>> /\ parsing = "not"
  /\ asked # Nothing =>
       /\ StandsAtIn(str, HeadLine \o asked.ended, 1)
       /\ BeginsAt(1) = 1 + Len(HeadLine) + Len(asked.ended)
       /\ \A k \in DOMAIN fields : HeaderStands(k)
       /\ parsing # "not" => StandsAtIn(str, asked.ended, HeadersEnd)

\* Of the headers before the k-th, the first of each name is kept, and none has made the parser throw.
TakenBefore(k) ==
  LET before == {j \in DOMAIN fields : j < k}
  IN /\ \A j \in before : ~Lost(j)
     /\ DOMAIN m_headers = {fields[j].as.name : j \in before}
     /\ \A j \in before : First(j) => m_headers[fields[j].as.name] = Tail(BehindColon(fields[j].as))

\* The loop goes on where a line begins, and throws only where one is lost.
LoopInv ==
  /\ parsing \in {"not", "called"} => m_type = <<>> /\ m_url = <<>> /\ m_headers = <<>> /\ pos1 = 1
  /\ parsing \in {"lines", "thrown"} =>
       /\ m_type = asked.method /\ m_url = asked.target \o <<SP>>
       /\ \E k \in 1 .. Len(fields) + 2 :
            /\ pos1 = BeginsAt(k) /\ TakenBefore(k)
            /\ parsing = "thrown" => k \in DOMAIN fields /\ Lost(k)

HttpInv == HttpTypes /\ WrittenInv /\ LoopInv

\* The request line is its three parts with blanks between them.
LEMMA HeadOfIs ==
  ASSUME NEW a \in Asked
  PROVE  /\ a.ended \in LineEnds /\ a.method \in Text /\ a.target \in Text /\ a.version \in Text
         /\ Without(a.method, {SP}) /\ Without(a.target, {SP})
         /\ HeadOf(a) \in Text /\ Without(HeadOf(a), {LF})
         /\ a.version \o CROf(a.ended) \in Text
         /\ HeadOf(a) \o CROf(a.ended)
              = a.method \o (<<SP>> \o (a.target \o (<<SP>> \o (a.version \o CROf(a.ended)))))
<1> DEFINE m == a.method
           t == a.target
           v == a.version
           e == CROf(a.ended)
           b == <<SP>>
<1>1. a.ended \in LineEnds /\ m \in Text /\ t \in Text /\ v \in Text
  BY DEF Asked
<1>2. Without(m, {SP, LF}) /\ Without(t, {SP, LF}) /\ Without(v, {LF})
  BY DEF Asked
<1>3. e \in Text /\ b \in Text
  BY <1>1, EndIs, HttpAssumption DEF Text
<1>4. Without(m, {SP}) /\ Without(t, {SP}) /\ Without(m, {LF}) /\ Without(t, {LF})
  BY <1>2 DEF Without
<1>5. Without(b, {LF})
  <2>1. SP # LF
    BY DEF SP, LF
  <2> QED
    BY <2>1 DEF Without
<1>6. HeadOf(a) = (((m \o b) \o t) \o b) \o v
  BY DEF HeadOf
<1> HIDE DEF m, t, v, e, b
<1>7. \A x, y \in Text : x \o y \in Text
  BY JoinedIs
<1>8. \A x, y \in Text : Without(x, {LF}) /\ Without(y, {LF}) => Without(x \o y, {LF})
  BY WithoutIs
<1>9. m \o b \in Text /\ Without(m \o b, {LF})
  BY <1>1, <1>3, <1>4, <1>5, <1>7, <1>8
<1>10. (m \o b) \o t \in Text /\ Without((m \o b) \o t, {LF})
  BY <1>1, <1>4, <1>7, <1>8, <1>9
<1>11. ((m \o b) \o t) \o b \in Text /\ Without(((m \o b) \o t) \o b, {LF})
  BY <1>3, <1>5, <1>7, <1>8, <1>10
<1>12. HeadOf(a) \in Text /\ Without(HeadOf(a), {LF})
  BY <1>1, <1>2, <1>6, <1>7, <1>8, <1>11
<1>13. v \o e \in Text /\ b \o (v \o e) \in Text /\ t \o (b \o (v \o e)) \in Text
  BY <1>1, <1>3, <1>7
<1>15. ((((m \o b) \o t) \o b) \o v) \o e = (((m \o b) \o t) \o b) \o (v \o e)
  <2>1. AreTexts(((m \o b) \o t) \o b, v, e)
    BY <1>1, <1>3, <1>11 DEF AreTexts
  <2> QED
    BY <2>1, JoinedInTurn, SMTT(30)
<1>16. (((m \o b) \o t) \o b) \o (v \o e) = ((m \o b) \o t) \o (b \o (v \o e))
  <2>1. AreTexts((m \o b) \o t, b, v \o e)
    BY <1>3, <1>10, <1>13 DEF AreTexts
  <2> QED
    BY <2>1, JoinedInTurn, SMTT(30)
<1>17. ((m \o b) \o t) \o (b \o (v \o e)) = (m \o b) \o (t \o (b \o (v \o e)))
  <2>1. AreTexts(m \o b, t, b \o (v \o e))
    BY <1>1, <1>9, <1>13 DEF AreTexts
  <2> QED
    BY <2>1, JoinedInTurn, SMTT(30)
<1>18. (m \o b) \o (t \o (b \o (v \o e))) = m \o (b \o (t \o (b \o (v \o e))))
  <2>1. AreTexts(m, b, t \o (b \o (v \o e)))
    BY <1>1, <1>3, <1>13 DEF AreTexts
  <2> QED
    BY <2>1, JoinedInTurn, SMTT(30)
<1>19. HeadOf(a) \o e = m \o (b \o (t \o (b \o (v \o e))))
  BY <1>6, <1>15, <1>16, <1>17, <1>18
<1>20. /\ a.ended \in LineEnds /\ m \in Text /\ t \in Text /\ v \in Text /\ v \o e \in Text
       /\ Without(m, {SP}) /\ Without(t, {SP}) /\ HeadOf(a) \in Text /\ Without(HeadOf(a), {LF})
  BY <1>1, <1>4, <1>12, <1>13
<1> QED
  BY <1>19, <1>20 DEF m, t, v, e, b

\* A request that has been written has its request line, and its lines an end.
LEMMA AskedIs ==
  ASSUME HttpTypes, asked # Nothing
  PROVE  /\ asked \in Asked /\ asked.ended \in LineEnds /\ asked.ended \in Text
         /\ Len(asked.ended) \in Nat /\ Len(asked.ended) >= 1
<1>1. asked \in Asked
  BY DEF HttpTypes
<1>2. asked.ended \in LineEnds
  BY <1>1, HeadOfIs
<1>3. asked.ended \in Text /\ Len(asked.ended) = Len(CROf(asked.ended)) + 1 /\ Len(CROf(asked.ended)) \in {0, 1}
  BY <1>2, EndIs
<1>4. \A n \in {0, 1} : n + 1 \in Nat /\ n + 1 >= 1
  OBVIOUS
<1> QED
  BY <1>1, <1>2, <1>3, <1>4

\* At a header the loop takes its name and what is behind the colon (httpparser.C:29-34).
LEMMA AtHeader ==
  ASSUME HttpTypes, WrittenInv, parsing # "not", NEW k \in DOMAIN fields, pos1 = BeginsAt(k)
  PROVE  /\ pos2 # 0 /\ pos2 + 1 = BeginsAt(k + 1)
         /\ Find(Line, Colon, 1) # 0 /\ (Throws(Line) <=> Lost(k))
         /\ SubSeq(Line, 1, Find(Line, Colon, 1) - 1) = fields[k].as.name
         /\ ~Lost(k) => ValueOf(Line) = Tail(BehindColon(fields[k].as))
<1> DEFINE f == fields[k].as
           b == BeginsAt(k)
           e == asked.ended
           t == LineOf(f)
<1>1. asked # Nothing
  BY DEF WrittenInv
<1>2. e \in LineEnds /\ e \in Text /\ Len(e) \in Nat /\ Len(e) >= 1
  BY <1>1, AskedIs
<1>3. f \in Field /\ b \in Nat \ {0}
  <2>1. fields[k] \in PlacedField
    BY DEF HttpTypes
  <2> QED
    BY <2>1 DEF PlacedField, BeginsAt
<1>4. StandsAtIn(str, t \o e, b) /\ BeginsAt(k + 1) = b + Len(t) + Len(e)
  BY <1>1 DEF WrittenInv, HeaderStands
<1>5. /\ BehindColon(f) \in Text /\ t \in Text /\ Without(t, {LF})
      /\ t \o CROf(e) = f.name \o (<<Colon>> \o BehindColon(f))
  BY <1>2, <1>3, BehindIs
<1>6. str \in Text
  BY DEF HttpTypes
<1>7. pos2 = b + Len(t) + Len(e) - 1 /\ Line = t \o CROf(e)
  <2> HIDE DEF b, t, e
  <2>0. LineStands(str, b, t, e)
    BY <1>2, <1>3, <1>4, <1>5, <1>6 DEF LineStands
  <2>1. LineFound(str, b, t, e)
    BY <2>0, LineIs
  <2>2. pos1 = b
    BY DEF b
  <2> QED
    BY <2>1, <2>2 DEF pos2, Line, LineFound
<1>8. f.name \in Text /\ Without(f.name, {Colon})
  <2>1. f.name \in Text /\ Without(f.name, {Colon, LF})
    BY <1>3 DEF Field
  <2> QED
    BY <2>1 DEF Without
<1>9. /\ Find(Line, Colon, 1) = Len(f.name) + 1
      /\ Throws(Line) <=> BehindColon(f) = <<>>
      /\ SubSeq(Line, 1, Find(Line, Colon, 1) - 1) = f.name
      /\ BehindColon(f) # <<>> => ValueOf(Line) = Tail(BehindColon(f))
  <2>1. Line = f.name \o (<<Colon>> \o BehindColon(f))
    BY <1>5, <1>7
  <2> DEFINE name == f.name
             rest == BehindColon(f)
             line == Line
  <2>2. name \in Text /\ Without(name, {Colon}) /\ rest \in Text /\ line = name \o (<<Colon>> \o rest)
    BY <1>5, <1>8, <2>1
  <2> HIDE DEF name, rest, line
  <2>3. /\ Find(line, Colon, 1) = Len(name) + 1
        /\ Throws(line) <=> rest = <<>>
        /\ SubSeq(line, 1, Find(line, Colon, 1) - 1) = name
        /\ rest # <<>> => ValueOf(line) = Tail(rest)
    BY <2>2, HeaderIs
  <2> QED
    BY <2>3 DEF name, rest, line
<1>10. pos2 # 0 /\ pos2 + 1 = BeginsAt(k + 1) /\ Len(f.name) + 1 # 0
  <2>0. \A s \in Text : Len(s) \in Nat
    BY DEF Text
  <2>1. Len(t) \in Nat /\ Len(f.name) \in Nat
    BY <1>5, <1>8, <2>0
  <2> HIDE DEF b, t, e
  <2> QED
    BY <1>2, <1>3, <1>4, <1>7, <2>1
<1> QED
  BY <1>9, <1>10 DEF Lost

\* At the empty line it finds no colon, and behind that no line.
LEMMA AtHeadersEnd ==
  ASSUME HttpTypes, WrittenInv, parsing # "not", pos1 = BeginsAt(Len(fields) + 1)
  PROVE  pos2 # 0 /\ pos2 + 1 = Len(str) + 1 /\ Find(Line, Colon, 1) = 0 /\ ~Throws(Line)
<1> DEFINE b == HeadersEnd
           e == asked.ended
<1>1. asked # Nothing
  BY DEF WrittenInv
<1>2. e \in LineEnds /\ e \in Text /\ Len(e) \in Nat /\ Len(e) >= 1
  BY <1>1, AskedIs
<1>3. pos1 = b /\ b \in Nat \ {0} /\ b = Len(str) + 1 - Len(e) /\ str \in Text
  <2>1. Len(fields) + 1 \notin DOMAIN fields
    BY DEF HttpTypes
  <2> QED
    BY <2>1 DEF BeginsAt, HeadersEnd, HttpTypes
<1>4. StandsAtIn(str, e, b)
  BY <1>1 DEF WrittenInv
<1>5. <<>> \in Text /\ Without(<<>>, {LF}) /\ Len(<<>>) = 0
  BY DEF Text, Without
<1>6. /\ CROf(e) \in Text /\ Len(CROf(e)) \in {0, 1} /\ \A n \in 1 .. Len(CROf(e)) : CROf(e)[n] = CR
  BY <1>2, EndIs
<1>7. <<>> \o e = e /\ <<>> \o CROf(e) = CROf(e)
  BY <1>2, <1>6, ConcatEmptySeq DEF Text
<1>8. pos2 = b + Len(e) - 1 /\ Line = CROf(e)
  <2>1. pos1 = b
    BY <1>3
  <2>2. b \in Nat \ {0} /\ str \in Text
    BY <1>3
  <2> HIDE DEF b, e
  <2>0. LineStands(str, b, <<>>, e)
    BY <1>2, <1>4, <1>5, <1>7, <2>2 DEF LineStands
  <2>3. LineFound(str, b, <<>>, e)
    BY <2>0, LineIs
  <2>4. b + Len(<<>>) + Len(e) - 1 = b + Len(e) - 1
    BY <1>2, <1>5, <2>2
  <2> QED
    BY <1>7, <2>1, <2>3, <2>4 DEF pos2, Line, LineFound
<1>9. pos2 # 0 /\ pos2 + 1 = Len(str) + 1
  <2>1. Len(str) \in Nat
    BY <1>3 DEF Text
  <2> HIDE DEF b, e
  <2> QED
    BY <1>2, <1>3, <1>8, <2>1
<1>10. Find(Line, Colon, 1) = 0
  <2>1. \A q \in 1 .. Len(Line) : Line[q] # Colon
    BY <1>6, <1>8 DEF CR, Colon
  <2>2. 1 \in Nat
    OBVIOUS
  <2> QED
    BY <2>1, <2>2, FoundNowhere
<1>11. ~Throws(Line)
  <2>1. Line \in Text /\ (Len(Line) = 0 => Line = <<>>)
    BY <1>6, <1>8 DEF Text
  <2> QED
    BY <1>10, <2>1 DEF Throws
<1> QED
  BY <1>9, <1>10, <1>11

LEMMA BehindTheEnd ==
  ASSUME HttpTypes, pos1 = Len(str) + 1
  PROVE  pos2 = 0
<1>1. Len(str) \in Nat
  BY DEF HttpTypes, Text
<1>2. \A q \in Len(str) + 1 .. Len(str) : str[q] # LF
  BY <1>1
<1>3. Len(str) + 1 \in Nat
  BY <1>1
<1> QED
  BY <1>2, <1>3, FoundNowhere DEF pos2

-----------------------------------------------------------------------------
\* The writer writes only while the parser has not been called.
LEMMA WriteRequestKeeps ==
  ASSUME HttpInv, NEW a \in Asked, WriteRequest(a)
  PROVE  HttpInv'
<1> DEFINE h == HeadOf(a)
           e == a.ended
<1>1. str = <<>> /\ fields = <<>> /\ parsing = "not" /\ asked' = a
  BY DEF HttpInv, WrittenInv, WriteRequest
<1>2. h \in Text /\ e \in LineEnds /\ e \in Text
  BY HeadOfIs, EndIs
<1>3. str' = h \o e /\ UNCHANGED <<fields, parsing, pos1, m_type, m_url, m_headers>>
  BY DEF WriteRequest, UnparsedVars, HeadOf
<1>4. h \o e \in Text /\ Len(h) \in Nat /\ Len(e) \in Nat /\ Len(h \o e) = Len(h) + Len(e)
  BY <1>2, JoinedIs
<1>5. StandsAtIn(h \o e, h \o e, 1)
  BY <1>4, StandsWhole
<1> HIDE DEF h, e
<1>6. HeadersEnd' = Len(str') + 1 /\ Len(str') + 1 = 1 + Len(h) + Len(e) /\ Len(str') + 1 \in Nat \ {0}
  BY <1>1, <1>3, <1>4 DEF HeadersEnd
<1>7. BeginsAt(1)' = 1 + Len(h) + Len(e)
  <2>1. DOMAIN fields' = {} /\ Len(fields') = 0
    BY <1>1, <1>3
  <2> QED
    BY <1>6, <2>1 DEF BeginsAt
<1>8. HttpTypes'
  BY <1>1, <1>3, <1>4, <1>6 DEF HttpInv, HttpTypes
<1>9. WrittenInv'
  <2>1. a # Nothing
    <3>1. e # <<>>
      BY <1>2 DEF LineEnds
    <3> QED
      BY <3>1 DEF Nothing, e
  <2>2. HeadLine' = h /\ asked'.ended = e
    BY <1>1 DEF HeadLine, h, e
  <2>3. DOMAIN fields' = {} /\ parsing' = "not"
    BY <1>1, <1>3
  <2> QED
    BY <1>1, <1>3, <1>5, <1>7, <2>1, <2>2, <2>3 DEF WrittenInv
<1>10. LoopInv'
  BY <1>1, <1>3 DEF HttpInv, LoopInv
<1> QED
  BY <1>8, <1>9, <1>10 DEF HttpInv

LEMMA WriteFieldKeeps ==
  ASSUME HttpInv, NEW f \in Field, WriteField(f)
  PROVE  HttpInv'
<1>1. parsing = "not" /\ asked # Nothing /\ UNCHANGED <<asked, parsing, pos1, m_type, m_url, m_headers>>
  BY DEF WriteField, UnparsedVars
<1>2. asked \in Asked /\ asked.ended \in LineEnds
  BY <1>1, AskedIs DEF HttpInv
<1>3. PICK e \in LineEnds, n \in Nat, size \in Nat : e = asked.ended /\ n = Len(fields) /\ size = Len(str)
  BY <1>2 DEF HttpInv, HttpTypes, Text
<1>4. PICK line \in Text : line = LineOf(f)
  BY <1>2, BehindIs
<1>5. e \in Text /\ line \o e \in Text /\ Len(line) \in Nat /\ Len(e) \in Nat /\ Len(line \o e) = Len(line) + Len(e)
  BY EndIs, JoinedIs
<1>6. PICK u \in Text : u = line \o e
  BY <1>5
<1>7. str \in Text /\ str' = str \o u
  <2>1. str \in Text /\ str' = (str \o line) \o e
    BY <1>3, <1>4 DEF HttpInv, HttpTypes, WriteField
  <2>2. AreTexts(str, line, e)
    BY <1>5, <2>1 DEF AreTexts
  <2>3. (str \o line) \o e = str \o (line \o e)
    BY <2>2, JoinedInTurn, SMTT(30)
  <2> QED
    BY <1>6, <2>1, <2>3
<1>8. str' \in Text /\ Len(str') = size + Len(line) + Len(e)
  <2>1. str \o u \in Text /\ Len(str \o u) = Len(str) + Len(u)
    BY <1>7, JoinedIs
  <2>2. Len(u) = Len(line) + Len(e)
    BY <1>5, <1>6
  <2>3. Len(str') = size + (Len(line) + Len(e))
    BY <1>3, <1>7, <2>1, <2>2
  <2>4. size + (Len(line) + Len(e)) = size + Len(line) + Len(e)
    BY <1>5
  <2>5. str' \in Text
    BY <1>7, <2>1
  <2> QED
    BY <2>3, <2>4, <2>5
<1>9. PICK w \in PlacedField : w = [at |-> size + 1, as |-> f]
  <2>1. size + 1 \in Nat \ {0}
    OBVIOUS
  <2> QED
    BY <2>1 DEF PlacedField
<1>10. /\ fields \in Seq(PlacedField) /\ fields' \in Seq(PlacedField)
       /\ DOMAIN fields = 1 .. n /\ DOMAIN fields' = 1 .. n + 1 /\ Len(fields') = n + 1
       /\ (\A k \in 1 .. n : fields'[k] = fields[k]) /\ fields'[n + 1] = w
  <2>1. fields \in Seq(PlacedField)
    BY DEF HttpInv, HttpTypes
  <2>2. fields' = Append(fields, w)
    BY <1>3, <1>9 DEF WriteField
  <2> QED
    BY <1>3, <2>1, <2>2
<1>11. w.at = size + 1 /\ w.as = f
  BY <1>9
<1>12. HeadersEnd' = size + Len(line) + Len(e) + 1 /\ HeadersEnd' \in Nat \ {0} /\ HeadersEnd = size + 1
  <2>1. HeadersEnd' = Len(str') + 1 /\ HeadersEnd = Len(str) + 1
    BY <1>1 DEF HeadersEnd
  <2>2. HeadersEnd' = size + Len(line) + Len(e) + 1 /\ HeadersEnd = size + 1
    BY <1>3, <1>8, <2>1
  <2>3. size + Len(line) + Len(e) + 1 \in Nat \ {0}
    BY <1>5
  <2> QED
    BY <2>2, <2>3
<1>13. /\ BeginsAt(n + 2)' = size + Len(line) + Len(e) + 1 /\ BeginsAt(n + 1)' = size + 1 /\ BeginsAt(n + 1) = size + 1
       /\ \A k \in 1 .. n : BeginsAt(k)' = BeginsAt(k)
  <2>1. n + 2 \notin 1 .. n + 1 /\ n + 1 \notin 1 .. n /\ n + 1 \in 1 .. n + 1 /\ n + 2 = (n + 1) + 1
    OBVIOUS
  <2>2. BeginsAt(n + 2)' = HeadersEnd'
    BY <1>10, <2>1 DEF BeginsAt
  <2>3. BeginsAt(n + 1)' = size + 1
    BY <1>10, <1>11, <2>1 DEF BeginsAt
  <2>4. BeginsAt(n + 1) = HeadersEnd
    BY <1>3, <1>10, <2>1 DEF BeginsAt
  <2>5. ASSUME NEW k \in 1 .. n PROVE BeginsAt(k)' = BeginsAt(k)
    <3>1. k \in 1 .. n + 1
      OBVIOUS
    <3> QED
      BY <1>10, <3>1 DEF BeginsAt
  <2> QED
    BY <1>12, <2>2, <2>3, <2>4, <2>5
<1>14. \A k \in 1 .. n : BeginsAt(k + 1)' = BeginsAt(k + 1)
  <2> SUFFICES ASSUME NEW k \in 1 .. n PROVE BeginsAt(k + 1)' = BeginsAt(k + 1)
    OBVIOUS
  <2>1. k + 1 = n + 1 \/ k + 1 \in 1 .. n
    OBVIOUS
  <2> QED
    BY <1>13, <2>1
<1>15. HttpTypes'
  BY <1>1, <1>8, <1>10, <1>12 DEF HttpInv, HttpTypes
<1>16. \A k \in 1 .. n + 1 : HeaderStands(k)'
  <2>1. ASSUME NEW k \in 1 .. n PROVE HeaderStands(k)'
    <3>1. HeaderStands(k)
      BY <1>1, <1>10 DEF HttpInv, WrittenInv
    <3>2. PICK t \in Text, b \in Nat \ {0} : t = LineOf(fields[k].as) \o e /\ b = BeginsAt(k)
      <4>1. fields[k] \in PlacedField
        BY <1>10
      <4>2. fields[k].as \in Field /\ BeginsAt(k) \in Nat \ {0}
        BY <1>10, <4>1 DEF PlacedField, BeginsAt
      <4>3. LineOf(fields[k].as) \in Text
        BY <1>2, <4>2, BehindIs
      <4>4. LineOf(fields[k].as) \o e \in Text
        BY <1>5, <4>3, JoinedIs
      <4> QED
        BY <4>2, <4>4
    <3>3. StandsAtIn(str, t, b)
      BY <1>3, <3>1, <3>2 DEF HeaderStands
    <3>4. StandsAtIn(str', t, b)
      BY <1>7, <3>3, StandsStill
    <3>5. fields'[k] = fields[k] /\ BeginsAt(k)' = BeginsAt(k) /\ BeginsAt(k + 1)' = BeginsAt(k + 1) /\ asked' = asked
      BY <1>1, <1>10, <1>13, <1>14
    <3> QED
      BY <1>3, <3>1, <3>2, <3>4, <3>5 DEF HeaderStands
  <2>2. HeaderStands(n + 1)'
    <3>1. StandsAtIn(str', u, size + 1)
      BY <1>3, <1>7, StandsBehind
    <3>2. fields'[n + 1].as = f /\ BeginsAt(n + 1)' = size + 1 /\ BeginsAt((n + 1) + 1)' = (size + 1) + Len(line) + Len(e)
      <4>1. (n + 1) + 1 = n + 2 /\ (size + 1) + Len(line) + Len(e) = size + Len(line) + Len(e) + 1
        BY <1>5
      <4> QED
        BY <1>10, <1>11, <1>13, <4>1
    <3>3. asked'.ended = e
      BY <1>1, <1>3
    <3> QED
      BY <1>4, <1>6, <3>1, <3>2, <3>3 DEF HeaderStands
  <2> QED
    BY <2>1, <2>2
<1>17. WrittenInv'
  <2>1. HeadOf(asked) \o e \in Text
    BY <1>2, <1>5, HeadOfIs, JoinedIs
  <2>2. StandsAtIn(str, HeadOf(asked) \o e, 1)
    BY <1>1, <1>3 DEF HttpInv, WrittenInv, HeadLine
  <2>3. StandsAtIn(str', HeadOf(asked) \o e, 1)
    <3>1. 1 \in Nat \ {0}
      OBVIOUS
    <3> QED
      BY <1>7, <2>1, <2>2, <3>1, StandsStill
  <2>4. StandsAtIn(str', HeadLine' \o asked'.ended, 1)
    BY <1>1, <1>3, <2>3 DEF HeadLine
  <2>5. BeginsAt(1)' = BeginsAt(1)
    <3>1. 1 = n + 1 \/ 1 \in 1 .. n
      OBVIOUS
    <3> QED
      BY <1>13, <3>1
  <2>6. BeginsAt(1)' = 1 + Len(HeadLine') + Len(asked'.ended)
    BY <1>1, <2>5 DEF HttpInv, WrittenInv, HeadLine
  <2> QED
    BY <1>1, <1>10, <1>16, <2>4, <2>6 DEF WrittenInv
<1>18. LoopInv'
  BY <1>1 DEF HttpInv, LoopInv
<1> QED
  BY <1>15, <1>17, <1>18 DEF HttpInv

\* The request line, the headers and the empty line are the same in every later state.
LEMMA StaysWritten ==
  ASSUME HttpTypes, WrittenInv, UNCHANGED <<str, asked, fields>>, parsing # "not",
         parsing' \in {"called", "lines", "thrown"}
  PROVE  /\ HttpTypes' /\ WrittenInv' /\ \A k : BeginsAt(k)' = BeginsAt(k)
         /\ \A k : TakenBefore(k) /\ UNCHANGED m_headers => TakenBefore(k)'
         /\ \A k : Lost(k)' = Lost(k)
<1>1. parsing' # "not"
  OBVIOUS
<1>2. HeadersEnd' = HeadersEnd
  BY <1>1 DEF HeadersEnd
<1>3. \A k : BeginsAt(k)' = BeginsAt(k)
  BY <1>2 DEF BeginsAt
<1>4. \A k : HeaderStands(k)' = HeaderStands(k)
  BY <1>3 DEF HeaderStands
<1>5. \A g : BehindColon(g)' = BehindColon(g)
  BY DEF BehindColon
<1>6. \A k : Lost(k)' = Lost(k) /\ First(k)' = First(k)
  BY <1>5 DEF Lost, First
<1>7. ASSUME NEW k, TakenBefore(k), UNCHANGED m_headers PROVE TakenBefore(k)'
  BY <1>5, <1>6, <1>7 DEF TakenBefore
<1>8. HttpTypes'
  BY <1>2 DEF HttpTypes
<1>9. WrittenInv'
  BY <1>1, <1>2, <1>3, <1>4 DEF WrittenInv, HeadLine
<1> QED
  BY <1>3, <1>6, <1>7, <1>8, <1>9

LEMMA CallParseKeeps ==
  ASSUME HttpInv, CallParse
  PROVE  HttpInv'
<1>1. /\ parsing = "not" /\ asked # Nothing /\ parsing' = "called"
      /\ UNCHANGED <<asked, fields, pos1, m_type, m_url, m_headers>>
  BY DEF CallParse, UnparsedVars
<1>2. asked \in Asked /\ asked.ended \in LineEnds /\ asked.ended \in Text
  BY <1>1, AskedIs DEF HttpInv
<1>3. PICK e \in Text, n \in Nat, size \in Nat : e = asked.ended /\ n = Len(fields) /\ size = Len(str)
  BY <1>2 DEF HttpInv, HttpTypes, Text
<1>4. str \in Text /\ str' = str \o e
  BY <1>3 DEF HttpInv, HttpTypes, CallParse
<1>5. str' \in Text /\ Len(e) \in Nat /\ Len(str') = size + Len(e)
  <2>1. str \o e \in Text /\ Len(e) \in Nat /\ Len(str \o e) = Len(str) + Len(e)
    BY <1>4, JoinedIs
  <2> QED
    BY <1>3, <1>4, <2>1
<1>6. HeadersEnd' = size + 1 /\ HeadersEnd = size + 1
  <2>1. HeadersEnd' = Len(str') + 1 - Len(asked'.ended) /\ HeadersEnd = Len(str) + 1
    BY <1>1 DEF HeadersEnd
  <2>2. HeadersEnd' = size + Len(e) + 1 - Len(e)
    BY <1>1, <1>3, <1>5, <2>1
  <2>3. size + Len(e) + 1 - Len(e) = size + 1
    BY <1>5
  <2> QED
    BY <1>3, <2>1, <2>2, <2>3
<1>7. fields \in Seq(PlacedField) /\ DOMAIN fields = 1 .. n
  BY <1>3 DEF HttpInv, HttpTypes
<1>8. \A k \in 1 .. n + 1 : BeginsAt(k)' = BeginsAt(k)
  <2> SUFFICES ASSUME NEW k \in 1 .. n + 1 PROVE BeginsAt(k)' = BeginsAt(k)
    OBVIOUS
  <2>1. k = n + 1 \/ k \in 1 .. n
    OBVIOUS
  <2> QED
    BY <1>1, <1>3, <1>6, <1>7, <2>1 DEF BeginsAt
<1>9. HttpTypes'
  <2>1. size + 1 \in Nat \ {0}
    OBVIOUS
  <2> QED
    BY <1>1, <1>5, <1>6, <2>1 DEF HttpInv, HttpTypes
<1>10. ASSUME NEW t \in Text, NEW b \in Nat \ {0}, StandsAtIn(str, t, b) PROVE StandsAtIn(str', t, b)
  BY <1>4, <1>10, StandsStill
<1>11. \A k \in 1 .. n : HeaderStands(k)'
  <2> SUFFICES ASSUME NEW k \in 1 .. n PROVE HeaderStands(k)'
    OBVIOUS
  <2>1. HeaderStands(k)
    BY <1>1, <1>7 DEF HttpInv, WrittenInv
  <2>2. PICK t \in Text, b \in Nat \ {0} : t = LineOf(fields[k].as) \o e /\ b = BeginsAt(k)
    <3>1. fields[k] \in PlacedField
      BY <1>7
    <3>2. fields[k].as \in Field /\ BeginsAt(k) \in Nat \ {0}
      BY <1>7, <3>1 DEF PlacedField, BeginsAt
    <3>3. LineOf(fields[k].as) \in Text
      BY <1>2, <3>2, BehindIs
    <3>4. LineOf(fields[k].as) \o e \in Text
      BY <3>3, JoinedIs
    <3> QED
      BY <3>2, <3>4
  <2>3. StandsAtIn(str', t, b)
    BY <1>3, <1>10, <2>1, <2>2 DEF HeaderStands
  <2>4. BeginsAt(k)' = BeginsAt(k) /\ BeginsAt(k + 1)' = BeginsAt(k + 1)
    <3>1. k \in 1 .. n + 1 /\ k + 1 \in 1 .. n + 1
      OBVIOUS
    <3> QED
      BY <1>8, <3>1
  <2> QED
    BY <1>1, <1>3, <2>1, <2>2, <2>3, <2>4 DEF HeaderStands
<1>12. WrittenInv'
  <2>1. HeadOf(asked) \o e \in Text
    BY <1>2, HeadOfIs, JoinedIs
  <2>2. StandsAtIn(str, HeadOf(asked) \o e, 1)
    BY <1>1, <1>3 DEF HttpInv, WrittenInv, HeadLine
  <2>3. StandsAtIn(str', HeadOf(asked) \o e, 1)
    <3>1. 1 \in Nat \ {0}
      OBVIOUS
    <3> QED
      BY <1>10, <2>1, <2>2, <3>1
  <2>4. StandsAtIn(str', HeadLine' \o asked'.ended, 1)
    BY <1>1, <1>3, <2>3 DEF HeadLine
  <2>5. BeginsAt(1)' = 1 + Len(HeadLine') + Len(asked'.ended)
    <3>1. 1 \in 1 .. n + 1
      OBVIOUS
    <3>2. BeginsAt(1)' = BeginsAt(1)
      BY <1>8, <3>1
    <3> QED
      BY <1>1, <3>2 DEF HttpInv, WrittenInv, HeadLine
  <2>6. StandsAtIn(str', asked'.ended, HeadersEnd')
    <3>1. StandsAtIn(str \o e, e, Len(str) + 1)
      BY <1>4, StandsBehind
    <3> QED
      BY <1>1, <1>3, <1>4, <1>6, <3>1
  <2> QED
    BY <1>1, <1>7, <1>11, <2>4, <2>5, <2>6 DEF WrittenInv
<1>13. LoopInv'
  BY <1>1 DEF HttpInv, LoopInv
<1> QED
  BY <1>9, <1>12, <1>13 DEF HttpInv

\* The request line is read as it was written, and the loop begins at the first header.
LEMMA ReadRequestLineKeeps ==
  ASSUME HttpInv, ReadRequestLine
  PROVE  HttpInv'
<1>1. /\ parsing = "called" /\ parsing' = "lines" /\ UNCHANGED <<str, asked, fields, m_headers>>
      /\ asked # Nothing /\ m_headers = <<>>
  BY DEF HttpInv, WrittenInv, LoopInv, ReadRequestLine
<1>2. asked \in Asked /\ asked.ended \in LineEnds /\ asked.ended \in Text
  BY <1>1, AskedIs DEF HttpInv
<1>3. PICK m \in Text, t \in Text, v \in Text, h \in Text, e \in LineEnds :
        m = asked.method /\ t = asked.target /\ v = asked.version \o CROf(asked.ended) /\ h = HeadLine /\ e = asked.ended
  BY <1>2, HeadOfIs DEF HeadLine
<1>4. /\ Without(m, {SP}) /\ Without(t, {SP}) /\ Without(h, {LF})
      /\ h \o CROf(e) = m \o (<<SP>> \o (t \o (<<SP>> \o v)))
  BY <1>2, <1>3, HeadOfIs DEF HeadLine
<1>5. str \in Text /\ StandsAtIn(str, h \o e, 1) /\ BeginsAt(1) = 1 + Len(h) + Len(e)
  BY <1>1, <1>3 DEF HttpInv, HttpTypes, WrittenInv
<1>6. e \in Text /\ Len(e) \in Nat /\ Len(e) >= 1 /\ Len(h) \in Nat
  BY <1>1, <1>3, AskedIs DEF HttpInv, Text
<1>7. Find(str, LF, 1) = 1 + Len(h) + Len(e) - 1 /\ SubSeq(str, 1, Find(str, LF, 1) - 1) = h \o CROf(e)
  <2>1. LineStands(str, 1, h, e)
    BY <1>4, <1>5 DEF LineStands
  <2>2. LineFound(str, 1, h, e)
    BY <2>1, LineIs
  <2> QED
    BY <2>2 DEF LineFound
<1>8. Find(str, LF, 1) # 0 /\ Find(str, LF, 1) + 1 = BeginsAt(1)
  BY <1>5, <1>6, <1>7
<1>9. RequestLine = m \o (<<SP>> \o (t \o (<<SP>> \o v)))
  BY <1>4, <1>7, <1>8 DEF RequestLine
<1>10. PICK header : header = RequestLine
  OBVIOUS
<1>11. ReadAs(header, m, t)
  <2>1. IsHead(header, m, t, v)
    BY <1>4, <1>9, <1>10 DEF IsHead
  <2> QED
    BY <2>1, HeadIs
<1>12. m_type' = m /\ m_url' = t \o <<SP>> /\ pos1' = BeginsAt(1)
  BY <1>8, <1>10, <1>11 DEF ReadRequestLine, ReadAs
<1>13. HttpTypes' /\ WrittenInv' /\ BeginsAt(1)' = BeginsAt(1)
  BY <1>1, StaysWritten DEF HttpInv
<1>14. TakenBefore(1)'
  <2>1. {j \in DOMAIN fields' : j < 1} = {}
    <3>1. \A j \in DOMAIN fields : ~(j < 1)
      <4>1. DOMAIN fields = 1 .. Len(fields) /\ Len(fields) \in Nat
        BY DEF HttpInv, HttpTypes
      <4>2. \A n \in Nat : \A j \in 1 .. n : ~(j < 1)
        OBVIOUS
      <4> QED
        BY <4>1, <4>2
    <3>2. fields' = fields
      BY <1>1
    <3> QED
      BY <3>1, <3>2
  <2>2. DOMAIN m_headers' = {}
    BY <1>1
  <2> QED
    BY <2>1, <2>2 DEF TakenBefore
<1>15. 1 \in 1 .. Len(fields') + 2
  BY <1>1 DEF HttpInv, HttpTypes
<1>16. LoopInv'
  BY <1>1, <1>3, <1>12, <1>13, <1>14, <1>15 DEF LoopInv
<1> QED
  BY <1>13, <1>16 DEF HttpInv

\* What the first of the turns below has to say of the state it finds.
LEMMA InTheLoop ==
  ASSUME HttpInv, AtLine
  PROVE  /\ parsing = "lines" /\ asked # Nothing /\ HttpTypes /\ WrittenInv /\ Len(fields) \in Nat
         /\ DOMAIN fields = 1 .. Len(fields) /\ fields \in Seq(PlacedField)
         /\ m_type = asked.method /\ m_url = asked.target \o <<SP>>
         /\ \E k \in 1 .. Len(fields) + 1 : pos1 = BeginsAt(k) /\ TakenBefore(k)
<1>1. parsing = "lines" /\ pos2 # 0
  BY DEF AtLine
<1>2. HttpTypes /\ WrittenInv /\ fields \in Seq(PlacedField) /\ Len(fields) \in Nat /\ DOMAIN fields = 1 .. Len(fields)
  BY DEF HttpInv, HttpTypes
<1>3. asked # Nothing
  BY <1>1, <1>2 DEF WrittenInv
<1>4. m_type = asked.method /\ m_url = asked.target \o <<SP>>
  BY <1>1 DEF HttpInv, LoopInv
<1>5. PICK k \in 1 .. Len(fields) + 2 : pos1 = BeginsAt(k) /\ TakenBefore(k)
  BY <1>1 DEF HttpInv, LoopInv
<1>6. k # Len(fields) + 2
  <2> SUFFICES ASSUME k = Len(fields) + 2 PROVE FALSE
    OBVIOUS
  <2>1. k \notin DOMAIN fields /\ k # Len(fields) + 1
    BY <1>2
  <2>2. pos1 = Len(str) + 1
    BY <1>5, <2>1 DEF BeginsAt
  <2> QED
    BY <1>1, <1>2, <2>2, BehindTheEnd
<1>7. k \in 1 .. Len(fields) + 1
  BY <1>2, <1>6
<1> QED
  BY <1>1, <1>2, <1>3, <1>4, <1>5, <1>7

\* A line without a colon is the empty one, and no header is left behind it.
LEMMA SkipLineKeeps ==
  ASSUME HttpInv, SkipLine
  PROVE  HttpInv'
<1>1. AtLine /\ Find(Line, Colon, 1) = 0 /\ pos1' = pos2 + 1
      /\ UNCHANGED <<str, asked, fields, parsing, m_type, m_url, m_headers>>
  BY DEF SkipLine
<1>2. /\ parsing = "lines" /\ HttpTypes /\ WrittenInv /\ Len(fields) \in Nat /\ DOMAIN fields = 1 .. Len(fields)
      /\ m_type = asked.method /\ m_url = asked.target \o <<SP>>
  BY <1>1, InTheLoop
<1>3. PICK n \in Nat : n = Len(fields)
  BY <1>2
<1>4. PICK k \in 1 .. n + 1 : pos1 = BeginsAt(k) /\ TakenBefore(k)
  BY <1>1, <1>3, InTheLoop
<1>5. k = n + 1
  <2> SUFFICES ASSUME k # n + 1 PROVE FALSE
    OBVIOUS
  <2>1. k \in DOMAIN fields
    BY <1>2, <1>3
  <2>2. Find(Line, Colon, 1) # 0
    BY <1>2, <1>4, <2>1, AtHeader
  <2> QED
    BY <1>1, <2>2
<1>6. pos1' = Len(str) + 1
  BY <1>1, <1>2, <1>3, <1>4, <1>5, AtHeadersEnd
<1>7. BeginsAt(n + 2) = Len(str) + 1
  <2>1. n + 2 \notin 1 .. n /\ n + 2 # n + 1
    OBVIOUS
  <2> QED
    BY <1>2, <1>3, <2>1 DEF BeginsAt
<1>8. TakenBefore(n + 2)
  <2>1. {j \in DOMAIN fields : j < n + 2} = {j \in DOMAIN fields : j < n + 1}
    <3>1. \A j \in 1 .. n : j < n + 2 /\ j < n + 1
      OBVIOUS
    <3> QED
      BY <1>2, <1>3, <3>1
  <2> QED
    BY <1>4, <1>5, <2>1 DEF TakenBefore
<1>9. HttpTypes' /\ WrittenInv' /\ BeginsAt(n + 2)' = BeginsAt(n + 2) /\ TakenBefore(n + 2)'
  BY <1>1, <1>2, <1>8, StaysWritten
<1>10. LoopInv'
  <2>1. n + 2 \in 1 .. n + 2
    OBVIOUS
  <2>2. \E i \in 1 .. Len(fields') + 2 : pos1' = BeginsAt(i)' /\ TakenBefore(i)'
    BY <1>1, <1>3, <1>6, <1>7, <1>9, <2>1
  <2> QED
    BY <1>1, <1>2, <2>2 DEF LoopInv
<1> QED
  BY <1>9, <1>10 DEF HttpInv

\* A line with one is a header, whose name keeps the value it was first given.
LEMMA TakeLineKeeps ==
  ASSUME HttpInv, TakeLine
  PROVE  HttpInv'
<1>1. /\ AtLine /\ Find(Line, Colon, 1) # 0 /\ ~Throws(Line) /\ pos1' = pos2 + 1
      /\ m_headers' = Inserted(SubSeq(Line, 1, Find(Line, Colon, 1) - 1), ValueOf(Line))
      /\ UNCHANGED <<str, asked, fields, parsing, m_type, m_url>>
  BY DEF TakeLine
<1>2. /\ parsing = "lines" /\ HttpTypes /\ WrittenInv /\ Len(fields) \in Nat /\ DOMAIN fields = 1 .. Len(fields)
      /\ m_type = asked.method /\ m_url = asked.target \o <<SP>>
  BY <1>1, InTheLoop
<1>3. PICK n \in Nat : n = Len(fields)
  BY <1>2
<1>4. PICK k \in 1 .. n + 1 : pos1 = BeginsAt(k) /\ TakenBefore(k)
  BY <1>1, <1>3, InTheLoop
<1>5. k \in 1 .. n /\ k \in DOMAIN fields
  <2> SUFFICES ASSUME k \notin 1 .. n PROVE FALSE
    BY <1>2, <1>3
  <2>1. k = n + 1
    OBVIOUS
  <2>2. Find(Line, Colon, 1) = 0
    BY <1>2, <1>3, <1>4, <2>1, AtHeadersEnd
  <2> QED
    BY <1>1, <2>2
<1>6. PICK name, value : name = fields[k].as.name /\ value = Tail(BehindColon(fields[k].as))
  OBVIOUS
<1>7. pos1' = BeginsAt(k + 1) /\ ~Lost(k) /\ m_headers' = Inserted(name, value)
  <2>1. /\ pos2 + 1 = BeginsAt(k + 1) /\ (Throws(Line) <=> Lost(k))
        /\ SubSeq(Line, 1, Find(Line, Colon, 1) - 1) = fields[k].as.name
        /\ ~Lost(k) => ValueOf(Line) = Tail(BehindColon(fields[k].as))
    BY <1>2, <1>4, <1>5, AtHeader
  <2> QED
    BY <1>1, <1>6, <2>1
<1>8. DOMAIN m_headers' = DOMAIN m_headers \cup {name}
      /\ \A x \in DOMAIN m_headers' : m_headers'[x] = IF x \in DOMAIN m_headers THEN m_headers[x] ELSE value
  BY <1>7 DEF Inserted
<1> DEFINE Before(i) == {j \in DOMAIN fields : j < i}
<1>9. /\ \A j \in Before(k) : ~Lost(j)
      /\ DOMAIN m_headers = {fields[j].as.name : j \in Before(k)}
      /\ \A j \in Before(k) : First(j) => m_headers[fields[j].as.name] = Tail(BehindColon(fields[j].as))
  BY <1>4 DEF TakenBefore
<1>10. Before(k + 1) = Before(k) \cup {k} /\ Before(k) = 1 .. k - 1 /\ k \notin Before(k)
  <2>1. \A j \in 1 .. n : (j < k + 1 <=> j < k \/ j = k) /\ (j < k <=> j \in 1 .. k - 1)
    OBVIOUS
  <2>2. \A j \in 1 .. k - 1 : j \in 1 .. n
    BY <1>5
  <2> QED
    BY <1>2, <1>3, <1>5, <2>1, <2>2
<1> HIDE DEF Before
<1>11. \A j \in Before(k + 1) : ~Lost(j)
  BY <1>7, <1>9, <1>10
<1>12. DOMAIN m_headers' = {fields[j].as.name : j \in Before(k + 1)}
  BY <1>6, <1>8, <1>9, <1>10
<1>13. ASSUME NEW j \in Before(k + 1), First(j)
       PROVE  m_headers'[fields[j].as.name] = Tail(BehindColon(fields[j].as))
  <2>1. CASE j \in Before(k)
    <3>1. fields[j].as.name \in DOMAIN m_headers
      BY <1>9, <2>1
    <3> QED
      BY <1>8, <1>9, <1>13, <2>1, <3>1
  <2>2. CASE j = k
    <3>1. name \notin DOMAIN m_headers
      <4>1. \A i \in 1 .. k - 1 : fields[i].as.name # name
        BY <1>6, <1>13, <2>2 DEF First
      <4> QED
        BY <1>9, <1>10, <4>1
    <3> QED
      BY <1>6, <1>8, <2>2, <3>1
  <2> QED
    BY <1>10, <2>1, <2>2
<1>14. HttpTypes' /\ WrittenInv' /\ BeginsAt(k + 1)' = BeginsAt(k + 1) /\ \A j : Lost(j)' = Lost(j)
  BY <1>1, <1>2, StaysWritten
<1>15. TakenBefore(k + 1)'
  <2>1. fields' = fields /\ \A j : First(j)' = First(j) /\ \A g : BehindColon(g)' = BehindColon(g)
    BY <1>1 DEF First, BehindColon
  <2>2. \A j \in Before(k + 1) : ~Lost(j)'
    BY <1>11, <1>14
  <2> QED
    BY <1>12, <1>13, <2>1, <2>2 DEF TakenBefore, Before
<1>16. LoopInv'
  <2>1. k + 1 \in 1 .. n + 2
    OBVIOUS
  <2>2. \E i \in 1 .. Len(fields') + 2 : pos1' = BeginsAt(i)' /\ TakenBefore(i)'
    BY <1>1, <1>3, <1>7, <1>14, <1>15, <2>1
  <2> QED
    BY <1>1, <1>2, <2>2 DEF LoopInv
<1> QED
  BY <1>14, <1>16 DEF HttpInv

LEMMA ThrowAtLineKeeps ==
  ASSUME HttpInv, ThrowAtLine
  PROVE  HttpInv'
<1>1. /\ AtLine /\ Throws(Line) /\ parsing' = "thrown"
      /\ UNCHANGED <<str, asked, fields, pos1, m_type, m_url, m_headers>>
  BY DEF ThrowAtLine, UnparsedVars
<1>2. /\ parsing = "lines" /\ HttpTypes /\ WrittenInv /\ Len(fields) \in Nat /\ DOMAIN fields = 1 .. Len(fields)
      /\ m_type = asked.method /\ m_url = asked.target \o <<SP>>
  BY <1>1, InTheLoop
<1>3. PICK n \in Nat : n = Len(fields)
  BY <1>2
<1>4. PICK k \in 1 .. n + 1 : pos1 = BeginsAt(k) /\ TakenBefore(k)
  BY <1>1, <1>3, InTheLoop
<1>5. k \in DOMAIN fields
  <2> SUFFICES ASSUME k \notin 1 .. n PROVE FALSE
    BY <1>2, <1>3
  <2>1. k = n + 1
    OBVIOUS
  <2>2. ~Throws(Line)
    BY <1>2, <1>3, <1>4, <2>1, AtHeadersEnd
  <2> QED
    BY <1>1, <2>2
<1>6. Lost(k)
  BY <1>1, <1>2, <1>4, <1>5, AtHeader
<1>7. HttpTypes' /\ WrittenInv' /\ BeginsAt(k)' = BeginsAt(k) /\ TakenBefore(k)' /\ Lost(k)'
  BY <1>1, <1>2, <1>4, <1>6, StaysWritten
<1>8. LoopInv'
  <2>1. k \in 1 .. n + 2
    OBVIOUS
  <2>2. \E i \in 1 .. Len(fields') + 2 : /\ pos1' = BeginsAt(i)' /\ TakenBefore(i)' /\ i \in DOMAIN fields' /\ Lost(i)'
    BY <1>1, <1>3, <1>4, <1>5, <1>7, <2>1
  <2> QED
    BY <1>1, <1>2, <2>2 DEF LoopInv
<1> QED
  BY <1>7, <1>8 DEF HttpInv

LEMMA HttpInitHolds == HttpInit => HttpInv
<1> SUFFICES ASSUME HttpInit PROVE HttpInv
  OBVIOUS
<1>1. str = <<>> /\ fields = <<>> /\ parsing = "not" /\ asked = Nothing
  BY DEF HttpInit
<1>2. HeadersEnd \in Nat \ {0} /\ <<>> \in Text /\ <<>> \in Seq(PlacedField)
  BY <1>1 DEF HeadersEnd, Text
<1>3. HttpTypes
  BY <1>1, <1>2 DEF HttpTypes
<1>4. WrittenInv
  BY <1>1 DEF WrittenInv
<1>5. LoopInv
  BY DEF LoopInv, HttpInit
<1> QED
  BY <1>3, <1>4, <1>5 DEF HttpInv

LEMMA HttpNextKeeps ==
  ASSUME HttpInv, [HttpNext]_httpVars
  PROVE  HttpInv'
<1>1. CASE UNCHANGED httpVars
  <2>1. UNCHANGED <<str, asked, fields, parsing, pos1, m_type, m_url, m_headers>>
    BY <1>1 DEF httpVars
  <2>2. UNCHANGED <<HeadersEnd, HeadLine>>
    BY <2>1 DEF HeadersEnd, HeadLine
  <2>3. \A k : BeginsAt(k)' = BeginsAt(k)
    BY <2>1, <2>2 DEF BeginsAt
  <2>4. \A k : HeaderStands(k)' = HeaderStands(k)
    BY <2>1, <2>3 DEF HeaderStands
  <2>5. \A k, g : Lost(k)' = Lost(k) /\ First(k)' = First(k) /\ BehindColon(g)' = BehindColon(g)
    BY <2>1 DEF Lost, First, BehindColon
  <2>6. \A k : TakenBefore(k)' = TakenBefore(k)
    BY <2>1, <2>5 DEF TakenBefore
  <2>7. HttpTypes'
    BY <2>1, <2>2 DEF HttpInv, HttpTypes
  <2>8. WrittenInv'
    BY <2>1, <2>2, <2>3, <2>4 DEF HttpInv, WrittenInv
  <2>9. LoopInv'
    BY <2>1, <2>3, <2>5, <2>6 DEF HttpInv, LoopInv
  <2> QED
    BY <2>7, <2>8, <2>9 DEF HttpInv
<1>2. CASE HttpNext
  BY <1>2, WriteRequestKeeps, WriteFieldKeeps, CallParseKeeps, ReadRequestLineKeeps, SkipLineKeeps, TakeLineKeeps,
     ThrowAtLineKeeps DEF HttpNext
<1> QED
  BY <1>1, <1>2

LEMMA HttpInvImplies == HttpInv => RequestsParsed
<1> SUFFICES ASSUME HttpInv PROVE RequestsParsed
  OBVIOUS
<1>1. HttpTypes /\ WrittenInv /\ Len(fields) \in Nat /\ DOMAIN fields = 1 .. Len(fields)
  BY DEF HttpInv, HttpTypes
<1>2. ASSUME Parsed
      PROVE  /\ m_type = asked.method /\ m_url = asked.target \o <<SP>> /\ \A j \in DOMAIN fields : ~Lost(j)
             /\ DOMAIN m_headers = {fields[j].as.name : j \in DOMAIN fields}
             /\ \A j \in DOMAIN fields : First(j) => m_headers[fields[j].as.name] = Tail(BehindColon(fields[j].as))
  <2>1. parsing = "lines" /\ pos2 = 0
    BY <1>2 DEF Parsed
  <2>2. m_type = asked.method /\ m_url = asked.target \o <<SP>>
    BY <2>1 DEF HttpInv, LoopInv
  <2>3. PICK n \in Nat : n = Len(fields)
    BY <1>1
  <2>4. PICK k \in 1 .. n + 2 : pos1 = BeginsAt(k) /\ TakenBefore(k)
    BY <2>1, <2>3 DEF HttpInv, LoopInv
  <2>5. k \notin DOMAIN fields
    BY <1>1, <2>1, <2>4, AtHeader
  <2>6. k # n + 1
    BY <1>1, <2>1, <2>3, <2>4, AtHeadersEnd
  <2>7. {j \in DOMAIN fields : j < k} = DOMAIN fields
    <3>1. k = n + 2
      BY <1>1, <2>3, <2>5, <2>6
    <3>2. \A j \in 1 .. n : j < k
      BY <3>1
    <3> QED
      BY <1>1, <2>3, <3>2
  <2> QED
    BY <2>2, <2>4, <2>7 DEF TakenBefore
<1>3. ASSUME parsing = "thrown"
      PROVE  m_type = asked.method /\ m_url = asked.target \o <<SP>> /\ \E j \in DOMAIN fields : Lost(j)
  BY <1>3 DEF HttpInv, LoopInv
<1>4. Parsed => parsing # "thrown"
  BY DEF Parsed
<1> QED
  BY <1>2, <1>3, <1>4 DEF RequestsParsed

\* What httpparser::parse finds in a request of any length that was written header by header,
\* and where it throws (httpparser.C:10-38).
THEOREM RequestsAreParsed == HttpSpec => []RequestsParsed
<1>1. HttpInit => HttpInv
  BY HttpInitHolds
<1>2. HttpInv /\ [HttpNext]_httpVars => HttpInv'
  BY HttpNextKeeps
<1>3. HttpInv => RequestsParsed
  BY HttpInvImplies
<1> QED
  BY <1>1, <1>2, <1>3, PTL DEF HttpSpec
=============================================================================
