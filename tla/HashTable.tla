----------------------------- MODULE HashTable -----------------------------
(***************************************************************************)
(* The chained hash table of hashtable/: hashtable.c and the iterator of   *)
(* hashtable_itr.c.  An entry's address is the number of the insertion     *)
(* that allocated it, and 0 is NULL; the value stored is that number too.  *)
(* A chain is the sequence of its entries, head first.                     *)
(***************************************************************************)
EXTENDS Integers, SequencesExt, FiniteSets, FiniteSetsExt

CONSTANTS Keys,      \* keys a caller uses, all different to eqfn
          Hash,      \* what hash() makes of a key
          Primes,    \* sizes a table can have
          MaxInserts \* bound: insertions, which limits the addresses

ASSUME TableAssumption ==
  /\ Hash \in [Keys -> Nat] /\ MaxInserts \in Nat
  /\ Primes \in Seq(Nat \ {0}) /\ Len(Primes) > 0

VARIABLES
  table,      \* the chains, by bucket
  primeindex, \* which of Primes is tablelength
  entrycount,
  itr,        \* the iterator: its entry, the one before in the chain, the bucket
  inserted,   \* insertions so far
  present,    \* history: entries put and not taken out
  seen,       \* history: entries the iterator has stood on since it was made
  disturbed,  \* history: the table has changed under the iterator
  corrupt     \* freed memory has been read, or a chain cut at the wrong place

tableVars == <<table, primeindex, entrycount, itr, inserted, present, seen, disturbed, corrupt>>

NULL == 0
Entry == [key : Keys, at : 1 .. MaxInserts]
tablelength == Primes[primeindex]

\* ceil(size * 0.65)
LoadLimit(size) == (65 * size + 99) \div 100
IndexFor(size, k) == Hash[k] % size

EmptyTable(size) == [i \in 0 .. size - 1 |-> <<>>]

\* A spot in the table: a bucket and how far it is along the chain there.
Spots(t) == UNION {{i} \X DOMAIN t[i] : i \in DOMAIN t}
EntryAt(t, x) == t[x[1]][x[2]]
Earlier(x, y) == x[1] < y[1] \/ (x[1] = y[1] /\ x[2] < y[2])
Entries(t) == {EntryAt(t, x) : x \in Spots(t)}

\* create_hashtable: the first prime above minsize
Create(minsize) ==
  LET pindex == CHOOSE i \in DOMAIN Primes :
                  /\ Primes[i] > minsize
                  /\ \A j \in 1 .. i - 1 : Primes[j] <= minsize
  IN /\ primeindex = pindex /\ table = EmptyTable(Primes[pindex]) /\ entrycount = 0

NoIterator == [e |-> NULL, parent |-> NULL, index |-> 0]

TableInit ==
  /\ \E minsize \in 0 .. Primes[Len(Primes)] - 1 : Create(minsize)
  /\ itr = NoIterator
  /\ inserted = 0 /\ present = {} /\ seen = {} /\ disturbed = TRUE /\ corrupt = FALSE

\* A chain of the entries at some spots, the last of them at its head: each but the last
\* has been put in front of those before it.
Chained(t, spots) ==
  [n \in 1 .. Cardinality(spots) |->
     EntryAt(t, CHOOSE x \in spots : Cardinality({y \in spots : Earlier(x, y)}) = n - 1)]

\* Mutant: an entry keeps the bucket it had.
BugExpandOldIndex(t, size) ==
  [i \in 0 .. size - 1 |->
     Chained(t, {x \in Spots(t) : IndexFor(Cardinality(DOMAIN t), EntryAt(t, x).key) = i})]

(***************************************************************************)
(* hashtable_expand: every entry goes to the head of its new chain, in the *)
(* order of the old buckets.                                               *)
(***************************************************************************)
Expand(t, size) ==
  [i \in 0 .. size - 1 |-> Chained(t, {x \in Spots(t) : IndexFor(size, EntryAt(t, x).key) = i})]

CanExpand == primeindex < Len(Primes)

\* What insert does to the chains and the size before it allocates the entry:
\* with no memory for the new table and none for realloc, nothing.
Grown(memory) ==
  IF entrycount + 1 > LoadLimit(tablelength) /\ CanExpand /\ memory
    THEN [table |-> Expand(table, Primes[primeindex + 1]), primeindex |-> primeindex + 1]
    ELSE [table |-> table, primeindex |-> primeindex]

\* hashtable_insert
Insert(k, memory) ==
  /\ inserted < MaxInserts
  /\ LET g == Grown(memory)
         i == IndexFor(Primes[g.primeindex], k)
         e == [key |-> k, at |-> inserted + 1]
     IN /\ table' = [g.table EXCEPT ![i] = <<e>> \o @]
        /\ primeindex' = g.primeindex
        /\ present' = present \cup {e}
  /\ entrycount' = entrycount + 1
  /\ inserted' = inserted + 1
  /\ disturbed' = TRUE
  /\ UNCHANGED <<itr, seen, corrupt>>

\* ... when there is no memory for the entry
InsertOom(memory) ==
  /\ inserted < MaxInserts
  /\ LET g == Grown(memory) IN table' = g.table /\ primeindex' = g.primeindex
  /\ inserted' = inserted + 1
  /\ disturbed' = TRUE
  /\ UNCHANGED <<entrycount, itr, present, seen, corrupt>>

\* ... when there is none for a new table, but realloc finds some: memset is given
\* what the first new bucket happens to hold for an address.
InsertRealloc ==
  /\ inserted < MaxInserts
  /\ entrycount + 1 > LoadLimit(tablelength) /\ CanExpand
  /\ corrupt' = TRUE
  /\ UNCHANGED <<table, primeindex, entrycount, itr, inserted, present, seen, disturbed>>

(***************************************************************************)
(* hashtable_search, and the walk of hashtable_remove: the first entry of  *)
(* the chain whose key is k.                                               *)
(***************************************************************************)
Position(k) == LET chain == table[IndexFor(tablelength, k)]
               IN SelectInSeq(chain, LAMBDA e : e.key = k)

Search(k) == LET chain == table[IndexFor(tablelength, k)]
             IN IF Position(k) = 0 THEN NULL ELSE chain[Position(k)].at

RemoveKey(k) ==
  /\ Position(k) # 0
  /\ LET i == IndexFor(tablelength, k)
     IN /\ table' = [table EXCEPT ![i] = RemoveAt(@, Position(k))]
        /\ present' = present \ {table[i][Position(k)]}
  /\ entrycount' = entrycount - 1
  /\ disturbed' = TRUE
  /\ UNCHANGED <<primeindex, itr, inserted, seen, corrupt>>

(***************************************************************************)
(* The iterator.                                                           *)
(***************************************************************************)
BucketOf(at) == {i \in DOMAIN table : \E p \in DOMAIN table[i] : table[i][p].at = at}
PlaceIn(i, at) == SelectInSeq(table[i], LAMBDA e : e.at = at)
AddressAt(i, p) == IF p \in DOMAIN table[i] THEN table[i][p].at ELSE NULL

\* Mutant: it looks into the bucket it comes from again.
BugFirstFromSame(i) ==
  LET full == {j \in DOMAIN table : j >= i - 1 /\ table[j] # <<>>}
  IN IF full = {} THEN [e |-> NULL, parent |-> NULL, index |-> tablelength]
                  ELSE [e |-> table[Min(full)][1].at, parent |-> NULL, index |-> Min(full)]

\* The first entry of the buckets from i on.
FirstFrom(i) ==
  LET full == {j \in DOMAIN table : j >= i /\ table[j] # <<>>}
  IN IF full = {} THEN [e |-> NULL, parent |-> NULL, index |-> tablelength]
                  ELSE [e |-> table[Min(full)][1].at, parent |-> NULL, index |-> Min(full)]

\* hashtable_iterator
Iterate ==
  /\ itr' = FirstFrom(0)
  /\ seen' = {itr'.e} \ {NULL}
  /\ disturbed' = FALSE
  /\ UNCHANGED <<table, primeindex, entrycount, inserted, present, corrupt>>

\* Where hashtable_iterator_advance goes: along the chain of the entry it stands on,
\* wherever that is now, and then on from the bucket the iterator remembers.
Advanced ==
  LET i == CHOOSE b \in BucketOf(itr.e) : TRUE
      next == AddressAt(i, PlaceIn(i, itr.e) + 1)
  IN IF next # NULL THEN [itr EXCEPT !.e = next, !.parent = itr.e]
                    ELSE FirstFrom(itr.index + 1)

Dangling == itr.e # NULL /\ BucketOf(itr.e) = {}

Advance ==
  /\ itr.e # NULL /\ ~Dangling
  /\ itr' = Advanced
  /\ seen' = seen \cup ({itr'.e} \ {NULL})
  /\ UNCHANGED <<table, primeindex, entrycount, inserted, present, disturbed, corrupt>>

\* The iterator knows where it stands.
Standing ==
  /\ BucketOf(itr.e) = {itr.index}
  /\ itr.parent = AddressAt(itr.index, PlaceIn(itr.index, itr.e) - 1)

\* Mutant: the parent is the entry that has been cut out.
BugCorrectedNot == Advanced

\* hashtable_iterator_remove cuts the entry out where the iterator says it is, and
\* goes on; the entry it went on from is not the parent of the next one.
Corrected == IF Advanced.parent = itr.e THEN [Advanced EXCEPT !.parent = itr.parent] ELSE Advanced

IterRemove ==
  /\ itr.e # NULL /\ Standing
  /\ LET p == PlaceIn(itr.index, itr.e)
     IN /\ table' = [table EXCEPT ![itr.index] = RemoveAt(@, p)]
        /\ present' = present \ {table[itr.index][p]}
  /\ entrycount' = entrycount - 1
  /\ itr' = Corrected
  /\ seen' = seen \cup ({itr'.e} \ {NULL})
  /\ UNCHANGED <<primeindex, inserted, disturbed, corrupt>>

\* Without an entry, with one that has been freed, or that is somewhere else now.
IterMisuse ==
  /\ Dangling \/ ~Standing
  /\ corrupt' = TRUE
  /\ UNCHANGED <<table, primeindex, entrycount, itr, inserted, present, seen, disturbed>>

\* hashtable_iterator_search; nothing is said of what the iterator has seen.
IterSearch(k) ==
  /\ Position(k) # 0
  /\ LET i == IndexFor(tablelength, k)
     IN itr' = [e |-> AddressAt(i, Position(k)), parent |-> AddressAt(i, Position(k) - 1), index |-> i]
  /\ disturbed' = TRUE
  /\ UNCHANGED <<table, primeindex, entrycount, inserted, present, seen, corrupt>>

TableNext ==
  /\ ~corrupt
  /\ \/ \E k \in Keys, memory \in BOOLEAN : Insert(k, memory)
     \/ \E memory \in BOOLEAN : InsertOom(memory)
     \/ InsertRealloc
     \/ \E k \in Keys : RemoveKey(k)
     \/ Iterate
     \/ Advance
     \/ IterRemove
     \/ IterMisuse
     \/ \E k \in Keys : IterSearch(k)

TableSpec == TableInit /\ [][TableNext]_tableVars

-----------------------------------------------------------------------------
\* The table holds what was put into it and not taken out, each entry once, counts it, and
\* finds a key if it holds one: whatever has grown, failed or been removed by way of an
\* iterator that stood where it thought.
HoldsWhatWasPut ==
  ~corrupt =>
    /\ Entries(table) = present
    /\ \A x, y \in Spots(table) : EntryAt(table, x) = EntryAt(table, y) => x = y
    /\ entrycount = Cardinality(present)
    /\ \A k \in Keys :
         IF \E e \in present : e.key = k THEN [key |-> k, at |-> Search(k)] \in present
                                         ELSE Search(k) = NULL

\* An iterator the table has not changed under, but for what it has removed itself,
\* knows where it stands, and at the end has stood on every entry.
SweepSeesAll ==
  ~disturbed /\ ~corrupt =>
    IF itr.e = NULL THEN \A e \in present : e.at \in seen ELSE Standing

\* An iterator under which only it changes the table comes by no entry twice, wherever it goes
\* on from one it has removed (hashtable_itr.c:41-112).
ShownOnce ==
  [][~disturbed /\ (Advance \/ IterRemove) /\ itr'.e # NULL => itr'.e \notin seen]_tableVars

\* The table keeps what it is given, and the iterator comes by all of it (hashtable.c:113-197,
\* hashtable_itr.c:16-165).
TableKept == HoldsWhatWasPut /\ SweepSeesAll
=============================================================================
