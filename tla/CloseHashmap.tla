---------------------------- MODULE CloseHashmap ----------------------------
(***************************************************************************)
(* The hash map of src/src/close_hashmap.hpp, used by one thread: a table  *)
(* with open addressing.  A key is looked for at its hash and then in      *)
(* steps of a prime, up to the first blank item; an erased item stays in   *)
(* the way.  A full table is replaced by one of half as many items more.   *)
(***************************************************************************)
EXTENDS Integers, Sequences, FiniteSets, Functions, FiniteSetsExt

CONSTANTS
  Keys, Vals,
  NoVal,           \* NULL, as what Get returns
  Blank, Erased,   \* items with first = 0, first = -1; of the others there is the pair
  Crash,           \* the outcome of an operation that writes through NULL
  Primes,          \* kPrimes
  Hashes,          \* what hash_ may give
  InitSizes,       \* what clients pass to Init as size_array
  MaxSize          \* bound: the table does not grow beyond it

\* Init refuses a multiple of a prime: the step must lead through the whole table.
LegalSize(n) == n > 0 /\ \A i \in DOMAIN Primes : n % Primes[i] # 0

Grown(n) == IF (3 * n) \div 2 = n THEN n + 1 ELSE (3 * n) \div 2

\* Sizes that a table has in turn, from those that Init takes up to the bound.
GrowsWithin(sizes) ==
  /\ {n \in InitSizes : LegalSize(n)} \subseteq sizes
  /\ \A n \in sizes : Grown(n) <= MaxSize => Grown(n) \in sizes

IsPrime(p) == p > 1 /\ \A d \in 2..p - 1 : p % d # 0

\* Resize does not look at the new size: it is assumed that a table comes to legal ones only.
ASSUME HashmapAssumption ==
  /\ Primes \in Seq(Nat) /\ Primes # <<>> /\ \A i \in DOMAIN Primes : IsPrime(Primes[i])
  /\ Hashes \subseteq Nat /\ InitSizes \subseteq 0..MaxSize /\ MaxSize \in Nat
  /\ Blank # Erased /\ {Blank, Erased} \cap (Keys \X Vals) = {}
  /\ {NoVal, Crash} \cap Vals = {} /\ Crash # NoVal
  /\ \E sizes \in SUBSET (1..MaxSize) :
       GrowsWithin(sizes) /\ \A n \in sizes : LegalSize(n)

VARIABLES
  hash, toResize,  \* hash_, to_resize_: what the client has passed to Init
  sizeArray, numElm,
  items,
  result,          \* what the last operation has returned
  pos,             \* of the client's iterator, if there is one
  met              \* history: the keys that the iterator has come to

tableVars == <<sizeArray, numElm, items>>
iterVars == <<pos, met>>
vars == <<hash, toResize, tableVars, result, iterVars>>

NoPlace == -1
BlankItems(n) == [p \in 0..n - 1 |-> Blank]

Init ==
  /\ hash \in [Keys -> Hashes] /\ toResize \in BOOLEAN
  /\ sizeArray \in {n \in InitSizes : LegalSize(n)} /\ items = BlankItems(sizeArray)
  /\ numElm = 0
  /\ result = NoVal
  /\ pos = NoPlace /\ met = {}

-----------------------------------------------------------------------------
(* Looking for a key in a table.                                           *)

IsUsed(item) == item \notin {Blank, Erased}
HasKey(item, k) == IsUsed(item) /\ item[1] = k

\* The places that are looked at, in order: i counts from 0, and h is the hash function.
Place(h, table, k, i) ==
  LET n == Cardinality(DOMAIN table)
      home == h[k] % n
  IN  (home + i * Primes[(home % Len(Primes)) + 1]) % n

\* The first of the places looked at, of those at which the search stops.
FirstPlace(h, table, k, stops) ==
  IF stops = {} THEN NoPlace ELSE Place(h, table, k, Min(stops))

GetItemOrNull_(h, table, k) ==
  LET p == FirstPlace(h, table, k,
             {i \in DOMAIN table : \/ table[Place(h, table, k, i)] = Blank
                                   \/ HasKey(table[Place(h, table, k, i)], k)})
  IN  IF p # NoPlace /\ HasKey(table[p], k) THEN p ELSE NoPlace

\* Mutant of GetItemOrFree_: takes the first free place, and does not look further.
FirstFreeOrKey(h, table, k) ==
  FirstPlace(h, table, k, {i \in DOMAIN table : \/ ~IsUsed(table[Place(h, table, k, i)])
                                                \/ HasKey(table[Place(h, table, k, i)], k)})
GetItemOrFree_(h, table, k) ==
  IF GetItemOrNull_(h, table, k) # NoPlace
  THEN GetItemOrNull_(h, table, k)
  ELSE FirstPlace(h, table, k, {i \in DOMAIN table : ~IsUsed(table[Place(h, table, k, i)])})

\* Resize: every item goes to the first blank one, and nowhere if there is none.
Moved(h, table, item) ==
  LET p == FirstPlace(h, table, item[1],
             {i \in DOMAIN table : table[Place(h, table, item[1], i)] = Blank})
  IN  IF p = NoPlace THEN table ELSE [table EXCEPT ![p] = item]
Resized ==
  LET moved[n \in 0..sizeArray] ==
        CASE n = 0 -> BlankItems(Grown(sizeArray))
          [] n > 0 /\ IsUsed(items[n - 1]) -> Moved(hash, moved[n - 1], items[n - 1])
          [] OTHER -> moved[n - 1]
  IN  moved[sizeArray]

-----------------------------------------------------------------------------
(* Operations.  A client does not use its iterator after it has put        *)
(* something into the map.                                                 *)

Full == numElm = sizeArray
Returns(r) == result' = r
EndIteration == pos' = NoPlace /\ met' = {}

\* *item = (1, (key, val)), and one element more.
Store(table, p, k, v) ==
  IF p = NoPlace
  THEN Returns(Crash) /\ UNCHANGED tableVars
  ELSE /\ items' = [table EXCEPT ![p] = <<k, v>>]
       /\ sizeArray' = Cardinality(DOMAIN table)
       /\ numElm' = numElm + 1
       /\ Returns(TRUE)

InsertInto(table, k, v) ==
  LET p == GetItemOrFree_(hash, table, k)
  IN  IF p # NoPlace /\ IsUsed(table[p])
      THEN /\ items' = table /\ sizeArray' = Cardinality(DOMAIN table)
           /\ Returns(FALSE)
           /\ UNCHANGED numElm
      ELSE Store(table, p, k, v)

Insert(k, v) ==
  /\ \/ ~Full /\ InsertInto(items, k, v)
     \/ Full /\ toResize /\ Grown(sizeArray) <= MaxSize /\ InsertInto(Resized, k, v)
     \/ Full /\ ~toResize /\ Returns(FALSE) /\ UNCHANGED tableVars
  /\ EndIteration
  /\ UNCHANGED <<hash, toResize>>

Replace(p, k, v) ==
  /\ items' = [items EXCEPT ![p] = <<k, v>>]
  /\ Returns(TRUE)
  /\ UNCHANGED <<sizeArray, numElm>>

Upsert(k, v) ==
  LET p == GetItemOrFree_(hash, items, k)
      there == p # NoPlace /\ IsUsed(items[p])
  IN  /\ \/ there /\ Replace(p, k, v)
         \/ ~there /\ ~Full /\ Store(items, p, k, v)
         \/ /\ ~there /\ Full /\ toResize /\ Grown(sizeArray) <= MaxSize
            /\ Store(Resized, GetItemOrFree_(hash, Resized, k), k, v)
         \/ ~there /\ Full /\ ~toResize /\ Returns(FALSE) /\ UNCHANGED tableVars
      /\ EndIteration
      /\ UNCHANGED <<hash, toResize>>

\* Mutant of EraseItem: leaves a blank.
EraseItemBlank(p) == items' = [items EXCEPT ![p] = Blank]
EraseItem(p) == items' = [items EXCEPT ![p] = Erased]

Erase(k) ==
  LET p == GetItemOrNull_(hash, items, k)
  IN  /\ \/ p # NoPlace /\ EraseItem(p) /\ numElm' = numElm - 1 /\ Returns(TRUE)
         \/ p = NoPlace /\ Returns(FALSE) /\ UNCHANGED <<items, numElm>>
      /\ UNCHANGED <<hash, toResize, sizeArray, iterVars>>

Get(k) ==
  LET p == GetItemOrNull_(hash, items, k)
  IN  /\ Returns(IF p = NoPlace THEN NoVal ELSE items[p][2])
      /\ UNCHANGED <<hash, toResize, tableVars, iterVars>>

\* The client copies the map into a new one with the same functions, and goes on with
\* that.  Copy takes the first num_elm_ items, wherever the elements are; the places behind
\* them are blank, as they are in a map of the same size that nothing was put into.
Copy ==
  /\ toResize' \in BOOLEAN
  /\ items' = [p \in 0..sizeArray - 1 |-> IF p < numElm THEN items[p] ELSE Blank]
  /\ EndIteration
  /\ UNCHANGED <<hash, sizeArray, numElm, result>>

(* The iterator.                                                           *)

UsedFrom(p) == {q \in p..sizeArray - 1 : IsUsed(items[q])}

\* Goes to the first used item from place p on, or to the end.
GoTo(p, seen) ==
  /\ pos' = Min(UsedFrom(p) \cup {sizeArray})
  /\ met' = seen \cup {items[q][1] : q \in UsedFrom(p) \cap {pos'}}
  /\ UNCHANGED <<hash, toResize, tableVars, result>>

Begin == pos = NoPlace /\ GoTo(0, {})
IterNext == pos \in 0..sizeArray - 1 /\ GoTo(pos + 1, met)
Forget == pos = sizeArray /\ EndIteration /\ UNCHANGED <<hash, toResize, tableVars, result>>

-----------------------------------------------------------------------------
\* What is assumed of the client, and no code sees to: it copies full tables only, in which
\* the first num_elm_ items are all of them.
CopiedWhenFull == Full /\ Copy

Next ==
  \/ \E k \in Keys :
       \/ Erase(k) \/ Get(k)
       \/ \E v \in Vals : Insert(k, v) \/ Upsert(k, v)
  \/ CopiedWhenFull
  \/ Begin \/ IterNext \/ Forget

Spec == Init /\ [][Next]_vars

-----------------------------------------------------------------------------
(* Properties.                                                             *)

Used == {p \in 0..sizeArray - 1 : IsUsed(items[p])}

\* No operation finds the table without a place for what it stores.
TypeOK ==
  /\ hash \in [Keys -> Hashes] /\ toResize \in BOOLEAN
  /\ sizeArray \in 1..MaxSize /\ numElm \in 0..sizeArray
  /\ items \in [0..sizeArray - 1 -> {Blank, Erased} \cup Keys \X Vals]
  /\ result \in BOOLEAN \cup Vals \cup {NoVal}
  /\ pos \in NoPlace..sizeArray /\ met \subseteq Keys

\* The iterator comes to every element once, also when elements are erased on the way.
MetSoFar == pos # NoPlace => \A p \in Used : items[p][1] \in met <=> p <= pos

\* A search for a key ends at its item, whatever was erased on the way or moved by
\* Resize, so that no key is there twice; and num_elm_ counts the items: a table that
\* says it is full has no room, and one that says it is not has a place.
Findable == \A p \in Used : GetItemOrNull_(hash, items, items[p][1]) = p
Counted == numElm = Cardinality(Used)
WellFormed == TypeOK /\ Findable /\ Counted /\ MetSoFar

\* What the table says of a key: the value at which a search ends.
Contents ==
  [k \in {items[p][1] : p \in Used} |->
     (CHOOSE item \in Range(items) : HasKey(item, k))[2]]

Map == INSTANCE KeyValueMap WITH
  map <- Contents, room <- toResize \/ Cardinality(Used) < sizeArray

\* The table is a map.
ImplementsMap == Map!Spec
=============================================================================
