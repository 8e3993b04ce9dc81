------------------------- MODULE CloseHashmap_proofs -------------------------
(***************************************************************************)
(* Proof that the table keeps its elements where a search finds them, that *)
(* the iterator comes to each once, and that the table is a map.           *)
(***************************************************************************)
EXTENDS CloseHashmap, FiniteSetTheorems, TLAPS

(* Division, of which the provers know little.                             *)

LEMMA Mod ==
  ASSUME NEW a \in Int, NEW b \in Int, b > 0
  PROVE  a % b = a - b * (a \div b)
OBVIOUS

LEMMA Quotient ==
  ASSUME NEW a \in Nat, NEW b \in Nat \ {0}
  PROVE  \E q \in Nat : \E r \in 0..b - 1 : a % b = r /\ a = b * q + r
<1>1. a \div b \in Int /\ a % b \in 0..b - 1
  OBVIOUS
<1>2. a % b = a - b * (a \div b)
  BY Mod
<1> DEFINE q == a \div b
           r == a % b
<1>3. q \in Int /\ r \in Int /\ 0 <= r /\ r < b /\ r = a - b * q
  BY <1>1, <1>2
<1> HIDE DEF q, r
<1>4. a = b * q + r
  BY <1>3
<1>5. q >= 0
  <2> SUFFICES ASSUME q <= -1 PROVE FALSE
    BY <1>3
  <2>1. b * q <= -b
    BY <1>3
  <2> QED  BY <1>3, <1>4, <2>1
<1>6. q \in Nat /\ r \in 0..b - 1
  BY <1>3, <1>5
<1>7. a % b = r
  BY DEF r
<1> QED  BY <1>4, <1>6, <1>7

\* A number is smaller than one that a factor of at least 1 makes of it.
LEMMA Times ==
  ASSUME NEW b \in Nat \ {0}, NEW x \in Int, NEW r \in Int, r < b, -b < r, b * x = r
  PROVE  r = 0
<1>1. CASE x <= -1
  <2>1. b * x <= -b
    BY <1>1
  <2> QED  BY <2>1
<1>2. CASE x >= 1
  <2>1. b * x >= b
    BY <1>2
  <2> QED  BY <2>1
<1>3. CASE x = 0
  BY <1>3
<1> QED  BY <1>1, <1>2, <1>3

LEMMA Remainder ==
  ASSUME NEW a \in Nat, NEW b \in Nat \ {0}, NEW q \in Int, NEW r \in 0..b - 1, a = b * q + r
  PROVE  a % b = r
<1>1. PICK d \in Nat : \E s \in 0..b - 1 : a % b = s /\ a = b * d + s
  BY Quotient
<1>2. PICK s \in 0..b - 1 : a % b = s /\ a = b * d + s
  BY <1>1
<1> DEFINE x == q - d
           y == s - r
<1>3. x \in Int /\ y \in Int /\ y < b /\ -b < y
  OBVIOUS
<1>4. b * x = y
  <2>1. b * q + r = b * d + s
    BY <1>2
  <2> QED  BY <2>1
<1> HIDE DEF x, y
<1>5. y = 0
  BY <1>3, <1>4, Times
<1>6. s = r
  BY <1>5 DEF y
<1> QED  BY <1>2, <1>6

LEMMA LeastOf ==
  ASSUME NEW S \in SUBSET Nat, S # {}
  PROVE  \E m \in S : \A x \in S : m <= x
<1> DEFINE R == OpToRel(<, Nat)
<1>1. IsWellFoundedOn(R, Nat)
  BY NatLessThanWellFounded
<1>2. \A t, u \in Nat : t < u => <<t, u>> \in R
  BY DEF OpToRel
<1> HIDE DEF R
<1>3. \E m \in S : \A x \in S : ~(<<x, m>> \in R)
  BY <1>1, WFMin
<1>4. PICK m \in S : \A x \in S : ~(<<x, m>> \in R)
  BY <1>3
<1>5. ASSUME NEW x \in S PROVE m <= x
  <2>1. m \in Nat /\ x \in Nat /\ ~(<<x, m>> \in R)
    BY <1>4
  <2>2. ~(x < m)
    BY <1>2, <2>1
  <2> QED  BY <2>1, <2>2
<1> QED  BY <1>4, <1>5

(* A step that is a prime which does not divide the size leads through the *)
(* whole table.                                                            *)

LEMMA NotBack ==
  ASSUME NEW n \in Nat \ {0}, NEW p \in Nat, IsPrime(p), n % p # 0,
         NEW d \in 1..n - 1
  PROVE  (d * p) % n # 0
<1> SUFFICES ASSUME (d * p) % n = 0 PROVE FALSE
  OBVIOUS
<1> DEFINE D == {e \in Nat : e > 0 /\ \E k \in Nat : e * p = n * k}
<1>1. p > 1 /\ \A c \in 2..p - 1 : p % c # 0
  BY DEF IsPrime
<1>2. d \in D
  <2>1. d * p \in Nat
    OBVIOUS
  <2>2. PICK k \in Nat : \E r \in 0..n - 1 : (d * p) % n = r /\ d * p = n * k + r
    BY <2>1, Quotient
  <2>3. d * p = n * k /\ d \in Nat /\ d > 0
    BY <2>2
  <2> QED  BY <2>3
<1> HIDE DEF D
<1>3. PICK m \in D : \A e \in D : m <= e
  <2>1. D \subseteq Nat
    BY DEF D
  <2> QED  BY <1>2, <2>1, LeastOf
<1>4. m \in Nat \ {0} /\ m <= d
  BY <1>2, <1>3 DEF D
<1>5. PICK k \in Nat : m * p = n * k
  BY DEF D
<1>6. PICK c \in Nat : \E r \in 0..m - 1 : n % m = r /\ n = m * c + r
  BY <1>4, Quotient
<1>7. PICK r \in 0..m - 1 : n = m * c + r
  BY <1>6
<1>8. r = 0
  <2> SUFFICES ASSUME r > 0 PROVE FALSE
    BY <1>7
  <2>1. r * p = n * p - c * (m * p)
    BY <1>4, <1>7
  <2>2. r * p = n * (p - c * k)
    BY <1>5, <2>1
  <2>3. p - c * k > 0
    <3> SUFFICES ASSUME p - c * k <= 0 PROVE FALSE
      OBVIOUS
    <3> DEFINE z == p - c * k
    <3>1. n * z <= 0
      <4>1. z \in Int /\ z <= 0
        OBVIOUS
      <4> HIDE DEF z
      <4> QED  BY <4>1
    <3>2. r * p > 0
      BY <1>1, <1>7
    <3> QED  BY <2>2, <3>1, <3>2
  <2>4. r \in D
    <3> DEFINE z == p - c * k
    <3>1. z \in Nat /\ r * p = n * z
      BY <2>2, <2>3
    <3>2. r \in Nat /\ r > 0
      BY <1>4, <1>7
    <3> QED  BY <3>1, <3>2 DEF D
  <2>5. m <= r
    BY <1>3, <2>4
  <2> QED  BY <1>4, <1>7, <2>5
<1>9. n = m * c /\ c > 1
  <2>1. n = m * c
    BY <1>4, <1>7, <1>8
  <2>2. c # 0 /\ c # 1
    BY <1>4, <2>1
  <2> QED  BY <2>1, <2>2
<1>10. p = c * k
  <2>1. m * p = m * (c * k)
    BY <1>4, <1>5, <1>9
  <2>2. m * (p - c * k) = 0
    BY <1>4, <2>1
  <2> QED  BY <1>4, <2>2
<1>11. p % c = 0
  <2>1. c \in Nat \ {0} /\ 0 \in 0..c - 1 /\ p = c * k + 0
    BY <1>9, <1>10
  <2> QED  BY <2>1, Remainder
<1>12. c <= p
  <2>1. k # 0
    BY <1>1, <1>10
  <2>2. c * k >= c
    BY <1>9, <2>1
  <2> QED  BY <1>10, <2>2
<1>13. c = p
  <2> SUFFICES ASSUME c # p PROVE FALSE
    OBVIOUS
  <2>1. c \in 2..p - 1
    BY <1>9, <1>12
  <2> QED  BY <1>1, <1>11, <2>1
<1>14. n % p = 0
  <2>1. n = p * m + 0
    BY <1>4, <1>9, <1>13
  <2> QED  BY <1>1, <1>4, <2>1, Remainder
<1> QED  BY <1>14

LEMMA Apart ==
  ASSUME NEW n \in Nat \ {0}, NEW p \in Nat, IsPrime(p), n % p # 0,
         NEW home \in Nat, NEW i \in 0..n - 1, NEW j \in 0..n - 1, i < j
  PROVE  (home + i * p) % n # (home + j * p) % n
<1> SUFFICES ASSUME (home + i * p) % n = (home + j * p) % n PROVE FALSE
  OBVIOUS
<1>1. i * p \in Nat /\ j * p \in Nat
  OBVIOUS
<1> DEFINE a == home + i * p
           b == home + j * p
<1>2. a \in Nat /\ b \in Nat
  BY <1>1
<1>3. b - a = (j - i) * p
  OBVIOUS
<1> HIDE DEF a, b
<1>4. PICK s \in Nat : \E r \in 0..n - 1 : a % n = r /\ a = n * s + r
  BY <1>2, Quotient
<1>5. PICK t \in Nat : \E r \in 0..n - 1 : b % n = r /\ b = n * t + r
  BY <1>2, Quotient
<1>6. PICK r \in 0..n - 1 : a = n * s + r /\ b = n * t + r
  <2>1. a % n = b % n
    BY DEF a, b
  <2> QED  BY <1>4, <1>5, <2>1
<1> DEFINE d == j - i
<1>7. d \in 1..n - 1 /\ b - a = d * p
  BY <1>3
<1> HIDE DEF d
<1>8. d * p = n * (t - s) + 0 /\ d * p \in Nat
  BY <1>6, <1>7
<1>9. (d * p) % n = 0
  BY <1>8, Remainder
<1> QED  BY <1>7, <1>9, NotBack

(* The places at which a search looks, one after the other.                *)

Table(n) == [0..n - 1 -> {Blank, Erased} \cup Keys \X Vals]

\* The sizes that a table may come to.
Sizes ==
  CHOOSE sizes \in SUBSET (1..MaxSize) :
    GrowsWithin(sizes) /\ \A n \in sizes : LegalSize(n)

LEMMA SizesAre ==
  /\ Sizes \subseteq 1..MaxSize /\ Sizes \subseteq Nat \ {0}
  /\ GrowsWithin(Sizes) /\ \A n \in Sizes : LegalSize(n)
<1>1. Sizes \in SUBSET (1..MaxSize) /\ GrowsWithin(Sizes) /\ \A n \in Sizes : LegalSize(n)
  BY HashmapAssumption DEF Sizes
<1>2. 1..MaxSize \subseteq Nat \ {0}
  BY HashmapAssumption
<1> QED  BY <1>1, <1>2

Spot(h, n, k, i) ==
  ((h[k] % n) + i * Primes[((h[k] % n) % Len(Primes)) + 1]) % n

LEMMA Interval ==
  ASSUME NEW n \in Nat
  PROVE  IsFiniteSet(0..n - 1) /\ Cardinality(0..n - 1) = n
BY FS_Interval

LEMMA PlaceIsSpot ==
  ASSUME NEW n \in Nat, NEW t, DOMAIN t = 0..n - 1, NEW h, NEW k, NEW i
  PROVE  Place(h, t, k, i) = Spot(h, n, k, i)
BY Interval DEF Place, Spot

Hasher == [Keys -> Nat]

LEMMA Spots ==
  ASSUME NEW n \in Sizes, NEW h \in Hasher, NEW k \in Keys
  PROVE  /\ \A i \in 0..n - 1 : Spot(h, n, k, i) \in 0..n - 1
         /\ \A i, j \in 0..n - 1 : Spot(h, n, k, i) = Spot(h, n, k, j) => i = j
         /\ \A p \in 0..n - 1 : \E i \in 0..n - 1 : Spot(h, n, k, i) = p
<1> DEFINE home == h[k] % n
           p == Primes[(home % Len(Primes)) + 1]
           f == [i \in 0..n - 1 |-> Spot(h, n, k, i)]
<1>1. n \in Nat \ {0} /\ \A q \in DOMAIN Primes : n % Primes[q] # 0
  BY SizesAre DEF LegalSize
<1>2. home \in Nat
  BY <1>1 DEF Hasher
<1>3. p \in Nat /\ IsPrime(p) /\ n % p # 0
  <2>1. Primes \in Seq(Nat) /\ Len(Primes) \in Nat \ {0}
    BY HashmapAssumption
  <2>2. home % Len(Primes) \in 0..Len(Primes) - 1
    BY <1>2, <2>1
  <2>3. (home % Len(Primes)) + 1 \in DOMAIN Primes
    BY <2>1, <2>2
  <2> QED  BY <1>1, <2>1, <2>3, HashmapAssumption
<1>4. \A i \in 0..n - 1 : Spot(h, n, k, i) = (home + i * p) % n
  BY DEF Spot
<1> HIDE DEF home, p
<1>5. ASSUME NEW i \in 0..n - 1 PROVE Spot(h, n, k, i) \in 0..n - 1
  <2>1. home + i * p \in Nat
    BY <1>2, <1>3
  <2> QED  BY <1>1, <1>4, <2>1
<1>6. ASSUME NEW i \in 0..n - 1, NEW j \in 0..n - 1, i # j
      PROVE  Spot(h, n, k, i) # Spot(h, n, k, j)
  <2>1. i < j \/ j < i
    BY <1>6
  <2> QED  BY <1>1, <1>2, <1>3, <1>4, <2>1, Apart
<1>7. ASSUME NEW q \in 0..n - 1 PROVE \E i \in 0..n - 1 : Spot(h, n, k, i) = q
  <2> SUFFICES ASSUME \A i \in 0..n - 1 : Spot(h, n, k, i) # q PROVE FALSE
    OBVIOUS
  <2> DEFINE S == 0..n - 1
             T == S \ {q}
  <2>1. IsFiniteSet(S) /\ Cardinality(S) = n
    BY <1>1, Interval
  <2>2. IsFiniteSet(T) /\ Cardinality(T) = n - 1
    BY <2>1, FS_RemoveElement
  <2>3. f \in [S -> T]
    BY <1>5
  <2>4. Cardinality(T) < Cardinality(S)
    BY <1>1, <2>1, <2>2
  <2> HIDE DEF T, f
  <2>5. \E x, y \in S : x # y /\ f[x] = f[y]
    BY <2>1, <2>2, <2>3, <2>4, FS_PigeonHole
  <2> QED  BY <1>6, <2>5 DEF f
<1> QED  BY <1>5, <1>6, <1>7

\* How many places a search looks at before p.
Rank(h, n, k, p) == CHOOSE i \in 0..n - 1 : Spot(h, n, k, i) = p

LEMMA Ranks ==
  ASSUME NEW n \in Sizes, NEW h \in Hasher, NEW k \in Keys
  PROVE  /\ \A p \in 0..n - 1 : /\ Rank(h, n, k, p) \in 0..n - 1
                                /\ Spot(h, n, k, Rank(h, n, k, p)) = p
         /\ \A i \in 0..n - 1 : Rank(h, n, k, Spot(h, n, k, i)) = i
<1>1. ASSUME NEW p \in 0..n - 1
      PROVE  Rank(h, n, k, p) \in 0..n - 1 /\ Spot(h, n, k, Rank(h, n, k, p)) = p
  <2>1. \E i \in 0..n - 1 : Spot(h, n, k, i) = p
    BY Spots
  <2> QED  BY <2>1 DEF Rank
<1>2. ASSUME NEW i \in 0..n - 1 PROVE Rank(h, n, k, Spot(h, n, k, i)) = i
  <2>1. Spot(h, n, k, i) \in 0..n - 1
    BY Spots
  <2>2. /\ Rank(h, n, k, Spot(h, n, k, i)) \in 0..n - 1
        /\ Spot(h, n, k, Rank(h, n, k, Spot(h, n, k, i))) = Spot(h, n, k, i)
    BY <1>1, <2>1
  <2> QED  BY <2>2, Spots
<1> QED  BY <1>1, <1>2

\* A search for k comes to p: there is no blank item before.
Open(h, t, n, k, p) ==
  \A j \in 0..n - 1 : j < Rank(h, n, k, p) => t[Spot(h, n, k, j)] # Blank

Reached(h, t, n) == \A p \in 0..n - 1 : IsUsed(t[p]) => Open(h, t, n, t[p][1], p)

OncePerKey(t, n) ==
  \A p, q \in 0..n - 1 : IsUsed(t[p]) /\ IsUsed(t[q]) /\ t[p][1] = t[q][1] => p = q

\* What every operation keeps of a table of n items.
Kept(h, t, n) ==
  n \in Sizes /\ h \in Hasher /\ t \in Table(n) /\ Reached(h, t, n) /\ OncePerKey(t, n)

LEMMA Items ==
  /\ ~IsUsed(Blank) /\ ~IsUsed(Erased) /\ Blank # Erased
  /\ \A item \in Keys \X Vals : IsUsed(item) /\ HasKey(item, item[1])
  /\ \A item : HasKey(item, item[1]) <=> IsUsed(item)
  /\ \A item \in {Blank, Erased} \cup Keys \X Vals :
       IsUsed(item) => item \in Keys \X Vals /\ item[1] \in Keys /\ item[2] \in Vals
BY HashmapAssumption DEF IsUsed, HasKey

\* p is the first place of those at which the search for k stops.
Ends(h, n, k, stops, p) ==
  \/ stops = {} /\ p = NoPlace
  \/ \E m \in stops : p = Spot(h, n, k, m) /\ \A i \in stops : m <= i

LEMMA FirstEnds ==
  ASSUME NEW n \in Sizes, NEW t, DOMAIN t = 0..n - 1, NEW h, NEW k,
         NEW stops \in SUBSET (0..n - 1)
  PROVE  Ends(h, n, k, stops, FirstPlace(h, t, k, stops))
<1>1. CASE stops = {}
  BY <1>1 DEF FirstPlace, Ends
<1>2. CASE stops # {}
  <2>1. n \in Nat /\ 0..n - 1 \subseteq Nat
    BY SizesAre
  <2>2. \E m \in stops : \A x \in stops : m <= x
    BY <1>2, <2>1, LeastOf
  <2>3. Min(stops) \in stops /\ \A x \in stops : Min(stops) <= x
    BY <2>2 DEF Min
  <2>4. FirstPlace(h, t, k, stops) = Spot(h, n, k, Min(stops))
    <3>1. Place(h, t, k, Min(stops)) = Spot(h, n, k, Min(stops))
      BY <2>1, PlaceIsSpot
    <3> QED  BY <1>2, <3>1 DEF FirstPlace
  <2> QED  BY <2>3, <2>4 DEF Ends
<1> QED  BY <1>1, <1>2

LEMMA NotNoPlace == ASSUME NEW n \in Sizes PROVE NoPlace \notin 0..n - 1
BY SizesAre DEF NoPlace

\* A search for a key that is there ends at its item, and else nowhere.
LEMMA NullFound ==
  ASSUME NEW h, NEW t, NEW n, Kept(h, t, n), NEW k \in Keys,
         NEW q \in 0..n - 1, HasKey(t[q], k)
  PROVE  GetItemOrNull_(h, t, k) = q
<1> DEFINE stops == {i \in DOMAIN t : \/ t[Place(h, t, k, i)] = Blank
                                      \/ HasKey(t[Place(h, t, k, i)], k)}
           p == FirstPlace(h, t, k, stops)
<1>1. n \in Sizes /\ h \in Hasher /\ DOMAIN t = 0..n - 1 /\ n \in Nat
  BY SizesAre DEF Kept, Table
<1>2. stops = {i \in 0..n - 1 : \/ t[Spot(h, n, k, i)] = Blank
                                \/ HasKey(t[Spot(h, n, k, i)], k)}
  BY <1>1, PlaceIsSpot
<1>3. Ends(h, n, k, stops, p)
  <2>1. stops \in SUBSET (0..n - 1)
    BY <1>1
  <2> HIDE DEF stops
  <2> QED  BY <1>1, <2>1, FirstEnds
<1>4. GetItemOrNull_(h, t, k) = IF p # NoPlace /\ HasKey(t[p], k) THEN p ELSE NoPlace
  BY DEF GetItemOrNull_
<1> HIDE DEF p, stops
<1>5. Rank(h, n, k, q) \in 0..n - 1 /\ Spot(h, n, k, Rank(h, n, k, q)) = q
  BY <1>1, Ranks
<1>6. Rank(h, n, k, q) \in stops
  BY <1>2, <1>5
<1>7. PICK m \in stops : p = Spot(h, n, k, m) /\ \A i \in stops : m <= i
  BY <1>3, <1>6 DEF Ends
<1>8. m \in 0..n - 1 /\ m <= Rank(h, n, k, q)
  BY <1>2, <1>6, <1>7
<1>9. t[q][1] = k /\ IsUsed(t[q])
  BY DEF HasKey
<1>10. Open(h, t, n, k, q)
  BY <1>9 DEF Kept, Reached
<1>11. m = Rank(h, n, k, q)
  <2> SUFFICES ASSUME m # Rank(h, n, k, q) PROVE FALSE
    OBVIOUS
  <2>1. m < Rank(h, n, k, q)
    BY <1>5, <1>8
  <2>2. HasKey(t[Spot(h, n, k, m)], k)
    BY <1>2, <1>7, <1>8, <1>10, <2>1 DEF Open
  <2>3. Spot(h, n, k, m) \in 0..n - 1
    BY <1>1, <1>8, Spots
  <2>4. Spot(h, n, k, m) = q
    BY <1>9, <2>2, <2>3 DEF Kept, OncePerKey, HasKey
  <2>5. Rank(h, n, k, Spot(h, n, k, m)) = m
    BY <1>1, <1>8, Ranks
  <2> QED  BY <2>1, <2>4, <2>5, <1>5
<1>12. p = q /\ p # NoPlace
  BY <1>1, <1>5, <1>7, <1>11, NotNoPlace
<1> QED  BY <1>4, <1>12

LEMMA NullNowhere ==
  ASSUME NEW h, NEW t, NEW n, Kept(h, t, n), NEW k \in Keys,
         \A q \in 0..n - 1 : ~HasKey(t[q], k)
  PROVE  GetItemOrNull_(h, t, k) = NoPlace
<1> DEFINE stops == {i \in DOMAIN t : \/ t[Place(h, t, k, i)] = Blank
                                      \/ HasKey(t[Place(h, t, k, i)], k)}
           p == FirstPlace(h, t, k, stops)
<1>1. n \in Sizes /\ h \in Hasher /\ DOMAIN t = 0..n - 1 /\ n \in Nat
  BY SizesAre DEF Kept, Table
<1>2. stops \in SUBSET (0..n - 1)
  BY <1>1
<1>3. GetItemOrNull_(h, t, k) = IF p # NoPlace /\ HasKey(t[p], k) THEN p ELSE NoPlace
  BY DEF GetItemOrNull_
<1> HIDE DEF stops
<1>4. Ends(h, n, k, stops, p)
  BY <1>1, <1>2, FirstEnds
<1> HIDE DEF p
<1>5. p = NoPlace \/ p \in 0..n - 1
  BY <1>1, <1>2, <1>4, Spots DEF Ends
<1> QED  BY <1>3, <1>5

\* No item of t has the key k.
Without(t, n, k) == \A q \in 0..n - 1 : ~HasKey(t[q], k)

\* p is the first place on the way of k whose item is not used.
FirstFree(h, t, n, k, p) ==
  /\ p \in 0..n - 1 /\ ~IsUsed(t[p])
  /\ \A j \in 0..n - 1 : j < Rank(h, n, k, p) => IsUsed(t[Spot(h, n, k, j)])

LEMMA FreeFound ==
  ASSUME NEW h, NEW t, NEW n, Kept(h, t, n), NEW k \in Keys,
         NEW q \in 0..n - 1, HasKey(t[q], k)
  PROVE  GetItemOrFree_(h, t, k) = q
BY NullFound, NotNoPlace DEF GetItemOrFree_, Kept

LEMMA FreeElse ==
  ASSUME NEW h, NEW t, NEW n, Kept(h, t, n), NEW k \in Keys, Without(t, n, k),
         \E q \in 0..n - 1 : ~IsUsed(t[q])
  PROVE  FirstFree(h, t, n, k, GetItemOrFree_(h, t, k))
<1> DEFINE stops == {i \in DOMAIN t : ~IsUsed(t[Place(h, t, k, i)])}
           p == FirstPlace(h, t, k, stops)
<1>1. n \in Sizes /\ h \in Hasher /\ DOMAIN t = 0..n - 1 /\ n \in Nat
  BY SizesAre DEF Kept, Table
<1>2. stops = {i \in 0..n - 1 : ~IsUsed(t[Spot(h, n, k, i)])}
  BY <1>1, PlaceIsSpot
<1>3. Ends(h, n, k, stops, p)
  <2>1. stops \in SUBSET (0..n - 1)
    BY <1>1
  <2> HIDE DEF stops
  <2> QED  BY <1>1, <2>1, FirstEnds
<1>4. GetItemOrFree_(h, t, k) = p
  <2>1. GetItemOrNull_(h, t, k) = NoPlace
    BY NullNowhere DEF Without
  <2> QED  BY <2>1 DEF GetItemOrFree_
<1> HIDE DEF p, stops
<1>5. PICK q \in 0..n - 1 : ~IsUsed(t[q])
  OBVIOUS
<1>6. Rank(h, n, k, q) \in stops
  BY <1>1, <1>2, <1>5, Ranks
<1>7. PICK m \in stops : p = Spot(h, n, k, m) /\ \A i \in stops : m <= i
  BY <1>3, <1>6 DEF Ends
<1>8. m \in 0..n - 1 /\ ~IsUsed(t[p]) /\ p \in 0..n - 1 /\ Rank(h, n, k, p) = m
  BY <1>1, <1>2, <1>7, Spots, Ranks
<1>9. ASSUME NEW j \in 0..n - 1, j < m PROVE IsUsed(t[Spot(h, n, k, j)])
  BY <1>2, <1>7, <1>8, <1>9
<1> QED  BY <1>4, <1>8, <1>9 DEF FirstFree

LEMMA FreeNone ==
  ASSUME NEW h, NEW t, NEW n, Kept(h, t, n), NEW k \in Keys, Without(t, n, k),
         \A q \in 0..n - 1 : IsUsed(t[q])
  PROVE  GetItemOrFree_(h, t, k) = NoPlace
<1> DEFINE stops == {i \in DOMAIN t : ~IsUsed(t[Place(h, t, k, i)])}
<1>1. n \in Sizes /\ h \in Hasher /\ DOMAIN t = 0..n - 1 /\ n \in Nat
  BY SizesAre DEF Kept, Table
<1>2. stops = {i \in 0..n - 1 : ~IsUsed(t[Spot(h, n, k, i)])}
  BY <1>1, PlaceIsSpot
<1>3. stops = {}
  BY <1>1, <1>2, Spots
<1>4. GetItemOrNull_(h, t, k) = NoPlace
  BY NullNowhere DEF Without
<1> HIDE DEF stops
<1> QED  BY <1>3, <1>4 DEF GetItemOrFree_, FirstPlace, stops

(* What an operation does with one item.                                   *)

\* p has another item than before, which is not blank; or the item has the same key.
LEMMA OpenStays ==
  ASSUME NEW h \in Hasher, NEW n \in Sizes, NEW t \in Table(n), NEW k \in Keys, NEW q \in 0..n - 1,
         NEW p \in 0..n - 1, NEW item, item # Blank, Open(h, t, n, k, q)
  PROVE  Open(h, [t EXCEPT ![p] = item], n, k, q)
BY Spots DEF Open, Table

LEMMA StoreKeeps ==
  ASSUME NEW h, NEW t, NEW n, Kept(h, t, n), NEW k \in Keys, NEW v \in Vals,
         Without(t, n, k), NEW p, FirstFree(h, t, n, k, p)
  PROVE  Kept(h, [t EXCEPT ![p] = <<k, v>>], n)
<1> DEFINE item == <<k, v>>
           u == [t EXCEPT ![p] = item]
<1>1. n \in Sizes /\ h \in Hasher /\ t \in Table(n) /\ p \in 0..n - 1
  BY DEF Kept, FirstFree
<1>2. item \in Keys \X Vals /\ item # Blank /\ IsUsed(item) /\ item[1] = k
  BY Items
<1> HIDE DEF item
<1>3. u \in Table(n) /\ u[p] = item /\ \A q \in (0..n - 1) \ {p} : u[q] = t[q]
  BY <1>1, <1>2 DEF Table
<1>4. Reached(h, u, n)
  <2> SUFFICES ASSUME NEW q \in 0..n - 1, IsUsed(u[q]) PROVE Open(h, u, n, u[q][1], q)
    BY DEF Reached
  <2>1. CASE q = p
    <3>1. Open(h, t, n, k, p)
      BY Items DEF FirstFree, Open
    <3> QED  BY <1>1, <1>2, <1>3, <2>1, <3>1, OpenStays
  <2>2. CASE q # p
    <3>1. u[q] = t[q] /\ IsUsed(t[q])
      BY <1>3, <2>2
    <3>2. t[q][1] \in Keys
      BY <1>1, <3>1, Items DEF Table
    <3>3. Open(h, t, n, t[q][1], q)
      BY <3>1 DEF Kept, Reached
    <3> HIDE DEF u
    <3> QED  BY <1>1, <1>2, <3>1, <3>2, <3>3, OpenStays DEF u
  <2> QED  BY <2>1, <2>2
<1>5. OncePerKey(u, n)
  <2>1. ASSUME NEW q \in 0..n - 1, IsUsed(t[q]) PROVE t[q][1] # k
    BY <2>1 DEF Without, HasKey
  <2> HIDE DEF u
  <2> QED  BY <1>2, <1>3, <2>1 DEF Kept, OncePerKey
<1> QED  BY <1>1, <1>3, <1>4, <1>5 DEF Kept, item

\* The item that is there keeps its key.
LEMMA ReplaceKeeps ==
  ASSUME NEW h, NEW t, NEW n, Kept(h, t, n), NEW k \in Keys, NEW v \in Vals,
         NEW p \in 0..n - 1, HasKey(t[p], k)
  PROVE  Kept(h, [t EXCEPT ![p] = <<k, v>>], n)
<1> DEFINE item == <<k, v>>
           u == [t EXCEPT ![p] = item]
<1>1. n \in Sizes /\ h \in Hasher /\ t \in Table(n) /\ IsUsed(t[p]) /\ t[p][1] = k
  BY DEF Kept, HasKey
<1>2. item \in Keys \X Vals /\ item # Blank /\ IsUsed(item) /\ item[1] = k
  BY Items
<1> HIDE DEF item
<1>3. u \in Table(n) /\ u[p] = item /\ \A q \in (0..n - 1) \ {p} : u[q] = t[q]
  BY <1>1, <1>2 DEF Table
<1>4. \A q \in 0..n - 1 : /\ IsUsed(u[q]) <=> IsUsed(t[q])
                          /\ IsUsed(u[q]) => u[q][1] = t[q][1]
  BY <1>1, <1>2, <1>3
<1>5. Reached(h, u, n)
  <2> SUFFICES ASSUME NEW q \in 0..n - 1, IsUsed(u[q]) PROVE Open(h, u, n, u[q][1], q)
    BY DEF Reached
  <2>1. IsUsed(t[q]) /\ u[q][1] = t[q][1]
    BY <1>4
  <2>2. t[q][1] \in Keys
    BY <1>1, <2>1, Items DEF Table
  <2>3. Open(h, t, n, t[q][1], q)
    BY <2>1 DEF Kept, Reached
  <2> HIDE DEF u
  <2> QED  BY <1>1, <1>2, <2>1, <2>2, <2>3, OpenStays DEF u
<1>6. OncePerKey(u, n)
  <2> HIDE DEF u
  <2> QED  BY <1>4 DEF Kept, OncePerKey
<1> QED  BY <1>1, <1>3, <1>5, <1>6 DEF Kept, item

\* An erased item stays in the way.
LEMMA EraseKeeps ==
  ASSUME NEW h, NEW t, NEW n, Kept(h, t, n), NEW p \in 0..n - 1
  PROVE  Kept(h, [t EXCEPT ![p] = Erased], n)
<1> DEFINE u == [t EXCEPT ![p] = Erased]
<1>1. n \in Sizes /\ h \in Hasher /\ t \in Table(n)
  BY DEF Kept
<1>2. u \in Table(n) /\ u[p] = Erased /\ \A q \in (0..n - 1) \ {p} : u[q] = t[q]
  BY <1>1 DEF Table
<1>3. \A q \in 0..n - 1 : IsUsed(u[q]) => IsUsed(t[q]) /\ u[q] = t[q]
  BY <1>2, Items
<1>4. Reached(h, u, n)
  <2> SUFFICES ASSUME NEW q \in 0..n - 1, IsUsed(u[q]) PROVE Open(h, u, n, u[q][1], q)
    BY DEF Reached
  <2>1. IsUsed(t[q]) /\ u[q] = t[q]
    BY <1>3
  <2>2. t[q][1] \in Keys
    BY <1>1, <2>1, Items DEF Table
  <2>3. Open(h, t, n, t[q][1], q)
    BY <2>1 DEF Kept, Reached
  <2> HIDE DEF u
  <2> QED  BY <1>1, <2>1, <2>2, <2>3, Items, OpenStays DEF u
<1>5. OncePerKey(u, n)
  <2> HIDE DEF u
  <2> QED  BY <1>3 DEF Kept, OncePerKey
<1> QED  BY <1>1, <1>2, <1>4, <1>5 DEF Kept

LEMMA BlankKept ==
  ASSUME NEW h \in Hasher, NEW n \in Sizes
  PROVE  Kept(h, BlankItems(n), n)
<1>1. BlankItems(n) \in Table(n) /\ \A p \in 0..n - 1 : ~IsUsed(BlankItems(n)[p])
  BY Items DEF BlankItems, Table
<1> QED  BY <1>1 DEF Kept, Reached, OncePerKey

(* The elements of a table.                                                *)

UsedIn(t, n) == {p \in 0..n - 1 : IsUsed(t[p])}

\* The elements at the first n places.
Pairs(t, n) == {t[p] : p \in UsedIn(t, n)}

LEMMA Count ==
  ASSUME NEW n \in Nat, NEW t, OncePerKey(t, n)
  PROVE  /\ IsFiniteSet(UsedIn(t, n)) /\ Cardinality(UsedIn(t, n)) \in 0..n
         /\ Cardinality(UsedIn(t, n)) = n <=> UsedIn(t, n) = 0..n - 1
         /\ Cardinality(Pairs(t, n)) = Cardinality(UsedIn(t, n))
<1> DEFINE S == UsedIn(t, n)
           T == Pairs(t, n)
           f == [p \in S |-> t[p]]
<1>1. IsFiniteSet(0..n - 1) /\ Cardinality(0..n - 1) = n
  BY Interval
<1>2. S \in SUBSET (0..n - 1)
  BY DEF UsedIn
<1>3. /\ IsFiniteSet(S) /\ Cardinality(S) <= n
      /\ Cardinality(S) = n => S = 0..n - 1
  BY <1>1, <1>2, FS_Subset
<1>4. Cardinality(S) \in Nat
  BY <1>3, FS_CardinalityType
<1>5. f \in Surjection(S, T) /\ f \in Injection(S, T)
  <2>1. f \in [S -> T] /\ \A x \in T : \E p \in S : f[p] = x
    BY DEF Pairs
  <2>2. \A p, q \in S : f[p] = f[q] => p = q
    BY DEF OncePerKey, UsedIn
  <2> HIDE DEF S, T, f
  <2> QED  BY <2>1, <2>2 DEF Surjection, Injection, IsInjective
<1>6. Cardinality(T) = Cardinality(S)
  <2> HIDE DEF S, T, f
  <2> QED  BY <1>3, <1>5, FS_Surjection
<1> QED  BY <1>1, <1>3, <1>4, <1>6

\* n elements at most are at n places.
LEMMA FewPairs ==
  ASSUME NEW n \in Nat, NEW t
  PROVE  IsFiniteSet(Pairs(t, n)) /\ Cardinality(Pairs(t, n)) <= n
<1> DEFINE S == UsedIn(t, n)
           T == Pairs(t, n)
           f == [p \in S |-> t[p]]
<1>1. IsFiniteSet(0..n - 1) /\ Cardinality(0..n - 1) = n /\ S \in SUBSET (0..n - 1)
  BY Interval DEF UsedIn
<1>2. IsFiniteSet(S) /\ Cardinality(S) <= n
  BY <1>1, FS_Subset
<1>3. f \in Surjection(S, T)
  <2>1. f \in [S -> T] /\ \A x \in T : \E p \in S : f[p] = x
    BY DEF Pairs
  <2> HIDE DEF S, T, f
  <2> QED  BY <2>1 DEF Surjection
<1>4. IsFiniteSet(T) /\ Cardinality(T) <= Cardinality(S)
  <2> HIDE DEF S, T, f
  <2> QED  BY <1>2, <1>3, FS_Surjection
<1>5. Cardinality(S) \in Nat /\ Cardinality(T) \in Nat
  BY <1>2, <1>4, FS_CardinalityType
<1> QED  BY <1>2, <1>4, <1>5

\* u is t with another item at p.
Differs(t, n, p, item, u) == u[p] = item /\ \A q \in (0..n - 1) \ {p} : u[q] = t[q]

LEMMA Assigned ==
  ASSUME NEW n, NEW t \in Table(n), NEW p \in 0..n - 1, NEW item
  PROVE  Differs(t, n, p, item, [t EXCEPT ![p] = item])
BY DEF Differs, Table

\* u has the elements of t, and item.
Gains(t, u, n, item) == Pairs(u, n) = Pairs(t, n) \cup {item}

LEMMA MorePairs ==
  ASSUME NEW n \in Sizes, NEW t \in Table(n), NEW p \in 0..n - 1, ~IsUsed(t[p]),
         NEW item \in Keys \X Vals, NEW u, Differs(t, n, p, item, u)
  PROVE  Gains(t, u, n, item)
<1>1. u[p] = item /\ \A q \in (0..n - 1) \ {p} : u[q] = t[q]
  BY DEF Differs
<1>2. IsUsed(item)
  BY Items
<1>3. UsedIn(u, n) = UsedIn(t, n) \cup {p}
  BY <1>1, <1>2 DEF UsedIn
<1>4. p \notin UsedIn(t, n) /\ UsedIn(t, n) \subseteq 0..n - 1
  BY DEF UsedIn
<1>5. \A q \in UsedIn(t, n) : u[q] = t[q]
  BY <1>1, <1>4
<1> QED  BY <1>1, <1>3, <1>5 DEF Pairs, Gains

(* Resize: the elements go to a larger table one after the other.          *)

LEMMA Grows ==
  ASSUME NEW n \in Sizes, Grown(n) <= MaxSize
  PROVE  Grown(n) \in Sizes /\ Grown(n) \in Nat /\ n \in Nat /\ Grown(n) > n
<1>1. Grown(n) \in Sizes /\ n \in Nat \ {0}
  BY SizesAre DEF GrowsWithin
<1>2. Grown(n) > n
  BY <1>1 DEF Grown
<1> QED  BY <1>1, <1>2, SizesAre

\* Nothing was erased from the table.
Clean(t, n) == \A p \in 0..n - 1 : t[p] # Erased

LEMMA MovedKeeps ==
  ASSUME NEW h, NEW t, NEW n, Kept(h, t, n), Clean(t, n),
         NEW item \in Keys \X Vals, Without(t, n, item[1]),
         \E q \in 0..n - 1 : ~IsUsed(t[q])
  PROVE  /\ Kept(h, Moved(h, t, item), n) /\ Clean(Moved(h, t, item), n)
         /\ Pairs(Moved(h, t, item), n) = Pairs(t, n) \cup {item}
<1> DEFINE k == item[1]
           p == GetItemOrFree_(h, t, k)
           u == [t EXCEPT ![p] = item]
<1>1. n \in Sizes /\ h \in Hasher /\ t \in Table(n) /\ DOMAIN t = 0..n - 1
  BY DEF Kept, Table
<1>2. k \in Keys /\ item[2] \in Vals /\ item = <<k, item[2]>>
  OBVIOUS
<1>3. FirstFree(h, t, n, k, p)
  BY <1>2, FreeElse
<1>4. Moved(h, t, item) = u
  <2>1. GetItemOrNull_(h, t, k) = NoPlace
    BY <1>2, NullNowhere DEF Without
  <2> DEFINE blanks == {i \in DOMAIN t : t[Place(h, t, k, i)] = Blank}
             frees == {i \in DOMAIN t : ~IsUsed(t[Place(h, t, k, i)])}
  <2>2. p = FirstPlace(h, t, k, frees)
    BY <2>1 DEF GetItemOrFree_
  <2>3. \A i \in 0..n - 1 : Place(h, t, k, i) \in 0..n - 1
    <3>1. n \in Nat
      BY <1>1, SizesAre
    <3> SUFFICES ASSUME NEW i \in 0..n - 1 PROVE Place(h, t, k, i) \in 0..n - 1
      OBVIOUS
    <3> HIDE DEF k
    <3>2. Place(h, t, k, i) = Spot(h, n, k, i)
      BY <1>1, <3>1, PlaceIsSpot
    <3> QED  BY <1>1, <1>2, <3>2, Spots
  <2>4. blanks = frees
    BY <1>1, <2>3 DEF Clean, IsUsed
  <2>5. p # NoPlace
    BY <1>1, <1>3, NotNoPlace DEF FirstFree
  <2>6. FirstPlace(h, t, item[1], blanks) = p
    <3> HIDE DEF p, blanks, frees
    <3> QED  BY <2>2, <2>4
  <2> HIDE DEF p
  <2> QED  BY <2>5, <2>6 DEF Moved
<1>5. p \in 0..n - 1 /\ ~IsUsed(t[p])
  BY <1>3 DEF FirstFree
<1> HIDE DEF p, k
<1>6. Kept(h, u, n)
  BY <1>2, <1>3, StoreKeeps DEF k
<1>7. Clean(u, n)
  BY <1>1, Items DEF Clean, Table
<1>8. Pairs(u, n) = Pairs(t, n) \cup {item}
  <2>1. Differs(t, n, p, item, u)
    BY <1>1, <1>5, Assigned, Zenon
  <2> HIDE DEF u
  <2>2. Gains(t, u, n, item)
    BY <1>1, <1>5, <2>1, MorePairs
  <2> QED  BY <2>2 DEF Gains
<1> QED  BY <1>4, <1>6, <1>7, <1>8

MoveOn(h, t, i, table) == IF IsUsed(t[i]) THEN Moved(h, table, t[i]) ELSE table

\* g[m] is the new table, of size n, after the first m places of t.
Moves(h, t, n, m, g) ==
  g = [i \in 0..m |-> IF i = 0 THEN BlankItems(n) ELSE MoveOn(h, t, i - 1, g[i - 1])]

LEMMA MovesExist ==
  ASSUME NEW h, NEW t, NEW n, NEW m \in Nat
  PROVE  \E g : Moves(h, t, n, m, g)
<1> DEFINE Missing == {i \in Nat : ~\E g : Moves(h, t, n, i, g)}
<1> SUFFICES ASSUME Missing # {} PROVE FALSE
  OBVIOUS
<1>1. PICK j \in Missing : \A i \in Missing : j <= i
  <2>1. Missing \in SUBSET Nat
    OBVIOUS
  <2> HIDE DEF Missing
  <2> QED  BY <2>1, LeastOf
<1>2. j \in Nat /\ ~\E g : Moves(h, t, n, j, g)
  OBVIOUS
<1>3. CASE j = 0
  <2>1. Moves(h, t, n, 0, [i \in 0..0 |-> BlankItems(n)])
    BY DEF Moves
  <2> QED  BY <1>2, <1>3, <2>1
<1>4. CASE j # 0
  <2>1. j - 1 \in Nat /\ j - 1 \notin Missing
    BY <1>1, <1>2, <1>4
  <2>2. PICK g : Moves(h, t, n, j - 1, g)
    BY <2>1
  <2> DEFINE new == [i \in 0..j |-> IF i = j THEN MoveOn(h, t, j - 1, g[j - 1]) ELSE g[i]]
  <2>3. \A i \in 0..j - 1 :
          g[i] = IF i = 0 THEN BlankItems(n) ELSE MoveOn(h, t, i - 1, g[i - 1])
    BY <2>1, <2>2 DEF Moves
  <2>4. \A i \in 0..j :
          new[i] = IF i = 0 THEN BlankItems(n) ELSE MoveOn(h, t, i - 1, new[i - 1])
    <3> SUFFICES ASSUME NEW i \in 0..j
                 PROVE  new[i] = IF i = 0 THEN BlankItems(n) ELSE MoveOn(h, t, i - 1, new[i - 1])
      OBVIOUS
    <3>1. CASE i = 0
      BY <1>2, <1>4, <2>3, <3>1
    <3>2. CASE i # 0
      <4>1. i - 1 \in 0..j - 1 /\ new[i - 1] = g[i - 1]
        BY <1>2, <3>2
      <4>2. new[i] = MoveOn(h, t, i - 1, g[i - 1])
        BY <1>2, <2>3, <3>2
      <4> HIDE DEF new
      <4> QED  BY <3>2, <4>1, <4>2
    <3> QED  BY <3>1, <3>2
  <2>5. new = [i \in 0..j |-> new[i]]
    OBVIOUS
  <2> HIDE DEF new
  <2>6. Moves(h, t, n, j, new)
    BY <2>4, <2>5 DEF Moves
  <2> QED  BY <1>2, <2>6
<1> QED  BY <1>3, <1>4

\* What is in the new table after the first m places.
MovedSo(h, t, n, m, table) ==
  Kept(h, table, n) /\ Clean(table, n) /\ Pairs(table, n) = Pairs(t, m)

LEMMA MovesStart ==
  ASSUME NEW h \in Hasher, NEW t, NEW n \in Sizes
  PROVE  MovedSo(h, t, n, 0, BlankItems(n))
<1>1. Kept(h, BlankItems(n), n)
  BY BlankKept
<1>2. \A p \in 0..n - 1 : BlankItems(n)[p] = Blank
  BY DEF BlankItems
<1>3. UsedIn(BlankItems(n), n) = {} /\ UsedIn(t, 0) = {}
  BY <1>2, Items DEF UsedIn
<1>4. Pairs(BlankItems(n), n) = Pairs(t, 0)
  BY <1>3 DEF Pairs
<1>5. Clean(BlankItems(n), n)
  BY <1>2, Items DEF Clean
<1> QED  BY <1>1, <1>4, <1>5 DEF MovedSo

LEMMA NextPairs ==
  ASSUME NEW m \in Nat, NEW t
  PROVE  Pairs(t, m + 1) = IF IsUsed(t[m]) THEN Pairs(t, m) \cup {t[m]} ELSE Pairs(t, m)
<1>1. 0..(m + 1) - 1 = (0..m - 1) \cup {m}
  OBVIOUS
<1>2. CASE IsUsed(t[m])
  <2>1. UsedIn(t, m + 1) = UsedIn(t, m) \cup {m}
    BY <1>1, <1>2 DEF UsedIn
  <2> QED  BY <1>2, <2>1 DEF Pairs
<1>3. CASE ~IsUsed(t[m])
  <2>1. UsedIn(t, m + 1) = UsedIn(t, m)
    BY <1>1, <1>3 DEF UsedIn
  <2> QED  BY <1>3, <2>1 DEF Pairs
<1> QED  BY <1>2, <1>3

LEMMA MovesOn ==
  ASSUME NEW h, NEW t, NEW s, Kept(h, t, s), NEW n \in Sizes, s < n,
         NEW m \in 0..s - 1, NEW table, MovedSo(h, t, n, m, table)
  PROVE  MovedSo(h, t, n, m + 1, MoveOn(h, t, m, table))
<1>1. /\ s \in Nat /\ n \in Nat /\ m \in Nat /\ m < n
      /\ t \in Table(s) /\ OncePerKey(t, s)
  BY SizesAre DEF Kept
<1>2. Kept(h, table, n) /\ Clean(table, n) /\ Pairs(table, n) = Pairs(t, m)
  BY DEF MovedSo
<1>3. CASE ~IsUsed(t[m])
  <2>1. Pairs(t, m + 1) = Pairs(t, m)
    BY <1>1, <1>3, NextPairs
  <2> QED  BY <1>2, <1>3, <2>1 DEF MovedSo, MoveOn
<1>4. CASE IsUsed(t[m])
  <2> DEFINE item == t[m]
  <2>1. item \in Keys \X Vals
    BY <1>1, <1>4, Items DEF Table
  <2>2. Without(table, n, item[1])
    <3> SUFFICES ASSUME NEW q \in 0..n - 1, HasKey(table[q], item[1]) PROVE FALSE
      BY DEF Without
    <3>1. IsUsed(table[q]) /\ table[q][1] = item[1]
      BY DEF HasKey
    <3>2. table[q] \in Pairs(table, n)
      BY <3>1 DEF Pairs, UsedIn
    <3>3. PICK r \in UsedIn(t, m) : table[q] = t[r]
      BY <1>2, <3>2 DEF Pairs
    <3>4. r \in 0..m - 1 /\ IsUsed(t[r])
      BY DEF UsedIn
    <3>5. r \in 0..s - 1 /\ r # m
      BY <1>1, <3>4
    <3>6. t[r][1] = t[m][1]
      BY <3>1, <3>3
    <3> QED  BY <1>1, <1>4, <3>4, <3>5, <3>6 DEF OncePerKey
  <2>3. \E q \in 0..n - 1 : ~IsUsed(table[q])
    <3> SUFFICES ASSUME \A q \in 0..n - 1 : IsUsed(table[q]) PROVE FALSE
      OBVIOUS
    <3>1. UsedIn(table, n) = 0..n - 1
      BY DEF UsedIn
    <3>2. OncePerKey(table, n)
      BY <1>2 DEF Kept
    <3>3. Cardinality(Pairs(table, n)) = n
      BY <1>1, <3>1, <3>2, Count
    <3>4. Cardinality(Pairs(t, m)) <= m
      BY <1>1, FewPairs
    <3> QED  BY <1>1, <1>2, <3>3, <3>4
  <2> HIDE DEF item
  <2>4. /\ Kept(h, Moved(h, table, item), n) /\ Clean(Moved(h, table, item), n)
        /\ Pairs(Moved(h, table, item), n) = Pairs(table, n) \cup {item}
    BY <1>2, <2>1, <2>2, <2>3, MovedKeeps
  <2>5. Pairs(t, m + 1) = Pairs(t, m) \cup {item}
    BY <1>1, <1>4, NextPairs DEF item
  <2>6. MoveOn(h, t, m, table) = Moved(h, table, item)
    BY <1>4 DEF MoveOn, item
  <2> QED  BY <1>2, <2>4, <2>5, <2>6 DEF MovedSo
<1> QED  BY <1>3, <1>4

LEMMA MovesEnd ==
  ASSUME NEW h, NEW t, NEW s, Kept(h, t, s), NEW n \in Sizes, s < n,
         NEW g, Moves(h, t, n, s, g)
  PROVE  MovedSo(h, t, n, s, g[s])
<1> DEFINE Wrong == {i \in 0..s : ~MovedSo(h, t, n, i, g[i])}
<1>1. s \in Nat /\ h \in Hasher
  BY SizesAre DEF Kept
<1>2. \A i \in 0..s : g[i] = IF i = 0 THEN BlankItems(n) ELSE MoveOn(h, t, i - 1, g[i - 1])
  BY DEF Moves
<1> SUFFICES ASSUME Wrong # {} PROVE FALSE
  BY <1>1
<1>3. PICK j \in Wrong : \A i \in Wrong : j <= i
  <2>1. Wrong \in SUBSET Nat
    BY <1>1
  <2> HIDE DEF Wrong
  <2> QED  BY <2>1, LeastOf
<1>4. j \in 0..s /\ ~MovedSo(h, t, n, j, g[j])
  OBVIOUS
<1>5. CASE j = 0
  <2>1. g[0] = BlankItems(n)
    BY <1>2, <1>4, <1>5
  <2> QED  BY <1>1, <1>4, <1>5, <2>1, MovesStart
<1>6. CASE j # 0
  <2> DEFINE m == j - 1
  <2>1. m \in 0..s - 1 /\ m \in 0..s /\ m + 1 = j /\ m < j
    BY <1>1, <1>4, <1>6
  <2>2. g[j] = MoveOn(h, t, m, g[m])
    BY <1>2, <1>4, <1>6
  <2>3. MovedSo(h, t, n, m, g[m])
    BY <1>1, <1>3, <2>1
  <2> HIDE DEF m
  <2> QED  BY <1>4, <2>1, <2>2, <2>3, MovesOn
<1> QED  BY <1>5, <1>6

\* Resize keeps the elements, and leaves them where a search finds them.
LEMMA ResizedKeeps ==
  ASSUME Kept(hash, items, sizeArray), Grown(sizeArray) <= MaxSize
  PROVE  /\ Kept(hash, Resized, Grown(sizeArray))
         /\ Pairs(Resized, Grown(sizeArray)) = Pairs(items, sizeArray)
<1> DEFINE n == Grown(sizeArray)
<1>1. sizeArray \in Sizes /\ n \in Sizes /\ sizeArray < n /\ sizeArray \in Nat
  BY Grows DEF Kept
<1> HIDE DEF n
<1>2. Resized = (CHOOSE g : Moves(hash, items, n, sizeArray, g))[sizeArray]
  <2>1. ASSUME NEW i \in 0..sizeArray, NEW g
        PROVE  (CASE i = 0 -> BlankItems(n)
                  [] i > 0 /\ IsUsed(items[i - 1]) -> Moved(hash, g[i - 1], items[i - 1])
                  [] OTHER -> g[i - 1])
               = IF i = 0 THEN BlankItems(n) ELSE MoveOn(hash, items, i - 1, g[i - 1])
    BY <1>1 DEF MoveOn
  <2>2. ASSUME NEW g
        PROVE  Moves(hash, items, n, sizeArray, g) <=>
                 g = [i \in 0..sizeArray |->
                        CASE i = 0 -> BlankItems(n)
                          [] i > 0 /\ IsUsed(items[i - 1]) -> Moved(hash, g[i - 1], items[i - 1])
                          [] OTHER -> g[i - 1]]
    BY <2>1 DEF Moves
  <2> QED  BY <2>2 DEF Resized, n
<1>3. PICK g : Moves(hash, items, n, sizeArray, g) /\ Resized = g[sizeArray]
  <2>1. \E g : Moves(hash, items, n, sizeArray, g)
    BY <1>1, MovesExist
  <2> QED  BY <1>2, <2>1
<1>4. MovedSo(hash, items, n, sizeArray, g[sizeArray])
  BY <1>1, <1>3, MovesEnd
<1> QED  BY <1>3, <1>4 DEF MovedSo, n

(* What the operations make of the elements.                               *)

HasIn(t, n, k) == \E q \in 0..n - 1 : HasKey(t[q], k)

LEMMA Known ==
  ASSUME NEW t, NEW n, NEW k
  PROVE  /\ HasIn(t, n, k) <=> \E e \in Pairs(t, n) : e[1] = k
         /\ HasIn(t, n, k) <=> ~Without(t, n, k)
BY DEF HasIn, Without, HasKey, Pairs, UsedIn

LEMMA RoomFor ==
  ASSUME NEW h, NEW t, NEW n, Kept(h, t, n)
  PROVE  /\ n \in Nat \ {0} /\ Cardinality(UsedIn(t, n)) \in 0..n
         /\ Cardinality(UsedIn(t, n)) < n <=> \E q \in 0..n - 1 : ~IsUsed(t[q])
         /\ Cardinality(Pairs(t, n)) = Cardinality(UsedIn(t, n))
<1>1. n \in Nat \ {0} /\ OncePerKey(t, n)
  BY SizesAre DEF Kept
<1>2. UsedIn(t, n) = 0..n - 1 <=> \A q \in 0..n - 1 : IsUsed(t[q])
  BY DEF UsedIn
<1>3. /\ Cardinality(UsedIn(t, n)) \in 0..n
      /\ Cardinality(UsedIn(t, n)) = n <=> UsedIn(t, n) = 0..n - 1
      /\ Cardinality(Pairs(t, n)) = Cardinality(UsedIn(t, n))
  BY <1>1, Count
<1>4. Cardinality(UsedIn(t, n)) < n <=> Cardinality(UsedIn(t, n)) # n
  BY <1>1, <1>3
<1> QED  BY <1>1, <1>2, <1>3, <1>4

\* (k, v) goes to p, and the table u is what there is then.
Stores(h, t, n, k, v, p, u) ==
  /\ p \in 0..n - 1 /\ p # NoPlace /\ ~IsUsed(t[p])
  /\ Kept(h, u, n)
  /\ Cardinality(UsedIn(u, n)) = Cardinality(UsedIn(t, n)) + 1
  /\ Gains(t, u, n, <<k, v>>)

LEMMA StoreDoes ==
  ASSUME NEW h, NEW t, NEW n, Kept(h, t, n), NEW k \in Keys, NEW v \in Vals,
         ~HasIn(t, n, k), Cardinality(UsedIn(t, n)) < n
  PROVE  Stores(h, t, n, k, v, GetItemOrFree_(h, t, k),
                [t EXCEPT ![GetItemOrFree_(h, t, k)] = <<k, v>>])
<1> DEFINE p == GetItemOrFree_(h, t, k)
           item == <<k, v>>
           u == [t EXCEPT ![p] = item]
<1>1. n \in Sizes /\ t \in Table(n) /\ item \in Keys \X Vals /\ IsUsed(item) /\ OncePerKey(t, n)
  BY Items DEF Kept
<1>2. Without(t, n, k) /\ \E q \in 0..n - 1 : ~IsUsed(t[q])
  BY Known, RoomFor
<1>3. FirstFree(h, t, n, k, p)
  BY <1>2, FreeElse
<1>4. p \in 0..n - 1 /\ ~IsUsed(t[p]) /\ p # NoPlace
  BY <1>1, <1>3, NotNoPlace DEF FirstFree
<1> HIDE DEF p
<1>5. Kept(h, u, n)
  BY <1>2, <1>3, StoreKeeps
<1> HIDE DEF item
<1>6. Differs(t, n, p, item, u)
  BY <1>1, <1>4, Assigned, Zenon
<1> HIDE DEF u
<1>7. Gains(t, u, n, item)
  BY <1>1, <1>4, <1>6, MorePairs
<1>8. Cardinality(UsedIn(u, n)) = Cardinality(UsedIn(t, n)) + 1
  <2>1. UsedIn(u, n) = UsedIn(t, n) \cup {p} /\ p \notin UsedIn(t, n)
    BY <1>1, <1>4, <1>6 DEF UsedIn, Differs
  <2>2. IsFiniteSet(UsedIn(t, n))
    BY <1>1, RoomFor, Count
  <2> QED  BY <2>1, <2>2, FS_AddElement
<1> QED  BY <1>4, <1>5, <1>7, <1>8 DEF Stores, p, item, u

\* The element with the key k is now (k, v).
Replaces(h, t, n, k, v, p, u) ==
  /\ p \in 0..n - 1 /\ p # NoPlace /\ IsUsed(t[p]) /\ t[p][1] = k
  /\ Kept(h, u, n)
  /\ Cardinality(UsedIn(u, n)) = Cardinality(UsedIn(t, n))
  /\ Pairs(u, n) = (Pairs(t, n) \ {t[p]}) \cup {<<k, v>>}

LEMMA ReplaceDoes ==
  ASSUME NEW h, NEW t, NEW n, Kept(h, t, n), NEW k \in Keys, NEW v \in Vals, HasIn(t, n, k)
  PROVE  Replaces(h, t, n, k, v, GetItemOrFree_(h, t, k),
                  [t EXCEPT ![GetItemOrFree_(h, t, k)] = <<k, v>>])
<1> DEFINE p == GetItemOrFree_(h, t, k)
           item == <<k, v>>
           u == [t EXCEPT ![p] = item]
<1>1. n \in Sizes /\ t \in Table(n) /\ IsUsed(item) /\ OncePerKey(t, n)
  BY Items DEF Kept
<1>2. p \in 0..n - 1 /\ HasKey(t[p], k)
  BY FreeFound DEF HasIn
<1>3. IsUsed(t[p]) /\ t[p][1] = k /\ p # NoPlace
  BY <1>1, <1>2, NotNoPlace DEF HasKey
<1> HIDE DEF p
<1>4. Kept(h, u, n)
  BY <1>2, ReplaceKeeps
<1> HIDE DEF item
<1>5. Differs(t, n, p, item, u)
  BY <1>1, <1>2, Assigned, Zenon
<1> HIDE DEF u
<1>6. UsedIn(u, n) = UsedIn(t, n)
  BY <1>1, <1>2, <1>3, <1>5 DEF UsedIn, Differs
<1>7. Pairs(u, n) = (Pairs(t, n) \ {t[p]}) \cup {item}
  <2>1. ASSUME NEW q \in UsedIn(t, n) PROVE u[q] \in (Pairs(t, n) \ {t[p]}) \cup {item}
    <3>1. q \in 0..n - 1 /\ IsUsed(t[q])
      BY DEF UsedIn
    <3>2. CASE q = p
      BY <1>5, <3>2 DEF Differs
    <3>3. CASE q # p
      <4>1. u[q] = t[q]
        BY <1>5, <3>1, <3>3 DEF Differs
      <4>2. t[q] # t[p]
        BY <1>1, <1>2, <1>3, <3>1, <3>3 DEF OncePerKey
      <4> QED  BY <4>1, <4>2 DEF Pairs
    <3> QED  BY <3>2, <3>3
  <2>2. ASSUME NEW q \in UsedIn(t, n), t[q] # t[p] PROVE t[q] \in Pairs(u, n)
    <3>1. u[q] = t[q]
      BY <1>5, <2>2 DEF Differs, UsedIn
    <3> QED  BY <1>6, <3>1 DEF Pairs
  <2>3. item \in Pairs(u, n)
    <3>1. p \in UsedIn(u, n) /\ u[p] = item
      BY <1>2, <1>3, <1>5, <1>6 DEF UsedIn, Differs
    <3> QED  BY <3>1 DEF Pairs
  <2>4. Pairs(u, n) \subseteq (Pairs(t, n) \ {t[p]}) \cup {item}
    BY <1>6, <2>1 DEF Pairs
  <2>5. (Pairs(t, n) \ {t[p]}) \subseteq Pairs(u, n)
    BY <2>2 DEF Pairs
  <2> QED  BY <2>3, <2>4, <2>5
<1> QED  BY <1>2, <1>3, <1>4, <1>6, <1>7 DEF Replaces, p, item, u

\* The element with the key k is gone.
Removes(h, t, n, k, p, u) ==
  /\ p \in 0..n - 1 /\ p # NoPlace /\ IsUsed(t[p]) /\ t[p][1] = k
  /\ Kept(h, u, n)
  /\ Cardinality(UsedIn(u, n)) = Cardinality(UsedIn(t, n)) - 1
  /\ Pairs(u, n) = Pairs(t, n) \ {t[p]}

LEMMA EraseDoes ==
  ASSUME NEW h, NEW t, NEW n, Kept(h, t, n), NEW k \in Keys, HasIn(t, n, k)
  PROVE  Removes(h, t, n, k, GetItemOrNull_(h, t, k),
                 [t EXCEPT ![GetItemOrNull_(h, t, k)] = Erased])
<1> DEFINE p == GetItemOrNull_(h, t, k)
           u == [t EXCEPT ![p] = Erased]
<1>1. n \in Sizes /\ t \in Table(n) /\ ~IsUsed(Erased) /\ OncePerKey(t, n)
  BY Items DEF Kept
<1>2. p \in 0..n - 1 /\ HasKey(t[p], k)
  BY NullFound DEF HasIn
<1>3. IsUsed(t[p]) /\ t[p][1] = k /\ p # NoPlace
  BY <1>1, <1>2, NotNoPlace DEF HasKey
<1> HIDE DEF p
<1>4. Kept(h, u, n)
  BY <1>2, EraseKeeps
<1>5. Differs(t, n, p, Erased, u)
  BY <1>1, <1>2, Assigned, Zenon
<1> HIDE DEF u
<1>6. UsedIn(u, n) = UsedIn(t, n) \ {p} /\ p \in UsedIn(t, n)
  BY <1>1, <1>2, <1>3, <1>5 DEF UsedIn, Differs
<1>7. Cardinality(UsedIn(u, n)) = Cardinality(UsedIn(t, n)) - 1
  <2>1. IsFiniteSet(UsedIn(t, n))
    BY <1>1, RoomFor, Count
  <2> QED  BY <1>6, <2>1, FS_RemoveElement
<1>8. Pairs(u, n) = Pairs(t, n) \ {t[p]}
  <2>1. ASSUME NEW q \in UsedIn(t, n), q # p PROVE u[q] = t[q] /\ t[q] # t[p]
    BY <1>1, <1>2, <1>3, <1>5, <2>1 DEF Differs, UsedIn, OncePerKey
  <2>2. Pairs(u, n) \subseteq Pairs(t, n) \ {t[p]}
    BY <1>6, <2>1 DEF Pairs
  <2>3. Pairs(t, n) \ {t[p]} \subseteq Pairs(u, n)
    BY <1>6, <2>1 DEF Pairs
  <2> QED  BY <2>2, <2>3
<1> QED  BY <1>2, <1>3, <1>4, <1>7, <1>8 DEF Removes, p, u

-----------------------------------------------------------------------------
(* The invariant.                                                          *)

Elements == Pairs(items, sizeArray)
TableInv == Kept(hash, items, sizeArray) /\ numElm = Cardinality(UsedIn(items, sizeArray))

\* The table keeps its elements where a search for them ends, each key once, and
\* counts them.
Inv ==
  /\ hash \in [Keys -> Hashes] /\ toResize \in BOOLEAN
  /\ TableInv
  /\ result \in BOOLEAN \cup Vals \cup {NoVal}
  /\ pos \in NoPlace..sizeArray /\ met \subseteq Keys
  /\ MetSoFar

Has(k) == HasIn(items, sizeArray, k)
Room == toResize \/ numElm < sizeArray

Inserted(k, v) ==
  \/ Has(k) /\ Elements' = Elements /\ result' = FALSE
  \/ ~Has(k) /\ Room /\ Elements' = Elements \cup {<<k, v>>} /\ result' = TRUE
  \/ ~Has(k) /\ ~Room /\ Elements' = Elements /\ result' = FALSE

LEMMA StoreActs ==
  ASSUME NEW t, NEW n, Kept(hash, t, n), numElm = Cardinality(UsedIn(t, n)), numElm < n,
         NEW k \in Keys, NEW v \in Vals, ~HasIn(t, n, k), hash' = hash,
         Store(t, GetItemOrFree_(hash, t, k), k, v)
  PROVE  TableInv' /\ Elements' = Pairs(t, n) \cup {<<k, v>>} /\ result' = TRUE
<1> DEFINE p == GetItemOrFree_(hash, t, k)
           u == [t EXCEPT ![p] = <<k, v>>]
<1>1. Stores(hash, t, n, k, v, p, u)
  BY StoreDoes
<1>2. n \in Nat /\ DOMAIN t = 0..n - 1
  BY SizesAre DEF Kept, Table
<1> HIDE DEF p
<1>3. p # NoPlace /\ Store(t, p, k, v)
  BY <1>1 DEF Stores, p
<1>4. items' = u /\ sizeArray' = n /\ numElm' = numElm + 1 /\ result' = TRUE
  BY <1>2, <1>3, Interval DEF Store, Returns
<1> HIDE DEF u
<1>5. Kept(hash, u, n) /\ Pairs(u, n) = Pairs(t, n) \cup {<<k, v>>}
      /\ Cardinality(UsedIn(u, n)) = Cardinality(UsedIn(t, n)) + 1
  BY <1>1 DEF Stores, Gains
<1> QED  BY <1>4, <1>5 DEF TableInv, Elements

LEMMA IntoActs ==
  ASSUME NEW t, NEW n, Kept(hash, t, n), numElm = Cardinality(UsedIn(t, n)), numElm < n,
         NEW k \in Keys, NEW v \in Vals, hash' = hash, InsertInto(t, k, v)
  PROVE  /\ TableInv'
         /\ \/ HasIn(t, n, k) /\ Elements' = Pairs(t, n) /\ result' = FALSE
            \/ ~HasIn(t, n, k) /\ Elements' = Pairs(t, n) \cup {<<k, v>>} /\ result' = TRUE
<1> DEFINE p == GetItemOrFree_(hash, t, k)
<1>1. n \in Nat /\ DOMAIN t = 0..n - 1
  BY SizesAre DEF Kept, Table
<1>2. CASE HasIn(t, n, k)
  <2>1. Replaces(hash, t, n, k, v, p, [t EXCEPT ![p] = <<k, v>>])
    BY <1>2, ReplaceDoes
  <2> HIDE DEF p
  <2>2. p # NoPlace /\ IsUsed(t[p])
    BY <2>1 DEF Replaces
  <2>3. items' = t /\ sizeArray' = n /\ numElm' = numElm /\ result' = FALSE
    BY <1>1, <2>2, Interval DEF InsertInto, p, Returns
  <2> QED  BY <1>2, <2>3 DEF TableInv, Elements
<1>3. CASE ~HasIn(t, n, k)
  <2>1. Stores(hash, t, n, k, v, p, [t EXCEPT ![p] = <<k, v>>])
    BY <1>3, StoreDoes
  <2> HIDE DEF p
  <2>2. ~IsUsed(t[p])
    BY <2>1 DEF Stores
  <2>3. Store(t, p, k, v)
    BY <2>2 DEF InsertInto, p
  <2> QED  BY <1>3, <2>3, StoreActs DEF p
<1> QED  BY <1>2, <1>3

\* The table that Resize makes, for an insertion that finds the table full.
LEMMA ResizedHas ==
  ASSUME TableInv, Grown(sizeArray) <= MaxSize
  PROVE  \E t, n : /\ t = Resized /\ Kept(hash, t, n)
                   /\ numElm = Cardinality(UsedIn(t, n)) /\ numElm < n
                   /\ Pairs(t, n) = Elements
                   /\ \A k : HasIn(t, n, k) <=> Has(k)
<1> DEFINE n == Grown(sizeArray)
<1>1. Kept(hash, items, sizeArray) /\ numElm = Cardinality(UsedIn(items, sizeArray))
  BY DEF TableInv
<1>2. Kept(hash, Resized, n) /\ Pairs(Resized, n) = Pairs(items, sizeArray)
  BY <1>1, ResizedKeeps
<1>3. n \in Nat /\ sizeArray \in Nat /\ sizeArray < n
  BY <1>1, Grows DEF Kept
<1> HIDE DEF n
<1>4. numElm = Cardinality(UsedIn(Resized, n))
  BY <1>1, <1>2, RoomFor
<1>5. numElm < n
  <2>1. numElm \in 0..sizeArray
    BY <1>1, RoomFor
  <2> QED  BY <1>3, <2>1
<1>6. ASSUME NEW k PROVE HasIn(Resized, n, k) <=> Has(k)
  BY <1>2, Known DEF Has
<1> QED  BY <1>2, <1>4, <1>5, <1>6 DEF Elements

LEMMA InsertActs ==
  ASSUME Inv, NEW k \in Keys, NEW v \in Vals, Insert(k, v)
  PROVE  TableInv' /\ Inserted(k, v)
<1>1. hash' = hash /\ TableInv
  BY DEF Insert, Inv
<1>2. Kept(hash, items, sizeArray) /\ numElm = Cardinality(UsedIn(items, sizeArray))
  BY <1>1 DEF TableInv
<1>3. sizeArray \in Nat /\ numElm \in 0..sizeArray
  BY <1>2, RoomFor
<1>4. CASE ~Full /\ InsertInto(items, k, v)
  <2>1. numElm < sizeArray /\ Room
    BY <1>3, <1>4 DEF Full, Room
  <2>2. PICK t, n : t = items /\ n = sizeArray
    OBVIOUS
  <2>3. /\ Kept(hash, t, n) /\ numElm = Cardinality(UsedIn(t, n)) /\ numElm < n
        /\ InsertInto(t, k, v) /\ Pairs(t, n) = Elements /\ (HasIn(t, n, k) <=> Has(k))
    BY <1>2, <1>4, <2>1, <2>2 DEF Elements, Has
  <2> QED  BY <1>1, <2>1, <2>3, IntoActs DEF Inserted
<1>5. CASE Full /\ toResize /\ Grown(sizeArray) <= MaxSize /\ InsertInto(Resized, k, v)
  <2>1. Room
    BY <1>5 DEF Room
  <2>2. PICK t, n : /\ t = Resized /\ Kept(hash, t, n)
                    /\ numElm = Cardinality(UsedIn(t, n)) /\ numElm < n
                    /\ Pairs(t, n) = Elements
                    /\ \A l : HasIn(t, n, l) <=> Has(l)
    BY <1>1, <1>5, ResizedHas
  <2>3. InsertInto(t, k, v)
    BY <1>5, <2>2
  <2> QED  BY <1>1, <2>1, <2>2, <2>3, IntoActs DEF Inserted
<1>6. CASE Full /\ ~toResize /\ Returns(FALSE) /\ UNCHANGED tableVars
  <2>1. ~Room
    BY <1>3, <1>6 DEF Full, Room
  <2>2. items' = items /\ sizeArray' = sizeArray /\ numElm' = numElm /\ result' = FALSE
    BY <1>6 DEF tableVars, Returns
  <2>3. Elements' = Elements /\ TableInv'
    BY <1>1, <1>2, <2>2 DEF Elements, TableInv
  <2> QED  BY <2>1, <2>2, <2>3 DEF Inserted
<1> QED  BY <1>4, <1>5, <1>6 DEF Insert

Upserted(k, v) ==
  \/ /\ Has(k) /\ result' = TRUE
     /\ \E e \in Elements : e[1] = k /\ Elements' = (Elements \ {e}) \cup {<<k, v>>}
  \/ ~Has(k) /\ Room /\ Elements' = Elements \cup {<<k, v>>} /\ result' = TRUE
  \/ ~Has(k) /\ ~Room /\ Elements' = Elements /\ result' = FALSE

LEMMA UpsertActs ==
  ASSUME Inv, NEW k \in Keys, NEW v \in Vals, Upsert(k, v)
  PROVE  TableInv' /\ Upserted(k, v)
<1> DEFINE p == GetItemOrFree_(hash, items, k)
           there == p # NoPlace /\ IsUsed(items[p])
<1>1. hash' = hash /\ TableInv
  BY DEF Upsert, Inv
<1>2. Kept(hash, items, sizeArray) /\ numElm = Cardinality(UsedIn(items, sizeArray))
  BY <1>1 DEF TableInv
<1>3. sizeArray \in Nat /\ numElm \in 0..sizeArray
  BY <1>2, RoomFor
<1>4. \/ there /\ Replace(p, k, v)
      \/ ~there /\ ~Full /\ Store(items, p, k, v)
      \/ /\ ~there /\ Full /\ toResize /\ Grown(sizeArray) <= MaxSize
         /\ Store(Resized, GetItemOrFree_(hash, Resized, k), k, v)
      \/ ~there /\ Full /\ ~toResize /\ Returns(FALSE) /\ UNCHANGED tableVars
  BY DEF Upsert
<1>5. there <=> Has(k)
  <2>1. CASE Has(k)
    <3>1. Replaces(hash, items, sizeArray, k, v, p, [items EXCEPT ![p] = <<k, v>>])
      BY <1>2, <2>1, ReplaceDoes DEF Has
    <3> HIDE DEF p
    <3> QED  BY <2>1, <3>1 DEF Replaces
  <2>2. CASE ~Has(k) /\ numElm < sizeArray
    <3>1. Stores(hash, items, sizeArray, k, v, p, [items EXCEPT ![p] = <<k, v>>])
      BY <1>2, <2>2, StoreDoes DEF Has
    <3> HIDE DEF p
    <3> QED  BY <2>2, <3>1 DEF Stores
  <2>3. CASE ~Has(k) /\ ~(numElm < sizeArray)
    <3>1. Without(items, sizeArray, k) /\ \A q \in 0..sizeArray - 1 : IsUsed(items[q])
      BY <1>2, <2>3, Known, RoomFor DEF Has
    <3>2. p = NoPlace
      BY <1>2, <3>1, FreeNone
    <3> QED  BY <2>3, <3>2
  <2> QED  BY <2>1, <2>2, <2>3
<1>6. CASE there /\ Replace(p, k, v)
  <2> DEFINE u == [items EXCEPT ![p] = <<k, v>>]
  <2>1. Replaces(hash, items, sizeArray, k, v, p, u) /\ Has(k)
    BY <1>2, <1>5, <1>6, ReplaceDoes DEF Has
  <2> HIDE DEF p
  <2>2. items' = u /\ sizeArray' = sizeArray /\ numElm' = numElm /\ result' = TRUE
    BY <1>6 DEF Replace, Returns
  <2> HIDE DEF u
  <2>3. /\ Kept(hash, u, sizeArray)
        /\ Cardinality(UsedIn(u, sizeArray)) = Cardinality(UsedIn(items, sizeArray))
        /\ Pairs(u, sizeArray) = (Elements \ {items[p]}) \cup {<<k, v>>}
    BY <2>1 DEF Replaces, Elements
  <2>4. items[p] \in Elements /\ items[p][1] = k
    BY <2>1 DEF Replaces, Elements, Pairs, UsedIn
  <2>5. TableInv'
    BY <1>1, <1>2, <2>2, <2>3 DEF TableInv
  <2>6. Elements' = (Elements \ {items[p]}) \cup {<<k, v>>}
    BY <2>2, <2>3 DEF Elements
  <2> QED  BY <2>1, <2>2, <2>4, <2>5, <2>6 DEF Upserted
<1>7. CASE ~there /\ ~Full /\ Store(items, p, k, v)
  <2>1. numElm < sizeArray /\ Room /\ ~Has(k)
    BY <1>3, <1>5, <1>7 DEF Full, Room
  <2>2. PICK t, n : t = items /\ n = sizeArray
    OBVIOUS
  <2>3. /\ Kept(hash, t, n) /\ numElm = Cardinality(UsedIn(t, n)) /\ numElm < n
        /\ Store(t, GetItemOrFree_(hash, t, k), k, v)
        /\ Pairs(t, n) = Elements /\ ~HasIn(t, n, k)
    BY <1>2, <1>7, <2>1, <2>2 DEF Elements, Has
  <2> QED  BY <1>1, <2>1, <2>3, StoreActs DEF Upserted
<1>8. CASE /\ ~there /\ Full /\ toResize /\ Grown(sizeArray) <= MaxSize
           /\ Store(Resized, GetItemOrFree_(hash, Resized, k), k, v)
  <2>1. Room /\ ~Has(k)
    BY <1>5, <1>8 DEF Room
  <2>2. PICK t, n : /\ t = Resized /\ Kept(hash, t, n)
                    /\ numElm = Cardinality(UsedIn(t, n)) /\ numElm < n
                    /\ Pairs(t, n) = Elements
                    /\ \A l : HasIn(t, n, l) <=> Has(l)
    BY <1>1, <1>8, ResizedHas
  <2>3. Store(t, GetItemOrFree_(hash, t, k), k, v)
    BY <1>8, <2>2
  <2> QED  BY <1>1, <2>1, <2>2, <2>3, StoreActs DEF Upserted
<1>9. CASE ~there /\ Full /\ ~toResize /\ Returns(FALSE) /\ UNCHANGED tableVars
  <2>1. ~Room /\ ~Has(k)
    BY <1>3, <1>5, <1>9 DEF Full, Room
  <2>2. items' = items /\ sizeArray' = sizeArray /\ numElm' = numElm /\ result' = FALSE
    BY <1>9 DEF tableVars, Returns
  <2>3. Elements' = Elements /\ TableInv'
    BY <1>1, <1>2, <2>2 DEF Elements, TableInv
  <2> QED  BY <2>1, <2>2, <2>3 DEF Upserted
<1> HIDE DEF there, p
<1> QED  BY <1>4, <1>6, <1>7, <1>8, <1>9

ErasedKey(k) ==
  \/ Has(k) /\ result' = TRUE /\ \E e \in Elements : e[1] = k /\ Elements' = Elements \ {e}
  \/ ~Has(k) /\ result' = FALSE /\ Elements' = Elements

\* An item that is used now was there before.
Fewer ==
  /\ sizeArray' = sizeArray
  /\ \A q \in 0..sizeArray - 1 : IsUsed(items'[q]) => IsUsed(items[q]) /\ items'[q] = items[q]

LEMMA EraseActs ==
  ASSUME Inv, NEW k \in Keys, Erase(k)
  PROVE  TableInv' /\ ErasedKey(k) /\ Fewer
<1> DEFINE p == GetItemOrNull_(hash, items, k)
           u == [items EXCEPT ![p] = Erased]
<1>1. hash' = hash /\ sizeArray' = sizeArray /\ TableInv
  BY DEF Erase, Inv
<1>2. Kept(hash, items, sizeArray) /\ numElm = Cardinality(UsedIn(items, sizeArray))
  BY <1>1 DEF TableInv
<1>3. \/ p # NoPlace /\ EraseItem(p) /\ numElm' = numElm - 1 /\ Returns(TRUE)
      \/ p = NoPlace /\ Returns(FALSE) /\ UNCHANGED <<items, numElm>>
  BY DEF Erase
<1>4. CASE Has(k)
  <2>1. Removes(hash, items, sizeArray, k, p, u)
    BY <1>2, <1>4, EraseDoes DEF Has
  <2> HIDE DEF p
  <2>2. /\ p \in 0..sizeArray - 1 /\ p # NoPlace /\ items[p] \in Elements /\ items[p][1] = k
        /\ Kept(hash, u, sizeArray) /\ Pairs(u, sizeArray) = Elements \ {items[p]}
        /\ Cardinality(UsedIn(u, sizeArray)) = numElm - 1
    BY <1>2, <2>1 DEF Removes, Elements, Pairs, UsedIn
  <2>3. items' = u /\ numElm' = numElm - 1 /\ result' = TRUE
    BY <1>3, <2>2 DEF EraseItem, Returns
  <2>4. Fewer
    <3>1. items \in Table(sizeArray)
      BY <1>2 DEF Kept
    <3>2. Differs(items, sizeArray, p, Erased, u)
      BY <2>2, <3>1, Assigned, Zenon
    <3> HIDE DEF u
    <3> QED  BY <1>1, <2>3, <3>2, Items DEF Fewer, Differs
  <2> HIDE DEF u
  <2>5. TableInv' /\ Elements' = Elements \ {items[p]}
    BY <1>1, <2>2, <2>3 DEF TableInv, Elements
  <2> QED  BY <1>4, <2>2, <2>3, <2>4, <2>5 DEF ErasedKey
<1>5. CASE ~Has(k)
  <2>1. p = NoPlace
    BY <1>2, <1>5, NullNowhere DEF Has, HasIn
  <2>2. items' = items /\ numElm' = numElm /\ result' = FALSE
    BY <1>3, <2>1 DEF Returns
  <2>3. TableInv' /\ Elements' = Elements /\ Fewer
    BY <1>1, <1>2, <2>2 DEF TableInv, Elements, Fewer
  <2> QED  BY <1>5, <2>2, <2>3 DEF ErasedKey
<1> QED  BY <1>4, <1>5

Got(k) ==
  \/ Has(k) /\ \E e \in Elements : e[1] = k /\ result' = e[2]
  \/ ~Has(k) /\ result' = NoVal

LEMMA GetActs ==
  ASSUME Inv, NEW k \in Keys, Get(k)
  PROVE  Got(k)
<1> DEFINE p == GetItemOrNull_(hash, items, k)
<1>1. Kept(hash, items, sizeArray)
  BY DEF Inv, TableInv
<1>2. result' = IF p = NoPlace THEN NoVal ELSE items[p][2]
  BY DEF Get, Returns
<1>3. CASE Has(k)
  <2>1. PICK q \in 0..sizeArray - 1 : HasKey(items[q], k)
    BY <1>3 DEF Has, HasIn
  <2>2. p = q /\ q # NoPlace
    BY <1>1, <2>1, NullFound, NotNoPlace DEF Kept
  <2>3. items[q] \in Elements /\ items[q][1] = k
    BY <2>1 DEF Elements, Pairs, UsedIn, HasKey
  <2> HIDE DEF p
  <2> QED  BY <1>2, <1>3, <2>2, <2>3 DEF Got
<1>4. CASE ~Has(k)
  <2>1. p = NoPlace
    BY <1>1, <1>4, NullNowhere DEF Has, HasIn
  <2> QED  BY <1>2, <1>4, <2>1 DEF Got
<1> QED  BY <1>3, <1>4

\* A copy of a full table is the same table.
LEMMA CopyActs ==
  ASSUME Inv, CopiedWhenFull
  PROVE  TableInv' /\ items' = items /\ sizeArray' = sizeArray
<1>1. /\ numElm = sizeArray /\ sizeArray' = sizeArray /\ hash' = hash /\ numElm' = numElm
      /\ items' = [p \in 0..sizeArray - 1 |-> IF p < numElm THEN items[p] ELSE Blank]
  BY DEF CopiedWhenFull, Copy, Full
<1>2. Kept(hash, items, sizeArray) /\ numElm = Cardinality(UsedIn(items, sizeArray))
  BY DEF Inv, TableInv
<1>3. sizeArray \in Nat /\ items = [p \in 0..sizeArray - 1 |-> items[p]]
  BY <1>2, RoomFor DEF Kept, Table
<1>4. \A p \in 0..sizeArray - 1 : p < numElm
  BY <1>1, <1>3
<1>5. items' = items
  BY <1>1, <1>3, <1>4
<1> QED  BY <1>1, <1>2, <1>5 DEF TableInv

(* The iterator.                                                           *)

LEMMA GoToActs ==
  ASSUME Inv, NEW p \in 0..sizeArray, NEW seen \in SUBSET Keys,
         \A q \in Used : items[q][1] \in seen <=> q < p,
         GoTo(p, seen)
  PROVE  Inv'
<1> DEFINE ends == UsedFrom(p) \cup {sizeArray}
<1>1. /\ hash' = hash /\ toResize' = toResize /\ result' = result
      /\ items' = items /\ sizeArray' = sizeArray /\ numElm' = numElm
  BY DEF GoTo, tableVars
<1>2. Kept(hash, items, sizeArray) /\ sizeArray \in Nat
  BY SizesAre DEF Inv, TableInv, Kept
<1>3. items \in Table(sizeArray) /\ OncePerKey(items, sizeArray)
  BY <1>2 DEF Kept
<1>4. ends \in SUBSET Nat /\ ends # {}
  BY <1>2 DEF UsedFrom
<1> HIDE DEF ends
<1>5. pos' \in ends /\ \A x \in ends : pos' <= x
  <2>1. pos' = Min(ends)
    BY DEF GoTo, ends
  <2>2. \E m \in ends : \A x \in ends : m <= x
    BY <1>4, LeastOf
  <2> QED  BY <2>1, <2>2 DEF Min
<1>6. pos' \in p..sizeArray /\ \A q \in UsedFrom(p) : pos' <= q
  BY <1>2, <1>5 DEF ends, UsedFrom
<1>7. met' = seen \cup {items[q][1] : q \in UsedFrom(p) \cap {pos'}}
  BY DEF GoTo
<1>8. met' \subseteq Keys
  <2>1. \A q \in UsedFrom(p) : items[q][1] \in Keys
    BY <1>2, <1>3, Items DEF UsedFrom, Table
  <2> QED  BY <1>7, <2>1
<1>9. ASSUME NEW q \in Used PROVE items[q][1] \in met' <=> q <= pos'
  <2>1. q \in 0..sizeArray - 1 /\ IsUsed(items[q])
    BY DEF Used
  <2>2. CASE q < p
    BY <1>2, <1>6, <1>7, <2>1, <2>2
  <2>3. CASE ~(q < p)
    <3>1. q \in UsedFrom(p) /\ pos' <= q /\ items[q][1] \notin seen
      BY <1>2, <1>6, <2>1, <2>3 DEF UsedFrom
    <3>2. CASE q = pos'
      BY <1>2, <1>7, <2>1, <3>1, <3>2
    <3>3. CASE q # pos'
      <4>1. ~(q <= pos')
        BY <1>2, <1>6, <2>1, <3>1, <3>3
      <4>2. ASSUME NEW r \in UsedFrom(p), r = pos' PROVE items[r][1] # items[q][1]
        BY <1>3, <2>1, <3>3, <4>2 DEF OncePerKey, UsedFrom
      <4> QED  BY <1>7, <3>1, <4>1, <4>2
    <3> QED  BY <3>2, <3>3
  <2> QED  BY <2>2, <2>3
<1>10. MetSoFar'
  <2>1. Used' = Used
    BY <1>1 DEF Used
  <2> QED  BY <1>1, <1>9, <2>1 DEF MetSoFar
<1>11. pos' \in NoPlace..sizeArray
  BY <1>2, <1>6 DEF NoPlace
<1> QED  BY <1>1, <1>8, <1>10, <1>11 DEF Inv, TableInv

LEMMA IteratorStarts ==
  ASSUME Inv, Begin
  PROVE  Inv'
<1>1. sizeArray \in Nat /\ GoTo(0, {})
  BY SizesAre DEF Inv, TableInv, Kept, Begin
<1>2. \A q \in Used : items[q][1] \in {} <=> q < 0
  BY <1>1 DEF Used
<1>3. 0 \in 0..sizeArray /\ {} \in SUBSET Keys
  BY <1>1
<1> QED  BY <1>1, <1>2, <1>3, GoToActs

LEMMA IteratorGoesOn ==
  ASSUME Inv, IterNext
  PROVE  Inv'
<1>1. sizeArray \in Nat /\ pos \in 0..sizeArray - 1 /\ GoTo(pos + 1, met) /\ met \in SUBSET Keys
  BY SizesAre DEF Inv, TableInv, Kept, IterNext
<1>2. \A q \in Used : items[q][1] \in met <=> q < pos + 1
  <2>1. pos # NoPlace
    BY <1>1 DEF NoPlace
  <2>2. \A q \in Used : q \in Int /\ (items[q][1] \in met <=> q <= pos)
    BY <1>1, <2>1 DEF Inv, MetSoFar, Used
  <2> QED  BY <1>1, <2>2
<1>3. pos + 1 \in 0..sizeArray
  BY <1>1
<1> QED  BY <1>1, <1>2, <1>3, GoToActs

-----------------------------------------------------------------------------
(* Every step keeps the invariant.                                         *)

LEMMA InvInit == Init => Inv
<1> SUFFICES ASSUME Init PROVE Inv
  OBVIOUS
<1>1. /\ hash \in [Keys -> Hashes] /\ toResize \in BOOLEAN /\ result = NoVal
      /\ sizeArray \in {n \in InitSizes : LegalSize(n)} /\ items = BlankItems(sizeArray)
      /\ numElm = 0 /\ pos = NoPlace /\ met = {}
  BY DEF Init
<1>2. sizeArray \in Sizes /\ sizeArray \in Nat
  BY <1>1, SizesAre DEF GrowsWithin
<1>3. hash \in Hasher
  BY <1>1, HashmapAssumption DEF Hasher
<1>4. Kept(hash, items, sizeArray)
  BY <1>1, <1>2, <1>3, BlankKept
<1>5. UsedIn(items, sizeArray) = {}
  BY <1>1, Items DEF UsedIn, BlankItems
<1>6. numElm = Cardinality(UsedIn(items, sizeArray))
  BY <1>1, <1>5, FS_EmptySet
<1>7. pos \in NoPlace..sizeArray
  BY <1>1, <1>2 DEF NoPlace
<1> QED  BY <1>1, <1>4, <1>6, <1>7 DEF Inv, TableInv, MetSoFar

LEMMA Ended ==
  ASSUME Inv, TableInv', hash' = hash, toResize' \in BOOLEAN,
         result' \in BOOLEAN \cup Vals \cup {NoVal}, EndIteration
  PROVE  Inv'
<1>1. sizeArray' \in Nat
  BY SizesAre DEF TableInv, Kept
<1>2. pos' = NoPlace /\ met' = {} /\ pos' \in NoPlace..sizeArray'
  BY <1>1 DEF EndIteration, NoPlace
<1> QED  BY <1>2 DEF Inv, MetSoFar

LEMMA InvNext == Inv /\ [Next]_vars => Inv'
<1> SUFFICES ASSUME Inv, [Next]_vars PROVE Inv'
  OBVIOUS
<1>1. ASSUME NEW k \in Keys, NEW v \in Vals, Insert(k, v) PROVE Inv'
  <2>1. TableInv' /\ Inserted(k, v)
    BY <1>1, InsertActs
  <2>2. hash' = hash /\ toResize' = toResize /\ EndIteration /\ result' \in BOOLEAN
    BY <1>1, <2>1 DEF Insert, Inserted
  <2> QED  BY <2>1, <2>2, Ended DEF Inv
<1>2. ASSUME NEW k \in Keys, NEW v \in Vals, Upsert(k, v) PROVE Inv'
  <2>1. TableInv' /\ Upserted(k, v)
    BY <1>2, UpsertActs
  <2>2. hash' = hash /\ toResize' = toResize /\ EndIteration
    BY <1>2 DEF Upsert
  <2>3. result' \in BOOLEAN
    BY <2>1 DEF Upserted
  <2> QED  BY <2>1, <2>2, <2>3, Ended DEF Inv
<1>3. ASSUME NEW k \in Keys, Erase(k) PROVE Inv'
  <2>1. TableInv' /\ ErasedKey(k) /\ Fewer
    BY <1>3, EraseActs
  <2>2. hash' = hash /\ toResize' = toResize /\ pos' = pos /\ met' = met
        /\ sizeArray' = sizeArray
    BY <1>3 DEF Erase, iterVars
  <2>3. result' \in BOOLEAN
    BY <2>1 DEF ErasedKey
  <2>4. \A q \in Used' : q \in Used /\ items'[q] = items[q]
    BY <2>1 DEF Fewer, Used
  <2>5. MetSoFar'
    BY <2>2, <2>4 DEF Inv, MetSoFar
  <2> QED  BY <2>1, <2>2, <2>3, <2>5 DEF Inv
<1>4. ASSUME NEW k \in Keys, Get(k) PROVE Inv'
  <2>1. UNCHANGED <<hash, toResize, tableVars, iterVars>> /\ Got(k)
    BY <1>4, GetActs DEF Get
  <2>2. result' \in Vals \cup {NoVal}
    <3>1. \A e \in Elements : e[2] \in Vals
      <4>1. items \in Table(sizeArray)
        BY DEF Inv, TableInv, Kept
      <4> QED  BY <4>1, Items DEF Elements, Pairs, UsedIn, Table
    <3> QED  BY <2>1, <3>1 DEF Got
  <2> QED  BY <2>1, <2>2 DEF tableVars, iterVars, Inv, TableInv, MetSoFar, Used
<1>5. CASE CopiedWhenFull
  <2>1. TableInv'
    BY <1>5, CopyActs
  <2> QED  BY <1>5, <2>1, Ended DEF CopiedWhenFull, Copy, Inv
<1>6. CASE Begin
  BY <1>6, IteratorStarts
<1>7. CASE IterNext
  BY <1>7, IteratorGoesOn
<1>8. CASE Forget
  <2>1. UNCHANGED <<hash, toResize, tableVars, result>> /\ EndIteration
    BY <1>8 DEF Forget
  <2>2. TableInv'
    BY <2>1 DEF Inv, TableInv, tableVars
  <2> QED  BY <2>1, <2>2, Ended DEF Inv
<1>9. CASE UNCHANGED vars
  BY <1>9 DEF vars, tableVars, iterVars, Inv, TableInv, MetSoFar, Used
<1> QED  BY <1>1, <1>2, <1>3, <1>4, <1>5, <1>6, <1>7, <1>8, <1>9 DEF Next

LEMMA InvWellFormed == Inv => WellFormed
<1> SUFFICES ASSUME Inv PROVE WellFormed
  OBVIOUS
<1>1. Kept(hash, items, sizeArray) /\ numElm = Cardinality(UsedIn(items, sizeArray))
  BY DEF Inv, TableInv
<1>2. TypeOK
  <2>1. sizeArray \in 1..MaxSize /\ items \in Table(sizeArray)
    BY <1>1, SizesAre DEF Kept
  <2>2. numElm \in 0..sizeArray
    BY <1>1, RoomFor
  <2> QED  BY <2>1, <2>2 DEF Inv, TypeOK, Table
<1>3. Findable
  <2> SUFFICES ASSUME NEW p \in Used PROVE GetItemOrNull_(hash, items, items[p][1]) = p
    BY DEF Findable
  <2>1. p \in 0..sizeArray - 1 /\ IsUsed(items[p])
    BY DEF Used
  <2>2. items[p][1] \in Keys
    BY <1>1, <2>1, Items DEF Kept, Table
  <2>3. HasKey(items[p], items[p][1])
    BY <2>1 DEF HasKey
  <2> QED  BY <1>1, <2>1, <2>2, <2>3, NullFound
<1>4. Counted
  BY <1>1 DEF Counted, Used, UsedIn
<1> QED  BY <1>2, <1>3, <1>4 DEF Inv, WellFormed

LEMMA InvAlways == Spec => []Inv
<1>1. Init => Inv
  BY InvInit
<1>2. Inv /\ [Next]_vars => Inv'
  BY InvNext
<1> QED  BY <1>1, <1>2, PTL DEF Spec

\* A search for a key ends at its item, whatever was erased on the way or moved by Resize;
\* num_elm_ counts the items; no operation writes through NULL; the iterator comes to
\* every element once, also when elements are erased on the way.
THEOREM WellFormedAlways == Spec => []WellFormed
<1>1. Inv => WellFormed
  BY InvWellFormed
<1> QED  BY <1>1, InvAlways, PTL

-----------------------------------------------------------------------------
(* The table is a map: its elements, as a function of their keys.          *)

\* No two elements of E have the same key.
Functional(E) == \A e, f \in E : e[1] = f[1] => e = f

\* The map m says what E says.
Says(m, E) ==
  /\ m = [k \in DOMAIN m |-> m[k]]
  /\ DOMAIN m = {e[1] : e \in E}
  /\ \A e \in E : m[e[1]] = e[2]

LEMMA SaysOne ==
  ASSUME NEW m, NEW n, NEW E, Says(m, E), Says(n, E)
  PROVE  m = n
<1>1. DOMAIN m = DOMAIN n /\ \A k \in DOMAIN m : m[k] = n[k]
  BY DEF Says
<1> QED  BY <1>1 DEF Says

LEMMA ElementsAre ==
  ASSUME Inv
  PROVE  /\ Functional(Elements) /\ Says(Contents, Elements)
         /\ \A k : Has(k) <=> k \in DOMAIN Contents
         /\ Room <=> (toResize \/ Cardinality(Used) < sizeArray)
<1>1. /\ items \in Table(sizeArray) /\ OncePerKey(items, sizeArray)
      /\ numElm = Cardinality(UsedIn(items, sizeArray))
  BY DEF Inv, TableInv, Kept
<1>2. Functional(Elements)
  BY <1>1 DEF Functional, Elements, Pairs, OncePerKey, UsedIn
<1>3. DOMAIN Contents = {e[1] : e \in Elements}
  BY DEF Contents, Elements, Pairs, Used, UsedIn
<1>4. ASSUME NEW e \in Elements PROVE Contents[e[1]] = e[2]
  <2>1. e \in Range(items) /\ HasKey(e, e[1])
    BY <1>1 DEF Elements, Pairs, UsedIn, HasKey, Range, Table
  <2>2. \A item \in Range(items) : HasKey(item, e[1]) => item = e
    <3> SUFFICES ASSUME NEW item \in Range(items), HasKey(item, e[1]) PROVE item = e
      OBVIOUS
    <3>1. item \in Elements
      BY <1>1 DEF Range, Table, Elements, Pairs, UsedIn, HasKey
    <3> QED  BY <1>2, <3>1 DEF Functional, HasKey
  <2>3. (CHOOSE item \in Range(items) : HasKey(item, e[1])) = e
    BY <2>1, <2>2
  <2>4. e[1] \in DOMAIN Contents
    BY <1>3
  <2> QED  BY <2>3, <2>4 DEF Contents
<1>5. Contents = [k \in DOMAIN Contents |-> Contents[k]]
  BY DEF Contents
<1>6. \A k : Has(k) <=> k \in DOMAIN Contents
  BY <1>3, Known DEF Has, Elements
<1>7. Room <=> (toResize \/ Cardinality(Used) < sizeArray)
  BY <1>1 DEF Room, Used, UsedIn
<1> QED  BY <1>2, <1>3, <1>4, <1>5, <1>6, <1>7 DEF Says

WithKey(E, k) == {e \in E : e[1] = k}
PutIn(m, k, v) == [l \in DOMAIN m \cup {k} |-> IF l = k THEN v ELSE m[l]]
Without1(m, k) == [l \in DOMAIN m \ {k} |-> m[l]]

LEMMA SaysPut ==
  ASSUME NEW m, NEW E, Says(m, E), NEW k, NEW v
  PROVE  Says(PutIn(m, k, v), (E \ WithKey(E, k)) \cup {<<k, v>>})
<1> DEFINE n == PutIn(m, k, v)
           F == (E \ WithKey(E, k)) \cup {<<k, v>>}
<1>1. DOMAIN m = {e[1] : e \in E} /\ \A e \in E : m[e[1]] = e[2]
  BY DEF Says
<1>2. DOMAIN n = {e[1] : e \in F}
  <2>1. DOMAIN n = DOMAIN m \cup {k}
    BY DEF PutIn
  <2>2. \A e \in F : e[1] \in DOMAIN m \cup {k}
    BY <1>1
  <2>3. <<k, v>> \in F /\ <<k, v>>[1] = k
    OBVIOUS
  <2>4. ASSUME NEW l \in DOMAIN m, l # k PROVE \E e \in F : e[1] = l
    BY <1>1, <2>4 DEF WithKey
  <2> HIDE DEF n, F
  <2>5. ASSUME NEW l \in DOMAIN m \cup {k} PROVE \E e \in F : e[1] = l
    BY <2>3, <2>4
  <2> QED  BY <2>1, <2>2, <2>5
<1>3. ASSUME NEW e \in F PROVE n[e[1]] = e[2]
  <2>1. CASE e = <<k, v>>
    BY <2>1 DEF PutIn
  <2>2. CASE e # <<k, v>>
    <3>1. e \in E /\ e[1] # k /\ e[1] \in DOMAIN m
      BY <1>1, <2>2 DEF WithKey
    <3> QED  BY <1>1, <3>1 DEF PutIn
  <2> QED  BY <2>1, <2>2
<1>4. n = [l \in DOMAIN n |-> n[l]]
  BY DEF PutIn
<1> HIDE DEF n, F
<1>5. Says(n, F)
  BY <1>2, <1>3, <1>4 DEF Says
<1> QED  BY <1>5 DEF n, F

LEMMA SaysLess ==
  ASSUME NEW m, NEW E, Says(m, E), NEW k
  PROVE  Says(Without1(m, k), E \ WithKey(E, k))
<1>1. DOMAIN m = {e[1] : e \in E} /\ \A e \in E : m[e[1]] = e[2]
  BY DEF Says
<1>2. DOMAIN Without1(m, k) = {e[1] : e \in E \ WithKey(E, k)}
  BY <1>1 DEF Without1, WithKey
<1>3. \A e \in E \ WithKey(E, k) : Without1(m, k)[e[1]] = e[2]
  BY <1>1 DEF Without1, WithKey
<1>4. Without1(m, k) = [l \in DOMAIN Without1(m, k) |-> Without1(m, k)[l]]
  BY DEF Without1
<1> QED  BY <1>2, <1>3, <1>4 DEF Says

LEMMA OneWithKey ==
  ASSUME NEW E, Functional(E), NEW k
  PROVE  /\ \A e \in E : e[1] = k => WithKey(E, k) = {e}
         /\ (\A e \in E : e[1] # k) => WithKey(E, k) = {}
BY DEF Functional, WithKey

ContentsAre == Functional(Elements) /\ Says(Contents, Elements)

LEMMA ContentsShape == Inv => ContentsAre
BY ElementsAre DEF ContentsAre

\* In the state after a step too.
LEMMA ContentsNext == Inv' => ContentsAre'
BY ContentsShape, PTL

LEMMA SameContents ==
  ASSUME Inv, Inv', Elements' = Elements
  PROVE  Contents' = Contents
<1>1. Says(Contents, Elements) /\ Says(Contents', Elements')
  BY ContentsShape, ContentsNext DEF ContentsAre
<1> QED  BY <1>1, SaysOne

LEMMA PutContents ==
  ASSUME Inv, Inv', NEW k, NEW v,
         Elements' = (Elements \ WithKey(Elements, k)) \cup {<<k, v>>}
  PROVE  Contents' = Map!Put(k, v)
<1>1. Says(Contents, Elements) /\ Says(Contents', Elements')
  BY ContentsShape, ContentsNext DEF ContentsAre
<1>2. Says(PutIn(Contents, k, v), Elements')
  BY <1>1, SaysPut
<1>3. Contents' = PutIn(Contents, k, v)
  BY <1>1, <1>2, SaysOne
<1> QED  BY <1>3 DEF PutIn, Map!Put

LEMMA LessContents ==
  ASSUME Inv, Inv', NEW k, Elements' = Elements \ WithKey(Elements, k)
  PROVE  Contents' = Map!Restrict(Contents, DOMAIN Contents \ {k})
<1>1. Says(Contents, Elements) /\ Says(Contents', Elements')
  BY ContentsShape, ContentsNext DEF ContentsAre
<1>2. Says(Without1(Contents, k), Elements')
  BY <1>1, SaysLess
<1>3. Contents' = Without1(Contents, k)
  BY <1>1, <1>2, SaysOne
<1> QED  BY <1>3 DEF Without1, Map!Restrict

LEMMA MapInit == Init => Map!Init
<1> SUFFICES ASSUME Init PROVE Map!Init
  OBVIOUS
<1>1. items = BlankItems(sizeArray) /\ result = NoVal
  BY DEF Init
<1>2. Used = {}
  BY <1>1, Items DEF Used, BlankItems
<1>3. DOMAIN Contents = {}
  BY <1>2 DEF Contents
<1> QED  BY <1>1, <1>3 DEF Map!Init

LEMMA MapInsert ==
  ASSUME Inv, Inv', NEW k \in Keys, NEW v \in Vals, Insert(k, v)
  PROVE  Map!Insert(k, v)
<1>1. Inserted(k, v)
  BY InsertActs
<1>2. /\ Functional(Elements) /\ (Has(k) <=> k \in DOMAIN Contents)
      /\ Room <=> (toResize \/ Cardinality(Used) < sizeArray)
  BY ElementsAre
<1>3. CASE ~Has(k) /\ Room /\ Elements' = Elements \cup {<<k, v>>} /\ result' = TRUE
  <2>1. WithKey(Elements, k) = {}
    BY <1>3, Known DEF WithKey, Has, Elements
  <2>2. Contents' = Map!Put(k, v)
    BY <1>3, <2>1, PutContents
  <2> QED  BY <1>2, <1>3, <2>2 DEF Map!Insert
<1>4. CASE (Has(k) \/ ~Room) /\ Elements' = Elements /\ result' = FALSE
  <2>1. Contents' = Contents
    BY <1>4, SameContents
  <2> QED  BY <1>2, <1>4, <2>1 DEF Map!Insert
<1> QED  BY <1>1, <1>3, <1>4 DEF Inserted

LEMMA MapUpsert ==
  ASSUME Inv, Inv', NEW k \in Keys, NEW v \in Vals, Upsert(k, v)
  PROVE  Map!Upsert(k, v)
<1>1. Upserted(k, v)
  BY UpsertActs
<1>2. /\ Functional(Elements) /\ (Has(k) <=> k \in DOMAIN Contents)
      /\ Room <=> (toResize \/ Cardinality(Used) < sizeArray)
  BY ElementsAre
<1>3. CASE /\ Has(k) /\ result' = TRUE
           /\ \E e \in Elements : e[1] = k /\ Elements' = (Elements \ {e}) \cup {<<k, v>>}
  <2>1. PICK e \in Elements : e[1] = k /\ Elements' = (Elements \ {e}) \cup {<<k, v>>}
    BY <1>3
  <2>2. WithKey(Elements, k) = {e}
    BY <1>2, <2>1, OneWithKey
  <2>3. Contents' = Map!Put(k, v)
    BY <2>1, <2>2, PutContents
  <2> QED  BY <1>2, <1>3, <2>3 DEF Map!Upsert
<1>4. CASE ~Has(k) /\ Room /\ Elements' = Elements \cup {<<k, v>>} /\ result' = TRUE
  <2>1. WithKey(Elements, k) = {}
    BY <1>4, Known DEF WithKey, Has, Elements
  <2>2. Contents' = Map!Put(k, v)
    BY <1>4, <2>1, PutContents
  <2> QED  BY <1>2, <1>4, <2>2 DEF Map!Upsert
<1>5. CASE ~Has(k) /\ ~Room /\ Elements' = Elements /\ result' = FALSE
  <2>1. Contents' = Contents
    BY <1>5, SameContents
  <2> QED  BY <1>2, <1>5, <2>1 DEF Map!Upsert
<1> QED  BY <1>1, <1>3, <1>4, <1>5 DEF Upserted

LEMMA MapErase ==
  ASSUME Inv, Inv', NEW k \in Keys, Erase(k)
  PROVE  Map!Erase(k)
<1>1. ErasedKey(k)
  BY EraseActs
<1>2. /\ Functional(Elements) /\ Says(Contents, Elements)
      /\ Has(k) <=> k \in DOMAIN Contents
  BY ElementsAre
<1>3. CASE /\ Has(k) /\ result' = TRUE
           /\ \E e \in Elements : e[1] = k /\ Elements' = Elements \ {e}
  <2>1. PICK e \in Elements : e[1] = k /\ Elements' = Elements \ {e}
    BY <1>3
  <2>2. WithKey(Elements, k) = {e}
    BY <1>2, <2>1, OneWithKey
  <2>3. Contents' = Map!Restrict(Contents, DOMAIN Contents \ {k})
    BY <2>1, <2>2, LessContents
  <2> QED  BY <1>2, <1>3, <2>3 DEF Map!Erase
<1>4. CASE ~Has(k) /\ result' = FALSE /\ Elements' = Elements
  <2>1. WithKey(Elements, k) = {}
    BY <1>4, Known DEF WithKey, Has, Elements
  <2>2. Elements' = Elements \ WithKey(Elements, k)
    BY <1>4, <2>1
  <2>3. Contents' = Map!Restrict(Contents, DOMAIN Contents \ {k})
    BY <2>2, LessContents
  <2>4. k \notin DOMAIN Contents
    BY <1>2, <1>4
  <2>5. (k \in DOMAIN Contents) = FALSE
    BY <2>4, SMT
  <2>6. result' = FALSE
    BY <1>4
  <2>7. result' = (k \in DOMAIN Contents)
    BY <2>5, <2>6, Zenon
  <2> QED  BY <2>3, <2>7 DEF Map!Erase
<1> QED  BY <1>1, <1>3, <1>4 DEF ErasedKey

LEMMA MapGet ==
  ASSUME Inv, Inv', NEW k \in Keys, Get(k)
  PROVE  Map!Get(k)
<1>1. Got(k)
  BY GetActs
<1>2. Says(Contents, Elements) /\ (Has(k) <=> k \in DOMAIN Contents)
  BY ElementsAre
<1>3. items' = items /\ sizeArray' = sizeArray
  BY DEF Get, tableVars
<1>4. Contents' = Contents
  <2>1. Elements' = Elements
    BY <1>3 DEF Elements
  <2> QED  BY <2>1, SameContents
<1>5. result' = IF k \in DOMAIN Contents THEN Contents[k] ELSE NoVal
  BY <1>1, <1>2 DEF Got, Says
<1> QED  BY <1>4, <1>5 DEF Map!Get

LEMMA MapNext == Inv /\ Inv' /\ [Next]_vars => [Map!Next]_<<Contents, result>>
<1> SUFFICES ASSUME Inv, Inv', [Next]_vars PROVE [Map!Next]_<<Contents, result>>
  OBVIOUS
<1>1. ASSUME NEW k \in Keys, NEW v \in Vals, Insert(k, v) PROVE Map!Next
  BY <1>1, MapInsert DEF Map!Next
<1>2. ASSUME NEW k \in Keys, NEW v \in Vals, Upsert(k, v) PROVE Map!Next
  BY <1>2, MapUpsert DEF Map!Next
<1>3. ASSUME NEW k \in Keys, Erase(k) PROVE Map!Next
  BY <1>3, MapErase DEF Map!Next
<1>4. ASSUME NEW k \in Keys, Get(k) PROVE Map!Next
  BY <1>4, MapGet DEF Map!Next
<1>5. ASSUME items' = items, sizeArray' = sizeArray, result' = result
      PROVE  UNCHANGED <<Contents, result>>
  <2>1. Elements' = Elements
    BY <1>5 DEF Elements
  <2> QED  BY <1>5, <2>1, SameContents
<1>6. CASE CopiedWhenFull
  <2>1. items' = items /\ sizeArray' = sizeArray
    BY <1>6, CopyActs
  <2> QED  BY <1>5, <1>6, <2>1 DEF CopiedWhenFull, Copy
<1>7. CASE Begin \/ IterNext \/ Forget \/ UNCHANGED vars
  <2>1. items' = items /\ sizeArray' = sizeArray /\ result' = result
    BY <1>7 DEF Begin, IterNext, GoTo, Forget, vars, tableVars
  <2> QED  BY <1>5, <2>1
<1> QED  BY <1>1, <1>2, <1>3, <1>4, <1>6, <1>7 DEF Next

\* The table does what a map does: an operation finds the value that was put last, and an
\* insertion is refused just when the key is there or there is no room and will be none.
THEOREM TableImplementsMap == Spec => ImplementsMap
<1>1. Init => Map!Init
  BY MapInit
<1>2. Inv /\ Inv' /\ [Next]_vars => [Map!Next]_<<Contents, result>>
  BY MapNext
<1> QED  BY <1>1, <1>2, InvAlways, PTL DEF Spec, ImplementsMap, Map!Spec
=============================================================================
