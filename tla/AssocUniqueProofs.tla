-------------------------- MODULE AssocUniqueProofs --------------------------
(***************************************************************************)
(* Theorems on the open-addressing array, for any hash function, any       *)
(* elements, any number of buckets and any table of sizes.                 *)
(***************************************************************************)
EXTENDS AssocUnique, FiniteSetTheorems, FunctionTheorems, WellFoundedInduction, TLAPS

(* The numbers of buckets and of positions exist.                          *)
LEMMA LeastNatural ==
  ASSUME NEW S \in SUBSET Nat, S # {}
  PROVE  \E x \in S : \A y \in S : x <= y
<1> DEFINE R == OpToRel(<, Nat)
<1>1. \E x \in S : \A y \in S : ~(<<y, x>> \in R)
  BY NatLessThanWellFounded, WFMin
<1>2. \A x, y \in Nat : <<y, x>> \in R <=> y < x
  BY DEF OpToRel
<1> HIDE DEF R
<1>3. PICK x \in S : \A y \in S : ~(<<y, x>> \in R)
  BY <1>1
<1>4. ASSUME NEW y \in S PROVE x <= y
  <2>1. x \in Nat /\ y \in Nat
    OBVIOUS
  <2>2. ~(y < x)
    BY <1>2, <1>3, <2>1
  <2> QED
    BY <2>1, <2>2
<1> QED
  BY <1>4

LEMMA GreatestNatural ==
  ASSUME NEW S \in SUBSET Nat, S # {}, NEW n \in Nat, \A x \in S : x <= n
  PROVE  \E x \in S : \A y \in S : y <= x
<1> DEFINE D == {n - x : x \in S}
<1>0. \A x \in S : x \in Nat /\ n - x \in Nat
  OBVIOUS
<1>1. D \in SUBSET Nat /\ D # {}
  BY <1>0
<1>2. PICK d \in D : \A e \in D : d <= e
  <2> HIDE DEF D
  <2> QED
    BY <1>1, LeastNatural
<1>3. PICK x \in S : d = n - x
  OBVIOUS
<1>4. ASSUME NEW y \in S PROVE y <= x
  <2>1. n - x <= n - y
    BY <1>2, <1>3
  <2> QED
    BY <2>1
<1> QED
  BY <1>4

LEMMA BucketsExist ==
  /\ NrBuckets \in Nat \ {0}
  /\ \A k \in Key : BucketOf(k) \in BucketId
<1>1. AskedBuckets \in Nat /\ Hash \in [Key -> Nat]
  BY AssocAssumption
<1>2. Powers \in SUBSET (Nat \ {0}) /\ Powers # {} /\ \A n \in Powers : n <= AskedBuckets + 1
  BY <1>1 DEF Powers
<1>3. \E n \in Powers : \A m \in Powers : m <= n
  <2> DEFINE a == AskedBuckets + 1
  <2>1. a \in Nat /\ Powers \in SUBSET Nat /\ \A n \in Powers : n <= a
    BY <1>1, <1>2
  <2> HIDE DEF a
  <2> QED
    BY <1>2, <2>1, GreatestNatural
<1>4. NrBuckets \in Powers
  BY <1>3 DEF NrBuckets
<1>5. NrBuckets \in Nat \ {0}
  BY <1>2, <1>4
<1>6. \A a \in Nat, n \in Nat \ {0} : a % n \in 0 .. n - 1
  OBVIOUS
<1>7. \A k \in Key : BucketOf(k) \in BucketId
  BY <1>1, <1>5, <1>6 DEF BucketOf, BucketId
<1> QED
  BY <1>5, <1>7

LEMMA NearPrimeGrows ==
  ASSUME NEW v \in Nat
  PROVE  NearPrime(v) \in Nat /\ v <= NearPrime(v)
<1> DEFINE P == {p \in Sizes : p >= v}
           Least(p) == p \in Sizes /\ p >= v /\ \A q \in Sizes : q >= v => p <= q
<1>1. Sizes \subseteq Nat
  BY AssocAssumption
<1>2. CASE P = {}
  BY <1>2 DEF NearPrime
<1>3. CASE P # {}
  <2>1. \E p \in Sizes : Least(p)
    <3>1. P \in SUBSET Nat
      BY <1>1
    <3>2. \E p \in P : \A q \in P : p <= q
      <4> HIDE DEF P
      <4> QED BY <1>3, <3>1, LeastNatural
    <3> QED
      BY <3>2
  <2>2. NearPrime(v) = CHOOSE p \in Sizes : p >= v /\ \A q \in Sizes : q >= v => p <= q
    BY <1>3 DEF NearPrime
  <2>3. NearPrime(v) \in Sizes /\ NearPrime(v) >= v
    BY <2>1, <2>2
  <2> QED
    BY <1>1, <2>3
<1> QED
  BY <1>2, <1>3

-----------------------------------------------------------------------------
(* One array.  From the position of its hash to an element there is no gap *)
(* outside H; a key is there once; the elements belong to bucket b.        *)
Arrays(n)   == [0 .. n - 1 -> Element \cup {Empty}]
Filled(T)   == {i \in DOMAIN T : T[i] # Empty}
Path(n, k, i) == {j \in 0 .. n - 1 : Dist(n, Home(k, n), j) < Dist(n, Home(k, n), i)}
NoGap(T, n, H) == \A i \in Filled(T) : \A j \in Path(n, T[i].key, i) \ H : T[j] # Empty
OnceOnly(T) == \A i, j \in Filled(T) : T[i].key = T[j].key => i = j
Local(T, b) == \A i \in Filled(T) : BucketOf(T[i].key) = b

LEMMA ElementFacts ==
  ASSUME NEW e \in Element
  PROVE  e # Empty /\ e.key \in Key /\ e.value \in Value /\ e.value # NoValue
<1>1. e # Empty /\ e \in [key : Key, value : Value] /\ NoValue \notin Value
  BY AssocAssumption
<1> QED
  BY <1>1

LEMMA HomeIs ==
  ASSUME NEW n \in Nat \ {0}, NEW k \in Key
  PROVE  Home(k, n) \in 0 .. n - 1
<1>1. Hash[k] \in Nat
  BY AssocAssumption
<1>2. \A a \in Nat : a % n \in 0 .. n - 1
  OBVIOUS
<1> QED
  BY <1>1, <1>2 DEF Home

LEMMA DistIs ==
  ASSUME NEW n \in Nat \ {0}, NEW h \in 0 .. n - 1, NEW i \in 0 .. n - 1
  PROVE  /\ Dist(n, h, i) \in 0 .. n - 1
         /\ Dist(n, h, i) = 0 <=> i = h
         /\ \A j \in 0 .. n - 1 : Dist(n, h, i) = Dist(n, h, j) => i = j
BY DEF Dist

LEMMA FilledFacts ==
  ASSUME NEW n \in Nat, NEW T \in Arrays(n)
  PROVE  /\ DOMAIN T = 0 .. n - 1
         /\ Filled(T) \subseteq 0 .. n - 1
         /\ \A i \in 0 .. n - 1 : i \in Filled(T) <=> T[i] # Empty
         /\ \A i \in Filled(T) : T[i] \in Element /\ T[i].key \in Key
<1>1. DOMAIN T = 0 .. n - 1 /\ \A i \in 0 .. n - 1 : T[i] \in Element \cup {Empty}
  BY DEF Arrays
<1> QED
  BY <1>1, ElementFacts DEF Filled

(* Where a search stops.                                                   *)
LEMMA StopFacts ==
  ASSUME NEW n \in Nat \ {0}, NEW T \in Arrays(n), NEW h \in 0 .. n - 1,
         NEW M \in SUBSET (0 .. n - 1), NEW i, StopsAt(T, n, h, M, i),
         NEW free \in 0 .. n - 1, T[free] = Empty
  PROVE  /\ i \in 0 .. n - 1
         /\ T[i] = Empty \/ i \in M
         /\ \A j \in 0 .. n - 1 : Dist(n, h, j) < Dist(n, h, i) => T[j] # Empty /\ j \notin M
<1>1. DOMAIN T = 0 .. n - 1
  BY FilledFacts
<1>2. /\ free \in Stops(T, M) /\ Stops(T, M) \subseteq 0 .. n - 1
      /\ \A j \in 0 .. n - 1 : j \in Stops(T, M) <=> T[j] = Empty \/ j \in M
  BY <1>1 DEF Stops
<1>3. i \in Stops(T, M) /\ \A j \in Stops(T, M) : Dist(n, h, i) <= Dist(n, h, j)
  BY <1>2 DEF StopsAt
<1>4. \A j \in 0 .. n - 1 : Dist(n, h, j) \in 0 .. n - 1
  BY DistIs
<1>5. ASSUME NEW j \in 0 .. n - 1, Dist(n, h, j) < Dist(n, h, i) PROVE j \notin Stops(T, M)
  <2>1. Dist(n, h, i) \in 0 .. n - 1 /\ Dist(n, h, j) \in 0 .. n - 1
    BY <1>2, <1>3, <1>4
  <2> QED
    BY <1>3, <1>5, <2>1
<1> QED
  BY <1>2, <1>3, <1>5

LEMMA KeyStop ==
  ASSUME NEW n \in Nat \ {0}, NEW T \in Arrays(n), NoGap(T, n, {}),
         NEW free \in 0 .. n - 1, T[free] = Empty,
         NEW k \in Key, NEW i, StopsAt(T, n, Home(k, n), SameKey(T, k), i)
  PROVE  /\ i \in 0 .. n - 1
         /\ T[i] # Empty => T[i].key = k
         /\ T[i] = Empty => \A j \in Filled(T) : T[j].key # k
         /\ \A j \in Path(n, k, i) : T[j] # Empty
<1> DEFINE h == Home(k, n)
<1>1. h \in 0 .. n - 1
  BY HomeIs
<1>2. SameKey(T, k) \in SUBSET (0 .. n - 1)
  BY FilledFacts DEF SameKey
<1>3. /\ i \in 0 .. n - 1
      /\ T[i] = Empty \/ i \in SameKey(T, k)
      /\ \A j \in 0 .. n - 1 : Dist(n, h, j) < Dist(n, h, i)
                                => T[j] # Empty /\ j \notin SameKey(T, k)
  <2> DEFINE M == SameKey(T, k)
  <2>1. StopsAt(T, n, h, M, i) /\ M \in SUBSET (0 .. n - 1)
    BY <1>2
  <2> HIDE DEF h, M
  <2>2. /\ i \in 0 .. n - 1
        /\ T[i] = Empty \/ i \in M
        /\ \A j \in 0 .. n - 1 : Dist(n, h, j) < Dist(n, h, i) => T[j] # Empty /\ j \notin M
    BY <1>1, <2>1, StopFacts
  <2> QED
    BY <2>2 DEF M
<1>4. ASSUME T[i] = Empty, NEW j \in Filled(T), T[j].key = k PROVE FALSE
  <2>1. j \in 0 .. n - 1 /\ T[j] # Empty /\ j \in SameKey(T, k) /\ i # j
    BY <1>4, FilledFacts DEF SameKey
  <2>2. Dist(n, h, i) # Dist(n, h, j) /\ Dist(n, h, i) \in 0 .. n - 1 /\ Dist(n, h, j) \in 0 .. n - 1
    BY <1>1, <1>3, <2>1, DistIs
  <2>3. ~(Dist(n, h, j) < Dist(n, h, i))
    BY <1>3, <2>1
  <2>4. Dist(n, h, i) < Dist(n, h, j)
    BY <2>2, <2>3
  <2>5. i \in Path(n, T[j].key, j)
    <3>1. h = Home(T[j].key, n) /\ i \in 0 .. n - 1
      BY <1>3, <1>4
    <3> HIDE DEF h
    <3> QED
      BY <2>4, <3>1 DEF Path
  <2> QED
    BY <1>4, <2>5 DEF NoGap
<1>5. T[i] # Empty => T[i].key = k
  BY <1>3 DEF SameKey
<1> QED
  BY <1>3, <1>4, <1>5 DEF Path

LEMMA ElementStop ==
  ASSUME NEW n \in Nat \ {0}, NEW T \in Arrays(n), NoGap(T, n, {}),
         NEW free \in 0 .. n - 1, T[free] = Empty,
         NEW e \in Element, NEW i, StopsAt(T, n, Home(e.key, n), SameElement(T, e), i)
  PROVE  /\ i \in 0 .. n - 1
         /\ T[i] # Empty => T[i] = e
         /\ T[i] = Empty => \A j \in Filled(T) : T[j] # e
<1> DEFINE h == Home(e.key, n)
<1>1. h \in 0 .. n - 1
  BY HomeIs, ElementFacts
<1>2. SameElement(T, e) \in SUBSET (0 .. n - 1)
  BY FilledFacts DEF SameElement
<1>3. /\ i \in 0 .. n - 1
      /\ T[i] = Empty \/ i \in SameElement(T, e)
      /\ \A j \in 0 .. n - 1 : Dist(n, h, j) < Dist(n, h, i)
                                => T[j] # Empty /\ j \notin SameElement(T, e)
  <2> DEFINE M == SameElement(T, e)
  <2>1. StopsAt(T, n, h, M, i) /\ M \in SUBSET (0 .. n - 1)
    BY <1>2
  <2> HIDE DEF h, M
  <2>2. /\ i \in 0 .. n - 1
        /\ T[i] = Empty \/ i \in M
        /\ \A j \in 0 .. n - 1 : Dist(n, h, j) < Dist(n, h, i) => T[j] # Empty /\ j \notin M
    BY <1>1, <2>1, StopFacts
  <2> QED
    BY <2>2 DEF M
<1>4. ASSUME T[i] = Empty, NEW j \in Filled(T), T[j] = e PROVE FALSE
  <2>1. j \in 0 .. n - 1 /\ T[j] # Empty /\ j \in SameElement(T, e) /\ i # j
    BY <1>4, FilledFacts DEF SameElement
  <2>2. Dist(n, h, i) # Dist(n, h, j) /\ Dist(n, h, i) \in 0 .. n - 1 /\ Dist(n, h, j) \in 0 .. n - 1
    BY <1>1, <1>3, <2>1, DistIs
  <2>3. ~(Dist(n, h, j) < Dist(n, h, i))
    BY <1>3, <2>1
  <2>4. Dist(n, h, i) < Dist(n, h, j)
    BY <2>2, <2>3
  <2>5. i \in Path(n, T[j].key, j)
    <3>1. h = Home(T[j].key, n) /\ i \in 0 .. n - 1
      BY <1>3, <1>4
    <3> HIDE DEF h
    <3> QED
      BY <2>4, <3>1 DEF Path
  <2> QED
    BY <1>4, <2>5 DEF NoGap
<1>5. T[i] # Empty => T[i] = e
  BY <1>3 DEF SameElement
<1> QED
  BY <1>3, <1>4, <1>5

Gap(i) == {i}

(* A sound array: the one of bucket b, of n positions.                     *)
Sound(T, n, H, b) == /\ T \in Arrays(n) /\ NoGap(T, n, H)
                     /\ OnceOnly(T) /\ Local(T, b)

PutAt(T, i, e)  == [T EXCEPT ![i] = e]

MayMove(T, n, i, k) == Fills(i, Home(T[k].key, n), k)

Moved(T, i, k)  == [T EXCEPT ![i] = T[k], ![k] = Empty]

LEMMA PutFacts ==
  ASSUME NEW n \in Nat \ {0}, NEW T, NEW b, Sound(T, n, {}, b),
         NEW i \in 0 .. n - 1, T[i] = Empty,
         NEW e \in Element, BucketOf(e.key) = b,
         \A j \in Filled(T) : T[j].key # e.key,
         \A j \in Path(n, e.key, i) : T[j] # Empty,
         NEW t, t = PutAt(T, i, e)
  PROVE  /\ Sound(t, n, {}, b)
         /\ i \notin Filled(T) /\ Filled(t) = Filled(T) \cup {i}
         /\ t[i] = e /\ \A j \in Filled(T) : t[j] = T[j]
<1>1. /\ T \in Arrays(n) /\ t \in Arrays(n) /\ e # Empty
      /\ t[i] = e /\ \A j \in 0 .. n - 1 : j # i => t[j] = T[j]
  BY ElementFacts DEF Sound, Arrays, PutAt
<1>2. i \notin Filled(T) /\ Filled(t) = Filled(T) \cup {i} /\ \A j \in Filled(T) : t[j] = T[j]
  BY <1>1, FilledFacts
<1>3. \A j \in 0 .. n - 1 : T[j] # Empty => t[j] # Empty
  BY <1>1
<1>4. \A j \in Filled(T) : \A k : Path(n, k, j) \subseteq 0 .. n - 1
  BY DEF Path
<1>5. NoGap(t, n, {})
  <2> SUFFICES ASSUME NEW j \in Filled(t), NEW x \in Path(n, t[j].key, j) PROVE t[x] # Empty
    BY DEF NoGap, Gap
  <2>1. x \in 0 .. n - 1
    BY DEF Path
  <2>2. CASE j = i
    BY <1>1, <1>3, <2>1, <2>2
  <2>3. CASE j # i
    BY <1>1, <1>2, <1>3, <2>1, <2>3 DEF Sound, NoGap, Gap
  <2> QED
    BY <2>2, <2>3
<1>6. OnceOnly(t)
  BY <1>1, <1>2 DEF Sound, OnceOnly
<1>7. Local(t, b)
  BY <1>1, <1>2 DEF Sound, Local
<1> QED
  BY <1>1, <1>2, <1>5, <1>6, <1>7 DEF Sound

LEMMA TakeFacts ==
  ASSUME NEW n \in Nat \ {0}, NEW T, NEW b, Sound(T, n, {}, b),
         NEW i \in Filled(T), NEW t, t = PutAt(T, i, Empty)
  PROVE  /\ Sound(t, n, Gap(i), b) /\ t[i] = Empty
         /\ Filled(t) = Filled(T) \ {i} /\ \A j \in Filled(t) : t[j] = T[j]
<1>1. /\ T \in Arrays(n) /\ t \in Arrays(n) /\ i \in 0 .. n - 1
      /\ t[i] = Empty /\ \A j \in 0 .. n - 1 : j # i => t[j] = T[j]
  BY FilledFacts DEF Sound, Arrays, PutAt
<1>2. Filled(t) = Filled(T) \ {i} /\ \A j \in Filled(t) : t[j] = T[j] /\ j \in Filled(T)
  BY <1>1, FilledFacts
<1>3. NoGap(t, n, Gap(i))
  <2> SUFFICES ASSUME NEW j \in Filled(t), NEW x \in Path(n, t[j].key, j) \ {i} PROVE t[x] # Empty
    BY DEF NoGap, Gap
  <2>1. x \in 0 .. n - 1 /\ x # i
    BY DEF Path
  <2> QED
    BY <1>1, <1>2, <2>1 DEF Sound, NoGap, Gap
<1>4. OnceOnly(t) /\ Local(t, b)
  BY <1>2 DEF Sound, OnceOnly, Local
<1> QED
  BY <1>1, <1>2, <1>3, <1>4 DEF Sound

LEMMA FillsIs ==
  ASSUME NEW n \in Nat \ {0}, NEW i \in 0 .. n - 1, NEW j \in 0 .. n - 1, NEW k \in 0 .. n - 1,
         i # k
  PROVE  Fills(i, j, k) <=> Dist(n, j, i) < Dist(n, j, k)
BY DEF Fills, Dist

LEMMA MoveFacts ==
  ASSUME NEW n \in Nat \ {0}, NEW T, NEW b, NEW i \in 0 .. n - 1, Sound(T, n, Gap(i), b),
         T[i] = Empty, NEW k \in Filled(T), MayMove(T, n, i, k),
         NEW t, t = Moved(T, i, k)
  PROVE  /\ Sound(t, n, Gap(k), b) /\ t[k] = Empty /\ t[i] = T[k]
         /\ Filled(t) = (Filled(T) \ {k}) \cup {i}
         /\ \A j \in Filled(T) \ {k} : t[j] = T[j]
<1> DEFINE e == T[k]
           h == Home(e.key, n)
<1>1. /\ T \in Arrays(n) /\ k \in 0 .. n - 1 /\ k # i /\ T[k] # Empty
      /\ e \in Element /\ e.key \in Key
  BY FilledFacts DEF Sound
<1>2. /\ t \in Arrays(n) /\ t[k] = Empty /\ t[i] = e
      /\ \A j \in 0 .. n - 1 : j # i /\ j # k => t[j] = T[j]
  BY <1>1 DEF Arrays, Moved
<1>3. /\ Filled(t) = (Filled(T) \ {k}) \cup {i} /\ i \notin Filled(T)
      /\ \A j \in Filled(T) \ {k} : t[j] = T[j]
  BY <1>1, <1>2, FilledFacts
<1>4. h \in 0 .. n - 1 /\ Dist(n, h, i) < Dist(n, h, k)
  <2>1. h \in 0 .. n - 1 /\ Fills(i, h, k)
    BY <1>1, HomeIs DEF MayMove
  <2> HIDE DEF h
  <2> QED
    BY <1>1, <2>1, FillsIs
<1>5. Dist(n, h, i) \in Nat /\ Dist(n, h, k) \in Nat /\ \A j \in 0 .. n - 1 : Dist(n, h, j) \in Nat
  <2> HIDE DEF h
  <2>1. \A j \in 0 .. n - 1 : Dist(n, h, j) \in 0 .. n - 1
    BY <1>4, DistIs
  <2>2. \A j \in 0 .. n - 1 : Dist(n, h, j) \in Nat
    BY <2>1
  <2> QED
    BY <1>1, <2>2
<1>6. Path(n, e.key, i) \subseteq Path(n, e.key, k) \ {i, k}
  <2> SUFFICES ASSUME NEW x \in Path(n, e.key, i) PROVE x \in Path(n, e.key, k) \ {i, k}
    OBVIOUS
  <2>1. x \in 0 .. n - 1 /\ Dist(n, h, x) < Dist(n, h, i)
    BY DEF Path
  <2>2. Dist(n, h, x) < Dist(n, h, k) /\ x # i /\ x # k
    BY <1>4, <1>5, <2>1
  <2> QED
    BY <2>1, <2>2 DEF Path
<1>7. NoGap(t, n, Gap(k))
  <2> SUFFICES ASSUME NEW j \in Filled(t), NEW x \in Path(n, t[j].key, j) \ {k} PROVE t[x] # Empty
    BY DEF NoGap, Gap
  <2>1. x \in 0 .. n - 1 /\ x # k
    BY DEF Path
  <2>2. CASE x = i
    BY <1>1, <1>2, <2>2
  <2>3. CASE x # i /\ j = i
    <3>1. x \in Path(n, T[k].key, k) \ {i}
      BY <1>2, <1>6, <2>3
    <3>2. T[x] # Empty
      BY <3>1 DEF Sound, NoGap, Gap
    <3> QED
      BY <1>2, <2>1, <2>3, <3>2
  <2>4. CASE x # i /\ j # i
    <3>1. j \in Filled(T) /\ t[j] = T[j]
      BY <1>3, <2>4
    <3>2. T[x] # Empty
      BY <2>4, <3>1 DEF Sound, NoGap, Gap
    <3> QED
      BY <1>2, <2>1, <2>4, <3>2
  <2> QED
    BY <2>2, <2>3, <2>4
<1>8. OnceOnly(t) /\ Local(t, b)
  <2>1. \A j \in Filled(t) : t[j] = IF j = i THEN T[k] ELSE T[j]
    BY <1>2, <1>3
  <2> QED
    BY <1>3, <2>1 DEF Sound, OnceOnly, Local
<1> QED
  BY <1>2, <1>3, <1>7, <1>8 DEF Sound

(* What healHole has gone through: between the hole at i and the position  *)
(* k every position is used, by an element whose search does not come by   *)
(* the hole.                                                               *)
Between(n, i, k) == {m \in 0 .. n - 1 : m # i /\ (k = i \/ Dist(n, i, m) < Dist(n, i, k))}
Walked(T, n, i, k) == \A m \in Between(n, i, k) : T[m] # Empty /\ i \notin Path(n, T[m].key, m)

LEMMA IncIs ==
  ASSUME NEW n \in Nat, n > 1, NEW i \in 0 .. n - 1, NEW k \in 0 .. n - 1
  PROVE  /\ IncMod(k, n) \in 0 .. n - 1
         /\ Between(n, i, IncMod(i, n)) = {}
         /\ k # i => Between(n, i, IncMod(k, n)) = Between(n, i, k) \cup {k}
<1>1. IncMod(k, n) \in 0 .. n - 1 /\ IncMod(i, n) \in 0 .. n - 1
  BY DEF IncMod
<1>2. \A m \in 0 .. n - 1 : m # i => ~(Dist(n, i, m) < Dist(n, i, IncMod(i, n)))
  BY DEF Dist, IncMod
<1>3. IncMod(i, n) # i
  BY DEF IncMod
<1>4. ASSUME k # i, NEW m \in 0 .. n - 1, m # i
      PROVE  (IncMod(k, n) = i \/ Dist(n, i, m) < Dist(n, i, IncMod(k, n)))
               <=> (Dist(n, i, m) < Dist(n, i, k) \/ m = k)
  BY <1>4 DEF Dist, IncMod
<1> QED
  BY <1>1, <1>2, <1>3, <1>4 DEF Between

LEMMA SkipFacts ==
  ASSUME NEW n \in Nat, n > 1, NEW T \in Arrays(n), NEW i \in 0 .. n - 1, T[i] = Empty,
         NEW k \in Filled(T), Walked(T, n, i, k), ~MayMove(T, n, i, k)
  PROVE  Walked(T, n, i, IncMod(k, n))
<1>1. k \in 0 .. n - 1 /\ k # i /\ T[k] # Empty /\ Home(T[k].key, n) \in 0 .. n - 1
  BY FilledFacts, HomeIs
<1>2. i \notin Path(n, T[k].key, k)
  BY <1>1, FillsIs DEF Path, MayMove
<1> QED
  BY <1>1, <1>2, IncIs DEF Walked

LEMMA HealedFacts ==
  ASSUME NEW n \in Nat, n > 1, NEW T, NEW b, NEW i \in 0 .. n - 1, Sound(T, n, Gap(i), b),
         T[i] = Empty, NEW k \in 0 .. n - 1, T[k] = Empty, Walked(T, n, i, k)
  PROVE  Sound(T, n, {}, b)
<1>1. ASSUME NEW m \in Filled(T), i \in Path(n, T[m].key, m) PROVE FALSE
  <2> DEFINE h == Home(T[m].key, n)
  <2>1. /\ m \in 0 .. n - 1 /\ h \in 0 .. n - 1 /\ m # i /\ m # k
        /\ Dist(n, h, i) < Dist(n, h, m)
    BY <1>1, FilledFacts, HomeIs DEF Sound, Path
  <2>2. k # i /\ ~(Dist(n, i, m) < Dist(n, i, k))
    BY <1>1, <2>1 DEF Walked, Between
  <2>3. Dist(n, h, k) < Dist(n, h, m)
    <3> HIDE DEF h
    <3> QED
      BY <2>1, <2>2 DEF Dist
  <2>4. k \in Path(n, T[m].key, m) \ {i}
    BY <2>2, <2>3 DEF Path
  <2> QED
    BY <2>4 DEF Sound, NoGap, Gap
<1>2. NoGap(T, n, {})
  BY <1>1 DEF Sound, NoGap, Gap
<1> QED
  BY <1>2 DEF Sound

-----------------------------------------------------------------------------
(* Counting the elements of an array.                                      *)
LEMMA CountFacts ==
  ASSUME NEW n \in Nat, NEW T \in Arrays(n)
  PROVE  /\ IsFiniteSet(Filled(T)) /\ Cardinality(Filled(T)) \in Nat
         /\ Cardinality(Filled(T)) = 0 => Filled(T) = {}
         /\ Cardinality(Filled(T)) < n => \E i \in 0 .. n - 1 : T[i] = Empty
         /\ Cardinality(Filled(T)) + 1 < n =>
              \A i \in 0 .. n - 1 : \E j \in 0 .. n - 1 : j # i /\ T[j] = Empty
<1> DEFINE P == 0 .. n - 1
           F == Filled(T)
<1>1. IsFiniteSet(P) /\ Cardinality(P) = n
  BY FS_Interval
<1>2. F \subseteq P /\ \A i \in P : i \in F <=> T[i] # Empty
  BY FilledFacts
<1>3. IsFiniteSet(F) /\ Cardinality(F) \in Nat
  BY <1>1, <1>2, FS_Subset, FS_CardinalityType
<1>4. Cardinality(F) = 0 => F = {}
  BY <1>3, FS_EmptySet
<1>5. ASSUME Cardinality(F) < n PROVE \E i \in P : T[i] = Empty
  <2>1. F # P
    BY <1>1, <1>3, <1>5
  <2> QED
    BY <1>2, <2>1
<1>6. ASSUME Cardinality(F) + 1 < n, NEW i \in P PROVE \E j \in P : j # i /\ T[j] = Empty
  <2> DEFINE G == F \cup {i}
  <2>1. Cardinality(G) \in Nat /\ Cardinality(G) <= Cardinality(F) + 1
    BY <1>3, FS_AddElement
  <2>2. G # P
    <3>1. Cardinality(G) # Cardinality(P)
      BY <1>1, <1>3, <1>6, <2>1
    <3> HIDE DEF G, P
    <3> QED
      BY <3>1
  <2> QED
    BY <1>2, <2>2
<1> QED
  BY <1>3, <1>4, <1>5, <1>6

LEMMA AddOne ==
  ASSUME NEW S, IsFiniteSet(S), NEW x, x \notin S, NEW R \in {S \cup {x}}
  PROVE  Cardinality(R) = Cardinality(S) + 1 /\ Cardinality(S) \in Nat
BY FS_AddElement, FS_CardinalityType

LEMMA TakeOne ==
  ASSUME NEW S, IsFiniteSet(S), NEW x \in S, NEW R \in {S \ {x}}
  PROVE  Cardinality(R) = Cardinality(S) - 1 /\ Cardinality(S) \in Nat \ {0}
<1>1. Cardinality(S) \in Nat /\ Cardinality(S) # 0
  BY FS_CardinalityType, FS_EmptySet
<1> QED
  BY <1>1, FS_RemoveElement

LEMMA SwapOne ==
  ASSUME NEW S, IsFiniteSet(S), NEW x \in S, NEW y, y \notin S, NEW R \in {(S \ {x}) \cup {y}}
  PROVE  Cardinality(R) = Cardinality(S)
<1> DEFINE Q == S \ {x}
<1>1. IsFiniteSet(Q) /\ Cardinality(Q) = Cardinality(S) - 1 /\ Cardinality(S) \in Nat
  BY FS_RemoveElement, FS_CardinalityType
<1>2. Cardinality(R) = Cardinality(Q) + 1
  BY <1>1, FS_AddElement
<1> QED
  BY <1>1, <1>2

LEMMA NewTableFacts ==
  ASSUME NEW n \in Nat, NEW b
  PROVE  Sound(NewTable(n), n, {}, b) /\ Filled(NewTable(n)) = {}
<1>1. NewTable(n) \in Arrays(n) /\ \A i \in 0 .. n - 1 : NewTable(n)[i] = Empty
  BY DEF NewTable, Arrays
<1>2. Filled(NewTable(n)) = {}
  BY <1>1, FilledFacts
<1> QED
  BY <1>1, <1>2 DEF Sound, NoGap, OnceOnly, Local

LEMMA RewriteFacts ==
  ASSUME NEW n \in Nat \ {0}, NEW T, NEW b, Sound(T, n, {}, b),
         NEW i \in Filled(T), NEW e \in Element, T[i].key = e.key,
         NEW t, t = PutAt(T, i, e)
  PROVE  /\ Sound(t, n, {}, b)
         /\ Filled(t) = Filled(T) /\ t[i] = e /\ \A j \in Filled(T) \ {i} : t[j] = T[j]
<1>1. /\ T \in Arrays(n) /\ t \in Arrays(n) /\ i \in 0 .. n - 1 /\ e # Empty
      /\ t[i] = e /\ \A j \in 0 .. n - 1 : j # i => t[j] = T[j]
  BY FilledFacts, ElementFacts DEF Sound, Arrays, PutAt
<1>0. \A j \in 0 .. n - 1 : j \in Filled(t) <=> j \in Filled(T)
  BY <1>1, FilledFacts
<1>2. Filled(t) = Filled(T) /\ \A j \in Filled(T) : t[j].key = T[j].key
  BY <1>0, <1>1, FilledFacts
<1>3. NoGap(t, n, {})
  <2> SUFFICES ASSUME NEW j \in Filled(t), NEW x \in Path(n, t[j].key, j) PROVE t[x] # Empty
    BY DEF NoGap
  <2>1. x \in 0 .. n - 1
    BY DEF Path
  <2>2. T[x] # Empty
    BY <1>2 DEF Sound, NoGap
  <2> QED
    BY <1>1, <2>1, <2>2
<1>4. OnceOnly(t) /\ Local(t, b)
  BY <1>2 DEF Sound, OnceOnly, Local
<1> QED
  BY <1>1, <1>2, <1>3, <1>4, FilledFacts DEF Sound

-----------------------------------------------------------------------------
(* The buckets.  A bucket R that is good counts its elements and those     *)
(* that are left in an old array, and is at most two thirds full, but for  *)
(* the element of the insert that finds it so.                             *)
BucketSet == [alloc : Nat, used : Nat, table : UNION {Arrays(n) : n \in Nat}]
Buckets   == [BucketId -> BucketSet]

Good(R, b, H, left, slack) ==
  /\ R.alloc \in Nat /\ R.alloc > 3 /\ R.used \in Nat
  /\ Sound(R.table, R.alloc, H, b)
  /\ IsFiniteSet(left) /\ R.used = Cardinality(Filled(R.table)) + Cardinality(left)
  /\ 3 * R.used <= 2 * R.alloc + slack

Calm(b) == Good(bucket[b], b, {}, {}, 3)

Left(old, i) == {j \in Filled(old) : j >= i}

Growing ==
  /\ Good(bucket[loc.b], loc.b, {}, Left(loc.old, loc.i), 0)
  /\ \E m \in Nat : loc.old \in Arrays(m) /\ loc.i \in 0 .. m
  /\ OnceOnly(loc.old) /\ Local(loc.old, loc.b)
  /\ \A i \in Left(loc.old, loc.i), j \in Filled(bucket[loc.b].table) :
       loc.old[i].key # bucket[loc.b].table[j].key
  /\ loc.elem \in Element /\ BucketOf(loc.elem.key) = loc.b
  /\ walk = NoWalk

Healing ==
  /\ Good(bucket[loc.b], loc.b, Gap(loc.i), {}, 0)
  /\ {loc.i, loc.k} \subseteq 0 .. bucket[loc.b].alloc - 1
  /\ bucket[loc.b].table[loc.i] = Empty
  /\ Walked(bucket[loc.b].table, bucket[loc.b].alloc, loc.i, loc.k)

LocType == [b : BucketId, i : Nat, k : Nat, elem : Element \cup {Empty}, old : {loc.old}]

AnswerType == [op : {"init", "insert", "lookup", "remove", "removeThis", "iterate"},
               key : Key \cup {NoValue}, out : BOOLEAN \cup Value \cup {NoValue}]

AInv == /\ bucket \in Buckets /\ loc \in LocType /\ ret \in AnswerType
        /\ pc \in {"idle", "grow", "heal", "visit"}
        /\ \A b \in BucketId : pc \in {"idle", "visit"} \/ b # loc.b => Calm(b)
        /\ pc = "grow" => Growing
        /\ pc = "heal" => Healing

(* Only bucket b changes.                                                  *)
Becomes(b, n, u, T) ==
  /\ bucket' \in Buckets
  /\ bucket'[b].alloc = n /\ bucket'[b].used = u /\ bucket'[b].table = T
  /\ \A c \in BucketId \ {b} : bucket'[c] = bucket[c]

LEMMA ArrayPut ==
  ASSUME NEW n \in Nat, NEW T \in Arrays(n), NEW i, NEW e \in Element \cup {Empty}
  PROVE  PutAt(T, i, e) \in Arrays(n) /\ \A m \in Nat : Arrays(m) \subseteq UNION {Arrays(x) : x \in Nat}
BY DEF Arrays, PutAt

LEMMA OneBucket ==
  ASSUME bucket \in Buckets, NEW b \in BucketId, NEW n \in Nat, NEW u \in Nat, NEW T \in Arrays(n),
         \A c \in BucketId \ {b} : bucket'[c] = bucket[c],
         bucket'[b] = [alloc |-> n, used |-> u, table |-> T],
         bucket' = [c \in BucketId |-> bucket'[c]]
  PROVE  Becomes(b, n, u, T)
<1>1. bucket'[b] \in BucketSet
  BY DEF BucketSet
<1>2. \A c \in BucketId : bucket'[c] \in BucketSet
  BY <1>1 DEF Buckets
<1>3. bucket' \in Buckets
  BY <1>2 DEF Buckets
<1> QED
  BY <1>3 DEF Becomes

LEMMA TakeOutIs ==
  ASSUME bucket \in Buckets, NEW b \in BucketId, bucket[b].table \in Arrays(bucket[b].alloc),
         bucket[b].used > 0, NEW i, TakeOut(b, i)
  PROVE  /\ Becomes(b, bucket[b].alloc, bucket[b].used - 1, PutAt(bucket[b].table, i, Empty))
         /\ loc' = [NoLoc EXCEPT !.b = b, !.i = i, !.k = IncMod(i, bucket[b].alloc)]
         /\ pc' = "heal"
<1>1. bucket[b].alloc \in Nat /\ bucket[b].used - 1 \in Nat
  BY DEF Buckets, BucketSet
<1>2. PutAt(bucket[b].table, i, Empty) \in Arrays(bucket[b].alloc)
  BY <1>1, ArrayPut
<1>3. bucket' = [bucket EXCEPT ![b].table[i] = Empty, ![b].used = @ - 1]
  BY DEF TakeOut
<1>4. bucket'[b] = [alloc |-> bucket[b].alloc, used |-> bucket[b].used - 1,
                    table |-> PutAt(bucket[b].table, i, Empty)]
  BY <1>3 DEF PutAt, Buckets, BucketSet
<1>5. (\A c \in BucketId \ {b} : bucket'[c] = bucket[c]) /\ bucket' = [c \in BucketId |-> bucket'[c]]
  BY <1>3 DEF Buckets, BucketSet
<1>6. Becomes(b, bucket[b].alloc, bucket[b].used - 1, PutAt(bucket[b].table, i, Empty))
  BY <1>1, <1>2, <1>4, <1>5, OneBucket
<1> QED
  BY <1>6 DEF TakeOut

-----------------------------------------------------------------------------
(* What a good bucket has, and how its contents may change.                *)
LEMMA GoodFacts ==
  ASSUME NEW R, NEW b, NEW H, NEW left, NEW slack \in {0, 3}, Good(R, b, H, left, slack)
  PROVE  /\ R.alloc \in Nat \ {0} /\ R.alloc > 3 /\ R.used \in Nat
         /\ R.table \in Arrays(R.alloc) /\ DOMAIN R.table = 0 .. R.alloc - 1
         /\ Sound(R.table, R.alloc, H, b)
         /\ IsFiniteSet(Filled(R.table)) /\ Filled(R.table) \subseteq 0 .. R.alloc - 1
         /\ Cardinality(Filled(R.table)) \in Nat
         /\ \E i \in 0 .. R.alloc - 1 : R.table[i] = Empty
         /\ slack = 0 => \A i \in 0 .. R.alloc - 1 :
                           \E j \in 0 .. R.alloc - 1 : j # i /\ R.table[j] = Empty
<1>1. /\ R.alloc \in Nat /\ R.alloc > 3 /\ R.used \in Nat /\ R.table \in Arrays(R.alloc)
      /\ Sound(R.table, R.alloc, H, b)
      /\ R.used = Cardinality(Filled(R.table)) + Cardinality(left)
      /\ 3 * R.used <= 2 * R.alloc + slack
      /\ Cardinality(left) \in Nat
  BY FS_CardinalityType DEF Good, Sound
<1>2. Cardinality(Filled(R.table)) \in Nat /\ IsFiniteSet(Filled(R.table))
  BY <1>1, CountFacts
<1>3. /\ Cardinality(Filled(R.table)) < R.alloc
      /\ slack = 0 => Cardinality(Filled(R.table)) + 1 < R.alloc
  BY <1>1, <1>2
<1>4. /\ DOMAIN R.table = 0 .. R.alloc - 1 /\ Filled(R.table) \subseteq 0 .. R.alloc - 1
      /\ \E i \in 0 .. R.alloc - 1 : R.table[i] = Empty
      /\ slack = 0 => \A i \in 0 .. R.alloc - 1 :
                        \E j \in 0 .. R.alloc - 1 : j # i /\ R.table[j] = Empty
  <2> DEFINE n == R.alloc
             T == R.table
  <2>1. n \in Nat /\ T \in Arrays(n) /\ Cardinality(Filled(T)) < n
        /\ (slack = 0 => Cardinality(Filled(T)) + 1 < n)
    BY <1>1, <1>3
  <2> HIDE DEF n, T
  <2>2. /\ DOMAIN T = 0 .. n - 1 /\ Filled(T) \subseteq 0 .. n - 1
        /\ \E i \in 0 .. n - 1 : T[i] = Empty
        /\ slack = 0 => \A i \in 0 .. n - 1 : \E j \in 0 .. n - 1 : j # i /\ T[j] = Empty
    BY <2>1, CountFacts, FilledFacts
  <2> QED
    BY <2>2 DEF n, T
<1>5. R.alloc \in Nat \ {0}
  BY <1>1
<1> QED
  BY <1>1, <1>2, <1>4, <1>5

LEMMA GoodPut ==
  ASSUME NEW R, NEW b, Good(R, b, {}, {}, 0),
         NEW i \in 0 .. R.alloc - 1, R.table[i] = Empty, NEW e \in Element, BucketOf(e.key) = b,
         \A j \in Filled(R.table) : R.table[j].key # e.key,
         \A j \in Path(R.alloc, e.key, i) : R.table[j] # Empty,
         NEW t, t = PutAt(R.table, i, e),
         NEW Q, Q.alloc = R.alloc, Q.used = R.used + 1, Q.table = t
  PROVE  /\ Good(Q, b, {}, {}, 3) /\ t \in Arrays(R.alloc)
         /\ i \notin Filled(R.table) /\ Filled(t) = Filled(R.table) \cup {i}
         /\ t[i] = e /\ \A j \in Filled(R.table) : t[j] = R.table[j]
<1>1. /\ R.alloc \in Nat \ {0} /\ R.used \in Nat /\ Sound(R.table, R.alloc, {}, b)
      /\ IsFiniteSet(Filled(R.table))
      /\ R.alloc > 3 /\ 3 * R.used <= 2 * R.alloc + 0
      /\ R.used = Cardinality(Filled(R.table)) + Cardinality({})
  BY GoodFacts DEF Good
<1>2. /\ Sound(t, R.alloc, {}, b)
      /\ i \notin Filled(R.table) /\ Filled(t) = Filled(R.table) \cup {i}
      /\ t[i] = e /\ \A j \in Filled(R.table) : t[j] = R.table[j]
  <2> DEFINE n == R.alloc
             T == R.table
  <2>1. /\ n \in Nat \ {0} /\ Sound(T, n, {}, b) /\ i \in 0 .. n - 1 /\ T[i] = Empty
        /\ \A j \in Filled(T) : T[j].key # e.key
        /\ \A j \in Path(n, e.key, i) : T[j] # Empty
        /\ t = PutAt(T, i, e)
    BY <1>1
  <2> HIDE DEF n, T
  <2>2. /\ Sound(t, n, {}, b)
        /\ i \notin Filled(T) /\ Filled(t) = Filled(T) \cup {i}
        /\ t[i] = e /\ \A j \in Filled(T) : t[j] = T[j]
    BY <2>1, PutFacts
  <2> QED
    BY <2>2 DEF n, T
<1>3. /\ Cardinality(Filled(t)) = Cardinality(Filled(R.table)) + 1
      /\ Cardinality(Filled(R.table)) \in Nat /\ Cardinality({}) = 0 /\ IsFiniteSet({})
  BY <1>1, <1>2, AddOne, FS_EmptySet
<1>4. /\ Q.used \in Nat /\ Q.used = Cardinality(Filled(t)) + Cardinality({})
      /\ 3 * Q.used <= 2 * Q.alloc + 3
  BY <1>1, <1>3
<1> QED
  BY <1>1, <1>2, <1>3, <1>4 DEF Good, Sound

LEMMA GoodRewrite ==
  ASSUME NEW R, NEW b, Good(R, b, {}, {}, 3),
         NEW i \in Filled(R.table), NEW e \in Element, R.table[i].key = e.key,
         NEW t, t = PutAt(R.table, i, e),
         NEW Q, Q.alloc = R.alloc, Q.used = R.used, Q.table = t
  PROVE  /\ Good(Q, b, {}, {}, 3) /\ t \in Arrays(R.alloc)
         /\ Filled(t) = Filled(R.table) /\ t[i] = e
         /\ \A j \in Filled(R.table) \ {i} : t[j] = R.table[j]
<1>1. R.alloc \in Nat \ {0} /\ Sound(R.table, R.alloc, {}, b)
  BY GoodFacts
<1>2. /\ Sound(t, R.alloc, {}, b)
      /\ Filled(t) = Filled(R.table) /\ t[i] = e
      /\ \A j \in Filled(R.table) \ {i} : t[j] = R.table[j]
  <2> DEFINE n == R.alloc
             T == R.table
  <2>1. /\ n \in Nat \ {0} /\ Sound(T, n, {}, b) /\ i \in Filled(T)
        /\ T[i].key = e.key /\ t = PutAt(T, i, e)
    BY <1>1
  <2> HIDE DEF n, T
  <2>2. /\ Sound(t, n, {}, b) /\ Filled(t) = Filled(T) /\ t[i] = e
        /\ \A j \in Filled(T) \ {i} : t[j] = T[j]
    BY <2>1, RewriteFacts
  <2> QED
    BY <2>2 DEF n, T
<1> QED
  BY <1>2 DEF Good, Sound

LEMMA GoodTake ==
  ASSUME NEW R, NEW b, Good(R, b, {}, {}, 3), NEW i \in Filled(R.table),
         NEW t, t = PutAt(R.table, i, Empty),
         NEW Q, Q.alloc = R.alloc, Q.used = R.used - 1, Q.table = t
  PROVE  /\ R.used > 0 /\ Good(Q, b, Gap(i), {}, 0) /\ t \in Arrays(R.alloc)
         /\ t[i] = Empty /\ i \in 0 .. R.alloc - 1
         /\ Filled(t) = Filled(R.table) \ {i} /\ \A j \in Filled(t) : t[j] = R.table[j]
         /\ IncMod(i, R.alloc) \in 0 .. R.alloc - 1
         /\ Walked(t, R.alloc, i, IncMod(i, R.alloc))
<1>1. /\ R.alloc \in Nat \ {0} /\ R.used \in Nat /\ Sound(R.table, R.alloc, {}, b)
      /\ IsFiniteSet(Filled(R.table)) /\ i \in 0 .. R.alloc - 1
      /\ R.alloc > 3 /\ 3 * R.used <= 2 * R.alloc + 3
      /\ R.used = Cardinality(Filled(R.table)) + Cardinality({})
  BY GoodFacts DEF Good
<1>2. /\ Sound(t, R.alloc, Gap(i), b) /\ t[i] = Empty
      /\ Filled(t) = Filled(R.table) \ {i} /\ \A j \in Filled(t) : t[j] = R.table[j]
  <2> DEFINE n == R.alloc
             T == R.table
  <2>1. /\ n \in Nat \ {0} /\ Sound(T, n, {}, b) /\ i \in Filled(T)
        /\ t = PutAt(T, i, Empty)
    BY <1>1
  <2> HIDE DEF n, T
  <2>2. /\ Sound(t, n, Gap(i), b) /\ t[i] = Empty
        /\ Filled(t) = Filled(T) \ {i} /\ \A j \in Filled(t) : t[j] = T[j]
    BY <2>1, TakeFacts
  <2> QED
    BY <2>2 DEF n, T
<1>3. /\ Cardinality(Filled(t)) = Cardinality(Filled(R.table)) - 1
      /\ Cardinality(Filled(R.table)) \in Nat \ {0} /\ Cardinality({}) = 0 /\ IsFiniteSet({})
  BY <1>1, <1>2, TakeOne, FS_EmptySet
<1>4. /\ R.used > 0 /\ Q.used \in Nat /\ Q.used = Cardinality(Filled(t)) + Cardinality({})
      /\ 3 * Q.used <= 2 * Q.alloc + 0
  BY <1>1, <1>3
<1>5. Good(Q, b, Gap(i), {}, 0)
  BY <1>1, <1>2, <1>3, <1>4 DEF Good
<1>6. IncMod(i, R.alloc) \in 0 .. R.alloc - 1 /\ Between(R.alloc, i, IncMod(i, R.alloc)) = {}
  BY <1>1, IncIs
<1> QED
  BY <1>1, <1>2, <1>4, <1>5, <1>6 DEF Walked, Sound

LEMMA GoodMove ==
  ASSUME NEW R, NEW b, NEW i \in 0 .. R.alloc - 1, Good(R, b, Gap(i), {}, 0), R.table[i] = Empty,
         NEW k \in Filled(R.table), MayMove(R.table, R.alloc, i, k),
         NEW t, t = Moved(R.table, i, k),
         NEW Q, Q.alloc = R.alloc, Q.used = R.used, Q.table = t
  PROVE  /\ Good(Q, b, Gap(k), {}, 0) /\ t \in Arrays(R.alloc)
         /\ t[k] = Empty /\ k \in 0 .. R.alloc - 1 /\ t[i] = R.table[k] /\ i \notin Filled(R.table)
         /\ Filled(t) = (Filled(R.table) \ {k}) \cup {i}
         /\ \A j \in Filled(R.table) \ {k} : t[j] = R.table[j]
         /\ IncMod(k, R.alloc) \in 0 .. R.alloc - 1
         /\ Walked(t, R.alloc, k, IncMod(k, R.alloc))
<1>1. /\ R.alloc \in Nat \ {0} /\ R.used \in Nat /\ Sound(R.table, R.alloc, Gap(i), b)
      /\ IsFiniteSet(Filled(R.table)) /\ k \in 0 .. R.alloc - 1
      /\ R.alloc > 3 /\ i \notin Filled(R.table)
  BY GoodFacts, FilledFacts
<1>2. /\ Sound(t, R.alloc, Gap(k), b) /\ t[k] = Empty /\ t[i] = R.table[k]
      /\ Filled(t) = (Filled(R.table) \ {k}) \cup {i}
      /\ \A j \in Filled(R.table) \ {k} : t[j] = R.table[j]
  <2> DEFINE n == R.alloc
             T == R.table
  <2>1. /\ n \in Nat \ {0} /\ Sound(T, n, Gap(i), b) /\ i \in 0 .. n - 1 /\ T[i] = Empty
        /\ k \in Filled(T) /\ MayMove(T, n, i, k)
        /\ t = Moved(T, i, k)
    BY <1>1
  <2> HIDE DEF n, T
  <2>2. /\ Sound(t, n, Gap(k), b) /\ t[k] = Empty /\ t[i] = T[k]
        /\ Filled(t) = (Filled(T) \ {k}) \cup {i}
        /\ \A j \in Filled(T) \ {k} : t[j] = T[j]
    BY <2>1, MoveFacts
  <2> QED
    BY <2>2 DEF n, T
<1>3. Cardinality(Filled(t)) = Cardinality(Filled(R.table))
  BY <1>1, <1>2, SwapOne
<1>4. Good(Q, b, Gap(k), {}, 0)
  BY <1>2, <1>3 DEF Good
<1>5. IncMod(k, R.alloc) \in 0 .. R.alloc - 1 /\ Between(R.alloc, k, IncMod(k, R.alloc)) = {}
  BY <1>1, IncIs
<1> QED
  BY <1>1, <1>2, <1>4, <1>5 DEF Walked, Sound

LEMMA GoodHealed ==
  ASSUME NEW R, NEW b, NEW i \in 0 .. R.alloc - 1, Good(R, b, Gap(i), {}, 0), R.table[i] = Empty,
         NEW k \in 0 .. R.alloc - 1, R.table[k] = Empty, Walked(R.table, R.alloc, i, k)
  PROVE  Good(R, b, {}, {}, 3)
<1>1. /\ R.alloc \in Nat /\ R.alloc > 1 /\ Sound(R.table, R.alloc, Gap(i), b)
  BY GoodFacts
<1>2. Sound(R.table, R.alloc, {}, b)
  BY <1>1, HealedFacts
<1> QED
  BY <1>2 DEF Good

LEMMA NewBucketGood == \A b : NewBucket \in BucketSet /\ Good(NewBucket, b, {}, {}, 3)
<1> SUFFICES ASSUME NEW b PROVE NewBucket \in BucketSet /\ Good(NewBucket, b, {}, {}, 3)
  OBVIOUS
<1>1. InitialSize \in Nat /\ InitialSize > 3
  BY AssocAssumption
<1>2. /\ Sound(NewTable(InitialSize), InitialSize, {}, b) /\ Filled(NewTable(InitialSize)) = {}
      /\ NewTable(InitialSize) \in Arrays(InitialSize)
  BY <1>1, NewTableFacts DEF Sound
<1>3. /\ NewBucket.alloc = InitialSize /\ NewBucket.used = 0
      /\ NewBucket.table = NewTable(InitialSize)
  BY DEF NewBucket
<1>4. NewBucket \in BucketSet
  BY <1>1, <1>2 DEF BucketSet, NewBucket
<1>5. Cardinality({}) = 0 /\ IsFiniteSet({})
  BY FS_EmptySet
<1> QED
  BY <1>1, <1>2, <1>3, <1>4, <1>5 DEF Good

(* Where find and the others stop in a good bucket.                        *)
LEMMA KeyStopIn ==
  ASSUME NEW k \in Key, NEW left, NEW slack \in {0, 3},
         Good(bucket[BucketOf(k)], BucketOf(k), {}, left, slack), NEW i, KeyStopsAt(k, i)
  PROVE  /\ i \in 0 .. bucket[BucketOf(k)].alloc - 1
         /\ TableOf(k)[i] # Empty => i \in Filled(TableOf(k)) /\ TableOf(k)[i].key = k
         /\ TableOf(k)[i] = Empty => \A j \in Filled(TableOf(k)) : TableOf(k)[j].key # k
         /\ \A j \in Path(bucket[BucketOf(k)].alloc, k, i) : TableOf(k)[j] # Empty
<1> DEFINE T == TableOf(k)
           n == bucket[BucketOf(k)].alloc
<1>1. /\ n \in Nat \ {0} /\ T \in Arrays(n) /\ NoGap(T, n, {})
      /\ \E f \in 0 .. n - 1 : T[f] = Empty
  BY GoodFacts DEF TableOf, Sound
<1>2. StopsAt(T, n, Home(k, n), SameKey(T, k), i)
  BY DEF KeyStopsAt, TableOf
<1> HIDE DEF T, n
<1>3. /\ i \in 0 .. n - 1
      /\ T[i] # Empty => T[i].key = k
      /\ T[i] = Empty => \A j \in Filled(T) : T[j].key # k
      /\ \A j \in Path(n, k, i) : T[j] # Empty
  BY <1>1, <1>2, KeyStop
<1>4. T[i] # Empty => i \in Filled(T)
  BY <1>1, <1>3, FilledFacts
<1> QED
  BY <1>3, <1>4 DEF T, n

LEMMA ElementStopIn ==
  ASSUME NEW e \in Element, Good(bucket[BucketOf(e.key)], BucketOf(e.key), {}, {}, 3),
         NEW i, ElementStopsAt(e, i)
  PROVE  /\ i \in 0 .. bucket[BucketOf(e.key)].alloc - 1
         /\ TableOf(e.key)[i] # Empty => i \in Filled(TableOf(e.key)) /\ TableOf(e.key)[i] = e
         /\ TableOf(e.key)[i] = Empty => \A j \in Filled(TableOf(e.key)) : TableOf(e.key)[j] # e
<1> DEFINE T == TableOf(e.key)
           n == bucket[BucketOf(e.key)].alloc
<1>1. /\ n \in Nat \ {0} /\ T \in Arrays(n) /\ NoGap(T, n, {})
      /\ \E f \in 0 .. n - 1 : T[f] = Empty
  BY GoodFacts DEF TableOf, Sound
<1>2. StopsAt(T, n, Home(e.key, n), SameElement(T, e), i)
  BY DEF ElementStopsAt, TableOf
<1> HIDE DEF T, n
<1>3. /\ i \in 0 .. n - 1
      /\ T[i] # Empty => T[i] = e
      /\ T[i] = Empty => \A j \in Filled(T) : T[j] # e
  BY <1>1, <1>2, ElementStop
<1>4. T[i] # Empty => i \in Filled(T)
  BY <1>1, <1>3, FilledFacts
<1> QED
  BY <1>3, <1>4 DEF T, n

-----------------------------------------------------------------------------
(* What the actions do to a bucket: an element comes in, one goes out, one *)
(* moves, one is written anew.                                             *)
Others(b) == /\ bucket' \in Buckets
             /\ \A c \in BucketId \ {b} : bucket'[c] = bucket[c]

Stays(b, F) == \A j \in F : bucket'[b].table[j] = bucket[b].table[j]

Gains(b, i, e) ==
  /\ Others(b) /\ bucket'[b].alloc = bucket[b].alloc
  /\ i \in 0 .. bucket[b].alloc - 1 /\ i \notin Filled(bucket[b].table)
  /\ Filled(bucket'[b].table) = Filled(bucket[b].table) \cup {i}
  /\ bucket'[b].table[i] = e /\ Stays(b, Filled(bucket[b].table))

Loses(b, i) ==
  /\ Others(b) /\ bucket'[b].alloc = bucket[b].alloc
  /\ i \in Filled(bucket[b].table)
  /\ Filled(bucket'[b].table) = Filled(bucket[b].table) \ {i}
  /\ Stays(b, Filled(bucket'[b].table))

Moves(b, i, k) ==
  /\ Others(b) /\ bucket'[b].alloc = bucket[b].alloc
  /\ i \in 0 .. bucket[b].alloc - 1 /\ i \notin Filled(bucket[b].table)
  /\ k \in Filled(bucket[b].table)
  /\ Filled(bucket'[b].table) = (Filled(bucket[b].table) \ {k}) \cup {i}
  /\ bucket'[b].table[i] = bucket[b].table[k]
  /\ Stays(b, Filled(bucket[b].table) \ {k})

Rewrites(b, i, e) ==
  /\ Others(b) /\ bucket'[b].alloc = bucket[b].alloc
  /\ i \in Filled(bucket[b].table) /\ bucket[b].table[i].key = e.key
  /\ Filled(bucket'[b].table) = Filled(bucket[b].table)
  /\ bucket'[b].table[i] = e /\ Stays(b, Filled(bucket[b].table) \ {i})

Puts(b, i, e)      == bucket' = [bucket EXCEPT ![b].table[i] = e]
PutsAnother(b, i, e) == bucket' = [bucket EXCEPT ![b].table[i] = e, ![b].used = @ + 1]

LEMMA PutIs ==
  ASSUME bucket \in Buckets, NEW b \in BucketId, bucket[b].table \in Arrays(bucket[b].alloc),
         NEW i, NEW e \in Element
  PROVE  /\ Puts(b, i, e) =>
              Becomes(b, bucket[b].alloc, bucket[b].used, PutAt(bucket[b].table, i, e))
         /\ PutsAnother(b, i, e) =>
              Becomes(b, bucket[b].alloc, bucket[b].used + 1, PutAt(bucket[b].table, i, e))
<1>1. bucket[b].alloc \in Nat /\ bucket[b].used \in Nat /\ bucket[b].used + 1 \in Nat
  BY DEF Buckets, BucketSet
<1>2. PutAt(bucket[b].table, i, e) \in Arrays(bucket[b].alloc)
  BY <1>1, ArrayPut
<1>3. ASSUME Puts(b, i, e)
      PROVE  Becomes(b, bucket[b].alloc, bucket[b].used, PutAt(bucket[b].table, i, e))
  <2>1. bucket'[b] = [alloc |-> bucket[b].alloc, used |-> bucket[b].used,
                      table |-> PutAt(bucket[b].table, i, e)]
    BY <1>3 DEF Puts, PutAt, Buckets, BucketSet
  <2>2. (\A c \in BucketId \ {b} : bucket'[c] = bucket[c]) /\ bucket' = [c \in BucketId |-> bucket'[c]]
    BY <1>3 DEF Puts, Buckets, BucketSet
  <2> QED
    BY <1>1, <1>2, <2>1, <2>2, OneBucket
<1>4. ASSUME PutsAnother(b, i, e)
      PROVE  Becomes(b, bucket[b].alloc, bucket[b].used + 1, PutAt(bucket[b].table, i, e))
  <2>1. bucket'[b] = [alloc |-> bucket[b].alloc, used |-> bucket[b].used + 1,
                      table |-> PutAt(bucket[b].table, i, e)]
    BY <1>4 DEF PutsAnother, PutAt, Buckets, BucketSet
  <2>2. (\A c \in BucketId \ {b} : bucket'[c] = bucket[c]) /\ bucket' = [c \in BucketId |-> bucket'[c]]
    BY <1>4 DEF PutsAnother, Buckets, BucketSet
  <2> QED
    BY <1>1, <1>2, <2>1, <2>2, OneBucket
<1> QED
  BY <1>3, <1>4

LEMMA DoInsertStep ==
  ASSUME bucket \in Buckets, NEW e \in Element, NEW b, b = BucketOf(e.key),
         Good(bucket[b], b, {}, {}, 0), DoInsert(e)
  PROVE  \/ /\ UNCHANGED bucket /\ ret' = Answer("insert", e.key, FALSE)
            /\ \E i \in Filled(bucket[b].table) : bucket[b].table[i].key = e.key
         \/ /\ \E i : Gains(b, i, e)
            /\ Good(bucket'[b], b, {}, {}, 3) /\ ret' = Answer("insert", e.key, TRUE)
            /\ \A j \in Filled(bucket[b].table) : bucket[b].table[j].key # e.key
<1>1. /\ e.key \in Key /\ b \in BucketId /\ bucket[b].alloc \in Nat \ {0}
      /\ bucket[b].table \in Arrays(bucket[b].alloc) /\ TableOf(e.key) = bucket[b].table
  BY ElementFacts, BucketsExist, GoodFacts DEF TableOf
<1>2. PICK i : /\ KeyStopsAt(e.key, i)
               /\ IF bucket[b].table[i] = Empty
                  THEN /\ bucket' = [bucket EXCEPT ![b].table[i] = e, ![b].used = @ + 1]
                       /\ ret' = Answer("insert", e.key, TRUE)
                  ELSE /\ ret' = Answer("insert", e.key, FALSE)
                       /\ UNCHANGED bucket
  BY <1>1 DEF DoInsert
<1>3. /\ i \in 0 .. bucket[b].alloc - 1
      /\ bucket[b].table[i] # Empty => i \in Filled(bucket[b].table) /\ bucket[b].table[i].key = e.key
      /\ bucket[b].table[i] = Empty => \A j \in Filled(bucket[b].table) : bucket[b].table[j].key # e.key
      /\ \A j \in Path(bucket[b].alloc, e.key, i) : bucket[b].table[j] # Empty
  <2> DEFINE k == e.key
  <2>1. k \in Key /\ Good(bucket[BucketOf(k)], BucketOf(k), {}, {}, 0) /\ KeyStopsAt(k, i)
    BY <1>1, <1>2
  <2> HIDE DEF k
  <2>2. /\ i \in 0 .. bucket[BucketOf(k)].alloc - 1
        /\ TableOf(k)[i] # Empty => i \in Filled(TableOf(k)) /\ TableOf(k)[i].key = k
        /\ TableOf(k)[i] = Empty => \A j \in Filled(TableOf(k)) : TableOf(k)[j].key # k
        /\ \A j \in Path(bucket[BucketOf(k)].alloc, k, i) : TableOf(k)[j] # Empty
    BY <2>1, KeyStopIn
  <2> QED
    BY <1>1, <2>2 DEF k
<1>4. CASE bucket[b].table[i] # Empty
  BY <1>2, <1>3, <1>4
<1>5. CASE bucket[b].table[i] = Empty
  <2> DEFINE t == PutAt(bucket[b].table, i, e)
  <2>1. Becomes(b, bucket[b].alloc, bucket[b].used + 1, t)
    <3>1. PutsAnother(b, i, e)
      BY <1>2, <1>5 DEF PutsAnother
    <3> QED
      BY <1>1, <3>1, PutIs
  <2>2. /\ Good(bucket'[b], b, {}, {}, 3)
        /\ i \notin Filled(bucket[b].table) /\ Filled(t) = Filled(bucket[b].table) \cup {i}
        /\ t[i] = e /\ \A j \in Filled(bucket[b].table) : t[j] = bucket[b].table[j]
    <3> DEFINE R == bucket[b]
               Q == bucket'[b]
    <3>1. /\ Good(R, b, {}, {}, 0) /\ i \in 0 .. R.alloc - 1 /\ R.table[i] = Empty
          /\ BucketOf(e.key) = b
          /\ \A j \in Filled(R.table) : R.table[j].key # e.key
          /\ \A j \in Path(R.alloc, e.key, i) : R.table[j] # Empty
          /\ t = PutAt(R.table, i, e)
          /\ Q.alloc = R.alloc /\ Q.used = R.used + 1 /\ Q.table = t
      BY <1>3, <1>5, <2>1 DEF Becomes
    <3> HIDE DEF R, Q, t
    <3>2. /\ Good(Q, b, {}, {}, 3)
          /\ i \notin Filled(R.table) /\ Filled(t) = Filled(R.table) \cup {i}
          /\ t[i] = e /\ \A j \in Filled(R.table) : t[j] = R.table[j]
      BY <3>1, GoodPut
    <3> QED
      BY <3>2 DEF R, Q
  <2>3. Gains(b, i, e)
    BY <1>3, <2>1, <2>2 DEF Gains, Others, Stays, Becomes
  <2> QED
    BY <1>2, <1>3, <1>5, <2>2, <2>3
<1> QED
  BY <1>4, <1>5

(* An element is taken out, and the loop of healHole begins.               *)
LEMMA TakeOutStep ==
  ASSUME bucket \in Buckets, NEW b \in BucketId, Good(bucket[b], b, {}, {}, 3),
         NEW i \in Filled(bucket[b].table), TakeOut(b, i)
  PROVE  /\ Loses(b, i)
         /\ Healing' /\ pc' = "heal" /\ loc' \in LocType' /\ loc'.b = b /\ loc'.i = i
<1> DEFINE R == bucket[b]
           t == PutAt(R.table, i, Empty)
           Q == bucket'[b]
<1>1. R.table \in Arrays(R.alloc) /\ R.alloc \in Nat
  BY GoodFacts
<1>2. R.used > 0
  <2> DEFINE P == [alloc |-> R.alloc, used |-> R.used - 1, table |-> t]
  <2>1. P.alloc = R.alloc /\ P.used = R.used - 1 /\ P.table = t /\ i \in Filled(R.table)
        /\ Good(R, b, {}, {}, 3) /\ t = PutAt(R.table, i, Empty)
    OBVIOUS
  <2> HIDE DEF P, t, R
  <2> QED
    BY <2>1, GoodTake
<1>3. /\ Becomes(b, R.alloc, R.used - 1, t)
      /\ loc' = [NoLoc EXCEPT !.b = b, !.i = i, !.k = IncMod(i, R.alloc)] /\ pc' = "heal"
  BY <1>1, <1>2, TakeOutIs
<1>4. /\ Good(Q, b, Gap(i), {}, 0)
      /\ t[i] = Empty /\ i \in 0 .. R.alloc - 1
      /\ Filled(t) = Filled(R.table) \ {i} /\ \A j \in Filled(t) : t[j] = R.table[j]
      /\ IncMod(i, R.alloc) \in 0 .. R.alloc - 1
      /\ Walked(t, R.alloc, i, IncMod(i, R.alloc))
  <2>1. Q.alloc = R.alloc /\ Q.used = R.used - 1 /\ Q.table = t /\ i \in Filled(R.table)
        /\ Good(R, b, {}, {}, 3) /\ t = PutAt(R.table, i, Empty)
    BY <1>3 DEF Becomes
  <2> HIDE DEF Q, t, R
  <2> QED
    BY <2>1, GoodTake
<1>5. /\ loc'.b = b /\ loc'.i = i /\ loc'.k = IncMod(i, R.alloc)
      /\ loc' \in LocType'
  <2>1. loc' = [b |-> b, i |-> i, k |-> IncMod(i, R.alloc), elem |-> Empty, old |-> <<>>]
    BY <1>3 DEF NoLoc
  <2>2. i \in Nat /\ IncMod(i, R.alloc) \in Nat
    BY <1>1, <1>4
  <2> QED
    BY <2>1, <2>2 DEF LocType
<1>6. Q.alloc = R.alloc /\ Q.table = t
  BY <1>3 DEF Becomes
<1>7. Healing'
  BY <1>4, <1>5, <1>6 DEF Healing
<1>8. Loses(b, i)
  BY <1>3, <1>4, <1>6 DEF Loses, Others, Stays, Becomes
<1> QED
  BY <1>3, <1>5, <1>7, <1>8

-----------------------------------------------------------------------------
(* The invariant is kept, action by action.                                *)
LEMMA AnswerIs ==
  \A op \in {"init", "insert", "lookup", "remove", "removeThis", "iterate"},
     k \in Key \cup {NoValue}, out \in BOOLEAN \cup Value \cup {NoValue} :
        Answer(op, k, out) \in AnswerType
BY DEF Answer, AnswerType

LEMMA CalmNow ==
  ASSUME AInv, pc \in {"idle", "visit"}, NEW b \in BucketId
  PROVE  Good(bucket[b], b, {}, {}, 3)
BY DEF AInv, Calm

LEMMA Steady ==
  ASSUME AInv, NEW b \in BucketId, pc \in {"idle", "visit"} \/ b = loc.b,
         bucket' \in Buckets, Good(bucket'[b], b, {}, {}, 3),
         \A c \in BucketId \ {b} : bucket'[c] = bucket[c],
         loc' \in LocType', ret' \in AnswerType, pc' \in {"idle", "visit"}
  PROVE  AInv'
<1>1. ASSUME NEW c \in BucketId PROVE Calm(c)'
  <2>1. CASE c = b
    BY <2>1 DEF Calm
  <2>2. CASE c # b
    BY <2>2 DEF Calm, AInv
  <2> QED
    BY <2>1, <2>2
<1> QED
  BY <1>1 DEF AInv

LEMMA SteadySame ==
  ASSUME AInv, pc \in {"idle", "visit"}, UNCHANGED <<bucket, loc>>,
         ret' \in AnswerType, pc' \in {"idle", "visit"}
  PROVE  AInv'
<1>1. \A c \in BucketId : Calm(c)'
  BY DEF Calm, AInv
<1>2. loc' \in LocType'
  BY DEF AInv, LocType
<1> QED
  BY <1>1, <1>2 DEF AInv

LEMMA NoLocIs == ASSUME loc' = NoLoc PROVE loc' \in LocType'
<1>1. 0 \in BucketId
  BY BucketsExist DEF BucketId
<1> QED
  BY <1>1 DEF NoLoc, LocType

LEMMA InitAInv == Init => AInv
<1> SUFFICES ASSUME Init PROVE AInv
  OBVIOUS
<1>1. bucket \in Buckets /\ \A b \in BucketId : Calm(b)
  BY NewBucketGood DEF Init, Buckets, Calm
<1>2. loc \in LocType
  <2>1. 0 \in BucketId
    BY BucketsExist DEF BucketId
  <2> QED
    BY <2>1 DEF Init, NoLoc, LocType
<1>3. ret \in AnswerType
  BY AnswerIs DEF Init
<1> QED
  BY <1>1, <1>2, <1>3 DEF Init, AInv

LEMMA LookedIs ==
  ASSUME AInv, Idle, NEW k \in Key, NEW i, Looked(k, i)
  PROVE  /\ i \in 0 .. bucket[BucketOf(k)].alloc - 1 /\ ret' \in AnswerType
         /\ TableOf(k)[i] # Empty => i \in Filled(TableOf(k)) /\ TableOf(k)[i].key = k
         /\ TableOf(k)[i] = Empty => \A j \in Filled(TableOf(k)) : TableOf(k)[j].key # k
<1>1. Good(bucket[BucketOf(k)], BucketOf(k), {}, {}, 3) /\ BucketOf(k) \in BucketId
  BY CalmNow, BucketsExist DEF Idle
<1>2. /\ i \in 0 .. bucket[BucketOf(k)].alloc - 1
      /\ TableOf(k)[i] # Empty => i \in Filled(TableOf(k)) /\ TableOf(k)[i].key = k
      /\ TableOf(k)[i] = Empty => \A j \in Filled(TableOf(k)) : TableOf(k)[j].key # k
  BY <1>1, KeyStopIn DEF Looked
<1>3. TableOf(k)[i] # Empty => TableOf(k)[i].value \in Value
  <2>1. TableOf(k) \in Arrays(bucket[BucketOf(k)].alloc) /\ bucket[BucketOf(k)].alloc \in Nat
    BY <1>1, GoodFacts DEF TableOf
  <2>2. TableOf(k)[i] # Empty => TableOf(k)[i] \in Element
    BY <1>2, <2>1, FilledFacts
  <2> QED
    BY <2>2, ElementFacts
<1> QED
  BY <1>2, <1>3, AnswerIs DEF Looked

LEMMA FindAInv == ASSUME AInv, NEW k \in Key, Find(k) PROVE AInv'
<1>1. ret' \in AnswerType
  BY LookedIs DEF Find
<1> QED
  BY <1>1, SteadySame DEF Find, Idle

LEMMA WriteStep ==
  ASSUME AInv, NEW e \in Element, WriteValue(e)
  PROVE  /\ \E i : Rewrites(BucketOf(e.key), i, e)
         /\ Good(bucket'[BucketOf(e.key)], BucketOf(e.key), {}, {}, 3)
<1> DEFINE k == e.key
           b == BucketOf(k)
           R == bucket[b]
           Q == bucket'[b]
<1>1. k \in Key /\ b \in BucketId /\ Good(R, b, {}, {}, 3) /\ Idle
  BY ElementFacts, BucketsExist, CalmNow DEF WriteValue, Idle
<1>2. PICK i : /\ KeyStopsAt(k, i) /\ TableOf(k)[i] # Empty /\ Puts(b, i, e)
  BY DEF WriteValue, Puts
<1>3. i \in Filled(R.table) /\ R.table[i].key = k /\ TableOf(k) = R.table
  <2>1. k \in Key /\ Good(bucket[BucketOf(k)], BucketOf(k), {}, {}, 3) /\ KeyStopsAt(k, i)
    BY <1>1, <1>2
  <2> HIDE DEF k
  <2>2. TableOf(k)[i] # Empty => i \in Filled(TableOf(k)) /\ TableOf(k)[i].key = k
    BY <2>1, KeyStopIn
  <2> QED
    BY <1>2, <2>2 DEF TableOf
<1>4. R.table \in Arrays(R.alloc) /\ bucket \in Buckets
  BY <1>1, GoodFacts DEF AInv
<1> DEFINE t == PutAt(R.table, i, e)
<1>5. Becomes(b, R.alloc, R.used, t)
  BY <1>1, <1>2, <1>4, PutIs
<1>6. Q.alloc = R.alloc /\ Q.used = R.used /\ Q.table = t /\ t = PutAt(R.table, i, e)
      /\ R.table[i].key = e.key
  BY <1>3, <1>5 DEF Becomes
<1>7. /\ Good(Q, b, {}, {}, 3)
      /\ Filled(t) = Filled(R.table) /\ t[i] = e
      /\ \A j \in Filled(R.table) \ {i} : t[j] = R.table[j]
  <2> HIDE DEF R, Q, t, b, k
  <2> QED
    BY <1>1, <1>3, <1>6, GoodRewrite
<1>8. Rewrites(b, i, e)
  BY <1>3, <1>5, <1>6, <1>7 DEF Rewrites, Others, Stays, Becomes
<1> QED
  BY <1>7, <1>8

LEMMA WriteAInv == ASSUME AInv, NEW e \in Element, WriteValue(e) PROVE AInv'
<1> DEFINE b == BucketOf(e.key)
<1>1. /\ bucket' \in Buckets /\ \A c \in BucketId \ {b} : bucket'[c] = bucket[c]
      /\ Good(bucket'[b], b, {}, {}, 3) /\ b \in BucketId
  BY WriteStep, ElementFacts, BucketsExist DEF Rewrites, Others
<1>2. loc' \in LocType' /\ ret' \in AnswerType /\ pc = "idle" /\ pc' = "idle"
  BY DEF WriteValue, AInv, LocType, Idle
<1> HIDE DEF b
<1> QED
  BY <1>1, <1>2, Steady

(* An insert into a good bucket.                                           *)
LEMMA InsertedAInv ==
  ASSUME AInv, NEW e \in Element, NEW b, b = BucketOf(e.key),
         pc \in {"idle", "visit"} \/ b = loc.b,
         Good(bucket[b], b, {}, {}, 0), DoInsert(e),
         loc' \in LocType', pc' = "idle"
  PROVE  AInv'
<1>1. bucket \in Buckets /\ b \in BucketId /\ e.key \in Key
  BY ElementFacts, BucketsExist DEF AInv
<1>2. /\ bucket' \in Buckets /\ \A c \in BucketId \ {b} : bucket'[c] = bucket[c]
      /\ Good(bucket'[b], b, {}, {}, 3)
  <2>1. CASE UNCHANGED bucket
    BY <1>1, <2>1 DEF Good
  <2>2. CASE (\E i : Gains(b, i, e)) /\ Good(bucket'[b], b, {}, {}, 3)
    BY <2>2 DEF Gains, Others
  <2>3. UNCHANGED bucket \/ ((\E i : Gains(b, i, e)) /\ Good(bucket'[b], b, {}, {}, 3))
    <3>1. /\ bucket \in Buckets /\ b = BucketOf(e.key)
          /\ Good(bucket[b], b, {}, {}, 0) /\ DoInsert(e)
      BY <1>1
    <3> QED
      BY <3>1, DoInsertStep
  <2> QED
    BY <1>1, <2>1, <2>2, <2>3
<1>3. ret' \in AnswerType
  <2>1. \E done \in BOOLEAN : ret' = Answer("insert", e.key, done)
    BY DEF DoInsert
  <2>2. "insert" \in {"init", "insert", "lookup", "remove", "removeThis", "iterate"}
    OBVIOUS
  <2> QED
    BY <1>1, <2>1, <2>2, AnswerIs
<1> QED
  BY <1>1, <1>2, <1>3, Steady

LEMMA InsertReady ==
  ASSUME AInv, NEW e \in Element, Insert(e)
  PROVE  Good(bucket[BucketOf(e.key)], BucketOf(e.key), {}, {}, 0)
<1> DEFINE R == bucket[BucketOf(e.key)]
<1>1. Good(R, BucketOf(e.key), {}, {}, 3)
  BY ElementFacts, BucketsExist, CalmNow DEF Insert, Idle
<1>2. R.alloc \in Nat /\ R.used \in Nat /\ ~(2 * R.alloc < 3 * R.used)
  BY <1>1 DEF Good, Insert, Crowded
<1> HIDE DEF R
<1>3. 3 * R.used <= 2 * R.alloc + 0
  BY <1>2
<1>4. Good(R, BucketOf(e.key), {}, {}, 0)
  BY <1>1, <1>3 DEF Good
<1> QED
  BY <1>4 DEF R

LEMMA InsertAInv == ASSUME AInv, NEW e \in Element, Insert(e) PROVE AInv'
<1> DEFINE b == BucketOf(e.key)
<1>1. Good(bucket[b], b, {}, {}, 0)
  BY InsertReady
<1>2. loc' \in LocType' /\ pc = "idle" /\ pc' = "idle" /\ DoInsert(e) /\ b = BucketOf(e.key)
  BY DEF Insert, AInv, LocType, Idle
<1> HIDE DEF b
<1> QED
  BY <1>1, <1>2, InsertedAInv

LEMMA InsertThrowsAInv == ASSUME AInv, NEW e \in Element, InsertThrows(e) PROVE AInv'
<1>1. ret' \in AnswerType /\ pc \in {"idle", "visit"} /\ pc' \in {"idle", "visit"}
      /\ UNCHANGED <<bucket, loc>>
  BY DEF InsertThrows, AInv, Idle
<1> QED
  BY <1>1, SteadySame

-----------------------------------------------------------------------------
GrowStep(b, n) == bucket' = [bucket EXCEPT ![b].alloc = n, ![b].table = NewTable(n)]

LEMMA GrowIs ==
  ASSUME bucket \in Buckets, NEW b \in BucketId, NEW n \in Nat, GrowStep(b, n)
  PROVE  Becomes(b, n, bucket[b].used, NewTable(n))
<1>1. bucket[b].used \in Nat /\ NewTable(n) \in Arrays(n)
  BY NewTableFacts DEF Buckets, BucketSet, Sound
<1>2. bucket'[b] = [alloc |-> n, used |-> bucket[b].used, table |-> NewTable(n)]
  BY DEF GrowStep, Buckets, BucketSet
<1>3. (\A c \in BucketId \ {b} : bucket'[c] = bucket[c]) /\ bucket' = [c \in BucketId |-> bucket'[c]]
  BY DEF GrowStep, Buckets, BucketSet
<1> QED
  BY <1>1, <1>2, <1>3, OneBucket

LEMMA GrowsAInv ==
  ASSUME AInv, NEW e \in Element, InsertGrows(e)
  PROVE  /\ AInv' /\ Others(BucketOf(e.key)) /\ Filled(bucket'[BucketOf(e.key)].table) = {}
         /\ Filled(loc'.old) = Filled(bucket[BucketOf(e.key)].table)
<1> DEFINE b == BucketOf(e.key)
           T == bucket[b].table
           m == bucket[b].alloc
           u == bucket[b].used
           n == NearPrime(2 * m + 1)
<1>1. /\ b \in BucketId /\ bucket \in Buckets /\ Good(bucket[b], b, {}, {}, 3)
      /\ \A c \in BucketId : Good(bucket[c], c, {}, {}, 3)
  BY ElementFacts, BucketsExist, CalmNow DEF InsertGrows, Idle, AInv
<1>2. /\ m \in Nat /\ m > 3 /\ u \in Nat /\ T \in Arrays(m) /\ OnceOnly(T) /\ Local(T, b)
      /\ IsFiniteSet(Filled(T)) /\ Cardinality(Filled(T)) \in Nat
      /\ u = Cardinality(Filled(T)) + Cardinality({}) /\ 3 * u <= 2 * m + 3
  BY <1>1, GoodFacts DEF Good, Sound
<1>3. n \in Nat /\ 2 * m + 1 <= n
  BY <1>2, NearPrimeGrows
<1>4. Becomes(b, n, u, NewTable(n))
  <2>1. GrowStep(b, n)
    BY DEF InsertGrows, GrowStep
  <2> HIDE DEF n
  <2> QED
    BY <1>1, <1>3, <2>1, GrowIs
<1>5. /\ loc'.b = b /\ loc'.i = 0 /\ loc'.elem = e /\ loc'.old = T /\ loc' \in LocType'
      /\ pc' = "grow" /\ walk' = NoWalk /\ ret' = ret
  <2>1. loc' = [b |-> b, i |-> 0, k |-> 0, elem |-> e, old |-> T]
    BY DEF InsertGrows, NoLoc
  <2>2. loc'.b = b /\ loc'.i = 0 /\ loc'.elem = e /\ loc'.old = T
    BY <2>1
  <2>3. loc' \in [b : BucketId, i : Nat, k : Nat, elem : Element \cup {Empty}, old : {loc'.old}]
    <3> HIDE DEF b, T
    <3> QED
      BY <1>1, <2>1
  <2> QED
    BY <2>2, <2>3 DEF InsertGrows, LocType
<1>6. Left(T, 0) = Filled(T)
  <2>1. \A j \in Filled(T) : j \in Nat
    BY <1>2, FilledFacts
  <2> QED
    BY <2>1 DEF Left
<1>7. /\ bucket'[b].alloc = n /\ bucket'[b].used = u /\ bucket'[b].table = NewTable(n)
      /\ Sound(NewTable(n), n, {}, b) /\ Filled(NewTable(n)) = {}
  <2> HIDE DEF n
  <2> QED
    BY <1>3, <1>4, NewTableFacts DEF Becomes
<1>8. Good(bucket'[b], b, {}, Left(T, 0), 0)
  <2>1. Cardinality({}) = 0
    BY FS_EmptySet
  <2>2. u = Cardinality({}) + Cardinality(Filled(T)) /\ 3 * u <= 2 * n + 0 /\ n > 3
    <3> HIDE DEF u, n, m
    <3> QED
      BY <1>2, <1>3, <2>1
  <2> QED
    BY <1>2, <1>3, <1>6, <1>7, <2>2 DEF Good
<1>9. Growing'
  <2>1. T \in Arrays(m) /\ 0 \in 0 .. m /\ e \in Element /\ BucketOf(e.key) = b
    BY <1>2
  <2>2. \A i \in Left(T, 0), j \in Filled(bucket'[b].table) : T[i].key # bucket'[b].table[j].key
    BY <1>7
  <2> QED
    BY <1>2, <1>5, <1>8, <2>1, <2>2 DEF Growing
<1>10. \A c \in BucketId : c # b => Calm(c)'
  BY <1>1, <1>4 DEF Becomes, Calm
<1>11. AInv'
  BY <1>4, <1>5, <1>9, <1>10 DEF AInv, Becomes
<1> QED
  BY <1>4, <1>5, <1>7, <1>11 DEF Others, Becomes

(* A turn of the loop of resizeInternal.                                   *)
LEMMA LeftIs ==
  ASSUME NEW m \in Nat, NEW old \in Arrays(m), NEW i \in 0 .. m - 1
  PROVE  /\ IsFiniteSet(Left(old, i)) /\ Left(old, i) \subseteq Filled(old)
         /\ old[i] = Empty => Left(old, i + 1) = Left(old, i)
         /\ old[i] # Empty => i \in Left(old, i) /\ Left(old, i + 1) = Left(old, i) \ {i}
         /\ i + 1 \in 0 .. m
<1>1. \A j \in Filled(old) : j \in Nat /\ (j >= i <=> j >= i + 1 \/ j = i)
  BY FilledFacts
<1>2. i \in Filled(old) <=> old[i] # Empty
  BY FilledFacts
<1>3. IsFiniteSet(Left(old, i))
  BY CountFacts, FS_Subset DEF Left
<1>4. \A j \in Filled(old) : ~(i >= i + 1)
  OBVIOUS
<1> QED
  BY <1>1, <1>2, <1>3, <1>4 DEF Left

LEMMA RehashStep ==
  ASSUME AInv, Rehash
  PROVE  /\ AInv'
         /\ \/ loc.old[loc.i] = Empty /\ UNCHANGED bucket
            \/ loc.i \in Left(loc.old, loc.i) /\ \E i : Gains(loc.b, i, loc.old[loc.i])
<1> DEFINE b == loc.b
           R == bucket[b]
           e == loc.old[loc.i]
<1>1. /\ pc = "grow" /\ Growing /\ b \in BucketId /\ loc \in LocType /\ bucket \in Buckets
      /\ Good(R, b, {}, Left(loc.old, loc.i), 0)
      /\ pc' = "grow" /\ UNCHANGED <<walk, ret>> /\ loc' = [loc EXCEPT !.i = @ + 1]
      /\ loc.i \in DOMAIN loc.old
  BY DEF Rehash, AInv, Growing, LocType
<1>2. PICK m \in Nat : loc.old \in Arrays(m) /\ loc.i \in 0 .. m
  BY <1>1 DEF Growing
<1>3. /\ loc.i \in 0 .. m - 1 /\ e \in Element \cup {Empty}
      /\ IsFiniteSet(Left(loc.old, loc.i)) /\ Left(loc.old, loc.i) \subseteq Filled(loc.old)
      /\ e = Empty => Left(loc.old, loc.i + 1) = Left(loc.old, loc.i)
      /\ e # Empty => /\ loc.i \in Left(loc.old, loc.i)
                      /\ Left(loc.old, loc.i + 1) = Left(loc.old, loc.i) \ {loc.i}
      /\ loc.i + 1 \in 0 .. m
  <2>1. loc.i \in 0 .. m - 1
    BY <1>1, <1>2, FilledFacts
  <2> QED
    BY <1>2, <2>1, LeftIs DEF Arrays
<1>4. /\ loc'.b = b /\ loc'.i = loc.i + 1 /\ loc'.elem = loc.elem /\ loc'.old = loc.old
      /\ loc' \in LocType'
  BY <1>1, <1>3 DEF LocType
<1>5. /\ R.alloc \in Nat \ {0} /\ R.alloc > 3 /\ R.used \in Nat
      /\ Sound(R.table, R.alloc, {}, b) /\ R.table \in Arrays(R.alloc)
      /\ IsFiniteSet(Filled(R.table))
      /\ R.used = Cardinality(Filled(R.table)) + Cardinality(Left(loc.old, loc.i))
      /\ 3 * R.used <= 2 * R.alloc + 0
      /\ \E f \in 0 .. R.alloc - 1 : R.table[f] = Empty
  BY <1>1, GoodFacts DEF Good
<1>6. CASE e = Empty
  <2>1. UNCHANGED bucket
    BY <1>6 DEF Rehash
  <2>2. Growing'
    BY <1>1, <1>2, <1>3, <1>4, <1>6, <2>1 DEF Growing
  <2>3. \A c \in BucketId : c # b => Calm(c)'
    BY <1>1, <2>1 DEF AInv, Calm
  <2> QED
    BY <1>1, <1>4, <1>6, <2>1, <2>2, <2>3 DEF AInv
<1>7. CASE e # Empty
  <2>1. PICK i : StopsAt(R.table, R.alloc, Home(e.key, R.alloc), {}, i) /\ Puts(b, i, e)
    BY <1>7 DEF Rehash, Puts
  <2>2. e \in Element /\ e.key \in Key /\ BucketOf(e.key) = b
        /\ \A j \in Filled(R.table) : R.table[j].key # e.key
    BY <1>1, <1>3, <1>7, ElementFacts DEF Growing, Local
  <2>3. /\ i \in 0 .. R.alloc - 1 /\ R.table[i] = Empty
        /\ \A j \in Path(R.alloc, e.key, i) : R.table[j] # Empty
    <3> DEFINE n == R.alloc
               T == R.table
               h == Home(e.key, n)
               M == {}
    <3>1. h \in 0 .. n - 1
      BY <1>5, <2>2, HomeIs
    <3>2. M \in SUBSET (0 .. n - 1) /\ StopsAt(T, n, h, M, i)
          /\ n \in Nat \ {0} /\ T \in Arrays(n) /\ \E f \in 0 .. n - 1 : T[f] = Empty
      BY <1>5, <2>1
    <3> HIDE DEF n, T, h, M
    <3>3. /\ i \in 0 .. n - 1 /\ (T[i] = Empty \/ i \in M)
          /\ \A j \in 0 .. n - 1 : Dist(n, h, j) < Dist(n, h, i) => T[j] # Empty
      BY <3>1, <3>2, StopFacts
    <3> QED
      BY <3>3 DEF n, T, h, M, Path
  <2> DEFINE t == PutAt(R.table, i, e)
             Q == bucket'[b]
  <2>4. Becomes(b, R.alloc, R.used, t)
    BY <1>1, <1>5, <2>1, <2>2, PutIs
  <2>5. Q.alloc = R.alloc /\ Q.used = R.used /\ Q.table = t /\ t = PutAt(R.table, i, e)
    BY <2>4 DEF Becomes
  <2>6. /\ Sound(t, R.alloc, {}, b)
        /\ i \notin Filled(R.table) /\ Filled(t) = Filled(R.table) \cup {i}
        /\ t[i] = e /\ \A j \in Filled(R.table) : t[j] = R.table[j]
    <3> DEFINE n == R.alloc
               T == R.table
    <3>1. n \in Nat \ {0} /\ Sound(T, n, {}, b) /\ i \in 0 .. n - 1 /\ T[i] = Empty
          /\ (\A j \in Filled(T) : T[j].key # e.key) /\ t = PutAt(T, i, e)
          /\ \A j \in Path(n, e.key, i) : T[j] # Empty
      BY <1>5, <2>2, <2>3
    <3> HIDE DEF n, T, t, e
    <3>2. /\ Sound(t, n, {}, b)
          /\ i \notin Filled(T) /\ Filled(t) = Filled(T) \cup {i}
          /\ t[i] = e /\ \A j \in Filled(T) : t[j] = T[j]
      BY <2>2, <3>1, PutFacts
    <3> QED
      BY <3>2 DEF n, T
  <2>7. Good(Q, b, {}, Left(loc.old, loc.i + 1), 0)
    <3> DEFINE L == Left(loc.old, loc.i)
               M == Left(loc.old, loc.i + 1)
    <3>1. /\ Cardinality(Filled(t)) = Cardinality(Filled(R.table)) + 1
          /\ Cardinality(Filled(R.table)) \in Nat
      BY <1>5, <2>6, AddOne
    <3>2. IsFiniteSet(M) /\ Cardinality(M) = Cardinality(L) - 1 /\ Cardinality(L) \in Nat \ {0}
      <4>1. IsFiniteSet(L) /\ loc.i \in L /\ M = L \ {loc.i}
        BY <1>3, <1>7
      <4> HIDE DEF L, M
      <4> QED
        BY <4>1, TakeOne, FS_RemoveElement
    <3>3. R.used = Cardinality(Filled(t)) + Cardinality(M)
      <4>1. R.used = Cardinality(Filled(R.table)) + Cardinality(L)
        BY <1>5
      <4> HIDE DEF L, M, t, R
      <4> QED
        BY <3>1, <3>2, <4>1
    <3> QED
      BY <1>5, <2>5, <2>6, <3>2, <3>3 DEF Good
  <2>8. ASSUME NEW x \in Left(loc.old, loc.i + 1), NEW j \in Filled(t)
        PROVE  loc.old[x].key # t[j].key
    <3>1. x \in Left(loc.old, loc.i) /\ x # loc.i /\ x \in Filled(loc.old) /\ loc.i \in Filled(loc.old)
      BY <1>3, <1>7
    <3>2. CASE j = i
      BY <1>1, <2>6, <3>1, <3>2 DEF Growing, OnceOnly
    <3>3. CASE j # i
      BY <1>1, <2>6, <3>1, <3>3 DEF Growing
    <3> QED
      BY <3>2, <3>3
  <2>9. Growing'
    BY <1>1, <1>2, <1>3, <1>4, <2>5, <2>7, <2>8 DEF Growing
  <2>10. \A c \in BucketId : c # b => Calm(c)'
    BY <1>1, <2>4 DEF AInv, Calm, Becomes
  <2>11. Gains(b, i, e)
    BY <2>3, <2>4, <2>5, <2>6 DEF Gains, Others, Stays, Becomes
  <2> QED
    BY <1>1, <1>3, <1>4, <1>7, <2>4, <2>9, <2>10, <2>11 DEF AInv, Becomes
<1> QED
  BY <1>6, <1>7

LEMMA GrownReady ==
  ASSUME AInv, Grown
  PROVE  /\ Left(loc.old, loc.i) = {} /\ Good(bucket[loc.b], loc.b, {}, {}, 0)
         /\ loc.elem \in Element /\ BucketOf(loc.elem.key) = loc.b /\ loc.b \in BucketId
<1>1. Growing /\ loc.b \in BucketId /\ loc.i \notin DOMAIN loc.old
  BY DEF AInv, Grown, LocType
<1>2. PICK m \in Nat : loc.old \in Arrays(m) /\ loc.i \in 0 .. m
  BY <1>1 DEF Growing
<1>3. Left(loc.old, loc.i) = {}
  <2>1. DOMAIN loc.old = 0 .. m - 1 /\ Filled(loc.old) \subseteq 0 .. m - 1
    BY <1>2, FilledFacts
  <2>2. loc.i = m
    BY <1>1, <1>2, <2>1
  <2> QED
    BY <1>2, <2>1, <2>2 DEF Left
<1> QED
  BY <1>1, <1>3 DEF Growing

LEMMA GrownAInv == ASSUME AInv, Grown PROVE AInv'
<1> DEFINE e == loc.elem
           b == loc.b
<1>1. e \in Element /\ b = BucketOf(e.key) /\ Good(bucket[b], b, {}, {}, 0)
  BY GrownReady
<1>2. DoInsert(e) /\ loc' \in LocType' /\ pc' = "idle" /\ b = loc.b
  BY NoLocIs DEF Grown
<1> HIDE DEF e, b
<1> QED
  BY <1>1, <1>2, InsertedAInv

-----------------------------------------------------------------------------
LEMMA TakenAInv ==
  ASSUME AInv, pc \in {"idle", "visit"}, NEW b \in BucketId,
         NEW i \in Filled(bucket[b].table), TakeOut(b, i), ret' \in AnswerType
  PROVE  AInv' /\ Loses(b, i) /\ loc'.b = b /\ loc'.i = i /\ pc' = "heal"
<1>1. /\ Loses(b, i)
      /\ Healing' /\ pc' = "heal" /\ loc' \in LocType' /\ loc'.b = b /\ loc'.i = i
  BY CalmNow, TakeOutStep DEF AInv
<1>2. \A c \in BucketId : c # b => Calm(c)'
  BY <1>1 DEF AInv, Calm, Loses, Others
<1> QED
  BY <1>1, <1>2 DEF AInv, Loses, Others

LEMMA RemoveByKeyStep ==
  ASSUME AInv, NEW k \in Key, RemoveByKey(k)
  PROVE  /\ AInv'
         /\ \/ /\ UNCHANGED <<bucket, loc, pc>> /\ ret' = Answer("remove", k, FALSE)
               /\ \A j \in Filled(TableOf(k)) : TableOf(k)[j].key # k
            \/ /\ ret' = Answer("remove", k, TRUE) /\ pc' = "heal"
               /\ \E i : Loses(BucketOf(k), i) /\ TableOf(k)[i].key = k
<1> DEFINE b == BucketOf(k)
<1>1. b \in BucketId /\ Good(bucket[BucketOf(k)], BucketOf(k), {}, {}, 3) /\ Idle
  BY BucketsExist, CalmNow DEF RemoveByKey, Idle
<1>2. PICK i : /\ KeyStopsAt(k, i)
               /\ ret' = Answer("remove", k, TableOf(k)[i] # Empty)
               /\ IF TableOf(k)[i] = Empty
                  THEN pc' = "idle" /\ UNCHANGED <<bucket, loc>>
                  ELSE TakeOut(b, i)
  BY DEF RemoveByKey
<1>3. /\ TableOf(k)[i] # Empty => i \in Filled(TableOf(k)) /\ TableOf(k)[i].key = k
      /\ TableOf(k)[i] = Empty => \A j \in Filled(TableOf(k)) : TableOf(k)[j].key # k
  BY <1>1, <1>2, KeyStopIn
<1>4. ret' \in AnswerType
  BY <1>2, AnswerIs
<1>5. CASE TableOf(k)[i] = Empty
  <2>1. AInv'
    BY <1>1, <1>2, <1>4, <1>5, SteadySame DEF Idle
  <2> QED
    BY <1>1, <1>2, <1>3, <1>5, <2>1 DEF Idle
<1>6. CASE TableOf(k)[i] # Empty
  <2>1. i \in Filled(bucket[b].table) /\ TakeOut(b, i) /\ pc \in {"idle", "visit"}
    BY <1>1, <1>2, <1>3, <1>6 DEF TableOf, Idle
  <2> HIDE DEF b
  <2>2. AInv' /\ Loses(b, i) /\ pc' = "heal"
    BY <1>1, <1>4, <2>1, TakenAInv
  <2> QED
    BY <1>2, <1>3, <1>6, <2>2 DEF b
<1> QED
  BY <1>5, <1>6

LEMMA TakeElementStep ==
  ASSUME AInv, pc \in {"idle", "visit"}, NEW e \in Element, TakeElement(e)
  PROVE  /\ AInv'
         /\ \/ /\ UNCHANGED <<bucket, loc>> /\ pc' = "idle"
               /\ ret' = Answer("removeThis", e.key, FALSE)
               /\ \A j \in Filled(TableOf(e.key)) : TableOf(e.key)[j] # e
            \/ /\ ret' = Answer("removeThis", e.key, TRUE) /\ pc' = "heal"
               /\ \E i : /\ Loses(BucketOf(e.key), i) /\ TableOf(e.key)[i] = e
                         /\ loc'.b = BucketOf(e.key) /\ loc'.i = i
<1> DEFINE b == BucketOf(e.key)
<1>1. b \in BucketId /\ Good(bucket[BucketOf(e.key)], BucketOf(e.key), {}, {}, 3) /\ e.key \in Key
  BY ElementFacts, BucketsExist, CalmNow
<1>2. PICK i : /\ ElementStopsAt(e, i)
               /\ ret' = Answer("removeThis", e.key, TableOf(e.key)[i] # Empty)
               /\ IF TableOf(e.key)[i] = Empty
                  THEN pc' = "idle" /\ UNCHANGED <<bucket, loc>>
                  ELSE TakeOut(b, i)
  BY DEF TakeElement
<1>3. /\ TableOf(e.key)[i] # Empty => i \in Filled(TableOf(e.key)) /\ TableOf(e.key)[i] = e
      /\ TableOf(e.key)[i] = Empty => \A j \in Filled(TableOf(e.key)) : TableOf(e.key)[j] # e
  BY <1>1, <1>2, ElementStopIn
<1>4. ret' \in AnswerType
  BY <1>1, <1>2, AnswerIs
<1>5. CASE TableOf(e.key)[i] = Empty
  <2>1. AInv'
    BY <1>1, <1>2, <1>4, <1>5, SteadySame
  <2> QED
    BY <1>1, <1>2, <1>3, <1>5, <2>1
<1>6. CASE TableOf(e.key)[i] # Empty
  <2>1. i \in Filled(bucket[b].table) /\ TakeOut(b, i)
    BY <1>1, <1>2, <1>3, <1>6 DEF TableOf
  <2> HIDE DEF b
  <2>2. AInv' /\ Loses(b, i) /\ pc' = "heal" /\ loc'.b = b /\ loc'.i = i
    BY <1>1, <1>4, <2>1, TakenAInv
  <2> QED
    BY <1>2, <1>3, <1>6, <2>2 DEF b
<1> QED
  BY <1>5, <1>6

(* A turn of the loop of healHole.                                         *)
MoveStep(b, i, k, e) == bucket' = [bucket EXCEPT ![b].table[i] = e, ![b].table[k] = Empty]

LEMMA MoveIs ==
  ASSUME bucket \in Buckets, NEW b \in BucketId, bucket[b].table \in Arrays(bucket[b].alloc),
         NEW i, NEW k \in Filled(bucket[b].table), MoveStep(b, i, k, bucket[b].table[k])
  PROVE  Becomes(b, bucket[b].alloc, bucket[b].used, Moved(bucket[b].table, i, k))
<1> DEFINE T == bucket[b].table
<1>1. bucket[b].alloc \in Nat /\ bucket[b].used \in Nat
  BY DEF Buckets, BucketSet
<1>2. Moved(T, i, k) \in Arrays(bucket[b].alloc)
  <2>1. T[k] \in Element
    BY <1>1, FilledFacts
  <2> QED
    BY <2>1 DEF Moved, Arrays
<1>3. bucket'[b] = [alloc |-> bucket[b].alloc, used |-> bucket[b].used, table |-> Moved(T, i, k)]
  <2> DEFINE M == [bucket EXCEPT ![b].table[i] = T[k]]
  <2>1. bucket' = [M EXCEPT ![b].table[k] = Empty]
    BY DEF MoveStep
  <2>2. /\ M[b] = [alloc |-> bucket[b].alloc, used |-> bucket[b].used, table |-> [T EXCEPT ![i] = T[k]]]
        /\ DOMAIN M = BucketId
    BY DEF Buckets, BucketSet
  <2>3. Moved(T, i, k) = [[T EXCEPT ![i] = T[k]] EXCEPT ![k] = Empty]
    BY DEF Moved
  <2> HIDE DEF M
  <2>4. bucket'[b] = [M[b] EXCEPT !.table[k] = Empty]
    BY <2>1, <2>2
  <2> QED
    BY <2>2, <2>3, <2>4
<1>4. (\A c \in BucketId \ {b} : bucket'[c] = bucket[c]) /\ bucket' = [c \in BucketId |-> bucket'[c]]
  <2> DEFINE M == [bucket EXCEPT ![b].table[i] = T[k]]
  <2>1. bucket' = [M EXCEPT ![b].table[k] = Empty]
    BY DEF MoveStep
  <2>2. DOMAIN M = BucketId /\ \A c \in BucketId \ {b} : M[c] = bucket[c]
    BY DEF Buckets, BucketSet
  <2> HIDE DEF M
  <2> QED
    BY <2>1, <2>2
<1> DEFINE t == Moved(T, i, k)
           n == bucket[b].alloc
           u == bucket[b].used
<1>5. /\ n \in Nat /\ u \in Nat /\ t \in Arrays(n)
      /\ bucket'[b] = [alloc |-> n, used |-> u, table |-> t]
  BY <1>1, <1>2, <1>3
<1> HIDE DEF t, n, u
<1>6. Becomes(b, n, u, t)
  BY <1>4, <1>5, OneBucket
<1> QED
  BY <1>6 DEF t, n, u

LEMMA HealTurnStep ==
  ASSUME AInv, HealTurn
  PROVE  /\ AInv' /\ loc.k \in Filled(bucket[loc.b].table)
         /\ \/ UNCHANGED bucket /\ loc'.i = loc.i
            \/ Moves(loc.b, loc.i, loc.k) /\ loc'.i = loc.k
         /\ loc'.b = loc.b /\ loc'.k = IncMod(loc.k, bucket[loc.b].alloc)
         /\ pc' = "heal" /\ UNCHANGED <<walk, ret>>
<1> DEFINE b == loc.b
           i == loc.i
           k == loc.k
           R == bucket[b]
           Q == bucket'[b]
<1>1. /\ pc = "heal" /\ Healing /\ b \in BucketId /\ loc \in LocType /\ bucket \in Buckets
      /\ pc' = "heal" /\ UNCHANGED <<walk, ret>> /\ R.table[k] # Empty
  BY DEF HealTurn, AInv, LocType
<1>2. /\ Good(R, b, Gap(i), {}, 0)
      /\ i \in 0 .. R.alloc - 1 /\ k \in 0 .. R.alloc - 1 /\ R.table[i] = Empty
      /\ Walked(R.table, R.alloc, i, k)
  BY <1>1 DEF Healing
<1>3. R.alloc \in Nat /\ R.alloc > 1 /\ R.table \in Arrays(R.alloc) /\ k \in Filled(R.table)
  <2>1. R.alloc \in Nat /\ R.alloc > 3 /\ R.table \in Arrays(R.alloc)
    <3> HIDE DEF R, i, b
    <3> QED
      BY <1>2, GoodFacts
  <2>2. k \in Filled(R.table)
    <3> DEFINE T == R.table
               n == R.alloc
    <3>1. n \in Nat /\ T \in Arrays(n) /\ k \in 0 .. n - 1 /\ T[k] # Empty
      BY <1>1, <1>2, <2>1
    <3> HIDE DEF T, n, k
    <3>2. k \in Filled(T)
      BY <3>1, FilledFacts
    <3> QED
      BY <3>2 DEF T
  <2> QED
    BY <2>1, <2>2
<1>4. IncMod(k, R.alloc) \in 0 .. R.alloc - 1 /\ IncMod(k, R.alloc) \in Nat
  <2> HIDE DEF R, k, i
  <2>1. IncMod(k, R.alloc) \in 0 .. R.alloc - 1
    BY <1>2, <1>3, IncIs
  <2> QED
    BY <2>1
<1>5. CASE MayMove(R.table, R.alloc, i, k)
  <2> DEFINE t == Moved(R.table, i, k)
  <2>1. /\ MoveStep(b, i, k, R.table[k])
        /\ loc' = [loc EXCEPT !.i = loc.k, !.k = IncMod(loc.k, R.alloc)]
    BY <1>5 DEF HealTurn, MayMove, MoveStep
  <2>2. Becomes(b, R.alloc, R.used, t)
    BY <1>1, <1>3, <2>1, MoveIs
  <2>3. Q.alloc = R.alloc /\ Q.used = R.used /\ Q.table = t /\ t = Moved(R.table, i, k)
    BY <2>2 DEF Becomes
  <2>4. /\ Good(Q, b, Gap(k), {}, 0)
        /\ t[k] = Empty /\ k \in 0 .. R.alloc - 1 /\ t[i] = R.table[k] /\ i \notin Filled(R.table)
        /\ Filled(t) = (Filled(R.table) \ {k}) \cup {i}
        /\ \A j \in Filled(R.table) \ {k} : t[j] = R.table[j]
        /\ Walked(t, R.alloc, k, IncMod(k, R.alloc))
    <3> HIDE DEF R, Q, t, b, i, k
    <3> QED
      BY <1>2, <1>3, <1>5, <2>3, GoodMove
  <2>5. loc'.b = b /\ loc'.i = k /\ loc'.k = IncMod(k, R.alloc) /\ loc' \in LocType'
    <3>1. loc' = [b |-> b, i |-> k, k |-> IncMod(k, R.alloc), elem |-> loc.elem, old |-> loc.old]
      BY <1>1, <2>1 DEF LocType
    <3> QED
      BY <1>1, <1>4, <3>1 DEF LocType
  <2>6. Healing'
    BY <1>4, <2>3, <2>4, <2>5 DEF Healing
  <2>7. Moves(b, i, k)
    BY <1>2, <1>3, <2>2, <2>3, <2>4 DEF Moves, Others, Stays, Becomes
  <2>8. \A c \in BucketId : c # b => Calm(c)'
    BY <1>1, <2>2 DEF AInv, Calm, Becomes
  <2> QED
    BY <1>1, <1>3, <2>2, <2>5, <2>6, <2>7, <2>8 DEF AInv, Becomes
<1>6. CASE ~MayMove(R.table, R.alloc, i, k)
  <2>1. UNCHANGED bucket /\ loc' = [loc EXCEPT !.k = IncMod(loc.k, R.alloc)]
    BY <1>6 DEF HealTurn, MayMove
  <2>2. loc'.b = b /\ loc'.i = i /\ loc'.k = IncMod(k, R.alloc) /\ loc' \in LocType'
    <3>1. loc' = [b |-> b, i |-> i, k |-> IncMod(k, R.alloc), elem |-> loc.elem, old |-> loc.old]
      BY <1>1, <2>1 DEF LocType
    <3> QED
      BY <1>1, <1>4, <3>1 DEF LocType
  <2>3. Walked(R.table, R.alloc, i, IncMod(k, R.alloc))
    <3> DEFINE n == R.alloc
               T == R.table
    <3>1. /\ n \in Nat /\ n > 1 /\ T \in Arrays(n) /\ i \in 0 .. n - 1 /\ T[i] = Empty
          /\ k \in Filled(T) /\ Walked(T, n, i, k) /\ ~MayMove(T, n, i, k)
      BY <1>2, <1>3, <1>6
    <3> HIDE DEF n, T, i, k
    <3> QED
      BY <3>1, SkipFacts DEF n, T
  <2>4. Healing'
    BY <1>2, <1>4, <2>1, <2>2, <2>3 DEF Healing
  <2>5. \A c \in BucketId : c # b => Calm(c)'
    BY <1>1, <2>1 DEF AInv, Calm
  <2> QED
    BY <1>1, <1>3, <2>1, <2>2, <2>4, <2>5 DEF AInv
<1> QED
  BY <1>5, <1>6

LEMMA HealedStep ==
  ASSUME AInv, Healed \/ RemoveThrows
  PROVE  /\ AInv' /\ ret' = ret
         /\ \/ UNCHANGED bucket
            \/ /\ Others(loc.b) /\ bucket'[loc.b] = NewBucket
               /\ Filled(bucket[loc.b].table) = {} /\ Filled(bucket'[loc.b].table) = {}
<1> DEFINE b == loc.b
           R == bucket[b]
<1>1. /\ pc = "heal" /\ Healing /\ b \in BucketId /\ bucket \in Buckets
      /\ R.table[loc.k] = Empty /\ loc' = NoLoc /\ UNCHANGED ret
      /\ pc' \in {"idle", "visit"}
  BY DEF Healed, RemoveThrows, AInv, LocType
<1>2. Good(R, b, {}, {}, 3)
  <2> DEFINE i == loc.i
             k == loc.k
  <2>1. /\ i \in 0 .. R.alloc - 1 /\ Good(R, b, Gap(i), {}, 0) /\ R.table[i] = Empty
        /\ k \in 0 .. R.alloc - 1 /\ R.table[k] = Empty /\ Walked(R.table, R.alloc, i, k)
    BY <1>1 DEF Healing
  <2> HIDE DEF i, k, R
  <2> QED
    BY <2>1, GoodHealed
<1>3. loc' \in LocType' /\ ret' \in AnswerType
  BY <1>1, NoLocIs DEF AInv
<1>4. CASE UNCHANGED bucket
  <2>1. AInv'
    BY <1>1, <1>2, <1>3, <1>4, Steady
  <2> QED
    BY <1>1, <1>4, <2>1
<1>5. CASE bucket' = [bucket EXCEPT ![b] = NewBucket] /\ R.used = 0
  <2>1. bucket' \in Buckets /\ bucket'[b] = NewBucket /\ \A c \in BucketId \ {b} : bucket'[c] = bucket[c]
    BY <1>1, <1>5, NewBucketGood DEF Buckets
  <2>2. Good(bucket'[b], b, {}, {}, 3)
    BY <2>1, NewBucketGood
  <2>3. AInv'
    BY <1>1, <1>3, <2>1, <2>2, Steady
  <2>4. Filled(R.table) = {}
    <3>1. R.used = Cardinality(Filled(R.table)) + Cardinality({}) /\ Cardinality({}) = 0
          /\ IsFiniteSet(Filled(R.table)) /\ Cardinality(Filled(R.table)) \in Nat
      BY <1>2, GoodFacts, FS_EmptySet DEF Good
    <3>2. Cardinality(Filled(R.table)) = 0
      BY <1>5, <3>1
    <3> QED
      BY <3>1, <3>2, FS_EmptySet
  <2>5. Filled(NewBucket.table) = {}
    BY AssocAssumption, NewTableFacts DEF NewBucket
  <2> QED
    BY <1>1, <2>1, <2>3, <2>4, <2>5 DEF Others
<1> QED
  BY <1>1, <1>4, <1>5 DEF Healed, RemoveThrows

-----------------------------------------------------------------------------
(* The elements that are stored, and where.                                *)
LEMMA GoodNow ==
  ASSUME AInv, NEW b \in BucketId
  PROVE  \E slack \in {0, 3} : Good(bucket[b], b, Hole(b), OldLeft(b), slack)
<1>1. OldLeft(b) = IF pc = "grow" /\ loc.b = b THEN Left(loc.old, loc.i) ELSE {}
  <2>1. pc = "grow" => \E m \in Nat : loc.old \in Arrays(m)
    BY DEF AInv, Growing
  <2>2. pc = "grow" /\ loc.b = b => OldLeft(b) = Left(loc.old, loc.i)
    BY DEF OldLeft, Left, Filled
  <2> QED
    BY <2>2 DEF OldLeft
<1>2. CASE pc = "grow" /\ b = loc.b
  <2>1. Hole(b) = {} /\ OldLeft(b) = Left(loc.old, loc.i)
    BY <1>1, <1>2 DEF Hole
  <2> QED
    BY <1>2, <2>1 DEF AInv, Growing
<1>3. CASE pc = "heal" /\ b = loc.b
  <2>1. Hole(b) = {loc.i} /\ OldLeft(b) = {}
    BY <1>1, <1>3 DEF Hole
  <2> QED
    BY <1>3, <2>1 DEF AInv, Healing, Gap
<1>4. CASE pc \in {"idle", "visit"} \/ b # loc.b
  <2>1. Hole(b) = {} /\ OldLeft(b) = {}
    BY <1>1, <1>4 DEF Hole
  <2> QED
    BY <1>4, <2>1 DEF AInv, Calm
<1> QED
  BY <1>2, <1>3, <1>4 DEF AInv

LEMMA ArrayNow ==
  ASSUME AInv, NEW b \in BucketId
  PROVE  /\ bucket[b].alloc \in Nat /\ bucket[b].alloc > 3
         /\ bucket[b].table \in Arrays(bucket[b].alloc)
         /\ DOMAIN bucket[b].table = 0 .. bucket[b].alloc - 1
         /\ Filled(bucket[b].table) \subseteq 0 .. bucket[b].alloc - 1
         /\ OnceOnly(bucket[b].table) /\ Local(bucket[b].table, b)
<1> DEFINE R == bucket[b]
           H == Hole(b)
           L == OldLeft(b)
<1>1. PICK slack \in {0, 3} : Good(R, b, H, L, slack)
  BY GoodNow
<1> HIDE DEF R, H, L
<1>2. /\ R.alloc \in Nat /\ R.alloc > 3 /\ R.table \in Arrays(R.alloc)
      /\ DOMAIN R.table = 0 .. R.alloc - 1 /\ Filled(R.table) \subseteq 0 .. R.alloc - 1
      /\ Sound(R.table, R.alloc, H, b)
  BY <1>1, GoodFacts
<1> QED
  BY <1>2 DEF R, Sound

LEMMA UsedIs ==
  ASSUME AInv
  PROVE  /\ \A b \in BucketId : \A i \in Filled(bucket[b].table) : <<b, i>> \in Used
         /\ \A c \in Used : /\ c[1] \in BucketId /\ c[2] \in Filled(bucket[c[1]].table)
                            /\ c = <<c[1], c[2]>>
                            /\ c[1] \in Nat /\ c[2] \in Nat /\ c[2] < bucket[c[1]].alloc
                            /\ At(c) \in Element /\ At(c).key \in Key
<1>1. \A b \in BucketId : \A i \in Filled(bucket[b].table) : <<b, i>> \in Used
  BY DEF Used, Filled
<1>2. \A b \in BucketId : b \in Nat
  BY BucketsExist DEF BucketId
<1>3. ASSUME NEW c \in Used
      PROVE  /\ c[1] \in BucketId /\ c[2] \in Filled(bucket[c[1]].table) /\ c = <<c[1], c[2]>>
             /\ c[1] \in Nat /\ c[2] \in Nat /\ c[2] < bucket[c[1]].alloc
             /\ At(c) \in Element /\ At(c).key \in Key
  <2>1. \E b \in BucketId : \E i \in Filled(bucket[b].table) : c = <<b, i>>
    BY DEF Used, Filled
  <2>0. PICK b \in BucketId : \E i \in Filled(bucket[b].table) : c = <<b, i>>
    BY <2>1
  <2>6. PICK i \in Filled(bucket[b].table) : c = <<b, i>>
    BY <2>0
  <2>2. c[1] = b /\ c[2] = i
    BY <2>6
  <2>3. /\ bucket[b].alloc \in Nat /\ bucket[b].table \in Arrays(bucket[b].alloc)
        /\ i \in 0 .. bucket[b].alloc - 1
    BY ArrayNow
  <2>4. bucket[b].table[i] \in Element /\ bucket[b].table[i].key \in Key
    BY <2>3, FilledFacts
  <2>5. i \in Nat /\ i < bucket[b].alloc
    BY <2>3
  <2> QED
    BY <1>2, <2>2, <2>4, <2>5, <2>6 DEF At
<1> QED
  BY <1>1, <1>3

LEMMA KeysApart ==
  ASSUME AInv, NEW c \in Used, NEW d \in Used, At(c).key = At(d).key
  PROVE  c = d
<1>1. /\ c[1] \in BucketId /\ c[2] \in Filled(bucket[c[1]].table) /\ c = <<c[1], c[2]>>
      /\ d[1] \in BucketId /\ d[2] \in Filled(bucket[d[1]].table) /\ d = <<d[1], d[2]>>
  BY UsedIs
<1>2. BucketOf(At(c).key) = c[1] /\ BucketOf(At(d).key) = d[1]
  BY <1>1, ArrayNow DEF At, Local
<1>3. c[2] = d[2]
  BY <1>1, <1>2, ArrayNow DEF At, OnceOnly
<1> QED
  BY <1>1, <1>2, <1>3

(* The steps that only look.                                               *)
LEMMA VisitRemovesAInv == ASSUME AInv, VisitRemoves PROVE AInv'
<1>1. PICK c \in Used : TakeElement(At(c))
  BY DEF VisitRemoves
<1>2. At(c) \in Element /\ pc \in {"idle", "visit"}
  BY UsedIs DEF VisitRemoves
<1> DEFINE e == At(c)
<1>3. e \in Element /\ TakeElement(e)
  BY <1>1, <1>2
<1> HIDE DEF e
<1> QED
  BY <1>2, <1>3, TakeElementStep

LEMMA LooksAInv ==
  ASSUME AInv,
         \/ \E d \in {"each", "removal"} : StartVisit(d)
         \/ VisitKeeps \/ VisitEnds
         \/ \E d, at : StartSequence(d, at)
         \/ \E d : \E k \in Key : FindPosition(d, k)
         \/ FindSequential \/ FindSequentialReverse
  PROVE  AInv' /\ UNCHANGED <<bucket, loc>> /\ pc \in {"idle", "visit"} /\ pc' \in {"idle", "visit"}
<1>0. Answer("iterate", NoValue, NoValue) \in AnswerType /\ ret \in AnswerType
  BY AnswerIs DEF AInv
<1>1. CASE \E d \in {"each", "removal"} : StartVisit(d)
  BY <1>0, <1>1, SteadySame DEF StartVisit, Idle
<1>2. CASE VisitKeeps
  BY <1>0, <1>2, SteadySame DEF VisitKeeps
<1>3. CASE VisitEnds
  BY <1>0, <1>3, SteadySame DEF VisitEnds
<1>4. CASE \E d, at : StartSequence(d, at)
  BY <1>0, <1>4, SteadySame DEF StartSequence, Idle
<1>5. CASE \E d : \E k \in Key : FindPosition(d, k)
  <2>0. PICK d : \E k \in Key : FindPosition(d, k)
    BY <1>5
  <2>1. PICK k \in Key : FindPosition(d, k)
    BY <2>0
  <2>2. ret' \in AnswerType /\ Idle
    BY <2>1, LookedIs DEF FindPosition
  <2> QED
    BY <2>1, <2>2, SteadySame DEF FindPosition, Idle
<1>6. CASE FindSequential
  BY <1>0, <1>6, SteadySame DEF FindSequential, Idle
<1>7. CASE FindSequentialReverse
  BY <1>0, <1>7, SteadySame DEF FindSequentialReverse, Idle
<1> QED
  BY <1>1, <1>2, <1>3, <1>4, <1>5, <1>6, <1>7

LEMMA NextAInv == ASSUME AInv, [Next]_vars PROVE AInv'
<1>1. CASE UNCHANGED vars
  BY <1>1 DEF vars, AInv, Buckets, BucketSet, Calm, Good, Growing, Healing, LocType, AnswerType
<1>2. ASSUME NEW k \in Key, Find(k) PROVE AInv'
  BY <1>2, FindAInv
<1>3. ASSUME NEW k \in Key, RemoveByKey(k) PROVE AInv'
  BY <1>3, RemoveByKeyStep
<1>4. ASSUME NEW e \in Element, Insert(e) PROVE AInv'
  BY <1>4, InsertAInv
<1>5. ASSUME NEW e \in Element, InsertGrows(e) PROVE AInv'
  BY <1>5, GrowsAInv
<1>6. ASSUME NEW e \in Element, InsertThrows(e) PROVE AInv'
  BY <1>6, InsertThrowsAInv
<1>7. ASSUME NEW e \in Element, Remove(e) PROVE AInv'
  BY <1>7, TakeElementStep DEF Remove, Idle
<1>8. ASSUME NEW e \in Element, WriteValue(e) PROVE AInv'
  BY <1>8, WriteAInv
<1>9. ASSUME NEW d \in {"each", "removal"}, StartVisit(d) PROVE AInv'
  BY <1>9, LooksAInv
<1>10. ASSUME NEW d, NEW at, StartSequence(d, at) PROVE AInv'
  BY <1>10, LooksAInv
<1>11. ASSUME NEW d, NEW k \in Key, FindPosition(d, k) PROVE AInv'
  BY <1>11, LooksAInv
<1>12. CASE FindSequential \/ FindSequentialReverse \/ VisitKeeps \/ VisitEnds
  BY <1>12, LooksAInv
<1>13. CASE VisitRemoves
  BY <1>13, VisitRemovesAInv
<1>14. CASE Rehash
  BY <1>14, RehashStep
<1>15. CASE Grown
  BY <1>15, GrownAInv
<1>16. CASE HealTurn
  BY <1>16, HealTurnStep
<1>17. CASE Healed \/ RemoveThrows
  BY <1>17, HealedStep
<1> QED
  BY <1>1, <1>2, <1>3, <1>4, <1>5, <1>6, <1>7, <1>8, <1>9, <1>10, <1>11, <1>12, <1>13,
     <1>14, <1>15, <1>16, <1>17 DEF Next, Loop

(* The arrays are sound at every step: elements can be found, no key is    *)
(* there twice, no array is full, and the number of elements is right.     *)
THEOREM ArrayInvariant == Spec => []AInv
<1>1. Init => AInv
  BY InitAInv
<1>2. AInv /\ [Next]_vars => AInv'
  BY NextAInv
<1> QED
  BY <1>1, <1>2, PTL DEF Spec

(* A search ends and finds what is stored, for every hash function and     *)
(* every number of buckets (findByKey, lines 446-472, and healHole).       *)
THEOREM SearchableTheorem == Spec => []Searchable
<1>1. AInv => Searchable
  <2> SUFFICES ASSUME AInv, NEW b \in BucketId
               PROVE  LET T == bucket[b].table n == bucket[b].alloc IN
                        /\ \E i \in DOMAIN T : T[i] = Empty
                        /\ \A i \in DOMAIN T : T[i] # Empty =>
                             \A j \in DOMAIN T \ Hole(b) :
                               Dist(n, Home(T[i].key, n), j) < Dist(n, Home(T[i].key, n), i)
                                 => T[j] # Empty
    BY DEF Searchable
  <2> DEFINE R == bucket[b]
             H == Hole(b)
             L == OldLeft(b)
  <2>1. PICK slack \in {0, 3} : Good(R, b, H, L, slack)
    BY GoodNow
  <2> HIDE DEF R, H, L
  <2>2. /\ DOMAIN R.table = 0 .. R.alloc - 1
        /\ Sound(R.table, R.alloc, H, b)
        /\ \E i \in 0 .. R.alloc - 1 : R.table[i] = Empty
    BY <2>1, GoodFacts
  <2>3. ASSUME NEW i \in DOMAIN R.table, R.table[i] # Empty, NEW j \in DOMAIN R.table \ H,
               Dist(R.alloc, Home(R.table[i].key, R.alloc), j)
                 < Dist(R.alloc, Home(R.table[i].key, R.alloc), i)
        PROVE  R.table[j] # Empty
    BY <2>2, <2>3 DEF Sound, NoGap, Path, Filled
  <2>4. /\ \E i \in DOMAIN R.table : R.table[i] = Empty
        /\ \A i \in DOMAIN R.table : R.table[i] # Empty =>
             \A j \in DOMAIN R.table \ H :
               Dist(R.alloc, Home(R.table[i].key, R.alloc), j)
                 < Dist(R.alloc, Home(R.table[i].key, R.alloc), i) => R.table[j] # Empty
    BY <2>2, <2>3
  <2> QED
    BY <2>4 DEF R, H
<1> QED
  BY <1>1, ArrayInvariant, PTL

LEMMA UsedInBucket ==
  ASSUME AInv, NEW b \in BucketId
  PROVE  LET C == {c \in Used : c[1] = b}
         IN IsFiniteSet(C) /\ Cardinality(C) = Cardinality(Filled(bucket[b].table))
<1> DEFINE C == {c \in Used : c[1] = b}
           F == Filled(bucket[b].table)
           f == [i \in F |-> <<b, i>>]
<1>1. IsFiniteSet(F)
  BY ArrayNow, CountFacts
<1>2. f \in Bijection(F, C)
  <2>1. \A i \in F : f[i] \in C
    BY UsedIs
  <2>2. \A i, j \in F : f[i] = f[j] => i = j
    OBVIOUS
  <2>3. \A c \in C : c[2] \in F /\ f[c[2]] = c
    BY UsedIs
  <2> HIDE DEF C, F
  <2>4. f \in [F -> C] /\ \A c \in C : \E i \in F : f[i] = c
    BY <2>1, <2>3
  <2> HIDE DEF f
  <2> QED
    BY <2>2, <2>4, Fun_IsBij
<1> HIDE DEF f, C, F
<1>3. ExistsBijection(F, C)
  BY <1>2 DEF ExistsBijection
<1>4. IsFiniteSet(C) /\ Cardinality(C) = Cardinality(F)
  BY <1>1, <1>3, FS_Bijection
<1> QED
  BY <1>4 DEF C, F

(* _nrUsed is right whatever is inserted and removed, also while an array  *)
(* is filled anew: an array is thrown away only when it is empty.          *)
THEOREM UsedCountTheorem == Spec => []UsedCount
<1>1. AInv => UsedCount
  <2> SUFFICES ASSUME AInv, NEW b \in BucketId
               PROVE  bucket[b].used = Cardinality({c \in Used : c[1] = b}) + Cardinality(OldLeft(b))
    BY DEF UsedCount
  <2>1. bucket[b].used = Cardinality(Filled(bucket[b].table)) + Cardinality(OldLeft(b))
    BY GoodNow DEF Good
  <2>2. Cardinality({c \in Used : c[1] = b}) = Cardinality(Filled(bucket[b].table))
    BY UsedInBucket
  <2> QED
    BY <2>1, <2>2
<1> QED
  BY <1>1, ArrayInvariant, PTL

-----------------------------------------------------------------------------
(* Iterations: what they have still to answer is what is stored from their *)
(* position on.  While the callback's removal is healed, the loop has not  *)
(* come back to the position of the iteration, which is before the hole.   *)
From(p)   == {c \in Used : ~Before(c, p)}
UpTo(p)   == {c \in Used : ~Before(p, c)}
KeysAt(C) == {At(c).key : c \in C}
LastPlace == <<NrBuckets - 1, bucket[NrBuckets - 1].alloc - 1>>

InPlace(p) == /\ p[1] \in BucketId /\ p[2] \in 0 .. bucket[p[1]].alloc - 1
              /\ p = <<p[1], p[2]>>
Place(p)   == p \in {NewStart, Restart, End} \/ InPlace(p)
Backwards(p) == IF p \in {NewStart, Restart} THEN LastPlace ELSE p

(* What findSequentialReverse does not come to: line 820 looks at the       *)
(* position before it looks whether an element was found there.            *)
LeftOut == {At(c).key : c \in Used \cap {<<0, 0>>}}

ToAnswer(dir, at, todo, complete) ==
  IF complete THEN todo = IF dir = "backward" THEN LeftOut ELSE {}
  ELSE /\ dir \in {"each", "forward"} => todo = KeysAt(From(at))
       /\ dir = "removal" => todo \subseteq KeysAt(From(at))
       /\ dir = "backward" => todo = KeysAt(UpTo(Backwards(at)))

(* The loop of healHole is at k, n positions are used all around.          *)
Around(T, n, s, i, k) ==
  /\ Dist(n, s, i) < Dist(n, s, k)
  /\ \A m \in 0 .. n - 1 : m # i /\ Dist(n, s, m) < Dist(n, s, k) => T[m] # Empty

Removing ==
  /\ walk.at = <<loc.b, walk.at[2]>> /\ walk.at[2] \in 0 .. bucket[loc.b].alloc - 1
  /\ Around(bucket[loc.b].table, bucket[loc.b].alloc, walk.at[2], loc.i, loc.k)

Directions == {"none", "each", "removal", "forward", "backward"}

WInv ==
  /\ walk \in [dir : Directions, at : {walk.at}, todo : SUBSET Key, complete : BOOLEAN]
  /\ Place(walk.at)
  /\ ToAnswer(walk.dir, walk.at, walk.todo, walk.complete)
  /\ pc = "grow" => walk = NoWalk
  /\ pc = "heal" => walk = NoWalk \/ (Visiting /\ Removing)
  /\ pc = "visit" => walk.dir \in {"each", "removal"} /\ ~walk.complete

LEMMA PlaceFacts ==
  ASSUME AInv
  PROVE  /\ \A p : Place(p) => p[1] \in Int /\ p[2] \in Int
         /\ \A p : InPlace(p) => p[1] \in Nat /\ p[2] \in Nat /\ p \notin {NewStart, Restart}
         /\ \A b \in BucketId : \A i : i \in 0 .. bucket[b].alloc - 1 => InPlace(<<b, i>>)
         /\ \A c \in Used : InPlace(c)
         /\ InPlace(<<0, 0>>) /\ InPlace(LastPlace)
         /\ Place(NewStart) /\ Place(Restart) /\ Place(End)
         /\ NrBuckets \in Nat /\ \A b \in BucketId : b \in 0 .. NrBuckets - 1
<1>0. NrBuckets \in Nat \ {0} /\ BucketId = 0 .. NrBuckets - 1
  BY BucketsExist DEF BucketId
<1>1. \A b \in BucketId : b \in Int /\ b \in Nat /\ bucket[b].alloc \in Nat /\ bucket[b].alloc > 3
  BY <1>0, ArrayNow
<1>2. ASSUME NEW p, InPlace(p)
      PROVE  p[1] \in Nat /\ p[2] \in Nat /\ p[1] \in Int /\ p[2] \in Int
             /\ p \notin {NewStart, Restart}
  <2> DEFINE a == bucket[p[1]].alloc
  <2>1. p[1] \in BucketId /\ p[2] \in 0 .. a - 1 /\ a \in Nat /\ p = <<p[1], p[2]>>
    BY <1>1, <1>2 DEF InPlace
  <2>2. p[1] \in Nat /\ p[2] \in Nat
    <3> HIDE DEF a
    <3> QED
      BY <1>1, <2>1
  <2>3. p # NewStart /\ p # Restart
    BY <2>1, <2>2 DEF NewStart, Restart
  <2> QED
    BY <2>2, <2>3
<1>3. \A p \in {NewStart, Restart, End} : p[1] \in Int /\ p[2] \in Int
  BY <1>0 DEF NewStart, Restart, End
<1>4. \A b \in BucketId : \A i : i \in 0 .. bucket[b].alloc - 1 => InPlace(<<b, i>>)
  BY DEF InPlace
<1>5. \A c \in Used : InPlace(c)
  <2> SUFFICES ASSUME NEW c \in Used PROVE InPlace(c)
    OBVIOUS
  <2> DEFINE a == bucket[c[1]].alloc
  <2>1. /\ c[1] \in BucketId /\ c[2] \in Nat /\ c[2] < a /\ c = <<c[1], c[2]>>
    BY UsedIs
  <2>2. a \in Nat
    BY <1>1, <2>1
  <2>3. c[2] \in 0 .. a - 1
    <3> HIDE DEF a
    <3> QED
      BY <2>1, <2>2
  <2> QED
    BY <2>1, <2>3 DEF InPlace
<1>6. InPlace(<<0, 0>>) /\ InPlace(LastPlace)
  <2>1. 0 \in BucketId /\ NrBuckets - 1 \in BucketId
    BY <1>0
  <2>2. 0 \in 0 .. bucket[0].alloc - 1
        /\ bucket[NrBuckets - 1].alloc - 1 \in 0 .. bucket[NrBuckets - 1].alloc - 1
    BY <1>1, <2>1
  <2> QED
    BY <1>4, <2>1, <2>2 DEF LastPlace
<1> QED
  BY <1>0, <1>2, <1>3, <1>4, <1>5, <1>6 DEF Place

(* All there is.                                                           *)
LEMMA AllPlaces ==
  ASSUME AInv
  PROVE  /\ \A p \in {<<0, 0>>, NewStart, Restart} : From(p) = Used
         /\ UpTo(LastPlace) = Used /\ KeysAt(Used) = Keys /\ Keys \subseteq Key
         /\ \A C \in SUBSET Used : KeysAt(C) \subseteq Key
<1>1. \A c \in Used : /\ c[1] \in Nat /\ c[2] \in Nat /\ c[1] <= NrBuckets - 1
                      /\ c[1] = NrBuckets - 1 => c[2] <= bucket[NrBuckets - 1].alloc - 1
  <2> SUFFICES ASSUME NEW c \in Used
               PROVE  /\ c[1] \in Nat /\ c[2] \in Nat /\ c[1] <= NrBuckets - 1
                      /\ c[1] = NrBuckets - 1 => c[2] <= bucket[NrBuckets - 1].alloc - 1
    OBVIOUS
  <2>1. c[1] \in 0 .. NrBuckets - 1 /\ c[2] \in Nat /\ c[2] < bucket[c[1]].alloc
        /\ bucket[c[1]].alloc \in Nat /\ NrBuckets \in Nat
    BY UsedIs, PlaceFacts, ArrayNow
  <2> DEFINE a == bucket[c[1]].alloc
  <2>2. c[1] \in Nat /\ c[1] <= NrBuckets - 1 /\ c[2] <= a - 1
    <3> HIDE DEF a
    <3> QED
      BY <2>1 DEF a
  <2> QED
    BY <2>1, <2>2
<1>2. \A p \in {<<0, 0>>, NewStart, Restart} : From(p) = Used
  BY <1>1 DEF From, Before, NewStart, Restart
<1>3. UpTo(LastPlace) = Used
  <2>0. NrBuckets \in Nat /\ bucket[NrBuckets - 1].alloc \in Nat
    BY PlaceFacts, ArrayNow, BucketsExist DEF BucketId
  <2> DEFINE a == bucket[NrBuckets - 1].alloc
  <2>1. LastPlace = <<NrBuckets - 1, a - 1>>
    BY DEF LastPlace
  <2>2. \A c \in Used : ~Before(<<NrBuckets - 1, a - 1>>, c)
    <3> HIDE DEF a
    <3> QED
      BY <1>1, <2>0 DEF Before, a
  <2> QED
    BY <2>1, <2>2 DEF UpTo
<1>4. KeysAt(Used) = Keys /\ \A C \in SUBSET Used : KeysAt(C) \subseteq Key
  BY UsedIs DEF KeysAt, Keys
<1> QED
  BY <1>2, <1>3, <1>4

LEMMA KeysWithout ==
  ASSUME AInv, NEW C \in SUBSET Used, NEW c \in C
  PROVE  KeysAt(C \ {c}) = KeysAt(C) \ {At(c).key} /\ At(c).key \in KeysAt(C)
<1>1. \A d \in C : At(d).key = At(c).key => d = c
  BY KeysApart
<1> QED
  BY <1>1 DEF KeysAt

(* The next position, forward and backward.                                *)
LEMMA AfterIs ==
  ASSUME AInv, NEW p, Place(p), NEW c \in Used, FirstFrom(p, c)
  PROVE  /\ Place(After(c)) /\ c \in From(p)
         /\ From(After(c)) = From(p) \ {c}
<1> DEFINE a == bucket[c[1]].alloc
<1>1. /\ p[1] \in Int /\ p[2] \in Int /\ NrBuckets \in Nat
      /\ c[1] \in 0 .. NrBuckets - 1 /\ c[2] \in Nat /\ c[2] < a /\ a \in Nat
  BY PlaceFacts, UsedIs, ArrayNow
<1>2. ~Before(c, p) /\ \A x \in Used : ~Before(x, p) => ~Before(x, c)
  BY DEF FirstFrom
<1>3. ASSUME NEW x \in Used PROVE x \in From(After(c)) <=> x \in From(p) \ {c}
  <2>1. /\ x[1] \in Nat /\ x[2] \in Nat /\ x = <<x[1], x[2]>> /\ c = <<c[1], c[2]>>
        /\ x[1] = c[1] => x[2] < a
    BY UsedIs
  <2>2. ~Before(x, After(c)) <=> Before(c, x)
    <3>1. After(c) = IF c[2] + 1 = a THEN <<c[1] + 1, 0>> ELSE <<c[1], c[2] + 1>>
      BY DEF After
    <3> HIDE DEF a
    <3>2. CASE c[2] + 1 = a
      BY <1>1, <2>1, <3>1, <3>2 DEF Before
    <3>3. CASE c[2] + 1 # a
      BY <1>1, <2>1, <3>1, <3>3 DEF Before
    <3> QED
      BY <3>2, <3>3
  <2>3. Before(c, x) => ~Before(x, p) /\ x # c
    BY <1>1, <1>2, <2>1 DEF Before
  <2>4. ~Before(x, p) /\ x # c => Before(c, x)
    <3>1. x # c => x[1] # c[1] \/ x[2] # c[2]
      BY <2>1
    <3> QED
      BY <1>1, <1>2, <2>1, <3>1 DEF Before
  <2> QED
    BY <2>2, <2>3, <2>4 DEF From
<1>4. Place(After(c))
  <2>1. CASE c[2] + 1 = a
    <3>1. After(c) = <<c[1] + 1, 0>>
      BY <2>1 DEF After
    <3>2. CASE c[1] + 1 = NrBuckets
      BY <3>1, <3>2 DEF Place, End
    <3>3. CASE c[1] + 1 # NrBuckets
      <4>1. c[1] + 1 \in BucketId
        <5> HIDE DEF a
        <5> QED
          BY <1>1, <3>3 DEF BucketId
      <4>2. 0 \in 0 .. bucket[c[1] + 1].alloc - 1
        BY <4>1, ArrayNow
      <4> QED
        BY <3>1, <4>1, <4>2, PlaceFacts DEF Place
    <3> QED
      BY <3>2, <3>3
  <2>2. CASE c[2] + 1 # a
    <3>1. After(c) = <<c[1], c[2] + 1>> /\ c[1] \in BucketId
      BY <2>2, UsedIs DEF After
    <3>2. c[2] + 1 \in 0 .. a - 1
      <4> HIDE DEF a
      <4> QED
        BY <1>1, <2>2
    <3> QED
      BY <3>1, <3>2, PlaceFacts DEF Place
  <2> QED
    BY <2>1, <2>2
<1> QED
  BY <1>2, <1>3, <1>4 DEF From

LEMMA AheadIs ==
  ASSUME AInv, NEW p, p[1] \in Int, p[2] \in Int,
         NEW c \in Used, c # <<0, 0>>, LastFrom(Used \ {<<0, 0>>}, p, c)
  PROVE  /\ InPlace(Ahead(c)) /\ c \in UpTo(p)
         /\ UpTo(Ahead(c)) = UpTo(p) \ {c}
<1> DEFINE a == bucket[c[1] - 1].alloc
<1>1. /\ c[1] \in Nat /\ c[2] \in Nat /\ c[1] \in BucketId /\ c = <<c[1], c[2]>>
      /\ c[2] < bucket[c[1]].alloc /\ bucket[c[1]].alloc \in Nat
      /\ NrBuckets \in Nat /\ c[1] \in 0 .. NrBuckets - 1
  BY PlaceFacts, UsedIs, ArrayNow
<1>2. c[1] > 0 => c[1] - 1 \in BucketId /\ a \in Nat /\ a > 3
  <2> HIDE DEF a
  <2>1. c[1] > 0 => c[1] - 1 \in BucketId
    BY <1>1 DEF BucketId
  <2> QED
    BY <2>1, ArrayNow DEF a
<1>3. ~Before(p, c) /\ \A x \in Used \ {<<0, 0>>} : ~Before(p, x) => ~Before(c, x)
  BY DEF LastFrom
<1>4. Ahead(c) = IF c[2] > 0 THEN <<c[1], c[2] - 1>> ELSE <<c[1] - 1, a - 1>>
  BY DEF Ahead
<1>5. c[2] > 0 \/ c[1] > 0
  <2>1. c[1] # 0 \/ c[2] # 0
    BY <1>1
  <2> QED
    BY <1>1, <2>1
<1>6. ASSUME NEW x \in Used PROVE x \in UpTo(Ahead(c)) <=> x \in UpTo(p) \ {c}
  <2>1. /\ x[1] \in Nat /\ x[2] \in Nat /\ x = <<x[1], x[2]>>
        /\ x[1] = c[1] - 1 => x[2] < a
    BY UsedIs
  <2>2. ~Before(Ahead(c), x) <=> Before(x, c)
    <3> HIDE DEF a
    <3>1. CASE c[2] > 0
      BY <1>1, <1>4, <2>1, <3>1 DEF Before
    <3>2. CASE ~(c[2] > 0)
      <4>1. c[2] = 0 /\ c[1] > 0 /\ a \in Nat /\ Ahead(c) = <<c[1] - 1, a - 1>>
        BY <1>1, <1>2, <1>4, <1>5, <3>2
      <4> QED
        BY <1>1, <2>1, <4>1 DEF Before
    <3> QED
      BY <3>1, <3>2
  <2>3. Before(x, c) => ~Before(p, x) /\ x # c
    BY <1>1, <1>3, <2>1 DEF Before
  <2>4. ~Before(p, x) /\ x # c => Before(x, c)
    <3>1. x # c => x[1] # c[1] \/ x[2] # c[2]
      BY <1>1, <2>1
    <3>2. CASE x = <<0, 0>>
      <4>1. x[1] = 0 /\ x[2] = 0
        BY <3>2
      <4> QED
        BY <1>1, <1>5, <4>1 DEF Before
    <3>3. CASE x # <<0, 0>>
      BY <1>1, <1>3, <2>1, <3>1, <3>3 DEF Before
    <3> QED
      BY <3>2, <3>3
  <2> QED
    BY <2>2, <2>3, <2>4 DEF UpTo
<1>7. InPlace(Ahead(c))
  <2>1. CASE c[2] > 0
    <3>1. c[2] - 1 \in 0 .. bucket[c[1]].alloc - 1
      BY <1>1, <2>1
    <3> QED
      BY <1>1, <1>4, <2>1, <3>1, PlaceFacts
  <2>2. CASE ~(c[2] > 0)
    <3>1. c[1] - 1 \in BucketId /\ a - 1 \in 0 .. a - 1
      <4> HIDE DEF a
      <4> QED
        BY <1>2, <1>5, <2>2
    <3> QED
      BY <1>4, <2>2, <3>1, PlaceFacts
  <2> QED
    BY <2>1, <2>2
<1> QED
  BY <1>3, <1>6, <1>7 DEF UpTo

(* The walk, action by action.                                             *)
LEMMA NoWalkWInv == ASSUME walk' = NoWalk, pc' \in {"idle", "grow", "heal"} PROVE WInv'
BY DEF WInv, NoWalk, Place, ToAnswer, Directions

LEMMA SetWalk ==
  ASSUME UNCHANGED bucket, NEW d \in Directions, NEW at, Place(at),
         NEW todo \in SUBSET Key, NEW full \in BOOLEAN, ToAnswer(d, at, todo, full),
         walk' = [dir |-> d, at |-> at, todo |-> todo, complete |-> full],
         pc' = "idle" \/ (pc' = "visit" /\ d \in {"each", "removal"} /\ ~full)
  PROVE  WInv'
<1>1. Place(at)'
  BY DEF Place, InPlace
<1>2. Used' = Used /\ LastPlace' = LastPlace /\ \A c : At(c)' = At(c)
  BY DEF Used, At, LastPlace
<1>3. LeftOut' = LeftOut /\ KeysAt(From(at))' = KeysAt(From(at))
      /\ KeysAt(UpTo(Backwards(at)))' = KeysAt(UpTo(Backwards(at)))
  BY <1>2 DEF LeftOut, KeysAt, From, UpTo, Backwards
<1>4. ToAnswer(d, at, todo, full)'
  BY <1>3 DEF ToAnswer
<1>5. walk'.dir = d /\ walk'.at = at /\ walk'.todo = todo /\ walk'.complete = full
  OBVIOUS
<1>6. /\ walk' \in [dir : Directions, at : {walk'.at}, todo : SUBSET Key, complete : BOOLEAN]
      /\ Place(walk.at)' /\ ToAnswer(walk.dir, walk.at, walk.todo, walk.complete)'
  BY <1>1, <1>4, <1>5
<1> QED
  BY <1>5, <1>6 DEF WInv

LEMMA StartVisitWInv ==
  ASSUME AInv, NEW d \in {"each", "removal"}, StartVisit(d) PROVE WInv'
<1> DEFINE at == <<0, 0>>
           todo == Keys
<1>1. From(at) = Used /\ KeysAt(Used) = todo /\ todo \in SUBSET Key /\ Place(at)
  BY AllPlaces, PlaceFacts DEF Place
<1>2. ToAnswer(d, at, todo, FALSE)
  BY <1>1 DEF ToAnswer
<1>3. /\ walk' = [dir |-> d, at |-> at, todo |-> todo, complete |-> FALSE]
      /\ UNCHANGED bucket /\ pc' = "visit" /\ d \in Directions
  BY DEF StartVisit, Directions
<1> HIDE DEF at, todo
<1> QED
  BY <1>1, <1>2, <1>3, SetWalk

LEMMA StartSequenceWInv ==
  ASSUME AInv, NEW d \in {"forward", "backward"}, NEW at \in {NewStart, Restart},
         StartSequence(d, at)
  PROVE  WInv'
<1> DEFINE todo == Keys
<1>1. /\ From(at) = Used /\ UpTo(Backwards(at)) = Used /\ KeysAt(Used) = todo
      /\ todo \in SUBSET Key /\ Place(at)
  BY AllPlaces, PlaceFacts DEF Backwards
<1>2. ToAnswer(d, at, todo, FALSE)
  BY <1>1 DEF ToAnswer
<1>3. /\ walk' = [dir |-> d, at |-> at, todo |-> todo, complete |-> FALSE]
      /\ UNCHANGED bucket /\ pc' = "idle" /\ d \in Directions
  BY DEF StartSequence, Directions
<1> HIDE DEF todo
<1> QED
  BY <1>1, <1>2, <1>3, SetWalk

LEMMA FindPositionWInv ==
  ASSUME AInv, NEW d \in {"forward", "backward"}, NEW k \in Key, FindPosition(d, k)
  PROVE  WInv'
<1>1. PICK i \in DOMAIN TableOf(k) :
        LET c == <<BucketOf(k), i>>
            Later == {x \in Used : IF d = "forward" THEN ~Before(x, c) ELSE ~Before(c, x)}
        IN /\ Looked(k, i)
           /\ walk' = [dir |-> d, at |-> c, todo |-> {At(x).key : x \in Later},
                       complete |-> FALSE]
  BY DEF FindPosition
<1> DEFINE at == <<BucketOf(k), i>>
           C == IF d = "forward" THEN From(at) ELSE UpTo(at)
           todo == KeysAt(C)
<1>2. InPlace(at)
  BY <1>1, LookedIs, PlaceFacts, BucketsExist DEF FindPosition
<1>3. walk' = [dir |-> d, at |-> at, todo |-> todo, complete |-> FALSE]
  <2>1. CASE d = "forward"
    BY <1>1, <2>1 DEF From, KeysAt
  <2>2. CASE d = "backward"
    BY <1>1, <2>2 DEF UpTo, KeysAt
  <2> QED
    BY <2>1, <2>2
<1>4. C \subseteq Used
  BY DEF From, UpTo
<1>5. todo \in SUBSET Key
  <2> HIDE DEF C
  <2> QED
    BY <1>4, AllPlaces
<1>6. Backwards(at) = at
  BY <1>2, PlaceFacts DEF Backwards
<1>7. ToAnswer(d, at, todo, FALSE)
  <2> HIDE DEF at
  <2> QED
    BY <1>6 DEF ToAnswer
<1>8. UNCHANGED bucket /\ pc' = "idle" /\ d \in Directions /\ Place(at)
  BY <1>2 DEF FindPosition, Directions, Place
<1> HIDE DEF at, todo
<1> QED
  BY <1>3, <1>5, <1>7, <1>8, SetWalk

(* An element is answered.                                                 *)
LEMMA AnsweredWInv ==
  ASSUME AInv, WInv, NEW c \in Used, NEW next,
         ~walk.complete, walk.dir # "none",
         \/ walk.dir # "backward" /\ FirstFrom(walk.at, c) /\ next = After(c)
         \/ /\ walk.dir = "backward" /\ c # <<0, 0>>
            /\ LastFrom(Used \ {<<0, 0>>}, Backwards(walk.at), c) /\ next = Ahead(c)
  PROVE  /\ Place(next)
         /\ ToAnswer(walk.dir, next, walk.todo \ {At(c).key}, FALSE)
         /\ walk.todo \ {At(c).key} \in SUBSET Key
         /\ walk.dir # "removal" => walk.todo \ {At(c).key} # walk.todo
<1> DEFINE p == walk.at
           q == Backwards(p)
<1>1. /\ Place(p) /\ walk.todo \in SUBSET Key /\ walk.dir \in Directions
      /\ ToAnswer(walk.dir, p, walk.todo, FALSE)
  BY DEF WInv
<1>2. CASE walk.dir # "backward" /\ FirstFrom(p, c) /\ next = After(c)
  <2>1. Place(next) /\ c \in From(p) /\ From(next) = From(p) \ {c}
    <3> HIDE DEF p
    <3> QED
      BY <1>1, <1>2, AfterIs
  <2>2. From(p) \in SUBSET Used
    BY DEF From
  <2> DEFINE C == From(p)
  <2>3. KeysAt(From(next)) = KeysAt(From(p)) \ {At(c).key} /\ At(c).key \in KeysAt(From(p))
    <3>1. C \in SUBSET Used /\ c \in C /\ From(next) = C \ {c}
      BY <2>1, <2>2
    <3> HIDE DEF C
    <3>2. KeysAt(C \ {c}) = KeysAt(C) \ {At(c).key} /\ At(c).key \in KeysAt(C)
      BY <3>1, KeysWithout
    <3> QED
      BY <3>1, <3>2 DEF C
  <2>4. walk.dir \in {"each", "forward"} => walk.todo = KeysAt(From(p))
    BY <1>1 DEF ToAnswer
  <2>5. walk.dir = "removal" => walk.todo \subseteq KeysAt(From(p))
    BY <1>1 DEF ToAnswer
  <2>6. ToAnswer(walk.dir, next, walk.todo \ {At(c).key}, FALSE)
    BY <1>2, <2>3, <2>4, <2>5 DEF ToAnswer
  <2> QED
    BY <1>1, <1>2, <2>1, <2>3, <2>4, <2>6 DEF Directions
<1>3. CASE /\ walk.dir = "backward" /\ c # <<0, 0>>
           /\ LastFrom(Used \ {<<0, 0>>}, q, c) /\ next = Ahead(c)
  <2>1. q[1] \in Int /\ q[2] \in Int
    BY <1>1, PlaceFacts DEF Backwards
  <2>2. InPlace(next) /\ c \in UpTo(q) /\ UpTo(next) = UpTo(q) \ {c}
    <3> HIDE DEF q
    <3> QED
      BY <1>3, <2>1, AheadIs
  <2>3. Place(next) /\ Backwards(next) = next
    BY <2>2, PlaceFacts DEF Place, Backwards
  <2> DEFINE C == UpTo(q)
  <2>4. KeysAt(UpTo(next)) = KeysAt(UpTo(q)) \ {At(c).key} /\ At(c).key \in KeysAt(UpTo(q))
    <3>1. C \in SUBSET Used /\ c \in C /\ UpTo(next) = C \ {c}
      BY <2>2 DEF UpTo
    <3> HIDE DEF C
    <3>2. KeysAt(C \ {c}) = KeysAt(C) \ {At(c).key} /\ At(c).key \in KeysAt(C)
      BY <3>1, KeysWithout
    <3> QED
      BY <3>1, <3>2 DEF C
  <2>5. walk.todo = KeysAt(UpTo(q))
    BY <1>1, <1>3 DEF ToAnswer
  <2>6. ToAnswer(walk.dir, next, walk.todo \ {At(c).key}, FALSE)
    BY <1>3, <2>3, <2>4, <2>5 DEF ToAnswer
  <2> QED
    BY <1>1, <2>3, <2>4, <2>5, <2>6
<1> QED
  BY <1>2, <1>3

LEMMA AnsweredIs ==
  ASSUME WInv, NEW c, NEW next, Answered(c, next)
  PROVE  walk' = [dir |-> walk.dir, at |-> next, todo |-> walk.todo \ {At(c).key},
                  complete |-> walk.complete]
BY DEF WInv, Answered

LEMMA NoMoreIs ==
  ASSUME WInv, NEW next, NoMore(next)
  PROVE  walk' = [dir |-> walk.dir, at |-> next, todo |-> walk.todo, complete |-> TRUE]
BY DEF WInv, NoMore

LEMMA VisitKeepsWInv ==
  ASSUME AInv, WInv, VisitKeeps
  PROVE  WInv' /\ (walk.dir = "each" => walk'.todo # walk.todo)
<1>1. PICK c \in Used : FirstFrom(walk.at, c) /\ Answered(c, After(c))
  BY DEF VisitKeeps
<1>2. /\ walk.dir \in {"each", "removal"} /\ ~walk.complete /\ walk.complete = FALSE
      /\ UNCHANGED bucket /\ pc' \in {"visit", "idle"}
  BY DEF VisitKeeps, WInv
<1> DEFINE d == walk.dir
           next == After(c)
           todo == walk.todo \ {At(c).key}
<1>3. /\ Place(next) /\ ToAnswer(d, next, todo, FALSE) /\ todo \in SUBSET Key
      /\ d # "removal" => todo # walk.todo
  BY <1>1, <1>2, AnsweredWInv
<1>4. walk' = [dir |-> d, at |-> next, todo |-> todo, complete |-> FALSE]
  BY <1>1, <1>2, AnsweredIs
<1>5. d \in Directions /\ d \in {"each", "removal"}
  BY <1>2 DEF Directions
<1>6. WInv'
  <2> HIDE DEF d, next, todo
  <2> QED
    BY <1>2, <1>3, <1>4, <1>5, SetWalk
<1> QED
  BY <1>3, <1>4, <1>6

LEMMA VisitEndsWInv == ASSUME AInv, WInv, VisitEnds PROVE WInv'
<1>1. /\ walk.dir \in {"each", "removal"} /\ ~walk.complete
      /\ UNCHANGED bucket /\ pc' = "idle" /\ NoMore(End)
      /\ \A c \in Used : Before(c, walk.at)
  BY DEF VisitEnds, WInv
<1>2. KeysAt(From(walk.at)) = {}
  BY <1>1 DEF KeysAt, From
<1>3. walk.todo = {}
  BY <1>1, <1>2 DEF WInv, ToAnswer
<1> DEFINE d == walk.dir
           todo == walk.todo
<1>4. walk' = [dir |-> d, at |-> End, todo |-> todo, complete |-> TRUE]
  BY <1>1, NoMoreIs
<1>5. ToAnswer(d, End, todo, TRUE) /\ d \in Directions /\ todo \in SUBSET Key /\ Place(End)
  BY <1>1, <1>3 DEF ToAnswer, Directions, Place
<1> HIDE DEF d, todo
<1> QED
  BY <1>1, <1>4, <1>5, SetWalk

LEMMA FindSequentialWInv ==
  ASSUME AInv, WInv, FindSequential
  PROVE  WInv' /\ (~walk'.complete => walk'.todo # walk.todo)
<1> DEFINE from == IF Anew THEN <<0, 0>> ELSE walk.at
           d == "forward"
<1>1. /\ walk.dir = d /\ ~walk.complete /\ walk.complete = FALSE
      /\ UNCHANGED bucket /\ pc' = "idle" /\ d \in Directions
  BY DEF FindSequential, WInv, Directions
<1>2. From(from) = From(walk.at)
  BY AllPlaces DEF Anew
<1>3. \A c : FirstFrom(from, c) => FirstFrom(walk.at, c)
  <2>1. \A x \in Used : ~Before(x, from) <=> ~Before(x, walk.at)
    BY <1>2 DEF From
  <2> HIDE DEF from
  <2> QED
    BY <2>1 DEF FirstFrom
<1>4. CASE \A c \in Used : Before(c, from)
  <2> DEFINE at == IF walk.at = NewStart THEN NewStart ELSE End
             todo == walk.todo
  <2>1. NoMore(at)
    BY <1>4 DEF FindSequential
  <2>2. walk' = [dir |-> d, at |-> at, todo |-> todo, complete |-> TRUE]
    BY <1>1, <2>1, NoMoreIs
  <2>3. KeysAt(From(walk.at)) = {}
    <3>1. From(from) = {}
      BY <1>4 DEF From
    <3> HIDE DEF from
    <3> QED
      BY <1>2, <3>1 DEF KeysAt
  <2>4. todo = {} /\ todo \in SUBSET Key
    BY <1>1, <2>3 DEF WInv, ToAnswer
  <2>5. ToAnswer(d, at, todo, TRUE) /\ Place(at)
    BY <2>4 DEF ToAnswer, Place
  <2> HIDE DEF at, todo, d
  <2>6. WInv'
    BY <1>1, <2>2, <2>4, <2>5, SetWalk
  <2> QED
    BY <2>2, <2>6
<1>5. CASE ~(\A c \in Used : Before(c, from))
  <2>1. PICK c \in Used : FirstFrom(from, c) /\ Answered(c, After(c))
    BY <1>5 DEF FindSequential
  <2> DEFINE next == After(c)
             todo == walk.todo \ {At(c).key}
  <2>2. FirstFrom(walk.at, c)
    BY <1>3, <2>1
  <2>3. /\ Place(next) /\ ToAnswer(d, next, todo, FALSE) /\ todo \in SUBSET Key
        /\ todo # walk.todo
    BY <1>1, <2>2, AnsweredWInv
  <2>4. walk' = [dir |-> d, at |-> next, todo |-> todo, complete |-> FALSE]
    BY <1>1, <2>1, AnsweredIs
  <2>5. WInv'
    <3> HIDE DEF d, next, todo
    <3> QED
      BY <1>1, <2>3, <2>4, SetWalk
  <2> QED
    BY <2>3, <2>4, <2>5
<1> QED
  BY <1>4, <1>5

LEMMA FindSequentialReverseWInv ==
  ASSUME AInv, WInv, FindSequentialReverse
  PROVE  WInv' /\ (~walk'.complete => walk'.todo # walk.todo)
<1> DEFINE from == Backwards(walk.at)
           d == "backward"
           Rest == Used \ {<<0, 0>>}
<1>1. /\ walk.dir = d /\ ~walk.complete /\ walk.complete = FALSE
      /\ UNCHANGED bucket /\ pc' = "idle" /\ d \in Directions
  BY DEF FindSequentialReverse, WInv, Directions
<1>2. IF \A c \in Rest : Before(from, c)
      THEN NoMore(IF walk.at = NewStart /\ Used = {} THEN NewStart ELSE End)
      ELSE \E c \in Rest : LastFrom(Rest, from, c) /\ Answered(c, Ahead(c))
  BY DEF FindSequentialReverse, Anew, Backwards, LastPlace
<1>3. CASE \A c \in Rest : Before(from, c)
  <2> DEFINE at == IF walk.at = NewStart /\ Used = {} THEN NewStart ELSE End
             todo == walk.todo
  <2>1. NoMore(at)
    BY <1>2, <1>3
  <2>2. walk' = [dir |-> d, at |-> at, todo |-> todo, complete |-> TRUE]
    BY <1>1, <2>1, NoMoreIs
  <2>3. UpTo(from) = Used \cap {<<0, 0>>}
    <3>1. ~Before(from, <<0, 0>>)
      <4>1. from = End \/ InPlace(from)
        BY PlaceFacts DEF WInv, Place, Backwards
      <4>2. from[1] \in Nat /\ from[2] \in Nat
        <5> HIDE DEF from
        <5> QED
          BY <4>1, PlaceFacts DEF End
      <4> HIDE DEF from
      <4> QED
        BY <4>2 DEF Before
    <3> HIDE DEF from
    <3> QED
      BY <1>3, <3>1 DEF UpTo
  <2>4. todo = LeftOut /\ todo \in SUBSET Key
    <3>1. todo = KeysAt(UpTo(from)) /\ todo \in SUBSET Key
      BY <1>1 DEF WInv, ToAnswer
    <3> HIDE DEF from, todo
    <3> QED
      BY <2>3, <3>1 DEF LeftOut, KeysAt
  <2>5. ToAnswer(d, at, todo, TRUE) /\ Place(at)
    BY <2>4 DEF ToAnswer, Place
  <2> HIDE DEF at, todo, d
  <2>6. WInv'
    BY <1>1, <2>2, <2>4, <2>5, SetWalk
  <2> QED
    BY <2>2, <2>6
<1>4. CASE ~(\A c \in Rest : Before(from, c))
  <2>1. PICK c \in Rest : LastFrom(Rest, from, c) /\ Answered(c, Ahead(c))
    BY <1>2, <1>4
  <2> DEFINE next == Ahead(c)
             todo == walk.todo \ {At(c).key}
  <2>2. /\ Place(next) /\ ToAnswer(d, next, todo, FALSE) /\ todo \in SUBSET Key
        /\ todo # walk.todo
    BY <1>1, <2>1, AnsweredWInv
  <2>3. walk' = [dir |-> d, at |-> next, todo |-> todo, complete |-> FALSE]
    BY <1>1, <2>1, AnsweredIs
  <2>4. WInv'
    <3> HIDE DEF d, next, todo
    <3> QED
      BY <1>1, <2>2, <2>3, SetWalk
  <2> QED
    BY <2>2, <2>3, <2>4
<1> QED
  BY <1>3, <1>4

-----------------------------------------------------------------------------
(* What is stored, after a step.                                           *)
LEMMA UsedNext ==
  /\ \A b, i : <<b, i>> \in Used <=> b \in BucketId /\ i \in Filled(bucket[b].table)
  /\ \A b, i : <<b, i>> \in Used' <=> b \in BucketId /\ i \in Filled(bucket'[b].table)
  /\ \A c \in Used \cup Used' : c = <<c[1], c[2]>>
<1>1. \A c : c \in Used <=> \E b \in BucketId : \E i \in Filled(bucket[b].table) : c = <<b, i>>
  BY DEF Used, Filled
<1>2. \A c : c \in Used' <=> \E b \in BucketId : \E i \in Filled(bucket'[b].table) : c = <<b, i>>
  BY DEF Used, Filled
<1>3. ASSUME NEW c, \E b, i : c = <<b, i>> PROVE c = <<c[1], c[2]>>
  BY <1>3
<1> QED
  BY <1>1, <1>2, <1>3

LEMMA GainsUsed ==
  ASSUME NEW b \in BucketId, NEW i, NEW e, Gains(b, i, e)
  PROVE  /\ <<b, i>> \notin Used /\ Used' = Used \cup {<<b, i>>}
         /\ At(<<b, i>>)' = e /\ \A c \in Used : At(c)' = At(c)
<1>1. /\ \A c \in BucketId \ {b} : bucket'[c] = bucket[c]
      /\ Filled(bucket'[b].table) = Filled(bucket[b].table) \cup {i} /\ i \notin Filled(bucket[b].table)
      /\ bucket'[b].table[i] = e
      /\ \A j \in Filled(bucket[b].table) : bucket'[b].table[j] = bucket[b].table[j]
  BY DEF Gains, Others, Stays
<1>2. ASSUME NEW c, NEW j PROVE <<c, j>> \in Used' <=> <<c, j>> \in Used \cup {<<b, i>>}
  BY <1>1, UsedNext
<1>3. Used' = Used \cup {<<b, i>>}
  <2>1. ASSUME NEW x \in Used' PROVE x \in Used \cup {<<b, i>>}
    BY <1>2, UsedNext
  <2>2. ASSUME NEW x \in Used \cup {<<b, i>>} PROVE x \in Used'
    <3>1. x = <<x[1], x[2]>>
      BY UsedNext
    <3> QED
      BY <1>2, <3>1
  <2> QED
    BY <2>1, <2>2
<1>4. ASSUME NEW c \in Used PROVE At(c)' = At(c)
  <2>1. c[1] \in BucketId /\ c[2] \in Filled(bucket[c[1]].table)
    BY UsedNext
  <2> QED
    BY <1>1, <2>1 DEF At
<1>5. <<b, i>> \notin Used /\ At(<<b, i>>)' = e
  BY <1>1, UsedNext DEF At
<1> QED
  BY <1>3, <1>4, <1>5

LEMMA LosesUsed ==
  ASSUME NEW b \in BucketId, NEW i, Loses(b, i)
  PROVE  /\ <<b, i>> \in Used /\ Used' = Used \ {<<b, i>>}
         /\ \A c \in Used' : At(c)' = At(c)
<1>1. /\ \A c \in BucketId \ {b} : bucket'[c] = bucket[c]
      /\ Filled(bucket'[b].table) = Filled(bucket[b].table) \ {i} /\ i \in Filled(bucket[b].table)
      /\ \A j \in Filled(bucket'[b].table) : bucket'[b].table[j] = bucket[b].table[j]
  BY DEF Loses, Others, Stays
<1>2. ASSUME NEW c, NEW j PROVE <<c, j>> \in Used' <=> <<c, j>> \in Used \ {<<b, i>>}
  BY <1>1, UsedNext
<1>3. Used' = Used \ {<<b, i>>}
  <2>1. ASSUME NEW x \in Used' PROVE x \in Used \ {<<b, i>>}
    BY <1>2, UsedNext
  <2>2. ASSUME NEW x \in Used \ {<<b, i>>} PROVE x \in Used'
    BY <1>2, UsedNext
  <2> QED
    BY <2>1, <2>2
<1>4. ASSUME NEW c \in Used' PROVE At(c)' = At(c)
  <2>1. c[1] \in BucketId /\ c[2] \in Filled(bucket'[c[1]].table)
    BY UsedNext
  <2> QED
    BY <1>1, <2>1 DEF At
<1>5. <<b, i>> \in Used
  BY <1>1, UsedNext
<1> QED
  BY <1>3, <1>4, <1>5

LEMMA MovesUsed ==
  ASSUME NEW b \in BucketId, NEW i, NEW k, Moves(b, i, k)
  PROVE  /\ <<b, k>> \in Used /\ Used' = (Used \ {<<b, k>>}) \cup {<<b, i>>}
         /\ At(<<b, i>>)' = At(<<b, k>>)
         /\ \A c \in Used \ {<<b, k>>} : At(c)' = At(c)
<1>1. /\ \A c \in BucketId \ {b} : bucket'[c] = bucket[c]
      /\ Filled(bucket'[b].table) = (Filled(bucket[b].table) \ {k}) \cup {i}
      /\ k \in Filled(bucket[b].table) /\ i \notin Filled(bucket[b].table)
      /\ bucket'[b].table[i] = bucket[b].table[k]
      /\ \A j \in Filled(bucket[b].table) \ {k} : bucket'[b].table[j] = bucket[b].table[j]
  BY DEF Moves, Others, Stays
<1> DEFINE S == (Used \ {<<b, k>>}) \cup {<<b, i>>}
<1>2. ASSUME NEW c, NEW j PROVE <<c, j>> \in Used' <=> <<c, j>> \in S
  BY <1>1, UsedNext
<1>3. Used' = S
  <2>1. ASSUME NEW x \in Used' PROVE x \in S
    BY <1>2, UsedNext
  <2>2. ASSUME NEW x \in S PROVE x \in Used'
    <3>1. x = <<x[1], x[2]>>
      BY UsedNext
    <3> QED
      BY <1>2, <3>1
  <2> QED
    BY <2>1, <2>2
<1>4. ASSUME NEW c \in Used \ {<<b, k>>} PROVE At(c)' = At(c)
  <2>1. c[1] \in BucketId /\ c[2] \in Filled(bucket[c[1]].table) /\ c = <<c[1], c[2]>>
    BY UsedNext
  <2>2. c[1] = b => c[2] # k
    BY <2>1
  <2> QED
    BY <1>1, <2>1, <2>2 DEF At
<1>5. <<b, k>> \in Used /\ At(<<b, i>>)' = At(<<b, k>>)
  BY <1>1, UsedNext DEF At
<1> QED
  BY <1>3, <1>4, <1>5

LEMMA RewritesUsed ==
  ASSUME NEW b \in BucketId, NEW i, NEW e, Rewrites(b, i, e)
  PROVE  /\ <<b, i>> \in Used /\ Used' = Used
         /\ At(<<b, i>>).key = e.key /\ At(<<b, i>>)' = e
         /\ \A c \in Used \ {<<b, i>>} : At(c)' = At(c)
<1>1. /\ \A c \in BucketId \ {b} : bucket'[c] = bucket[c]
      /\ Filled(bucket'[b].table) = Filled(bucket[b].table) /\ i \in Filled(bucket[b].table)
      /\ bucket'[b].table[i] = e /\ bucket[b].table[i].key = e.key
      /\ \A j \in Filled(bucket[b].table) \ {i} : bucket'[b].table[j] = bucket[b].table[j]
  BY DEF Rewrites, Others, Stays
<1>2. ASSUME NEW c, NEW j PROVE <<c, j>> \in Used' <=> <<c, j>> \in Used
  BY <1>1, UsedNext
<1>3. Used' = Used
  BY <1>2, UsedNext
<1>4. ASSUME NEW c \in Used \ {<<b, i>>} PROVE At(c)' = At(c)
  <2>1. c[1] \in BucketId /\ c[2] \in Filled(bucket[c[1]].table) /\ c = <<c[1], c[2]>>
    BY UsedNext
  <2>2. c[1] = b => c[2] # i
    BY <2>1
  <2> QED
    BY <1>1, <2>1, <2>2 DEF At
<1>5. <<b, i>> \in Used /\ At(<<b, i>>)' = e /\ At(<<b, i>>).key = e.key
  BY <1>1, UsedNext DEF At
<1> QED
  BY <1>3, <1>4, <1>5

(* Going around the array.                                                 *)
LEMMA AroundFacts ==
  ASSUME NEW n \in Nat, n > 1, NEW T, NEW s \in 0 .. n - 1, NEW i \in 0 .. n - 1,
         NEW k \in 0 .. n - 1, Around(T, n, s, i, k), T[k] # Empty,
         NEW j \in 0 .. n - 1, j # i, T[j] = Empty
  PROVE  /\ Dist(n, s, IncMod(k, n)) = Dist(n, s, k) + 1 /\ IncMod(k, n) \in 0 .. n - 1
         /\ Around(T, n, s, i, IncMod(k, n))
         /\ s <= k => s <= i
<1>1. ~(Dist(n, s, j) < Dist(n, s, k)) /\ j # k
  BY DEF Around
<1>2. IncMod(k, n) # s
  BY <1>1 DEF Dist, IncMod
<1>3. Dist(n, s, IncMod(k, n)) = Dist(n, s, k) + 1 /\ IncMod(k, n) \in 0 .. n - 1
  BY <1>2 DEF Dist, IncMod
<1>4. \A m \in 0 .. n - 1 : Dist(n, s, m) < Dist(n, s, k) + 1 => Dist(n, s, m) < Dist(n, s, k) \/ m = k
  BY DEF Dist
<1>5. Dist(n, s, i) < Dist(n, s, k) /\ Dist(n, s, i) < Dist(n, s, k) + 1 /\ (s <= k => s <= i)
  BY DEF Around, Dist
<1> QED
  BY <1>3, <1>4, <1>5 DEF Around

LEMMA AroundMoved ==
  ASSUME NEW n \in Nat, n > 1, NEW T, NEW s \in 0 .. n - 1, NEW i \in 0 .. n - 1,
         NEW k \in 0 .. n - 1, Around(T, n, s, i, k),
         Dist(n, s, IncMod(k, n)) = Dist(n, s, k) + 1,
         NEW t, t[i] # Empty, \A m \in 0 .. n - 1 : m # k /\ T[m] # Empty => t[m] # Empty
  PROVE  Around(t, n, s, k, IncMod(k, n))
<1>1. \A m \in 0 .. n - 1 : Dist(n, s, m) < Dist(n, s, k) + 1 => Dist(n, s, m) < Dist(n, s, k) \/ m = k
  BY DEF Dist
<1>2. Dist(n, s, k) < Dist(n, s, k) + 1
  BY DEF Dist
<1> QED
  BY <1>1, <1>2 DEF Around

(* The callback removes the element it was called with.                    *)
LEMMA VisitRemovesWInv == ASSUME AInv, WInv, VisitRemoves PROVE WInv'
<1>1. PICK c \in Used : FirstFrom(walk.at, c) /\ Answered(c, c) /\ TakeElement(At(c))
  BY DEF VisitRemoves
<1> DEFINE b == c[1]
           s == c[2]
           e == At(c)
           n == bucket[b].alloc
<1>2. /\ b \in BucketId /\ s \in Filled(bucket[b].table) /\ c = <<b, s>> /\ e \in Element
      /\ n \in Nat /\ n > 1 /\ s \in 0 .. n - 1 /\ e.key \in Key
      /\ BucketOf(e.key) = b /\ TableOf(e.key)[s] = e
  <2>1. /\ b \in BucketId /\ s \in Filled(bucket[b].table) /\ c = <<b, s>> /\ e \in Element
        /\ e.key \in Key
    BY UsedIs
  <2>2. n \in Nat /\ n > 3 /\ s \in 0 .. n - 1 /\ BucketOf(e.key) = b
    BY <2>1, ArrayNow DEF At, Local
  <2>3. n > 1
    BY <2>2
  <2> QED
    BY <2>1, <2>2, <2>3 DEF TableOf, At
<1>3. /\ walk.dir = "removal" /\ ~walk.complete /\ walk.complete = FALSE /\ pc \in {"idle", "visit"}
  BY DEF VisitRemoves, WInv
<1>4. /\ AInv' /\ pc' = "heal" /\ loc'.b = b /\ loc'.i = s /\ Loses(b, s)
      /\ loc'.k = IncMod(s, n)
  <2>1. /\ AInv'
        /\ \/ \A j \in Filled(TableOf(e.key)) : TableOf(e.key)[j] # e
           \/ /\ pc' = "heal"
              /\ \E i : /\ Loses(BucketOf(e.key), i) /\ TableOf(e.key)[i] = e
                        /\ loc'.b = BucketOf(e.key) /\ loc'.i = i
    <3>1. e \in Element /\ TakeElement(e)
      BY <1>1, <1>2
    <3> HIDE DEF e
    <3> QED
      BY <1>3, <3>1, TakeElementStep
  <2>2. s \in Filled(TableOf(e.key)) /\ TableOf(e.key) = bucket[b].table
    BY <1>2 DEF TableOf
  <2>3. PICK i : /\ pc' = "heal" /\ Loses(b, i) /\ bucket[b].table[i] = e
                 /\ loc'.b = b /\ loc'.i = i
    BY <1>2, <2>1, <2>2
  <2>4. i = s
    BY <1>2, <2>3, <2>2, ArrayNow DEF Loses, OnceOnly
  <2>5. loc'.k = IncMod(loc'.i, n)
    <3>1. pc' # "idle"
      BY <2>3
    <3>2. PICK j : TakeOut(b, j)
      BY <1>1, <1>2, <3>1 DEF TakeElement
    <3>3. loc' = [b |-> b, i |-> j, k |-> IncMod(j, n), elem |-> Empty, old |-> <<>>]
      BY <3>2 DEF TakeOut, NoLoc
    <3> QED
      BY <3>3
  <2> QED
    BY <2>1, <2>3, <2>4, <2>5
<1>5. walk' = [dir |-> "removal", at |-> c, todo |-> walk.todo \ {e.key}, complete |-> FALSE]
  BY <1>1, <1>3, AnsweredIs
<1>6. /\ KeysAt(From(c)) \subseteq {e.key} \cup KeysAt(From(c))'
      /\ walk.todo \ {e.key} \subseteq KeysAt(From(c))
      /\ walk.todo \in SUBSET Key
  <2>1. walk.todo \subseteq KeysAt(From(walk.at)) /\ walk.todo \in SUBSET Key
    BY <1>3 DEF WInv, ToAnswer
  <2>2. From(walk.at) \subseteq From(c)
    BY <1>1 DEF FirstFrom, From
  <2>3. Used' = Used \ {c} /\ \A x \in Used' : At(x)' = At(x)
    BY <1>2, <1>4, LosesUsed
  <2>4. From(c)' = From(c) \ {c}
    BY <2>3 DEF From
  <2>5. \A x \in From(c) : x = c \/ (x \in From(c)' /\ At(x)' = At(x))
    BY <2>3, <2>4 DEF From
  <2> QED
    BY <2>1, <2>2, <2>5 DEF KeysAt
<1>7. bucket'[b].alloc = n
  BY <1>4 DEF Loses
<1>8. Place(c)'
  BY <1>2, <1>7 DEF Place, InPlace
<1>9. Removing'
  <2> DEFINE k == IncMod(s, n)
             t == bucket'[b].table
  <2>1. /\ Walked(t, n, s, k) /\ k \in 0 .. n - 1
    BY <1>4, <1>7 DEF AInv, Healing
  <2>2. Around(t, n, s, s, k)
    <3>1. k # s
      <4> HIDE DEF n, s
      <4> QED
        BY <1>2 DEF IncMod
    <3> HIDE DEF n, s, k, t
    <3>2. \A m \in 0 .. n - 1 : m # s /\ Dist(n, s, m) < Dist(n, s, k) => m \in Between(n, s, k)
      BY DEF Between
    <3>3. Dist(n, s, s) < Dist(n, s, k)
      BY <1>2, <2>1, <3>1 DEF Dist
    <3> QED
      BY <2>1, <3>2, <3>3 DEF Walked, Around
  <2>3. walk'.at = c /\ c[2] = s /\ c = <<b, s>>
    BY <1>2, <1>5
  <2> QED
    BY <1>2, <1>4, <1>7, <2>2, <2>3 DEF Removing
<1>10. ToAnswer(walk.dir, walk.at, walk.todo, walk.complete)'
  <2>1. walk'.todo \subseteq KeysAt(From(c))'
    BY <1>5, <1>6
  <2>2. walk'.dir = "removal" /\ walk'.at = c /\ walk'.complete = FALSE
    BY <1>5
  <2>3. KeysAt(From(walk.at))' = KeysAt(From(c))'
    BY <2>2 DEF KeysAt, From
  <2> QED
    BY <2>1, <2>2, <2>3 DEF ToAnswer
<1>11. /\ walk' \in [dir : Directions, at : {walk'.at}, todo : SUBSET Key, complete : BOOLEAN]
       /\ walk'.dir = "removal" /\ ~walk'.complete /\ Place(walk.at)'
  <2>1. walk'.at = c
    BY <1>5
  <2>2. Place(walk.at)'
    BY <1>8, <2>1 DEF Place, InPlace
  <2> HIDE DEF e
  <2> QED
    BY <1>5, <1>6, <2>2 DEF Directions
<1> QED
  BY <1>4, <1>9, <1>10, <1>11 DEF WInv, Visiting

(* A turn of the loop of healHole, for an iteration.                       *)
LEMMA HealTurnWInv == ASSUME AInv, WInv, HealTurn PROVE WInv'
<1>1. /\ AInv' /\ pc = "heal" /\ pc' = "heal" /\ walk' = walk
      /\ loc.k \in Filled(bucket[loc.b].table)
      /\ \/ UNCHANGED bucket /\ loc'.i = loc.i
         \/ Moves(loc.b, loc.i, loc.k) /\ loc'.i = loc.k
      /\ loc'.b = loc.b /\ loc'.k = IncMod(loc.k, bucket[loc.b].alloc)
  BY HealTurnStep DEF HealTurn
<1>2. CASE walk = NoWalk
  BY <1>1, <1>2, NoWalkWInv
<1>3. CASE walk # NoWalk
  <2>10. PICK b, i, k, s : b = loc.b /\ i = loc.i /\ k = loc.k /\ s = walk.at[2]
    OBVIOUS
  <2> DEFINE T == bucket[b].table
             n == bucket[b].alloc
  <2>11. /\ k \in Filled(T) /\ loc'.b = b /\ loc'.k = IncMod(k, n)
         /\ \/ UNCHANGED bucket /\ loc'.i = i
            \/ Moves(b, i, k) /\ loc'.i = k
    BY <1>1, <2>10
  <2>1. /\ Visiting /\ walk.at = <<b, s>> /\ s \in 0 .. n - 1 /\ Around(T, n, s, i, k)
        /\ Place(walk.at)
    BY <1>1, <1>3, <2>10 DEF WInv, Removing
  <2>2. /\ b \in BucketId /\ n \in Nat /\ n > 1 /\ T \in Arrays(n)
        /\ i \in 0 .. n - 1 /\ k \in 0 .. n - 1 /\ T[k] # Empty
        /\ \E j \in 0 .. n - 1 : j # i /\ T[j] = Empty
    <3>1. b \in BucketId /\ Healing
      BY <1>1, <2>10 DEF AInv, LocType
    <3>2. n \in Nat /\ n > 3 /\ T \in Arrays(n)
      BY <3>1, ArrayNow
    <3>3. i \in 0 .. n - 1 /\ k \in 0 .. n - 1 /\ Good(bucket[b], b, Gap(i), {}, 0)
      BY <2>10, <3>1 DEF Healing
    <3>4. T[k] # Empty
      BY <2>11 DEF Filled
    <3>5. n > 1
      BY <3>2
    <3>6. \A y \in 0 .. n - 1 : \E j \in 0 .. n - 1 : j # y /\ T[j] = Empty
      <4> DEFINE R == bucket[b]
      <4>1. Good(R, b, Gap(i), {}, 0)
        BY <3>3
      <4> HIDE DEF R
      <4>2. \A y \in 0 .. R.alloc - 1 : \E j \in 0 .. R.alloc - 1 : j # y /\ R.table[j] = Empty
        BY <4>1, GoodFacts
      <4> QED
        BY <4>2 DEF R
    <3> QED
      BY <3>1, <3>2, <3>3, <3>4, <3>5, <3>6
  <2>3. /\ Dist(n, s, IncMod(k, n)) = Dist(n, s, k) + 1
        /\ Around(T, n, s, i, IncMod(k, n))
        /\ s <= k => s <= i
    <3>1. PICK j \in 0 .. n - 1 : j # i /\ T[j] = Empty
      BY <2>2
    <3> HIDE DEF T, n
    <3> QED
      BY <2>1, <2>2, <3>1, AroundFacts
  <2>4. /\ walk.dir = "removal" /\ ~walk.complete /\ walk.complete = FALSE
        /\ walk.todo \subseteq KeysAt(From(walk.at))
    BY <2>1 DEF Visiting, WInv, ToAnswer
  <2>5. CASE UNCHANGED bucket /\ loc'.i = i
    <3>1. Used' = Used /\ \A c : At(c)' = At(c)
      BY <2>5 DEF Used, At
    <3>2. KeysAt(From(walk.at))' = KeysAt(From(walk.at))
      BY <1>1, <3>1 DEF KeysAt, From
    <3>3. Place(walk.at)'
      BY <1>1, <2>1, <2>5 DEF Place, InPlace
    <3>4. ToAnswer(walk.dir, walk.at, walk.todo, walk.complete)'
      BY <1>1, <2>4, <3>2 DEF ToAnswer
    <3>5. Removing'
      BY <1>1, <2>1, <2>3, <2>5, <2>11 DEF Removing
    <3> QED
      BY <1>1, <2>1, <3>3, <3>4, <3>5 DEF WInv, Visiting
  <2>6. CASE Moves(b, i, k) /\ loc'.i = k
    <3>1. /\ <<b, k>> \in Used /\ Used' = (Used \ {<<b, k>>}) \cup {<<b, i>>}
          /\ At(<<b, i>>)' = At(<<b, k>>)
          /\ \A c \in Used \ {<<b, k>>} : At(c)' = At(c)
      BY <2>2, <2>6, MovesUsed
    <3>2. KeysAt(From(walk.at)) \subseteq KeysAt(From(walk.at))'
      <4> SUFFICES ASSUME NEW x \in From(walk.at)
                   PROVE  \E y \in From(walk.at)' : At(y)'.key = At(x).key
        BY DEF KeysAt
      <4>1. CASE x # <<b, k>>
        BY <1>1, <3>1, <4>1 DEF From
      <4>2. CASE x = <<b, k>>
        <5>1. s <= k
          <6>1. ~Before(<<b, k>>, <<b, s>>)
            BY <2>1, <4>2 DEF From
          <6> HIDE DEF n
          <6> QED
            BY <2>1, <2>2, <6>1 DEF Before
        <5>2. ~Before(<<b, i>>, <<b, s>>)
          <6>0. s <= i /\ b \in Int
            BY <2>2, <2>3, <5>1, PlaceFacts
          <6> HIDE DEF n
          <6> QED
            BY <2>1, <2>2, <6>0 DEF Before
        <5>3. <<b, i>> \in From(walk.at)'
          BY <1>1, <2>1, <3>1, <5>2 DEF From
        <5> QED
          BY <3>1, <4>2, <5>3
      <4> QED
        BY <4>1, <4>2
    <3>3. bucket'[b].alloc = n
      BY <2>6 DEF Moves
    <3>4. Place(walk.at)'
      BY <1>1, <2>1, <2>2, <3>3 DEF Place, InPlace
    <3>5. ToAnswer(walk.dir, walk.at, walk.todo, walk.complete)'
      BY <1>1, <2>4, <3>2 DEF ToAnswer
    <3>6. Around(bucket'[b].table, n, s, k, IncMod(k, n))
      <4> DEFINE t == bucket'[b].table
      <4>1. /\ t \in Arrays(n) /\ Filled(t) = (Filled(T) \ {k}) \cup {i}
        <5>1. t \in Arrays(bucket'[b].alloc)
          BY <1>1, <2>11 DEF AInv, Healing, Good, Sound
        <5> QED
          BY <2>6, <3>3, <5>1 DEF Moves
      <4>2. /\ t[i] # Empty
            /\ \A m \in 0 .. n - 1 : m # k /\ T[m] # Empty => t[m] # Empty
        <5> HIDE DEF T, n, t
        <5> QED
          BY <2>2, <4>1, FilledFacts
      <4>3. Around(t, n, s, k, IncMod(k, n))
        <5> HIDE DEF T, n, t
        <5> QED
          BY <2>1, <2>2, <2>3, <4>2, AroundMoved
      <4> QED
        BY <4>3
    <3>7. Removing'
      BY <1>1, <2>1, <2>6, <2>11, <3>3, <3>6 DEF Removing
    <3> QED
      BY <1>1, <2>1, <3>4, <3>5, <3>7 DEF WInv, Visiting
  <2> QED
    BY <2>5, <2>6, <2>11
<1> QED
  BY <1>2, <1>3

(* The gap is closed.  In a bucket that is empty now there is nothing more *)
(* to answer.                                                              *)
LEMMA HealedWInv == ASSUME AInv, WInv, Healed \/ RemoveThrows PROVE WInv'
<1>1. CASE RemoveThrows
  BY <1>1, NoWalkWInv DEF RemoveThrows
<1>2. CASE Healed /\ ~Visiting
  <2>1. walk = NoWalk
    BY <1>2 DEF Healed, WInv
  <2>2. walk' = NoWalk /\ pc' = "idle"
    BY <1>2, <2>1 DEF Healed
  <2> QED
    BY <2>2, NoWalkWInv
<1>3. CASE Healed /\ Visiting
  <2>0. PICK b, s : b = loc.b /\ s = walk.at[2]
    OBVIOUS
  <2>1. /\ walk.dir = "removal" /\ ~walk.complete /\ walk.complete = FALSE /\ walk # NoWalk
        /\ walk.at = <<b, s>> /\ s \in 0 .. bucket[b].alloc - 1 /\ b \in BucketId
        /\ walk.todo \subseteq KeysAt(From(walk.at)) /\ walk.todo \in SUBSET Key
        /\ Place(walk.at)
    <3>1. walk.dir = "removal" /\ ~walk.complete /\ walk.dir # NoWalk.dir /\ pc = "heal"
      BY <1>3 DEF Healed, Visiting, NoWalk
    <3>2. Removing /\ ToAnswer(walk.dir, walk.at, walk.todo, walk.complete)
      BY <3>1 DEF WInv
    <3> QED
      BY <2>0, <3>1, <3>2 DEF Removing, ToAnswer, WInv, AInv, LocType
  <2>2. CASE bucket[b].used # 0
    <3> DEFINE at == walk.at
               todo == walk.todo
    <3>1. UNCHANGED bucket /\ walk' = walk /\ pc' \in {"idle", "visit"}
      BY <1>3, <2>0, <2>2 DEF Healed
    <3>2. walk' = [dir |-> "removal", at |-> at, todo |-> todo, complete |-> FALSE]
      BY <2>1, <3>1 DEF WInv
    <3>3. ToAnswer("removal", at, todo, FALSE) /\ Place(at) /\ "removal" \in Directions
      BY <2>1 DEF ToAnswer, Directions
    <3>4. todo \in SUBSET Key
      BY <2>1
    <3> HIDE DEF at, todo
    <3> QED
      BY <3>1, <3>2, <3>3, <3>4, SetWalk
  <2>3. CASE bucket[b].used = 0
    <3>1. /\ bucket' = [bucket EXCEPT ![b] = NewBucket]
          /\ walk' = [walk EXCEPT !.at = <<b + 1, 0>>] /\ pc' \in {"idle", "visit"}
      BY <1>3, <2>0, <2>3 DEF Healed
    <3>2. Filled(bucket[b].table) = {}
      <4>1. /\ bucket[b].used = Cardinality(Filled(bucket[b].table)) + Cardinality({})
            /\ bucket[b].table \in Arrays(bucket[b].alloc) /\ bucket[b].alloc \in Nat
        BY <1>3, <2>0 DEF Healed, AInv, Healing, Good, Sound
      <4>2. Cardinality({}) = 0 /\ Cardinality(Filled(bucket[b].table)) \in Nat
        BY <4>1, CountFacts, FS_EmptySet
      <4>3. Cardinality(Filled(bucket[b].table)) = 0
        BY <2>3, <4>1, <4>2
      <4> QED
        BY <4>1, <4>3, CountFacts
    <3>3. /\ \A c \in BucketId \ {b} : bucket'[c] = bucket[c]
          /\ bucket'[b] = NewBucket
      BY <2>1, <3>1 DEF AInv, Buckets
    <3>4. \A x \in Used : x[1] # b /\ x \in Used' /\ At(x)' = At(x)
      <4> SUFFICES ASSUME NEW x \in Used PROVE x[1] # b /\ x \in Used' /\ At(x)' = At(x)
        OBVIOUS
      <4>1. x = <<x[1], x[2]>> /\ x[1] \in BucketId /\ x[2] \in Filled(bucket[x[1]].table)
        BY UsedNext
      <4>2. x[1] # b
        BY <3>2, <4>1
      <4>3. <<x[1], x[2]>> \in Used'
        BY <3>3, <4>1, <4>2, UsedNext
      <4> QED
        BY <3>3, <4>1, <4>2, <4>3 DEF At
    <3>5. \A x \in From(walk.at) : ~Before(x, <<b + 1, 0>>)
      <4> SUFFICES ASSUME NEW x \in From(walk.at) PROVE ~Before(x, <<b + 1, 0>>)
        OBVIOUS
      <4>1. x \in Used /\ ~Before(x, <<b, s>>) /\ x[1] # b
        BY <2>1, <3>4 DEF From
      <4>2. b \in Int /\ x[1] \in Nat /\ x[2] \in Nat
        BY <2>1, <4>1, PlaceFacts, UsedIs
      <4> QED
        BY <4>1, <4>2 DEF Before
    <3>6. walk' = [dir |-> "removal", at |-> <<b + 1, 0>>, todo |-> walk.todo, complete |-> FALSE]
      BY <2>1, <3>1 DEF WInv
    <3>7. walk'.todo \subseteq KeysAt(From(walk.at))'
      <4>1. walk'.todo = walk.todo /\ walk'.at = <<b + 1, 0>>
        BY <3>6
      <4>2. \A x \in From(walk.at) : x \in From(walk.at)' /\ At(x)' = At(x)
        BY <3>4, <3>5, <4>1 DEF From
      <4> QED
        BY <2>1, <4>1, <4>2 DEF KeysAt
    <3>8. Place(walk.at)'
      <4>0. NrBuckets \in Nat /\ b \in 0 .. NrBuckets - 1 /\ walk'.at = <<b + 1, 0>>
        BY <2>1, <3>6, PlaceFacts
      <4>1. CASE b + 1 = NrBuckets
        BY <4>0, <4>1 DEF Place, End
      <4>2. CASE b + 1 # NrBuckets
        <5>1. b + 1 \in BucketId /\ b + 1 # b
          BY <4>0, <4>2 DEF BucketId
        <5>2. bucket'[b + 1].alloc = bucket[b + 1].alloc
          BY <3>3, <5>1
        <5>3. 0 \in 0 .. bucket'[b + 1].alloc - 1
          BY <5>1, <5>2, ArrayNow
        <5>4. walk'.at[1] = b + 1 /\ walk'.at[2] = 0 /\ walk'.at = <<walk'.at[1], walk'.at[2]>>
          BY <4>0
        <5> QED
          BY <5>1, <5>3, <5>4 DEF Place, InPlace
      <4> QED
        BY <4>1, <4>2
    <3>9. ToAnswer(walk.dir, walk.at, walk.todo, walk.complete)'
      BY <3>6, <3>7 DEF ToAnswer
    <3>10. /\ walk' \in [dir : Directions, at : {walk'.at}, todo : SUBSET Key, complete : BOOLEAN]
           /\ walk'.dir = "removal" /\ ~walk'.complete
      BY <2>1, <3>6 DEF Directions
    <3> QED
      BY <3>1, <3>8, <3>9, <3>10 DEF WInv
  <2> QED
    BY <2>2, <2>3
<1> QED
  BY <1>1, <1>2, <1>3

LEMMA InitWInv == ASSUME Init PROVE WInv
BY DEF Init, WInv, NoWalk, Place, ToAnswer, Directions

LEMMA SameWInv == ASSUME WInv, UNCHANGED vars PROVE WInv'
<1>1. bucket' = bucket /\ pc' = pc /\ loc' = loc /\ walk' = walk /\ ret' = ret
  BY DEF vars
<1>2. Used' = Used /\ LastPlace' = LastPlace /\ \A c : At(c)' = At(c)
  BY <1>1 DEF Used, At, LastPlace
<1>3. LeftOut' = LeftOut /\ KeysAt(From(walk.at))' = KeysAt(From(walk.at))
      /\ KeysAt(UpTo(Backwards(walk.at)))' = KeysAt(UpTo(Backwards(walk.at)))
  BY <1>1, <1>2 DEF LeftOut, KeysAt, From, UpTo, Backwards
<1>4. ToAnswer(walk.dir, walk.at, walk.todo, walk.complete)'
  BY <1>1, <1>3 DEF WInv, ToAnswer
<1>5. Place(walk.at)'
  BY <1>1 DEF WInv, Place, InPlace
<1>6. Removing => Removing'
  BY <1>1 DEF Removing
<1> QED
  BY <1>1, <1>4, <1>5, <1>6 DEF WInv, Visiting

LEMMA NextWInv == ASSUME AInv, WInv, [Next]_vars PROVE WInv'
<1>1. CASE UNCHANGED vars
  BY <1>1, SameWInv
<1>2. ASSUME NEW k \in Key, Find(k) PROVE WInv'
  BY <1>2, NoWalkWInv DEF Find
<1>3. ASSUME NEW k \in Key, RemoveByKey(k) PROVE WInv'
  BY <1>3, NoWalkWInv DEF RemoveByKey, TakeOut
<1>4. ASSUME NEW e \in Element, Insert(e) \/ InsertGrows(e) \/ InsertThrows(e) PROVE WInv'
  BY <1>4, NoWalkWInv DEF Insert, InsertGrows, InsertThrows
<1>5. ASSUME NEW e \in Element, Remove(e) PROVE WInv'
  BY <1>5, NoWalkWInv DEF Remove, TakeElement, TakeOut
<1>6. ASSUME NEW e \in Element, WriteValue(e) PROVE WInv'
  BY <1>6, NoWalkWInv DEF WriteValue
<1>7. ASSUME NEW d \in {"each", "removal"}, StartVisit(d) PROVE WInv'
  BY <1>7, StartVisitWInv
<1>8. ASSUME NEW d \in {"forward", "backward"}, NEW at \in {NewStart, Restart},
             StartSequence(d, at)
      PROVE  WInv'
  BY <1>8, StartSequenceWInv
<1>9. ASSUME NEW d \in {"forward", "backward"}, NEW k \in Key, FindPosition(d, k) PROVE WInv'
  BY <1>9, FindPositionWInv
<1>10. CASE FindSequential
  BY <1>10, FindSequentialWInv
<1>11. CASE FindSequentialReverse
  BY <1>11, FindSequentialReverseWInv
<1>12. CASE VisitKeeps
  BY <1>12, VisitKeepsWInv
<1>13. CASE VisitEnds
  BY <1>13, VisitEndsWInv
<1>14. CASE VisitRemoves
  BY <1>14, VisitRemovesWInv
<1>15. CASE Rehash \/ Grown
  <2>1. walk = NoWalk
    BY <1>15 DEF Rehash, Grown, WInv
  <2>2. walk' = NoWalk /\ pc' \in {"idle", "grow", "heal"}
    BY <1>15, <2>1 DEF Rehash, Grown
  <2> QED
    BY <2>2, NoWalkWInv
<1>16. CASE HealTurn
  BY <1>16, HealTurnWInv
<1>17. CASE Healed \/ RemoveThrows
  BY <1>17, HealedWInv
<1> QED
  BY <1>1, <1>2, <1>3, <1>4, <1>5, <1>6, <1>7, <1>8, <1>9, <1>10, <1>11, <1>12, <1>13,
     <1>14, <1>15, <1>16, <1>17 DEF Next, Loop

THEOREM WalkInvariant == Spec => [](AInv /\ WInv)
<1>1. Init => AInv /\ WInv
  BY InitAInv, InitWInv
<1>2. AInv /\ WInv /\ [Next]_vars => AInv' /\ WInv'
  BY NextAInv, NextWInv
<1> QED
  BY <1>1, <1>2, PTL DEF Spec

(* A walk that says that there is nothing more has answered all there was  *)
(* from its position on, whatever the callback removed (lines 667-790).    *)
THEOREM IterationTheorem == Spec => []IterationComplete
<1>1. WInv => IterationComplete
  BY DEF WInv, ToAnswer, IterationComplete
<1> QED
  BY <1>1, WalkInvariant, PTL

(* In reverse it has answered all but the element at the very first        *)
(* position, if there is one: that one is always missed, and no other      *)
(* (lines 799-836).                                                        *)
ReverseMissesFirst == walk.complete /\ walk.dir = "backward" => walk.todo = LeftOut

THEOREM ReverseTheorem == Spec => []ReverseMissesFirst
<1>1. WInv => ReverseMissesFirst
  BY DEF WInv, ToAnswer, ReverseMissesFirst
<1> QED
  BY <1>1, WalkInvariant, PTL

(* No element is answered twice.                                           *)
THEOREM EachOnceTheorem == Spec => EachOnce
<1>1. AInv /\ WInv /\ [Next]_vars =>
        [/\ FindSequential \/ FindSequentialReverse \/ (VisitKeeps /\ walk.dir = "each")
         /\ ~walk'.complete
         => walk'.todo # walk.todo]_vars
  BY FindSequentialWInv, FindSequentialReverseWInv, VisitKeepsWInv
<1> QED
  BY <1>1, WalkInvariant, PTL DEF Spec, EachOnce

(* The variables have their types; in particular the position of an        *)
(* iteration is always one of the array, or behind it.                     *)
THEOREM TypeTheorem == Spec => []TypeOK
<1>1. AInv /\ WInv => TypeOK
  <2> SUFFICES ASSUME AInv, WInv PROVE TypeOK
    OBVIOUS
  <2>1. DOMAIN bucket = BucketId
    BY DEF AInv, Buckets
  <2>2. ASSUME NEW b \in BucketId
        PROVE  /\ bucket[b].alloc \in Nat \ {0} /\ bucket[b].used \in Nat
               /\ bucket[b].table \in [0 .. bucket[b].alloc - 1 -> Element \cup {Empty}]
    <3>1. bucket[b].used \in Nat
      BY DEF AInv, Buckets, BucketSet
    <3>2. bucket[b].alloc \in Nat /\ bucket[b].alloc > 3 /\ bucket[b].table \in Arrays(bucket[b].alloc)
      BY ArrayNow
    <3>3. bucket[b].alloc \in Nat \ {0}
      BY <3>2
    <3> QED
      BY <3>1, <3>2, <3>3 DEF Arrays
  <2>3. /\ pc \in {"idle", "grow", "heal", "visit"}
        /\ loc.b \in BucketId /\ loc.elem \in Element \cup {Empty}
        /\ {loc.i, loc.k} \subseteq Nat
    BY DEF AInv, LocType
  <2>4. walk.dir \in {"none", "each", "removal", "forward", "backward"}
        /\ walk.todo \subseteq Key /\ walk.complete \in BOOLEAN
    BY DEF WInv, Directions
  <2>5. walk.at \in {NewStart, Restart, End}
                \cup UNION {{b} \X DOMAIN bucket[b].table : b \in BucketId}
    <3>1. CASE walk.at \in {NewStart, Restart, End}
      BY <3>1
    <3>2. CASE InPlace(walk.at)
      <4>1. PICK b, i : walk.at = <<b, i>> /\ b \in BucketId /\ i \in 0 .. bucket[b].alloc - 1
        BY <3>2 DEF InPlace
      <4>2. walk.at \in {b} \X DOMAIN bucket[b].table
        BY <4>1, ArrayNow
      <4> QED
        BY <4>1, <4>2
    <3> QED
      BY <3>1, <3>2 DEF WInv, Place
  <2>6. ret \in [op : {"init", "insert", "lookup", "remove", "removeThis", "iterate"},
                 key : Key \cup {NoValue}, out : BOOLEAN \cup Value \cup {NoValue}]
    BY DEF AInv, AnswerType
  <2> QED
    BY <2>1, <2>2, <2>3, <2>4, <2>5, <2>6 DEF TypeOK
<1> QED
  BY <1>1, WalkInvariant, PTL

-----------------------------------------------------------------------------
(* What the array holds: the elements in the arrays, and those that are    *)
(* still in the old one.                                                   *)
Placed  == {At(c) : c \in Used}
Pending == IF pc = "grow" THEN {loc.old[i] : i \in Left(loc.old, loc.i)} ELSE {}

Uniq(S) == S \subseteq Element /\ \A d, e \in S : d.key = e.key => d = e
Dict(S) == [k \in Key |-> IF \E e \in S : e.key = k
                          THEN (CHOOSE e \in S : e.key = k).value ELSE NoValue]

LEMMA StoredIs ==
  /\ loc.b \in BucketId => Stored = Placed \cup Pending
  /\ loc'.b \in BucketId => Stored' = Placed' \cup Pending'
<1>1. ASSUME loc.b \in BucketId PROVE Stored = Placed \cup Pending
  <2>1. \A b \in BucketId : OldLeft(b) = IF pc = "grow" /\ loc.b = b THEN Left(loc.old, loc.i) ELSE {}
    BY DEF OldLeft, Left, Filled
  <2>2. UNION {{loc.old[i] : i \in OldLeft(b)} : b \in BucketId} = Pending
    BY <1>1, <2>1 DEF Pending
  <2> QED
    BY <2>2 DEF Stored, Placed
<1>2. ASSUME loc'.b \in BucketId PROVE Stored' = Placed' \cup Pending'
  <2>1. \A b \in BucketId : OldLeft(b)' = IF pc' = "grow" /\ loc'.b = b THEN Left(loc'.old, loc'.i) ELSE {}
    BY DEF OldLeft, Left, Filled
  <2>2. UNION {{loc'.old[i] : i \in OldLeft(b)'} : b \in BucketId} = Pending'
    BY <1>2, <2>1 DEF Pending
  <2> QED
    BY <2>2 DEF Stored, Placed
<1> QED
  BY <1>1, <1>2

LEMMA StoredUniq ==
  ASSUME AInv
  PROVE  /\ Stored = Placed \cup Pending /\ Uniq(Stored)
         /\ pc # "grow" => Stored = Placed
<1>1. Stored = Placed \cup Pending
  BY StoredIs DEF AInv, LocType
<1>2. \A c \in Used : At(c) \in Element /\ c[1] \in BucketId /\ c[2] \in Filled(bucket[c[1]].table)
  BY UsedIs
<1>3. \A c, d \in Used : At(c).key = At(d).key => At(c) = At(d)
  BY KeysApart
<1>4. CASE pc # "grow"
  <2>1. Stored = Placed
    BY <1>1, <1>4 DEF Pending
  <2> QED
    BY <1>1, <1>2, <1>3, <2>1 DEF Placed, Uniq
<1>5. CASE pc = "grow"
  <2>1. /\ Growing /\ loc.b \in BucketId
    BY <1>5 DEF AInv, LocType
  <2>2. PICK m \in Nat : loc.old \in Arrays(m)
    BY <2>1 DEF Growing
  <2>3. /\ \A i \in Left(loc.old, loc.i) : loc.old[i] \in Element /\ BucketOf(loc.old[i].key) = loc.b
        /\ \A i, j \in Left(loc.old, loc.i) : loc.old[i].key = loc.old[j].key => loc.old[i] = loc.old[j]
    BY <2>1, <2>2, FilledFacts DEF Left, Growing, Local, OnceOnly
  <2>4. ASSUME NEW i \in Left(loc.old, loc.i), NEW c \in Used PROVE loc.old[i].key # At(c).key
    <3>1. c[1] \in BucketId /\ c[2] \in Filled(bucket[c[1]].table)
      BY <1>2
    <3>2. BucketOf(At(c).key) = c[1]
      BY <3>1, ArrayNow DEF Local, At
    <3>3. CASE c[1] # loc.b
      BY <2>3, <3>2, <3>3
    <3>4. CASE c[1] = loc.b
      BY <2>1, <3>1, <3>4 DEF Growing, At
    <3> QED
      BY <3>3, <3>4
  <2>5. Pending = {loc.old[i] : i \in Left(loc.old, loc.i)}
    BY <1>5 DEF Pending
  <2>6. Placed \cup Pending \subseteq Element
    BY <1>2, <2>3, <2>5 DEF Placed
  <2>7. ASSUME NEW d \in Placed \cup Pending, NEW e \in Placed \cup Pending, d.key = e.key
        PROVE  d = e
    BY <1>3, <2>3, <2>4, <2>5, <2>7 DEF Placed
  <2> QED
    BY <1>1, <1>5, <2>6, <2>7 DEF Uniq
<1> QED
  BY <1>4, <1>5

(* The value of a key, when keys are unique.                               *)
LEMMA DictFacts ==
  ASSUME NEW S, Uniq(S)
  PROVE  /\ \A e \in S : Dict(S)[e.key] = e.value /\ e.key \in Key /\ e.value \in Value
         /\ \A k \in Key : (\A e \in S : e.key # k) => Dict(S)[k] = NoValue
         /\ \A e \in S : e.value # NoValue
<1>1. ASSUME NEW e \in S
      PROVE  Dict(S)[e.key] = e.value /\ e.key \in Key /\ e.value \in Value /\ e.value # NoValue
  <2>1. e.key \in Key /\ e.value \in Value /\ e.value # NoValue
    BY ElementFacts DEF Uniq
  <2> DEFINE x == CHOOSE d \in S : d.key = e.key
  <2>2. x \in S /\ x.key = e.key
    OBVIOUS
  <2>3. x = e
    <3> HIDE DEF x
    <3> QED
      BY <2>2 DEF Uniq
  <2>4. Dict(S)[e.key] = x.value
    BY <2>1 DEF Dict
  <2> QED
    BY <2>1, <2>3, <2>4
<1>2. ASSUME NEW k \in Key, \A e \in S : e.key # k PROVE Dict(S)[k] = NoValue
  BY <1>2 DEF Dict
<1> QED
  BY <1>1, <1>2

LEMMA DictSame ==
  ASSUME NEW S, Uniq(S), NEW R, Uniq(R), NEW k \in Key,
         \A e \in R : e.key # k => e \in S, \A e \in S : e.key # k => e \in R
  PROVE  \A j \in Key : j # k => Dict(R)[j] = Dict(S)[j]
<1> SUFFICES ASSUME NEW j \in Key, j # k PROVE Dict(R)[j] = Dict(S)[j]
  OBVIOUS
<1>1. CASE \E e \in S : e.key = j
  BY <1>1, DictFacts
<1>2. CASE \A e \in S : e.key # j
  BY <1>2, DictFacts
<1> QED
  BY <1>1, <1>2

LEMMA DictIs == \A S : Dict(S) = [k \in Key |-> Dict(S)[k]]
BY DEF Dict

LEMMA DictChange ==
  ASSUME NEW S, Uniq(S), NEW R, Uniq(R), NEW k \in Key, NEW v,
         \A e \in R : e.key # k => e \in S, \A e \in S : e.key # k => e \in R,
         Dict(R)[k] = v
  PROVE  Dict(R) = [Dict(S) EXCEPT ![k] = v]
<1>1. \A j \in Key : j # k => Dict(R)[j] = Dict(S)[j]
  BY DictSame
<1>2. Dict(R) = [j \in Key |-> Dict(R)[j]] /\ Dict(S) = [j \in Key |-> Dict(S)[j]]
  BY DictIs
<1> HIDE DEF Dict
<1>3. [Dict(S) EXCEPT ![k] = v] = [j \in Key |-> IF j = k THEN v ELSE Dict(S)[j]]
  BY <1>2
<1>4. \A j \in Key : Dict(R)[j] = IF j = k THEN v ELSE Dict(S)[j]
  BY <1>1
<1> QED
  BY <1>2, <1>3, <1>4

LEMMA DictPut ==
  ASSUME NEW S, Uniq(S), NEW e \in Element, \A d \in S : d.key # e.key, NEW R, R = S \cup {e}
  PROVE  /\ Dict(S)[e.key] = NoValue /\ Dict(R) = [Dict(S) EXCEPT ![e.key] = e.value]
<1>1. e.key \in Key /\ e \in R
  BY ElementFacts
<1>2. Uniq(R)
  BY DEF Uniq
<1>3. Dict(R)[e.key] = e.value /\ Dict(S)[e.key] = NoValue
  BY <1>1, <1>2, DictFacts
<1>4. (\A d \in R : d.key # e.key => d \in S) /\ \A d \in S : d.key # e.key => d \in R
  OBVIOUS
<1> DEFINE k == e.key
           v == e.value
<1>5. k \in Key /\ Dict(R)[k] = v /\ \A d \in R : d.key # k => d \in S
  BY <1>1, <1>3, <1>4
<1>6. \A d \in S : d.key # k => d \in R
  BY <1>4
<1> HIDE DEF k, v
<1>7. Dict(R) = [Dict(S) EXCEPT ![k] = v]
  BY <1>2, <1>5, <1>6, DictChange
<1> QED
  BY <1>3, <1>7 DEF k, v

LEMMA DictTake ==
  ASSUME NEW S, Uniq(S), NEW e \in S, NEW k, k = e.key, NEW R, R = S \ {e}
  PROVE  /\ Dict(S)[k] = e.value /\ e.value # NoValue /\ k \in Key
         /\ Dict(R) = [Dict(S) EXCEPT ![k] = NoValue]
<1>1. Dict(S)[k] = e.value /\ e.value # NoValue /\ k \in Key
  BY DictFacts
<1>2. Uniq(R) /\ \A d \in R : d.key # k
  BY DEF Uniq
<1>3. Dict(R)[k] = NoValue
  BY <1>1, <1>2, DictFacts
<1> QED
  BY <1>1, <1>2, <1>3, DictChange

LEMMA DictWrite ==
  ASSUME NEW S, Uniq(S), NEW d \in S, NEW e \in Element, d.key = e.key,
         NEW R, R = (S \ {d}) \cup {e}
  PROVE  /\ Dict(S)[e.key] # NoValue /\ Dict(R) = [Dict(S) EXCEPT ![e.key] = e.value]
<1> DEFINE k == e.key
           v == e.value
<1>1. k \in Key /\ e \in R
  BY ElementFacts
<1>2. Uniq(R)
  BY DEF Uniq
<1>3. Dict(R)[k] = v /\ Dict(S)[k] # NoValue
  <2>1. Dict(R)[e.key] = e.value
    BY <1>1, <1>2, DictFacts
  <2>2. Dict(S)[d.key] # NoValue
    BY DictFacts
  <2> QED
    BY <2>1, <2>2
<1>4. (\A x \in R : x.key # k => x \in S) /\ \A x \in S : x.key # k => x \in R
  OBVIOUS
<1> HIDE DEF k, v
<1>7. Dict(R) = [Dict(S) EXCEPT ![k] = v]
  BY <1>1, <1>2, <1>3, <1>4, DictChange
<1> QED
  BY <1>3, <1>7 DEF k, v

(* The steps of the map.                                                   *)
MapStep == [Abstract!Next]_(Abstract!umVars)

LEMMA ContentsIs == Contents = Dict(Stored) /\ Contents' = Dict(Stored')
BY DEF Contents, Dict

LEMMA StutterStep == ASSUME Stored' = Stored, ret' = ret PROVE MapStep
BY ContentsIs DEF MapStep, Abstract!umVars

LEMMA LookupStep ==
  ASSUME NEW k \in Key, Stored' = Stored, ret' = Answer("lookup", k, Dict(Stored)[k])
  PROVE  MapStep
<1>1. Abstract!Lookup(k)
  BY ContentsIs DEF Abstract!Lookup, Abstract!Answer, Answer
<1> QED
  BY <1>1 DEF MapStep, Abstract!Next

LEMMA IterateStep ==
  ASSUME Stored' = Stored, ret' = Answer("iterate", NoValue, NoValue)
  PROVE  MapStep
<1>1. Abstract!Iterate
  BY ContentsIs DEF Abstract!Iterate, Abstract!Answer, Answer
<1>2. Key # {}
  BY AssocAssumption DEF Key
<1> QED
  BY <1>1, <1>2 DEF MapStep, Abstract!Next

LEMMA RefusedStep ==
  ASSUME Uniq(Stored), NEW d \in Stored, NEW k, k = d.key, Stored' = Stored,
         ret' = Answer("insert", k, FALSE)
  PROVE  MapStep
<1>1. k \in Key /\ Dict(Stored)[k] # NoValue
  BY DictFacts
<1>2. Abstract!InsertRefused(k)
  BY <1>1, ContentsIs DEF Abstract!InsertRefused, Abstract!Answer, Answer
<1> QED
  BY <1>1, <1>2 DEF MapStep, Abstract!Next

LEMMA NewStep ==
  ASSUME Uniq(Stored), NEW e \in Element, \A d \in Stored : d.key # e.key,
         Stored' = Stored \cup {e}, ret' = Answer("insert", e.key, TRUE)
  PROVE  MapStep
<1>1. e.key \in Key /\ e.value \in Value
  BY ElementFacts
<1>2. Dict(Stored)[e.key] = NoValue /\ Dict(Stored') = [Dict(Stored) EXCEPT ![e.key] = e.value]
  BY DictPut
<1>3. Abstract!InsertNew(e.key, e.value)
  BY <1>2, ContentsIs DEF Abstract!InsertNew, Abstract!Answer, Answer
<1> QED
  BY <1>1, <1>3 DEF MapStep, Abstract!Next

LEMMA NotRemovedStep ==
  ASSUME Uniq(Stored), NEW k \in Key, \A d \in Stored : d.key # k, Stored' = Stored,
         ret' = Answer("remove", k, FALSE)
  PROVE  MapStep
<1>1. Dict(Stored)[k] = NoValue
  BY DictFacts
<1>2. Dict(Stored) = [Dict(Stored) EXCEPT ![k] = NoValue]
  <2>1. Dict(Stored) = [j \in Key |-> Dict(Stored)[j]]
    BY DictIs
  <2> QED
    BY <1>1, <2>1
<1>3. ret' = Answer("remove", k, Dict(Stored)[k] # NoValue)
  BY <1>1
<1>4. Abstract!Remove(k)
  BY <1>2, <1>3, ContentsIs DEF Abstract!Remove, Abstract!Answer, Answer
<1> QED
  BY <1>4 DEF MapStep, Abstract!Next

LEMMA RemovedStep ==
  ASSUME Uniq(Stored), NEW d \in Stored, NEW k, d.key = k, Stored' = Stored \ {d},
         ret' = Answer("remove", k, TRUE)
  PROVE  MapStep
<1>1. /\ Dict(Stored)[k] = d.value /\ d.value # NoValue /\ k \in Key
      /\ Dict(Stored') = [Dict(Stored) EXCEPT ![k] = NoValue]
  BY DictTake
<1>2. ret' = Answer("remove", k, Dict(Stored)[k] # NoValue)
  BY <1>1
<1>3. Abstract!Remove(k)
  BY <1>1, <1>2, ContentsIs DEF Abstract!Remove, Abstract!Answer, Answer
<1> QED
  BY <1>1, <1>3 DEF MapStep, Abstract!Next

LEMMA NotRemovedThisStep ==
  ASSUME Uniq(Stored), NEW e \in Element, e \notin Stored, Stored' = Stored,
         ret' = Answer("removeThis", e.key, FALSE)
  PROVE  MapStep
<1>1. e.key \in Key /\ e.value \in Value /\ e.value # NoValue
      /\ e = [key |-> e.key, value |-> e.value]
  <2>1. e \in [key : Key, value : Value]
    BY AssocAssumption
  <2> QED
    BY <2>1, ElementFacts
<1>2. Dict(Stored)[e.key] # e.value
  <2>1. CASE \E d \in Stored : d.key = e.key
    <3>1. PICK d \in Stored : d.key = e.key
      BY <2>1
    <3>2. Dict(Stored)[e.key] = d.value /\ d \in [key : Key, value : Value]
      BY <3>1, DictFacts, AssocAssumption DEF Uniq
    <3>3. d = [key |-> d.key, value |-> d.value]
      BY <3>2
    <3>4. d.value # e.value
      BY <1>1, <3>1, <3>3
    <3> QED
      BY <3>2, <3>4
  <2>2. CASE \A d \in Stored : d.key # e.key
    BY <1>1, <2>2, DictFacts
  <2> QED
    BY <2>1, <2>2
<1>3. ret' = Answer("removeThis", e.key, Dict(Stored)[e.key] = e.value)
  BY <1>2
<1>4. Abstract!RemoveThis(e.key, e.value)
  BY <1>2, <1>3, ContentsIs DEF Abstract!RemoveThis, Abstract!Answer, Answer
<1> QED
  BY <1>1, <1>4 DEF MapStep, Abstract!Next

LEMMA RemovedThisStep ==
  ASSUME Uniq(Stored), NEW e \in Stored, Stored' = Stored \ {e},
         ret' = Answer("removeThis", e.key, TRUE)
  PROVE  MapStep
<1>1. e.value \in Value
  BY DictFacts
<1> DEFINE k == e.key
<1>2. /\ Dict(Stored)[k] = e.value /\ k \in Key
      /\ Dict(Stored') = [Dict(Stored) EXCEPT ![k] = NoValue]
  <2>1. k = e.key
    OBVIOUS
  <2> HIDE DEF k
  <2> QED
    BY <2>1, DictTake
<1>3. ret' = Answer("removeThis", k, Dict(Stored)[k] = e.value)
  BY <1>2
<1>4. Abstract!RemoveThis(k, e.value)
  BY <1>2, <1>3, ContentsIs DEF Abstract!RemoveThis, Abstract!Answer, Answer
<1> QED
  BY <1>1, <1>2, <1>4 DEF MapStep, Abstract!Next

LEMMA WrittenStep ==
  ASSUME Uniq(Stored), NEW d \in Stored, NEW e \in Element, d.key = e.key,
         Stored' = (Stored \ {d}) \cup {e}, ret' = ret
  PROVE  MapStep
<1>1. e.key \in Key /\ e.value \in Value
  BY ElementFacts
<1>2. /\ Dict(Stored)[e.key] # NoValue
      /\ Dict(Stored') = [Dict(Stored) EXCEPT ![e.key] = e.value]
  BY DictWrite
<1>3. Abstract!Write(e.key, e.value)
  BY <1>2, ContentsIs DEF Abstract!Write
<1> QED
  BY <1>1, <1>3 DEF MapStep, Abstract!Next

(* How the elements in the arrays change.                                  *)
LEMMA PlacedSame == ASSUME UNCHANGED bucket PROVE Placed' = Placed
BY DEF Placed, Used, At

LEMMA PlacedGains ==
  ASSUME NEW b \in BucketId, NEW i, NEW e, Gains(b, i, e)
  PROVE  Placed' = Placed \cup {e}
BY GainsUsed DEF Placed

LEMMA PlacedLoses ==
  ASSUME AInv, NEW b \in BucketId, NEW i, Loses(b, i), NEW e, e = bucket[b].table[i]
  PROVE  e \in Placed /\ Placed' = Placed \ {e}
<1> DEFINE x == <<b, i>>
<1>1. x \in Used /\ Used' = Used \ {x} /\ \A c \in Used' : At(c)' = At(c)
  BY LosesUsed
<1>2. At(x) = e
  BY DEF At
<1> HIDE DEF x
<1>3. \A c \in Used : At(c) = e => c = x
  BY <1>1, <1>2, KeysApart
<1>4. Placed' = {At(c) : c \in Used \ {x}}
  BY <1>1 DEF Placed
<1> QED
  BY <1>1, <1>2, <1>3, <1>4 DEF Placed

LEMMA PlacedMoves ==
  ASSUME NEW b \in BucketId, NEW i, NEW k, Moves(b, i, k)
  PROVE  Placed' = Placed
<1> DEFINE x == <<b, k>>
           y == <<b, i>>
<1>1. /\ x \in Used /\ Used' = (Used \ {x}) \cup {y}
      /\ At(y)' = At(x) /\ \A c \in Used \ {x} : At(c)' = At(c)
  BY MovesUsed
<1> HIDE DEF x, y
<1> QED
  BY <1>1 DEF Placed

LEMMA PlacedRewrites ==
  ASSUME AInv, NEW b \in BucketId, NEW i, NEW e, Rewrites(b, i, e),
         NEW d, d = bucket[b].table[i]
  PROVE  d \in Placed /\ d.key = e.key /\ Placed' = (Placed \ {d}) \cup {e}
<1> DEFINE x == <<b, i>>
<1>1. /\ x \in Used /\ Used' = Used /\ At(x).key = e.key /\ At(x)' = e
      /\ \A c \in Used \ {x} : At(c)' = At(c)
  BY RewritesUsed
<1>2. At(x) = d
  BY DEF At
<1> HIDE DEF x
<1>3. \A c \in Used : At(c) = d => c = x
  BY <1>1, <1>2, KeysApart
<1>4. Placed' = {At(c) : c \in Used \ {x}} \cup {e}
  BY <1>1 DEF Placed
<1> QED
  BY <1>1, <1>2, <1>3, <1>4 DEF Placed

LEMMA PlacedIn ==
  ASSUME AInv, NEW k \in Key
  PROVE  /\ \A j \in Filled(TableOf(k)) : TableOf(k)[j] \in Placed
         /\ \A e \in Placed : e.key = k => \E j \in Filled(TableOf(k)) : TableOf(k)[j] = e
<1>1. ASSUME NEW j \in Filled(TableOf(k)) PROVE TableOf(k)[j] \in Placed
  <2>1. <<BucketOf(k), j>> \in Used /\ At(<<BucketOf(k), j>>) = TableOf(k)[j]
    BY UsedIs, BucketsExist DEF TableOf, At
  <2> QED
    BY <2>1 DEF Placed
<1>2. ASSUME NEW e \in Placed, e.key = k PROVE \E j \in Filled(TableOf(k)) : TableOf(k)[j] = e
  <2>1. PICK c \in Used : e = At(c)
    BY DEF Placed
  <2>2. c[1] \in BucketId /\ c[2] \in Filled(bucket[c[1]].table)
    BY UsedIs
  <2>3. BucketOf(k) = c[1]
    BY <1>2, <2>1, <2>2, ArrayNow DEF Local, At
  <2> QED
    BY <2>1, <2>2, <2>3 DEF TableOf, At
<1> QED
  BY <1>1, <1>2

(* Each action is a step of the map, or none.                              *)
LEMMA StoredThen ==
  ASSUME AInv'
  PROVE  Stored' = Placed' \cup Pending' /\ (pc' # "grow" => Stored' = Placed')
<1>1. loc'.b \in BucketId
  BY DEF AInv, LocType
<1>2. Stored' = Placed' \cup Pending'
  BY <1>1, StoredIs
<1>3. pc' # "grow" => Pending' = {}
  BY DEF Pending
<1> QED
  BY <1>2, <1>3

LEMMA LookedStep ==
  ASSUME AInv, AInv', pc' # "grow", Idle, NEW k \in Key, NEW i, Looked(k, i), UNCHANGED bucket
  PROVE  MapStep
<1>1. Stored = Placed /\ Uniq(Stored) /\ Stored' = Stored
  BY StoredUniq, StoredThen, PlacedSame DEF Idle
<1>2. /\ TableOf(k)[i] # Empty => i \in Filled(TableOf(k)) /\ TableOf(k)[i].key = k
      /\ TableOf(k)[i] = Empty => \A j \in Filled(TableOf(k)) : TableOf(k)[j].key # k
  BY LookedIs
<1>3. ret' = Answer("lookup", k, IF TableOf(k)[i] = Empty THEN NoValue ELSE TableOf(k)[i].value)
  BY DEF Looked
<1>4. Dict(Stored)[k] = IF TableOf(k)[i] = Empty THEN NoValue ELSE TableOf(k)[i].value
  <2>1. CASE TableOf(k)[i] = Empty
    <3>1. \A e \in Stored : e.key # k
      BY <1>1, <1>2, <2>1, PlacedIn
    <3> QED
      BY <1>1, <2>1, <3>1, DictFacts
  <2>2. CASE TableOf(k)[i] # Empty
    <3>1. TableOf(k)[i] \in Stored /\ TableOf(k)[i].key = k
      BY <1>1, <1>2, <2>2, PlacedIn
    <3> QED
      BY <1>1, <2>2, <3>1, DictFacts
  <2> QED
    BY <2>1, <2>2
<1> QED
  BY <1>1, <1>3, <1>4, LookupStep

LEMMA InsertedStep ==
  ASSUME AInv, AInv', pc' # "grow", Stored = Placed, NEW e \in Element,
         NEW b, b = BucketOf(e.key), Good(bucket[b], b, {}, {}, 0), DoInsert(e)
  PROVE  MapStep
<1>1. /\ bucket \in Buckets /\ Uniq(Stored) /\ Stored' = Placed' /\ e.key \in Key /\ b \in BucketId
      /\ TableOf(e.key) = bucket[b].table
  BY StoredUniq, StoredThen, ElementFacts, BucketsExist DEF AInv, TableOf
<1>2. /\ \A j \in Filled(TableOf(e.key)) : TableOf(e.key)[j] \in Placed
      /\ \A d \in Placed : d.key = e.key => \E j \in Filled(TableOf(e.key)) : TableOf(e.key)[j] = d
  BY <1>1, PlacedIn
<1>3. CASE /\ UNCHANGED bucket /\ ret' = Answer("insert", e.key, FALSE)
           /\ \E i \in Filled(bucket[b].table) : bucket[b].table[i].key = e.key
  <2>1. PICK i \in Filled(bucket[b].table) : bucket[b].table[i].key = e.key
    BY <1>3
  <2>2. bucket[b].table[i] \in Stored /\ Stored' = Stored
    BY <1>1, <1>2, <1>3, PlacedSame
  <2>3. PICK d \in Stored : d.key = e.key
    BY <2>1, <2>2
  <2> DEFINE k == e.key
  <2>4. k = d.key /\ ret' = Answer("insert", k, FALSE)
    BY <1>3, <2>3
  <2> HIDE DEF k
  <2> QED
    BY <1>1, <2>2, <2>4, RefusedStep
<1>4. CASE /\ \E i : Gains(b, i, e)
           /\ Good(bucket'[b], b, {}, {}, 3) /\ ret' = Answer("insert", e.key, TRUE)
           /\ \A j \in Filled(bucket[b].table) : bucket[b].table[j].key # e.key
  <2>1. Placed' = Placed \cup {e}
    BY <1>1, <1>4, PlacedGains
  <2>2. \A d \in Stored : d.key # e.key
    BY <1>1, <1>2, <1>4
  <2> QED
    BY <1>1, <1>4, <2>1, <2>2, NewStep
<1> QED
  BY <1>1, <1>3, <1>4, DoInsertStep

(* The elements of the old array are still there when a new one is taken.  *)
LEMMA GrowsStep == ASSUME AInv, NEW e \in Element, InsertGrows(e) PROVE MapStep
<1> DEFINE b == BucketOf(e.key)
           T == bucket[b].table
<1>1. /\ AInv' /\ Others(b) /\ Filled(bucket'[b].table) = {} /\ b \in BucketId
      /\ Stored = Placed
  BY GrowsAInv, ElementFacts, BucketsExist, StoredUniq DEF InsertGrows, Idle
<1>2. loc'.i = 0 /\ loc'.old = T /\ pc' = "grow" /\ ret' = ret
  BY DEF InsertGrows, NoLoc
<1>3. Left(T, 0) = Filled(T)
  <2>1. Filled(T) \subseteq 0 .. bucket[b].alloc - 1 /\ bucket[b].alloc \in Nat
    BY <1>1, ArrayNow
  <2> HIDE DEF T, b
  <2>2. \A j \in Filled(T) : j >= 0
    BY <2>1
  <2> QED
    BY <2>2 DEF Left
<1>4. Pending' = {T[i] : i \in Filled(T)}
  <2>1. Pending' = {loc'.old[i] : i \in Left(loc'.old, loc'.i)}
    BY <1>2 DEF Pending
  <2> QED
    BY <1>2, <1>3, <2>1
<1>5. \A c \in BucketId \ {b} : bucket'[c] = bucket[c]
  BY <1>1 DEF Others
<1> HIDE DEF b
<1>6. ASSUME NEW d \in Placed' PROVE d \in Placed
  <2>1. PICK c \in Used' : d = bucket'[c[1]].table[c[2]]
    BY DEF Placed, At
  <2>2. c[1] \in BucketId /\ c[2] \in Filled(bucket'[c[1]].table) /\ c = <<c[1], c[2]>>
    BY UsedNext
  <2>3. c[1] # b
    BY <1>1, <2>2
  <2>4. c \in Used /\ d = At(c)
    BY <1>5, <2>1, <2>2, <2>3, UsedNext DEF At
  <2> QED
    BY <2>4 DEF Placed
<1>7. ASSUME NEW d \in Pending' PROVE d \in Placed
  <2>1. PICK i \in Filled(T) : d = T[i]
    BY <1>4
  <2>2. <<b, i>> \in Used /\ At(<<b, i>>) = d
    BY <1>1, <2>1, UsedNext DEF At
  <2> QED
    BY <2>2 DEF Placed
<1>8. ASSUME NEW d \in Placed PROVE d \in Placed' \cup Pending'
  <2>1. PICK c \in Used : d = bucket[c[1]].table[c[2]]
    BY DEF Placed, At
  <2>2. c[1] \in BucketId /\ c[2] \in Filled(bucket[c[1]].table) /\ c = <<c[1], c[2]>>
    BY UsedNext
  <2>3. CASE c[1] = b
    BY <1>4, <2>1, <2>2, <2>3
  <2>4. CASE c[1] # b
    <3>1. c \in Used' /\ d = bucket'[c[1]].table[c[2]]
      BY <1>5, <2>1, <2>2, <2>4, UsedNext
    <3> QED
      BY <3>1 DEF Placed, At
  <2> QED
    BY <2>3, <2>4
<1>9. Stored' = Stored
  BY <1>1, <1>6, <1>7, <1>8, StoredThen
<1> QED
  BY <1>2, <1>9, StutterStep

(* A turn of resizeInternal moves an element from the old array.           *)
LEMMA RehashedStep == ASSUME AInv, Rehash PROVE MapStep
<1>1. /\ AInv' /\ loc.b \in BucketId /\ Stored = Placed \cup Pending
      /\ Stored' = Placed' \cup Pending'
  BY RehashStep, StoredUniq, StoredThen DEF AInv, LocType
<1>2. /\ pc = "grow" /\ pc' = "grow" /\ ret' = ret /\ Growing
      /\ loc' = [loc EXCEPT !.i = @ + 1] /\ loc.i \in DOMAIN loc.old /\ loc \in LocType
  BY DEF Rehash, AInv
<1>3. PICK old : old = loc.old
  OBVIOUS
<1>4. PICK i : i = loc.i
  OBVIOUS
<1>5. PICK m \in Nat : old \in Arrays(m)
  BY <1>2, <1>3 DEF Growing
<1>6. i \in 0 .. m - 1
  BY <1>2, <1>3, <1>4, <1>5, FilledFacts
<1>7. loc'.old = old /\ loc'.i = i + 1
  BY <1>2, <1>3, <1>4 DEF LocType
<1>8. /\ Pending = {old[j] : j \in Left(old, i)}
      /\ Pending' = {old[j] : j \in Left(old, i + 1)}
  BY <1>2, <1>3, <1>4, <1>7 DEF Pending
<1>9. /\ old[i] = Empty => Left(old, i + 1) = Left(old, i)
      /\ old[i] # Empty => i \in Left(old, i) /\ Left(old, i + 1) = Left(old, i) \ {i}
  BY <1>5, <1>6, LeftIs
<1>10. CASE old[i] = Empty /\ UNCHANGED bucket
  BY <1>1, <1>2, <1>8, <1>9, <1>10, PlacedSame, StutterStep
<1>11. CASE i \in Left(old, i) /\ \E j : Gains(loc.b, j, old[i])
  <2>1. PICK e : e = old[i]
    OBVIOUS
  <2>2. \E j : Gains(loc.b, j, e)
    BY <1>11, <2>1
  <2>3. Placed' = Placed \cup {e}
    BY <1>1, <2>2, PlacedGains
  <2>4. old[i] # Empty
    BY <1>11 DEF Left, Filled
  <2>5. Pending = Pending' \cup {e}
    BY <1>8, <1>9, <2>1, <2>4
  <2>6. Stored' = Stored
    BY <1>1, <2>3, <2>5
  <2> QED
    BY <1>2, <2>6, StutterStep
<1>12. \/ old[i] = Empty /\ UNCHANGED bucket
       \/ i \in Left(old, i) /\ \E j : Gains(loc.b, j, old[i])
  BY <1>3, <1>4, RehashStep
<1> QED
  BY <1>10, <1>11, <1>12

LEMMA RemovedByKeyStep == ASSUME AInv, NEW k \in Key, RemoveByKey(k) PROVE MapStep
<1>1. AInv' /\ Stored = Placed /\ Uniq(Stored) /\ BucketOf(k) \in BucketId /\ pc = "idle"
  BY RemoveByKeyStep, StoredUniq, BucketsExist DEF RemoveByKey, Idle
<1>2. CASE /\ UNCHANGED <<bucket, loc, pc>> /\ ret' = Answer("remove", k, FALSE)
           /\ \A j \in Filled(TableOf(k)) : TableOf(k)[j].key # k
  <2>1. Stored' = Stored
    BY <1>1, <1>2, StoredThen, PlacedSame
  <2>2. \A d \in Stored : d.key # k
    BY <1>1, <1>2, PlacedIn
  <2> QED
    BY <1>1, <1>2, <2>1, <2>2, NotRemovedStep
<1>3. CASE /\ ret' = Answer("remove", k, TRUE) /\ pc' = "heal"
           /\ \E i : Loses(BucketOf(k), i) /\ TableOf(k)[i].key = k
  <2>1. PICK i : Loses(BucketOf(k), i) /\ TableOf(k)[i].key = k
    BY <1>3
  <2>2. PICK d : d = bucket[BucketOf(k)].table[i]
    OBVIOUS
  <2>3. d \in Placed /\ Placed' = Placed \ {d} /\ d.key = k
    BY <1>1, <2>1, <2>2, PlacedLoses DEF TableOf
  <2>4. Stored' = Stored \ {d}
    BY <1>1, <1>3, <2>3, StoredThen
  <2> QED
    BY <1>1, <1>3, <2>3, <2>4, RemovedStep
<1> QED
  BY <1>2, <1>3, RemoveByKeyStep

LEMMA RemovedElementStep ==
  ASSUME AInv, pc \in {"idle", "visit"}, NEW e \in Element, TakeElement(e)
  PROVE  MapStep
<1>1. AInv' /\ Stored = Placed /\ Uniq(Stored) /\ e.key \in Key /\ BucketOf(e.key) \in BucketId
  BY TakeElementStep, StoredUniq, ElementFacts, BucketsExist
<1>2. CASE /\ UNCHANGED <<bucket, loc>> /\ pc' = "idle"
           /\ ret' = Answer("removeThis", e.key, FALSE)
           /\ \A j \in Filled(TableOf(e.key)) : TableOf(e.key)[j] # e
  <2>1. Stored' = Stored
    BY <1>1, <1>2, StoredThen, PlacedSame
  <2>2. e \notin Stored
    BY <1>1, <1>2, PlacedIn
  <2> QED
    BY <1>1, <1>2, <2>1, <2>2, NotRemovedThisStep
<1>3. CASE /\ ret' = Answer("removeThis", e.key, TRUE) /\ pc' = "heal"
           /\ \E i : /\ Loses(BucketOf(e.key), i) /\ TableOf(e.key)[i] = e
                     /\ loc'.b = BucketOf(e.key) /\ loc'.i = i
  <2>1. PICK i : Loses(BucketOf(e.key), i) /\ TableOf(e.key)[i] = e
    BY <1>3
  <2>2. e \in Placed /\ Placed' = Placed \ {e}
    BY <1>1, <2>1, PlacedLoses DEF TableOf
  <2>3. Stored' = Stored \ {e}
    BY <1>1, <1>3, <2>2, StoredThen
  <2> QED
    BY <1>1, <1>3, <2>2, <2>3, RemovedThisStep
<1> QED
  BY <1>2, <1>3, TakeElementStep

LEMMA WriteMapStep == ASSUME AInv, NEW e \in Element, WriteValue(e) PROVE MapStep
<1>1. /\ AInv' /\ Stored = Placed /\ Uniq(Stored) /\ BucketOf(e.key) \in BucketId
      /\ pc' = "idle" /\ ret' = ret
  BY WriteAInv, StoredUniq, ElementFacts, BucketsExist DEF WriteValue, Idle
<1>2. PICK b \in BucketId : \E i : Rewrites(b, i, e)
  BY <1>1, WriteStep
<1>3. PICK i : Rewrites(b, i, e)
  BY <1>2
<1>4. PICK d : d = bucket[b].table[i]
  OBVIOUS
<1>5. d \in Placed /\ d.key = e.key /\ Placed' = (Placed \ {d}) \cup {e}
  BY <1>3, <1>4, PlacedRewrites
<1>6. Stored' = (Stored \ {d}) \cup {e}
  BY <1>1, <1>5, StoredThen
<1> QED
  BY <1>1, <1>5, <1>6, WrittenStep

LEMMA HealingStep == ASSUME AInv, HealTurn \/ Healed \/ RemoveThrows PROVE MapStep
<1>1. AInv' /\ pc = "heal" /\ pc' # "grow" /\ ret' = ret /\ loc.b \in BucketId
  BY HealTurnStep, HealedStep DEF HealTurn, Healed, RemoveThrows, AInv, LocType
<1>2. Stored = Placed /\ Stored' = Placed'
  BY <1>1, StoredUniq, StoredThen
<1>3. CASE HealTurn
  <2>1. Placed' = Placed
    BY <1>1, <1>3, HealTurnStep, PlacedSame, PlacedMoves
  <2> QED
    BY <1>1, <1>2, <2>1, StutterStep
<1>4. CASE Healed \/ RemoveThrows
  <2>1. CASE UNCHANGED bucket
    BY <1>1, <1>2, <2>1, PlacedSame, StutterStep
  <2>2. CASE /\ Others(loc.b)
             /\ Filled(bucket[loc.b].table) = {} /\ Filled(bucket'[loc.b].table) = {}
    <3>1. PICK b \in BucketId : b = loc.b
      BY <1>1
    <3>2. /\ \A c \in BucketId \ {b} : bucket'[c] = bucket[c]
          /\ Filled(bucket[b].table) = {} /\ Filled(bucket'[b].table) = {}
      BY <2>2, <3>1 DEF Others
    <3>3. \A c, i : <<c, i>> \in Used' <=> <<c, i>> \in Used
      BY <3>2, UsedNext
    <3>4. Used' = Used
      BY <3>3, UsedNext
    <3>5. ASSUME NEW c \in Used PROVE At(c)' = At(c)
      <4>1. c[1] \in BucketId /\ c[2] \in Filled(bucket[c[1]].table)
        BY UsedNext
      <4> QED
        BY <3>2, <4>1 DEF At
    <3>6. Placed' = Placed
      BY <3>4, <3>5 DEF Placed
    <3> QED
      BY <1>1, <1>2, <3>6, StutterStep
  <2> QED
    BY <1>4, <2>1, <2>2, HealedStep
<1> QED
  BY <1>3, <1>4

LEMMA LooksStep ==
  ASSUME AInv,
         \/ \E d \in {"each", "removal"} : StartVisit(d)
         \/ VisitKeeps \/ VisitEnds
         \/ \E d, at : StartSequence(d, at)
         \/ FindSequential \/ FindSequentialReverse
  PROVE  MapStep
<1>1. AInv' /\ UNCHANGED bucket /\ pc # "grow" /\ pc' # "grow"
  BY LooksAInv
<1>2. Stored' = Stored
  BY <1>1, StoredUniq, StoredThen, PlacedSame
<1>3. ret' = ret \/ ret' = Answer("iterate", NoValue, NoValue)
  BY DEF StartVisit, VisitKeeps, VisitEnds, StartSequence, FindSequential, FindSequentialReverse
<1> QED
  BY <1>2, <1>3, StutterStep, IterateStep

LEMMA NextMapStep == ASSUME AInv, [Next]_vars PROVE MapStep
<1>1. CASE UNCHANGED vars
  <2>1. Stored' = Stored /\ ret' = ret
    BY <1>1 DEF vars, Stored, Used, At, OldLeft
  <2> QED
    BY <2>1, StutterStep
<1>2. ASSUME NEW k \in Key, Find(k) PROVE MapStep
  <2>1. AInv' /\ pc' # "grow" /\ Idle /\ UNCHANGED bucket /\ \E i : Looked(k, i)
    BY <1>2, FindAInv DEF Find
  <2> QED
    BY <2>1, LookedStep
<1>3. ASSUME NEW k \in Key, RemoveByKey(k) PROVE MapStep
  BY <1>3, RemovedByKeyStep
<1>4. ASSUME NEW e \in Element, Insert(e) PROVE MapStep
  <2>1. PICK b : b = BucketOf(e.key)
    OBVIOUS
  <2>2. /\ AInv' /\ pc' # "grow" /\ Stored = Placed /\ DoInsert(e)
        /\ Good(bucket[b], b, {}, {}, 0)
    BY <1>4, <2>1, InsertAInv, InsertReady, StoredUniq DEF Insert, Idle
  <2> QED
    BY <2>1, <2>2, InsertedStep
<1>5. ASSUME NEW e \in Element, InsertGrows(e) PROVE MapStep
  BY <1>5, GrowsStep
<1>6. ASSUME NEW e \in Element, InsertThrows(e) PROVE MapStep
  <2>1. AInv' /\ pc # "grow" /\ pc' # "grow" /\ UNCHANGED bucket /\ ret' = ret
    BY <1>6, InsertThrowsAInv DEF InsertThrows, Idle
  <2> QED
    BY <2>1, StoredUniq, StoredThen, PlacedSame, StutterStep
<1>7. ASSUME NEW e \in Element, Remove(e) PROVE MapStep
  BY <1>7, RemovedElementStep DEF Remove, Idle
<1>8. ASSUME NEW e \in Element, WriteValue(e) PROVE MapStep
  BY <1>8, WriteMapStep
<1>9. ASSUME NEW d \in {"each", "removal"}, StartVisit(d) PROVE MapStep
  BY <1>9, LooksStep
<1>10. ASSUME NEW d, NEW at, StartSequence(d, at) PROVE MapStep
  BY <1>10, LooksStep
<1>11. ASSUME NEW d, NEW k \in Key, FindPosition(d, k) PROVE MapStep
  <2>1. AInv' /\ pc' # "grow" /\ Idle /\ UNCHANGED bucket /\ \E i : Looked(k, i)
    BY <1>11, LooksAInv DEF FindPosition
  <2> QED
    BY <2>1, LookedStep
<1>12. CASE FindSequential \/ FindSequentialReverse \/ VisitKeeps \/ VisitEnds
  BY <1>12, LooksStep
<1>13. CASE VisitRemoves
  <2>1. PICK c \in Used : TakeElement(At(c))
    BY <1>13 DEF VisitRemoves
  <2>2. PICK e : e = At(c)
    OBVIOUS
  <2>3. e \in Element /\ pc \in {"idle", "visit"} /\ TakeElement(e)
    BY <1>13, <2>1, <2>2, UsedIs DEF VisitRemoves
  <2> QED
    BY <2>3, RemovedElementStep
<1>14. CASE Rehash
  BY <1>14, RehashedStep
<1>15. CASE Grown
  <2>1. PICK e \in Element : e = loc.elem
    BY <1>15, GrownReady
  <2>2. PICK b : b = loc.b
    OBVIOUS
  <2>3. /\ AInv' /\ pc' # "grow" /\ DoInsert(e) /\ Good(bucket[b], b, {}, {}, 0)
        /\ b = BucketOf(e.key) /\ Left(loc.old, loc.i) = {}
    BY <1>15, <2>1, <2>2, GrownAInv, GrownReady DEF Grown
  <2>4. Pending = {}
    BY <2>3 DEF Pending
  <2>5. Stored = Placed
    BY <2>4, StoredUniq
  <2> QED
    BY <2>3, <2>5, InsertedStep
<1>16. CASE HealTurn \/ Healed \/ RemoveThrows
  BY <1>16, HealingStep
<1> QED
  BY <1>1, <1>2, <1>3, <1>4, <1>5, <1>6, <1>7, <1>8, <1>9, <1>10, <1>11, <1>12, <1>13,
     <1>14, <1>15, <1>16 DEF Next, Loop

LEMMA InitMap == Init => Abstract!Init
<1> SUFFICES ASSUME Init PROVE Abstract!Init
  OBVIOUS
<1>1. AInv /\ pc = "idle"
  BY InitAInv DEF Init
<1>2. \A b \in BucketId : bucket[b] = NewBucket
  BY DEF Init
<1>3. Filled(NewBucket.table) = {}
  BY AssocAssumption, NewTableFacts DEF NewBucket
<1>4. Used = {}
  BY <1>1, <1>2, <1>3, UsedIs
<1>5. Stored = {}
  BY <1>1, <1>4, StoredUniq DEF Placed
<1>6. Contents = [k \in Key |-> NoValue]
  BY <1>5 DEF Contents
<1> QED
  BY <1>6 DEF Init, Abstract!Init, Abstract!Answer, Answer

(* The array is a map with unique keys, whatever the hash function does:   *)
(* arrays that grow and gaps that close change nothing that is stored, and *)
(* insert, remove and find answer what the map says (the comments on       *)
(* findByKey, insert and the removes in AssocUnique.h).                    *)
THEOREM MapTheorem == Spec => ImplementsMap
<1>1. Init => Abstract!Init
  BY InitMap
<1>2. AInv /\ [Next]_vars => [Abstract!Next]_(Abstract!umVars)
  BY NextMapStep DEF MapStep
<1>3. Spec => []AInv
  BY ArrayInvariant
<1> QED
  BY <1>1, <1>2, <1>3, PTL DEF Spec, ImplementsMap, Abstract!Spec
=============================================================================
