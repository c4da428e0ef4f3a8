------------------------ MODULE CuckooMultiMapProofs ------------------------
(***************************************************************************)
(* Theorems on the multimap (CuckooMultiMap), for any keys, values, slots  *)
(* and bound on the pairs, and a client that is careful.                   *)
(***************************************************************************)
EXTENDS CuckooMultiMap, FiniteSetTheorems, FunctionTheorems, TLAPS

Pair   == [key : Key, value : Value, seq : Int]
Stores == [Slot -> Pair \cup {Empty}]

(* The slots of M with a pair, and those with a pair of k.                 *)
Taken(M) == {c \in Slot : M[c] # Empty}
In(M, k) == {c \in Slot : M[c] # Empty /\ M[c].key = k}

(* The n pairs of k have the numbers below n, and the number 0 stands as   *)
(* -first.                                                                 *)
Numbered(M, k, n, first) ==
  /\ n \in Nat
  /\ \A c \in In(M, k) : Num(M[c].seq) \in 0 .. n - 1
  /\ \A i \in 0 .. n - 1 : \E c \in In(M, k) : Num(M[c].seq) = i
  /\ \A c, d \in In(M, k) : Num(M[c].seq) = Num(M[d].seq) => c = d
  /\ \A c \in In(M, k) : M[c].seq <= 0 => M[c].seq = -first

LEMMA StoreFacts ==
  /\ NoSlot \notin Slot /\ IsFiniteSet(Slot) /\ Empty \notin Pair /\ MaxPairs \in Nat
  /\ \A M \in Stores, c \in Slot : M[c] # Empty => M[c] \in Pair
  /\ \A M, k : In(M, k) \subseteq Taken(M) /\ Taken(M) \subseteq Slot
  /\ \A M : IsFiniteSet(Taken(M)) /\ Cardinality(Taken(M)) \in Nat
<1>1. /\ NoSlot \notin Slot /\ IsFiniteSet(Slot) /\ Empty \notin Pair /\ MaxPairs \in Nat
  BY MultiMapAssumption DEF Pair
<1>2. \A M \in Stores, c \in Slot : M[c] # Empty => M[c] \in Pair
  BY DEF Stores
<1>3. \A M, k : In(M, k) \subseteq Taken(M) /\ Taken(M) \subseteq Slot
  BY DEF In, Taken
<1>4. \A M : IsFiniteSet(Taken(M)) /\ Cardinality(Taken(M)) \in Nat
  BY <1>1, <1>3, FS_Subset, FS_CardinalityType
<1> QED
  BY <1>1, <1>2, <1>3, <1>4

(* Numbering without a gap, each number once, is counting.                 *)
LEMMA NumberedCounts ==
  ASSUME NEW M, NEW k, NEW n, NEW first, Numbered(M, k, n, first)
  PROVE  /\ IsFiniteSet(In(M, k)) /\ Cardinality(In(M, k)) = n
         /\ n <= Cardinality(Taken(M))
<1> DEFINE g == [c \in In(M, k) |-> Num(M[c].seq)]
<1>1. IsFiniteSet(In(M, k)) /\ Cardinality(In(M, k)) <= Cardinality(Taken(M))
  BY StoreFacts, FS_Subset
<1>2. g \in Bijection(In(M, k), 0 .. n - 1)
  BY Fun_IsBij DEF Numbered
<1>3. /\ IsFiniteSet(0 .. n - 1)
      /\ Cardinality(0 .. n - 1) = Cardinality(In(M, k))
  BY <1>1, <1>2, FS_Bijection DEF ExistsBijection
<1>4. n \in Nat
  BY DEF Numbered
<1>5. Cardinality(0 .. n - 1) = n
  BY <1>4, FS_Interval
<1> QED
  BY <1>1, <1>3, <1>5

(* The pairs of k have the same slots and numbers in N as in M.            *)
SameNumbers(M, N, k) ==
  \A c \in Slot : /\ c \in In(M, k) <=> c \in In(N, k)
                  /\ c \in In(M, k) => M[c].seq = N[c].seq

LEMMA SameNumbering ==
  ASSUME NEW M, NEW N, NEW k, NEW n, NEW first, SameNumbers(M, N, k), Numbered(M, k, n, first)
  PROVE  Numbered(N, k, n, first)
<1>1. In(N, k) = In(M, k) /\ \A c \in In(M, k) : M[c].seq = N[c].seq
  BY DEF SameNumbers, In
<1> QED
  BY <1>1 DEF Numbered

(* N has the pairs of M in other slots.                                    *)
Shuffled(M, N) ==
  /\ N \in Stores
  /\ \E p \in [Slot -> Slot] : /\ \A c, d \in Slot : p[c] = p[d] => c = d
                               /\ \A d \in Slot : \E c \in Slot : p[c] = d
                               /\ \A c \in Slot : N[c] = M[p[c]]

LEMMA ShuffledSame ==
  ASSUME NEW M, NEW N, Shuffled(M, N)
  PROVE  /\ Cardinality(Taken(N)) = Cardinality(Taken(M))
         /\ \A k, n, first : Numbered(M, k, n, first) => Numbered(N, k, n, first)
<1>1. PICK p \in [Slot -> Slot] : /\ \A c, d \in Slot : p[c] = p[d] => c = d
                                  /\ \A d \in Slot : \E c \in Slot : p[c] = d
                                  /\ \A c \in Slot : N[c] = M[p[c]]
  BY DEF Shuffled
<1>2. Cardinality(Taken(N)) = Cardinality(Taken(M))
  <2> DEFINE g == [c \in Taken(N) |-> p[c]]
  <2>1. /\ \A c \in Slot : c \in Taken(N) <=> p[c] \in Taken(M)
        /\ Taken(N) \subseteq Slot /\ Taken(M) \subseteq Slot
    BY <1>1 DEF Taken
  <2>2. g \in [Taken(N) -> Taken(M)]
    BY <1>1, <2>1
  <2>3. /\ \A c, d \in Taken(N) : g[c] = g[d] => c = d
        /\ \A d \in Taken(M) : \E c \in Taken(N) : g[c] = d
    BY <1>1, <2>1
  <2>4. g \in Bijection(Taken(N), Taken(M))
    BY <2>2, <2>3, Fun_IsBij
  <2> QED
    BY <2>4, StoreFacts, FS_Bijection DEF ExistsBijection
<1>3. ASSUME NEW k, NEW n, NEW first, Numbered(M, k, n, first)
      PROVE  Numbered(N, k, n, first)
  <2>1. /\ \A c \in Slot : /\ c \in In(N, k) <=> p[c] \in In(M, k)
                           /\ N[c].seq = M[p[c]].seq
        /\ In(N, k) \subseteq Slot /\ In(M, k) \subseteq Slot
    BY <1>1 DEF In
  <2>2. \A c \in In(N, k) : Num(N[c].seq) \in 0 .. n - 1
    BY <1>3, <2>1 DEF Numbered
  <2>3. \A i \in 0 .. n - 1 : \E c \in In(N, k) : Num(N[c].seq) = i
    BY <1>1, <1>3, <2>1 DEF Numbered
  <2>4. \A c, d \in In(N, k) : Num(N[c].seq) = Num(N[d].seq) => c = d
    BY <1>1, <1>3, <2>1 DEF Numbered
  <2>5. \A c \in In(N, k) : N[c].seq <= 0 => N[c].seq = -first
    BY <1>3, <2>1 DEF Numbered
  <2> QED
    BY <1>3, <2>2, <2>3, <2>4, <2>5 DEF Numbered
<1> QED
  BY <1>2, <1>3

LEMMA StaysShuffles == \A M \in Stores : Shuffled(M, M)
<1> SUFFICES ASSUME NEW M \in Stores PROVE Shuffled(M, M)
  OBVIOUS
<1> DEFINE p == [c \in Slot |-> c]
<1>1. /\ p \in [Slot -> Slot] /\ \A c \in Slot : p[c] = c
  OBVIOUS
<1> HIDE DEF p
<1> QED
  BY <1>1 DEF Shuffled

(* A lookup leaves the pairs, and finds the one with the number.           *)
LEMMA MovedShuffles ==
  ASSUME NEW M \in Stores, NEW c \in Slot, NEW d \in Slot \ {c}, NEW e \in Slot,
         M[e] = Empty \/ e = c
  PROVE  Shuffled(M, Moved(M, c, d, e)) /\ Moved(M, c, d, e)[d] = M[c]
<1> DEFINE N == Moved(M, c, d, e)
           p == [x \in Slot |-> IF x = d THEN c ELSE IF x = e THEN d
                                ELSE IF x = c THEN e ELSE x]
<1>1. N \in Stores
  BY DEF Stores, Moved
<1>2. \A x \in Slot : N[x] = IF x = d THEN M[c] ELSE IF x = e THEN M[d]
                             ELSE IF x = c THEN Empty ELSE M[x]
  BY DEF Stores, Moved
<1>3. /\ p \in [Slot -> Slot]
      /\ \A x \in Slot : p[x] = IF x = d THEN c ELSE IF x = e THEN d
                                ELSE IF x = c THEN e ELSE x
  OBVIOUS
<1> HIDE DEF N, p
<1>4. \A x \in Slot : N[x] = M[p[x]]
  BY <1>2, <1>3
<1>5. \A x, y \in Slot : p[x] = p[y] => x = y
  BY <1>3
<1>6. \A y \in Slot : \E x \in Slot : p[x] = y
  <2> SUFFICES ASSUME NEW y \in Slot PROVE \E x \in Slot : p[x] = y
    OBVIOUS
  <2>1. CASE y = c
    BY <1>3, <2>1
  <2>2. CASE y = d /\ e # d
    BY <1>3, <2>2
  <2>3. CASE y = d /\ e = d
    BY <1>3, <2>3
  <2>4. CASE y # c /\ y # d /\ y = e
    BY <1>3, <2>4
  <2>5. CASE y # c /\ y # d /\ y # e
    BY <1>3, <2>5
  <2> QED
    BY <2>1, <2>2, <2>3, <2>4, <2>5
<1> QED
  BY <1>1, <1>2, <1>3, <1>4, <1>5, <1>6 DEF Shuffled, N

IsAt(M, k, n, c) == c \in In(M, k) /\ Num(M[c].seq) = n

LEMMA LookedIs ==
  ASSUME NEW M \in Stores, NEW k, NEW n, NEW r \in Looked(M, k, n)
  PROVE  /\ Shuffled(M, r.slots)
         /\ IF r.at = NoSlot THEN r.slots = M /\ \A c \in Slot : ~IsAt(M, k, n, c)
            ELSE r.at \in Slot /\ IsAt(r.slots, k, n, r.at)
         /\ Taken(M) \cap Back = {} => r.slots = M
<1> DEFINE C == {c \in Slot : M[c] # Empty /\ M[c].key = k /\ Num(M[c].seq) = n}
<1>1. \A c : c \in C <=> IsAt(M, k, n, c)
  BY DEF IsAt, In
<1>2. CASE C = {}
  <2>1. r.slots = M /\ r.at = NoSlot
    BY <1>2 DEF Looked
  <2> QED
    BY <1>1, <1>2, <2>1, StaysShuffles
<1>3. CASE C # {} /\ \E c \in C : r = [slots |-> M, at |-> c]
  <2>1. PICK c \in C : r = [slots |-> M, at |-> c]
    BY <1>3
  <2>2. c \in Slot /\ c # NoSlot
    BY StoreFacts
  <2> QED
    BY <1>1, <2>1, <2>2, StaysShuffles
<1>4. CASE \E c \in C \cap Back, d \in Slot :
             \E e \in {x \in Slot : M[x] = Empty} \cup {c} :
               d # c /\ r = [slots |-> Moved(M, c, d, e), at |-> d]
  <2>1. PICK c \in C \cap Back, d \in Slot, e \in Slot :
               /\ d # c /\ (M[e] = Empty \/ e = c)
               /\ r = [slots |-> Moved(M, c, d, e), at |-> d]
    BY <1>4
  <2>2. /\ Shuffled(M, r.slots) /\ r.slots[d] = M[c] /\ r.at = d /\ d # NoSlot
    BY <2>1, MovedShuffles, StoreFacts
  <2>3. IsAt(r.slots, k, n, d)
    BY <2>1, <2>2 DEF IsAt, In
  <2>4. c \in Taken(M) \cap Back
    BY <2>1 DEF Taken
  <2> QED
    BY <2>2, <2>3, <2>4
<1>5. \/ C = {} \/ (C # {} /\ \E c \in C : r = [slots |-> M, at |-> c])
      \/ \E c \in C \cap Back, d \in Slot :
           \E e \in {x \in Slot : M[x] = Empty} \cup {c} :
             d # c /\ r = [slots |-> Moved(M, c, d, e), at |-> d]
  BY DEF Looked
<1> QED
  BY <1>2, <1>3, <1>4, <1>5

(* An insert of a pair whose number is new puts it into an empty slot; it  *)
(* may kick others.                                                        *)
LEMMA InsertedIs ==
  ASSUME NEW M \in Stores, NEW p \in Pair, NEW N \in Inserted(M, p),
         \A c \in Slot : ~IsAt(M, p.key, Num(p.seq), c)
  PROVE  \E e \in Slot : M[e] = Empty /\ Shuffled([M EXCEPT ![e] = p], N)
<1>1. PICK d \in Slot, e \in Slot : M[e] = Empty /\ N = [M EXCEPT ![e] = M[d], ![d] = p]
  BY DEF Inserted, IsAt, In
<1> DEFINE O == [M EXCEPT ![e] = p]
           g == [x \in Slot |-> IF x = d THEN e ELSE IF x = e THEN d ELSE x]
<1>2. /\ N \in Stores /\ \A x \in Slot : N[x] = IF x = d THEN p ELSE IF x = e THEN M[d] ELSE M[x]
  BY <1>1 DEF Stores
<1>3. \A x \in Slot : O[x] = IF x = e THEN p ELSE M[x]
  BY DEF Stores
<1>4. /\ g \in [Slot -> Slot]
      /\ \A x \in Slot : g[x] = IF x = d THEN e ELSE IF x = e THEN d ELSE x
  OBVIOUS
<1> HIDE DEF O, g
<1>5. \A x \in Slot : N[x] = O[g[x]]
  BY <1>2, <1>3, <1>4
<1>6. /\ \A x, y \in Slot : g[x] = g[y] => x = y
      /\ \A y \in Slot : \E x \in Slot : g[x] = y
  <2>1. \A y \in Slot : g[g[y]] = y /\ g[y] \in Slot
    BY <1>4
  <2> QED
    BY <2>1
<1> QED
  BY <1>1, <1>2, <1>4, <1>5, <1>6 DEF Shuffled, O

(* What one write does to the numbering: the last pair goes, one comes     *)
(* behind the last, the first pair counts anew, a value changes.           *)
Others(M, N, k) == \A l : l # k => SameNumbers(M, N, l)

LEMMA LastGoes ==
  ASSUME NEW M \in Stores, NEW k, NEW n, NEW first, Numbered(M, k, n, first),
         NEW c, IsAt(M, k, n - 1, c), NEW N, N = [M EXCEPT ![c] = Empty]
  PROVE  /\ N \in Stores /\ n \in Nat \ {0}
         /\ Numbered(N, k, n - 1, first) /\ Others(M, N, k)
         /\ Cardinality(Taken(N)) <= Cardinality(Taken(M))
<1>1. c \in Slot /\ c \in In(M, k) /\ M[c].key = k /\ Num(M[c].seq) = n - 1
  BY DEF IsAt, In
<1>2. /\ N \in Stores /\ N[c] = Empty /\ \A d \in Slot : d # c => N[d] = M[d]
  BY <1>1 DEF Stores
<1>3. n \in Nat \ {0}
  BY <1>1 DEF Numbered
<1>4. In(N, k) = In(M, k) \ {c} /\ \A d \in In(N, k) : N[d] = M[d]
  BY <1>1, <1>2 DEF In
<1>5. Others(M, N, k)
  BY <1>1, <1>2 DEF Others, SameNumbers, In
<1>6. Cardinality(Taken(N)) <= Cardinality(Taken(M))
  <2>1. Taken(N) \subseteq Taken(M)
    BY <1>2 DEF Taken
  <2> QED
    BY <2>1, StoreFacts, FS_Subset
<1>7. Numbered(N, k, n - 1, first)
  <2>1. \A d \in In(N, k) : Num(N[d].seq) \in 0 .. n - 1 - 1
    <3> SUFFICES ASSUME NEW d \in In(N, k) PROVE Num(N[d].seq) \in 0 .. n - 1 - 1
      OBVIOUS
    <3>1. d \in In(M, k) /\ d # c /\ N[d] = M[d]
      BY <1>4
    <3>2. Num(M[d].seq) \in 0 .. n - 1 /\ Num(M[d].seq) # n - 1
      BY <1>1, <3>1 DEF Numbered
    <3> QED
      BY <1>3, <3>1, <3>2
  <2>2. \A i \in 0 .. n - 1 - 1 : \E d \in In(N, k) : Num(N[d].seq) = i
    <3> SUFFICES ASSUME NEW i \in 0 .. n - 1 - 1
                 PROVE  \E d \in In(N, k) : Num(N[d].seq) = i
      OBVIOUS
    <3>1. i \in 0 .. n - 1 /\ i # n - 1
      BY <1>3
    <3>2. PICK d \in In(M, k) : Num(M[d].seq) = i
      BY <3>1 DEF Numbered
    <3> QED
      BY <1>1, <1>4, <3>1, <3>2
  <2>3. /\ \A d, e \in In(N, k) : Num(N[d].seq) = Num(N[e].seq) => d = e
        /\ \A d \in In(N, k) : N[d].seq <= 0 => N[d].seq = -first
    BY <1>4 DEF Numbered
  <2>4. n - 1 \in Nat
    BY <1>3
  <2> QED
    BY <2>1, <2>2, <2>3, <2>4 DEF Numbered
<1> QED
  BY <1>2, <1>3, <1>5, <1>6, <1>7

ComesAs(p, k, n, first) == /\ p \in Pair /\ p.key = k /\ Num(p.seq) = n
                           /\ p.seq <= 0 => p.seq = -first

OneMore(M, N) == Cardinality(Taken(N)) = Cardinality(Taken(M)) + 1

LEMMA OneComes ==
  ASSUME NEW M \in Stores, NEW k, NEW n, NEW first, Numbered(M, k, n, first),
         NEW e \in Slot, M[e] = Empty, NEW p, ComesAs(p, k, n, first),
         NEW N, N = [M EXCEPT ![e] = p]
  PROVE  /\ N \in Stores /\ Numbered(N, k, n + 1, first) /\ Others(M, N, k)
         /\ OneMore(M, N)
<1>1. /\ N \in Stores /\ N[e] = p /\ p # Empty /\ \A d \in Slot : d # e => N[d] = M[d]
      /\ p \in Pair /\ p.key = k /\ Num(p.seq) = n /\ (p.seq <= 0 => p.seq = -first)
  BY StoreFacts DEF Stores, ComesAs
<1>2. n \in Nat
  BY DEF Numbered
<1>3. /\ In(N, k) = In(M, k) \cup {e} /\ e \notin In(M, k)
      /\ \A d \in In(M, k) : N[d] = M[d]
  BY <1>1 DEF In
<1>4. Others(M, N, k)
  BY <1>1 DEF Others, SameNumbers, In
<1>5. OneMore(M, N)
  <2>1. Taken(N) = Taken(M) \cup {e} /\ e \notin Taken(M)
    BY <1>1 DEF Taken
  <2> QED
    BY <2>1, StoreFacts, FS_AddElement DEF OneMore
<1>6. Numbered(N, k, n + 1, first)
  <2>1. \A d \in In(N, k) : Num(N[d].seq) \in 0 .. (n + 1) - 1
    <3> SUFFICES ASSUME NEW d \in In(N, k) PROVE Num(N[d].seq) \in 0 .. (n + 1) - 1
      OBVIOUS
    <3>1. CASE d = e
      BY <1>1, <1>2, <3>1
    <3>2. CASE d # e
      <4>1. Num(N[d].seq) \in 0 .. n - 1
        BY <1>3, <3>2 DEF Numbered
      <4> QED
        BY <1>2, <4>1
    <3> QED
      BY <3>1, <3>2
  <2>2. \A i \in 0 .. (n + 1) - 1 : \E d \in In(N, k) : Num(N[d].seq) = i
    <3> SUFFICES ASSUME NEW i \in 0 .. (n + 1) - 1
                 PROVE  \E d \in In(N, k) : Num(N[d].seq) = i
      OBVIOUS
    <3>1. CASE i = n
      BY <1>1, <1>3, <3>1
    <3>2. CASE i # n
      <4>1. i \in 0 .. n - 1
        BY <1>2, <3>2
      <4>2. PICK d \in In(M, k) : Num(M[d].seq) = i
        BY <4>1 DEF Numbered
      <4> QED
        BY <1>3, <4>2
    <3> QED
      BY <3>1, <3>2
  <2>3. \A d, c \in In(N, k) : Num(N[d].seq) = Num(N[c].seq) => d = c
    <3>1. \A d \in In(M, k) : Num(N[d].seq) # n
      <4> SUFFICES ASSUME NEW d \in In(M, k) PROVE Num(N[d].seq) # n
        OBVIOUS
      <4>1. Num(N[d].seq) \in 0 .. n - 1
        BY <1>3 DEF Numbered
      <4> QED
        BY <1>2, <4>1
    <3>2. \A d, c \in In(M, k) : Num(N[d].seq) = Num(N[c].seq) => d = c
      BY <1>3 DEF Numbered
    <3>3. Num(N[e].seq) = n
      BY <1>1
    <3> QED
      BY <1>3, <3>1, <3>2, <3>3
  <2>4. \A d \in In(N, k) : N[d].seq <= 0 => N[d].seq = -first
    BY <1>1, <1>3 DEF Numbered
  <2>5. n + 1 \in Nat
    BY <1>2
  <2> QED
    BY <2>1, <2>2, <2>3, <2>4, <2>5 DEF Numbered
<1> QED
  BY <1>1, <1>4, <1>5, <1>6

CountsAs(M, c, next, N) == N = [M EXCEPT ![c].seq = -next]

LEMMA FirstCounts ==
  ASSUME NEW M \in Stores, NEW k, NEW n, NEW first, Numbered(M, k, n, first),
         NEW c, IsAt(M, k, 0, c), NEW next \in Nat,
         NEW N, CountsAs(M, c, next, N)
  PROVE  /\ N \in Stores /\ Numbered(N, k, n, next) /\ Others(M, N, k)
         /\ Cardinality(Taken(N)) = Cardinality(Taken(M))
         /\ M[c].seq = -first /\ IsAt(N, k, 0, c)
<1>1. /\ c \in Slot /\ c \in In(M, k) /\ M[c] \in Pair /\ M[c].key = k
      /\ Num(M[c].seq) = 0
  BY StoreFacts DEF IsAt, In
<1>2. /\ N \in Stores /\ N[c] \in Pair /\ N[c].key = k /\ N[c].seq = -next
      /\ \A d \in Slot : d # c => N[d] = M[d]
  <2>1. [M[c] EXCEPT !.seq = -next] \in Pair /\ N[c] = [M[c] EXCEPT !.seq = -next]
    BY <1>1 DEF Pair, Stores, CountsAs
  <2>2. N[c].key = k /\ N[c].seq = -next
    BY <1>1, <2>1 DEF Pair
  <2> QED
    BY <1>1, <2>1, <2>2 DEF Stores, CountsAs
<1>3. N[c] # Empty /\ M[c] # Empty
  BY <1>1, <1>2, StoreFacts
<1>4. /\ In(N, k) = In(M, k) /\ Taken(N) = Taken(M) /\ Others(M, N, k)
  BY <1>1, <1>2, <1>3 DEF In, Taken, Others, SameNumbers
<1>5. Num(N[c].seq) = 0 /\ M[c].seq <= 0
  BY <1>1, <1>2 DEF Num, Pair
<1>6. \A d \in In(N, k) : Num(N[d].seq) = Num(M[d].seq)
  BY <1>1, <1>2, <1>4, <1>5 DEF In
<1>7. \A d \in In(N, k) : N[d].seq <= 0 => N[d].seq = -next
  <2> SUFFICES ASSUME NEW d \in In(N, k), N[d].seq <= 0, d # c PROVE FALSE
    BY <1>2
  <2>1. N[d] \in Pair
    BY <1>2, StoreFacts DEF In
  <2>2. Num(N[d].seq) = 0
    BY <2>1 DEF Num, Pair
  <2> QED
    BY <1>1, <1>4, <1>6, <2>2 DEF Numbered
<1>8. Numbered(N, k, n, next)
  <2>1. /\ \A d \in In(N, k) : Num(N[d].seq) \in 0 .. n - 1
        /\ \A i \in 0 .. n - 1 : \E d \in In(N, k) : Num(N[d].seq) = i
        /\ \A d, e \in In(N, k) : Num(N[d].seq) = Num(N[e].seq) => d = e
    BY <1>4, <1>6 DEF Numbered
  <2> QED
    BY <1>7, <2>1 DEF Numbered
<1>9. M[c].seq = -first
  BY <1>1, <1>5 DEF Numbered
<1> QED
  BY <1>1, <1>2, <1>4, <1>5, <1>8, <1>9 DEF IsAt

Rewrites(M, c, v, N) == N = [M EXCEPT ![c].value = v]

LEMMA ValueChanges ==
  ASSUME NEW M \in Stores, NEW c \in Slot, M[c] # Empty, NEW v \in Value,
         NEW N, Rewrites(M, c, v, N)
  PROVE  /\ N \in Stores /\ Cardinality(Taken(N)) = Cardinality(Taken(M))
         /\ \A k : SameNumbers(M, N, k)
         /\ N[c] # Empty /\ N[c].key = M[c].key /\ N[c].seq = M[c].seq
<1>1. M[c] \in Pair
  BY StoreFacts
<1>2. /\ N \in Stores /\ N[c] \in Pair /\ N[c].key = M[c].key /\ N[c].seq = M[c].seq
      /\ \A d \in Slot : d # c => N[d] = M[d]
  <2>1. [M[c] EXCEPT !.value = v] \in Pair /\ N[c] = [M[c] EXCEPT !.value = v]
    BY <1>1 DEF Pair, Stores, Rewrites
  <2>2. N[c].key = M[c].key /\ N[c].seq = M[c].seq
    BY <1>1, <2>1 DEF Pair
  <2> QED
    BY <1>1, <2>1, <2>2 DEF Stores, Rewrites
<1>3. N[c] # Empty
  BY <1>2, StoreFacts
<1>4. Taken(N) = Taken(M)
  BY <1>2, <1>3 DEF Taken
<1>5. \A k : SameNumbers(M, N, k)
  BY <1>2, <1>3 DEF SameNumbers, In
<1> QED
  BY <1>2, <1>3, <1>4, <1>5

-----------------------------------------------------------------------------
(* The invariant.  Between calls the pairs of every key are numbered, and  *)
(* the first one counts them; a Finding that was given up is as new, and   *)
(* one that points somewhere points to its pair; a walk over the pairs of  *)
(* a key has shown those up to the present one.                            *)
FindingType ==
  [alive : BOOLEAN, key : Key \cup {NoValue}, seq : -1 .. MaxPairs,
   at : Slot \cup {NoSlot}, count : 0 .. MaxPairs,
   seen : SUBSET (0 .. MaxPairs), walk : {"none", "on", "ended"}]

AnswerType ==
  [op : {"init", "lookup", "show", "insert", "remove", "removeOne"},
   key : Key \cup {NoValue}, out : 0 .. MaxPairs \cup Value \cup {NoValue}]

Pairs(M, k) == Cardinality(In(M, k))

Orderly(M) == /\ M \in Stores /\ Cardinality(Taken(M)) <= MaxPairs
              /\ \A k \in Key : Numbered(M, k, Pairs(M, k), Pairs(M, k))

WalkOf(M, F) == /\ F.count = Pairs(M, F.key)
                /\ IF Pairs(M, F.key) = 0 THEN F.seen = {} /\ F.seq = 0
                   ELSE F.seen = 0 .. F.seq /\ F.seq \in 0 .. Pairs(M, F.key) - 1

Known(M, F) == /\ F \in FindingType
               /\ IF F.alive THEN F.key \in Key ELSE F = NoFinding
               /\ F.at # NoSlot => IsAt(M, F.key, F.seq, F.at)
               /\ F.walk # "none" => WalkOf(M, F)
               /\ F.walk = "ended" => F.seq + 1 >= F.count

(* In the loop of remove(k) there is one pair more than turns to do.       *)
Removal == /\ mem \in Stores /\ Cardinality(Taken(mem)) <= MaxPairs
           /\ f \in FindingType /\ f.alive /\ f.key \in Key /\ f.walk = "none"
           /\ turn < f.count
           /\ Numbered(mem, f.key, turn + 1, f.count)
           /\ \A k \in Key \ {f.key} : Numbered(mem, k, Pairs(mem, k), Pairs(mem, k))

IInv == /\ pc \in {"idle", "remove"} /\ turn \in 0 .. MaxPairs /\ ret \in AnswerType
        /\ pc = "idle" => Orderly(mem) /\ Known(mem, f)
        /\ pc = "remove" => Removal

-----------------------------------------------------------------------------
LEMMA OrderlyFacts ==
  ASSUME NEW M, Orderly(M), NEW k \in Key
  PROVE  /\ M \in Stores /\ Pairs(M, k) \in 0 .. MaxPairs
         /\ Numbered(M, k, Pairs(M, k), Pairs(M, k))
<1>1. M \in Stores /\ Numbered(M, k, Pairs(M, k), Pairs(M, k))
  BY DEF Orderly
<1>2. Pairs(M, k) \in Nat /\ Pairs(M, k) <= Cardinality(Taken(M))
  BY <1>1, NumberedCounts DEF Numbered
<1> QED
  BY <1>1, <1>2, StoreFacts DEF Orderly

(* To be orderly it is enough that the pairs of each key are numbered.     *)
LEMMA IsOrderly ==
  ASSUME NEW M \in Stores, Cardinality(Taken(M)) <= MaxPairs,
         \A k \in Key : \E n : Numbered(M, k, n, n)
  PROVE  Orderly(M)
<1> SUFFICES ASSUME NEW k \in Key PROVE Numbered(M, k, Pairs(M, k), Pairs(M, k))
  BY DEF Orderly
<1>1. PICK n : Numbered(M, k, n, n)
  OBVIOUS
<1>2. Pairs(M, k) = n
  BY <1>1, NumberedCounts DEF Pairs
<1> QED
  BY <1>1, <1>2

(* A lookup finds the pair with a number exactly if there are more pairs,  *)
(* and leaves how many there are.                                          *)
LEMMA LookedFinds ==
  ASSUME NEW M \in Stores, NEW k, NEW n, NEW first, Numbered(M, k, n, first),
         NEW i \in Int, NEW r \in Looked(M, k, i)
  PROVE  /\ r.slots \in Stores /\ Numbered(r.slots, k, n, first)
         /\ r.at # NoSlot <=> i \in 0 .. n - 1
         /\ r.at # NoSlot => r.at \in Slot /\ IsAt(r.slots, k, i, r.at)
<1>1. /\ Shuffled(M, r.slots)
      /\ IF r.at = NoSlot THEN r.slots = M /\ \A c \in Slot : ~IsAt(M, k, i, c)
         ELSE r.at \in Slot /\ IsAt(r.slots, k, i, r.at)
  BY LookedIs
<1>2. r.slots \in Stores /\ Numbered(r.slots, k, n, first)
  BY <1>1, ShuffledSame DEF Shuffled
<1>3. r.at # NoSlot => i \in 0 .. n - 1
  BY <1>1, <1>2 DEF IsAt, Numbered
<1>4. ASSUME i \in 0 .. n - 1, r.at = NoSlot PROVE FALSE
  <2>1. PICK c \in In(M, k) : Num(M[c].seq) = i
    BY <1>4 DEF Numbered
  <2> QED
    BY <1>1, <1>4, <2>1 DEF IsAt, In
<1> QED
  BY <1>1, <1>2, <1>3, <1>4

LEMMA LookedOrderly ==
  ASSUME NEW M, Orderly(M), NEW k \in Key, NEW i \in Int, NEW r \in Looked(M, k, i)
  PROVE  /\ Orderly(r.slots) /\ \A l \in Key : Pairs(r.slots, l) = Pairs(M, l)
         /\ Cardinality(Taken(r.slots)) = Cardinality(Taken(M))
         /\ r.at # NoSlot <=> i \in 0 .. Pairs(M, k) - 1
         /\ r.at # NoSlot => r.at \in Slot /\ IsAt(r.slots, k, i, r.at)
<1>1. /\ M \in Stores /\ Cardinality(Taken(M)) <= MaxPairs
      /\ \A l \in Key : Numbered(M, l, Pairs(M, l), Pairs(M, l))
  BY DEF Orderly
<1>2. Shuffled(M, r.slots)
  BY <1>1, LookedIs
<1>3. /\ r.slots \in Stores /\ Cardinality(Taken(r.slots)) = Cardinality(Taken(M))
      /\ \A l \in Key : Numbered(r.slots, l, Pairs(M, l), Pairs(M, l))
  BY <1>1, <1>2, ShuffledSame DEF Shuffled
<1>4. \A l \in Key : Pairs(r.slots, l) = Pairs(M, l)
  BY <1>3, NumberedCounts DEF Pairs
<1>5. Orderly(r.slots)
  BY <1>1, <1>3, <1>4 DEF Orderly
<1>6. /\ r.at # NoSlot <=> i \in 0 .. Pairs(M, k) - 1
      /\ r.at # NoSlot => r.at \in Slot /\ IsAt(r.slots, k, i, r.at)
  BY <1>1, LookedFinds
<1> QED
  BY <1>3, <1>4, <1>5, <1>6

(* What a lookup of the first pair makes of a Finding: it counts the pairs.*)
LEMMA FirstLooked ==
  ASSUME NEW M, Orderly(M), NEW k \in Key, NEW r \in Looked(M, k, 0),
         NEW F \in FindingType
  PROVE  LET G == Points(F, k, r)
         IN /\ G \in FindingType /\ G.alive /\ G.key = k /\ G.seq = 0 /\ G.at = r.at
            /\ G.count = Pairs(M, k) /\ G.seen = F.seen /\ G.walk = F.walk
            /\ r.at = NoSlot <=> Pairs(M, k) = 0
            /\ r.at # NoSlot => IsAt(r.slots, k, 0, r.at) /\ r.slots[r.at].seq = -Pairs(M, k)
<1> DEFINE n == Pairs(M, k)
           G == Points(F, k, r)
<1>1. n \in 0 .. MaxPairs /\ MaxPairs \in Nat
  BY OrderlyFacts, StoreFacts
<1>2. /\ Orderly(r.slots) /\ Pairs(r.slots, k) = n
      /\ r.at # NoSlot <=> 0 \in 0 .. n - 1
      /\ r.at # NoSlot => r.at \in Slot /\ IsAt(r.slots, k, 0, r.at)
  BY LookedOrderly
<1>3. r.at = NoSlot <=> n = 0
  <2> HIDE DEF n
  <2> QED
    BY <1>1, <1>2
<1>4. r.at # NoSlot => r.slots[r.at].seq = -n
  <2> SUFFICES ASSUME r.at # NoSlot PROVE r.slots[r.at].seq = -n
    OBVIOUS
  <2>1. Numbered(r.slots, k, n, n) /\ r.slots \in Stores
    BY <1>2, OrderlyFacts
  <2>2. /\ r.at \in In(r.slots, k) /\ Num(r.slots[r.at].seq) = 0
        /\ r.slots[r.at] \in Pair
    BY <1>2, <2>1, StoreFacts DEF IsAt, In
  <2>3. r.slots[r.at].seq <= 0
    BY <2>2 DEF Num, Pair
  <2> QED
    BY <2>1, <2>2, <2>3 DEF Numbered
<1>5. G.count = IF r.at = NoSlot THEN 0 ELSE -r.slots[r.at].seq
  BY DEF Points, FindingType
<1>6. G.count = n
  <2> HIDE DEF n, G
  <2> QED
    BY <1>1, <1>3, <1>4, <1>5
<1>7. /\ G.alive = TRUE /\ G.key = k /\ G.seq = 0 /\ G.at = r.at
      /\ G.seen = F.seen /\ G.walk = F.walk
  BY DEF Points, FindingType
<1>8. G \in FindingType
  <2>1. r.at \in Slot \cup {NoSlot} /\ 0 \in -1 .. MaxPairs
    BY <1>1, <1>2
  <2>2. G = [F EXCEPT !.alive = TRUE, !.key = k, !.seq = 0, !.at = r.at, !.count = n]
    BY <1>5, <1>6 DEF Points
  <2> HIDE DEF n, G
  <2> QED
    BY <1>1, <2>1, <2>2 DEF FindingType
<1> QED
  BY <1>2, <1>3, <1>4, <1>6, <1>7, <1>8

(* A pair that comes behind the last one, once the first one counts it.    *)
LEMMA BehindLast ==
  ASSUME NEW M \in Stores, NEW k, NEW n, NEW first \in {n + 1}, Numbered(M, k, n, first),
         Cardinality(Taken(M)) < MaxPairs,
         NEW p, ComesAs(p, k, n, first), NEW N \in Inserted(M, p),
         \A l \in Key \ {k} : Numbered(M, l, Pairs(M, l), Pairs(M, l))
  PROVE  Orderly(N)
<1>1. \A c \in Slot : ~IsAt(M, k, n, c)
  <2> SUFFICES ASSUME NEW c \in Slot, IsAt(M, k, n, c) PROVE FALSE
    OBVIOUS
  <2>1. n \in 0 .. n - 1 /\ n \in Nat
    BY DEF IsAt, Numbered
  <2> QED
    BY <2>1
<1>2. PICK e \in Slot : M[e] = Empty /\ Shuffled([M EXCEPT ![e] = p], N)
  BY <1>1, InsertedIs DEF ComesAs
<1> DEFINE O == [M EXCEPT ![e] = p]
<1>3. O = [M EXCEPT ![e] = p] /\ Shuffled(O, N)
  BY <1>2
<1> HIDE DEF O
<1>4. /\ O \in Stores /\ Numbered(O, k, n + 1, first) /\ Others(M, O, k)
      /\ OneMore(M, O)
  BY <1>2, <1>3, OneComes
<1>5. /\ N \in Stores /\ Cardinality(Taken(N)) = Cardinality(Taken(O))
      /\ \A l, m, h : Numbered(O, l, m, h) => Numbered(N, l, m, h)
  <2>1. N \in Stores
    BY <1>3 DEF Shuffled
  <2> QED
    BY <1>3, <2>1, ShuffledSame
<1>6. Cardinality(Taken(N)) <= MaxPairs
  <2>1. Cardinality(Taken(M)) \in Nat /\ MaxPairs \in Nat
    BY StoreFacts
  <2>2. Cardinality(Taken(O)) = Cardinality(Taken(M)) + 1
    BY <1>4 DEF OneMore
  <2> QED
    BY <1>5, <2>1, <2>2
<1>7. \A l \in Key : \E m : Numbered(N, l, m, m)
  <2> SUFFICES ASSUME NEW l \in Key PROVE \E m : Numbered(N, l, m, m)
    OBVIOUS
  <2>1. CASE l = k
    BY <1>4, <1>5, <2>1
  <2>2. CASE l # k
    <3>1. SameNumbers(M, O, l) /\ Numbered(M, l, Pairs(M, l), Pairs(M, l))
      BY <1>4, <2>2 DEF Others
    <3>2. Numbered(O, l, Pairs(M, l), Pairs(M, l))
      BY <3>1, SameNumbering
    <3> QED
      BY <1>5, <3>2
  <2> QED
    BY <2>1, <2>2
<1> QED
  BY <1>5, <1>6, <1>7, IsOrderly

(* What innerInsert makes of an orderly store is orderly.                  *)
Gone(F, n) == [F EXCEPT !.seq = IF n = 0 THEN -1 ELSE n,
                        !.at = NoSlot, !.seen = {}, !.walk = "none"]

Tells(M, k, at) == IsAt(M, k, 0, at) /\ M[at].seq = -Pairs(M, k)

LEMMA InsertedOrderly ==
  ASSUME NEW M, Orderly(M), NEW k \in Key, NEW v \in Value,
         Cardinality(Taken(M)) < MaxPairs, NEW at,
         Pairs(M, k) # 0 => Tells(M, k, at),
         NEW F, F.key = k, F.at = at, FoundCount(F) = 0 <=> Pairs(M, k) = 0,
         InnerInsert(M, F, v)
  PROVE  /\ Orderly(mem') /\ ret' \in AnswerType
         /\ f' = IF f.alive THEN Gone(F, Pairs(M, k)) ELSE NoFinding
<1> DEFINE n == Pairs(M, k)
           number == IF n = 0 THEN -1 ELSE n
           p == [key |-> k, seq |-> number, value |-> v]
           M1 == IF n = 0 THEN M ELSE [M EXCEPT ![at].seq = @ - 1]
<1>1. n \in 0 .. MaxPairs /\ MaxPairs \in Nat /\ M \in Stores /\ Numbered(M, k, n, n)
  BY OrderlyFacts, StoreFacts
<1>2. number = IF FoundCount(F) = 0 THEN FirstSeq ELSE -M[F.at].seq
  <2>1. n # 0 => -M[at].seq = n
    <3> HIDE DEF n
    <3>1. n # 0 => M[at].seq = -n
      BY DEF n, Tells
    <3> QED
      BY <1>1, <3>1
  <2>2. CASE n = 0
    BY <2>2 DEF FirstSeq
  <2>3. CASE n # 0
    <3>1. FoundCount(F) # 0 /\ -M[F.at].seq = n /\ number = n
      BY <2>1, <2>3
    <3> HIDE DEF n, number
    <3> QED
      BY <3>1
  <2> QED
    BY <2>2, <2>3
<1>3. mem' \in Inserted(M1, p)
  <2>1. mem' \in Inserted(IF FoundCount(F) = 0 THEN M ELSE [M EXCEPT ![F.at].seq = @ - 1],
                          [key |-> F.key, seq |-> IF FoundCount(F) = 0 THEN FirstSeq
                                                  ELSE -M[F.at].seq, value |-> v])
    BY DEF InnerInsert
  <2>2. M1 = IF FoundCount(F) = 0 THEN M ELSE [M EXCEPT ![F.at].seq = @ - 1]
    OBVIOUS
  <2>3. p = [key |-> F.key, seq |-> IF FoundCount(F) = 0 THEN FirstSeq ELSE -M[F.at].seq,
             value |-> v]
    BY <1>2
  <2> HIDE DEF M1, p, n, number
  <2> QED
    BY <2>1, <2>2, <2>3
<1>4. /\ number \in Int /\ p \in Pair /\ p.key = k /\ p.seq = number /\ Num(number) = n
      /\ number <= 0 => number = -(n + 1)
  <2>1. number \in Int /\ Num(number) = n /\ (number <= 0 => number = -(n + 1))
    <3> HIDE DEF n
    <3> QED
      BY <1>1 DEF Num
  <2> QED
    BY <2>1 DEF Pair
<1>5. /\ M1 \in Stores /\ Numbered(M1, k, n, n + 1)
      /\ Cardinality(Taken(M1)) = Cardinality(Taken(M)) /\ Others(M, M1, k)
  <2>1. CASE n = 0
    <3>1. In(M, k) = {}
      BY <1>1, <2>1 DEF Numbered
    <3>2. Numbered(M, k, n, n + 1)
      BY <1>1, <2>1, <3>1 DEF Numbered
    <3>3. M1 = M
      BY <2>1
    <3> QED
      BY <1>1, <3>2, <3>3 DEF Others, SameNumbers
  <2>2. CASE n # 0
    <3>1. IsAt(M, k, 0, at) /\ M[at].seq = -n /\ n + 1 \in Nat
      BY <1>1, <2>2 DEF Tells
    <3> DEFINE h == n + 1
    <3>2. CountsAs(M, at, h, M1) /\ h \in Nat
      <4>1. M[at].seq - 1 = -h
        <5> HIDE DEF n
        <5> QED
          BY <1>1, <3>1
      <4> QED
        BY <2>2, <3>1, <4>1 DEF CountsAs
    <3> HIDE DEF n, M1, h
    <3>3. /\ M1 \in Stores /\ Numbered(M1, k, n, h) /\ Others(M, M1, k)
          /\ Cardinality(Taken(M1)) = Cardinality(Taken(M))
      BY <1>1, <3>1, <3>2, FirstCounts
    <3> QED
      BY <3>3 DEF h
  <2> QED
    BY <2>1, <2>2
<1>6. \A l \in Key \ {k} : Numbered(M1, l, Pairs(M1, l), Pairs(M1, l))
  <2> SUFFICES ASSUME NEW l \in Key, l # k PROVE Numbered(M1, l, Pairs(M1, l), Pairs(M1, l))
    OBVIOUS
  <2>1. Numbered(M1, l, Pairs(M, l), Pairs(M, l))
    <3>1. SameNumbers(M, M1, l)
      BY <1>5 DEF Others
    <3>2. Numbered(M, l, Pairs(M, l), Pairs(M, l))
      BY OrderlyFacts
    <3> HIDE DEF M1
    <3> QED
      BY <3>1, <3>2, SameNumbering
  <2>2. Pairs(M1, l) = Pairs(M, l)
    BY <2>1, NumberedCounts DEF Pairs
  <2> QED
    BY <2>1, <2>2
<1>7. Orderly(mem')
  <2> DEFINE h == n + 1
  <2>1. Numbered(M1, k, n, h) /\ h \in {n + 1} /\ ComesAs(p, k, n, h)
    BY <1>4, <1>5 DEF ComesAs
  <2>2. Cardinality(Taken(M1)) < MaxPairs
    BY <1>5
  <2> HIDE DEF h, M1, p, n
  <2> QED
    BY <1>3, <1>4, <1>5, <1>6, <2>1, <2>2, BehindLast
<1>8. f' = IF f.alive THEN Gone(F, n) ELSE NoFinding
  BY <1>2 DEF InnerInsert, Gone
<1>9. ret' \in AnswerType
  <2>1. 1 \in 0 .. MaxPairs
    <3>1. Cardinality(Taken(M)) \in Nat
      BY StoreFacts
    <3> QED
      BY <1>1, <3>1
  <2> QED
    BY <2>1 DEF InnerInsert, Answer, AnswerType
<1> QED
  BY <1>7, <1>8, <1>9

-----------------------------------------------------------------------------
(* The steps.                                                              *)
LEMMA LookupKeeps ==
  ASSUME IInv, pc = "idle", NEW k \in Key, LookupInto(k)
  PROVE  IInv'
<1>1. /\ Orderly(mem) /\ Known(mem, f) /\ f \in FindingType
      /\ turn \in 0 .. MaxPairs /\ MaxPairs \in Nat
  BY StoreFacts DEF IInv, Known
<1>2. PICK r \in Looked(mem, k, 0) :
         /\ mem' = r.slots
         /\ f' = [Points(f, k, r) EXCEPT !.seen = IF r.at = NoSlot THEN {} ELSE {0},
                                         !.walk = "on"]
         /\ ret' = Answer("lookup", k, FoundCount(f'))
         /\ pc' = pc /\ turn' = turn
  BY DEF LookupInto
<1> DEFINE G == Points(f, k, r)
           n == Pairs(mem, k)
<1>3. /\ Orderly(r.slots) /\ Pairs(r.slots, k) = n /\ n \in 0 .. MaxPairs
      /\ r.at # NoSlot => r.at \in Slot /\ IsAt(r.slots, k, 0, r.at)
  BY <1>1, LookedOrderly, OrderlyFacts
<1>4. /\ G \in FindingType /\ G.alive /\ G.key = k /\ G.seq = 0 /\ G.at = r.at
      /\ G.count = n /\ (r.at = NoSlot <=> n = 0)
  BY <1>1, FirstLooked
<1>5. f' = [G EXCEPT !.seen = IF r.at = NoSlot THEN {} ELSE {0}, !.walk = "on"]
  BY <1>2
<1> HIDE DEF G, n
<1>6. /\ f' \in FindingType /\ f'.alive /\ f'.key = k /\ f'.seq = 0 /\ f'.at = r.at
      /\ f'.count = n /\ f'.walk = "on" /\ f'.seen = IF n = 0 THEN {} ELSE {0}
  <2> DEFINE s == IF r.at = NoSlot THEN {} ELSE {0}
  <2>1. s \in SUBSET (0 .. MaxPairs) /\ s = IF n = 0 THEN {} ELSE {0}
    BY <1>1, <1>4
  <2>2. f' = [G EXCEPT !.seen = s, !.walk = "on"]
    BY <1>5
  <2> HIDE DEF s
  <2> QED
    BY <1>4, <2>1, <2>2 DEF FindingType
<1>7. WalkOf(mem', f')
  <2>1. n # 0 => 0 \in 0 .. n - 1 /\ {0} = 0 .. 0
    BY <1>3
  <2> QED
    BY <1>2, <1>3, <1>6, <2>1 DEF WalkOf
<1>8. Known(mem', f')
  BY <1>2, <1>3, <1>6, <1>7 DEF Known
<1>9. ret' \in AnswerType
  <2>1. FoundCount(f') \in 0 .. MaxPairs
    BY <1>1, <1>3, <1>6 DEF FoundCount
  <2> QED
    BY <1>2, <2>1 DEF Answer, AnswerType
<1> QED
  BY <1>1, <1>2, <1>3, <1>8, <1>9 DEF IInv

LEMMA InsertKeeps ==
  ASSUME IInv, NEW k \in Key, NEW v \in Value, Insert(k, v)
  PROVE  IInv'
<1>1. /\ Orderly(mem) /\ f = NoFinding /\ f \in FindingType /\ pc = "idle"
      /\ turn \in 0 .. MaxPairs /\ pc' = pc /\ turn' = turn
      /\ Cardinality(Taken(mem)) < MaxPairs
  BY DEF IInv, Known, Insert, Room, Taken
<1>2. PICK r \in Looked(mem, k, 0) : InnerInsert(r.slots, Points(f, k, r), v)
  BY DEF Insert
<1> DEFINE F == Points(f, k, r)
           M == r.slots
           at == r.at
<1>3. /\ F.key = k /\ F.at = at /\ F.count = Pairs(mem, k)
      /\ at = NoSlot <=> Pairs(mem, k) = 0
      /\ at # NoSlot => IsAt(M, k, 0, at) /\ M[at].seq = -Pairs(mem, k)
  BY <1>1, FirstLooked
<1>4. /\ Orderly(M) /\ Pairs(M, k) = Pairs(mem, k)
      /\ Cardinality(Taken(M)) = Cardinality(Taken(mem))
  BY <1>1, LookedOrderly
<1>5. FoundCount(F) = 0 <=> Pairs(M, k) = 0
  <2> HIDE DEF F, M
  <2> QED
    BY <1>3, <1>4 DEF FoundCount
<1>6. Orderly(mem') /\ f' = NoFinding /\ ret' \in AnswerType
  <2>1. InnerInsert(M, F, v)
    BY <1>2
  <2>2. Pairs(M, k) # 0 => Tells(M, k, at)
    BY <1>3, <1>4 DEF Tells
  <2>3. Cardinality(Taken(M)) < MaxPairs
    BY <1>1, <1>4
  <2> HIDE DEF M, F, at
  <2>4. /\ Orderly(mem') /\ ret' \in AnswerType
        /\ f' = IF f.alive THEN Gone(F, Pairs(M, k)) ELSE NoFinding
    BY <1>3, <1>4, <1>5, <2>1, <2>2, <2>3, InsertedOrderly
  <2> QED
    BY <1>1, <2>4 DEF NoFinding
<1>7. Known(mem', f')
  BY <1>1, <1>6 DEF Known, NoFinding
<1> QED
  BY <1>1, <1>6, <1>7 DEF IInv

LEMMA InsertFKeeps ==
  ASSUME IInv, Careful, NEW k \in Key, NEW v \in Value, InsertF(k, v)
  PROVE  IInv'
<1>1. /\ Orderly(mem) /\ f.alive /\ f \in FindingType /\ pc = "idle"
      /\ turn \in 0 .. MaxPairs /\ pc' = pc /\ turn' = turn
      /\ Cardinality(Taken(mem)) < MaxPairs
      /\ f.count > 0 \/ In(mem, k) = {}
  BY DEF IInv, Known, InsertF, Room, Taken, In, SlotsOf
<1>2. PICK r \in Looked(mem, k, 0) :
         InnerInsert(r.slots, [Points(f, k, r) EXCEPT !.count = f.count], v)
  BY DEF InsertF
<1> DEFINE G == Points(f, k, r)
           F == [G EXCEPT !.count = f.count]
           M == r.slots
           at == r.at
           n == Pairs(M, k)
<1>3. /\ G \in FindingType /\ G.key = k /\ G.at = at /\ G.alive
      /\ at = NoSlot <=> Pairs(mem, k) = 0
      /\ at # NoSlot => IsAt(M, k, 0, at) /\ M[at].seq = -Pairs(mem, k)
  BY <1>1, FirstLooked
<1>4. /\ Orderly(M) /\ Pairs(M, k) = Pairs(mem, k)
      /\ Cardinality(Taken(M)) = Cardinality(Taken(mem))
  BY <1>1, LookedOrderly
<1>5. /\ F \in FindingType /\ F.key = k /\ F.at = at /\ F.alive /\ F.count = f.count
      /\ f.count \in 0 .. MaxPairs
  <2> HIDE DEF G
  <2> QED
    BY <1>1, <1>3 DEF FindingType
<1>6. FoundCount(F) = 0 <=> Pairs(M, k) = 0
  <2>1. In(mem, k) = {} => Pairs(mem, k) = 0
    BY FS_EmptySet DEF Pairs
  <2>2. f.count > 0 \/ f.count = 0
    BY <1>1, <1>5
  <2> HIDE DEF F, M, at
  <2> QED
    BY <1>1, <1>3, <1>4, <1>5, <2>1, <2>2 DEF FoundCount
<1>7. /\ Orderly(mem') /\ ret' \in AnswerType
      /\ f' = Gone(F, n)
  <2>1. InnerInsert(M, F, v)
    BY <1>2
  <2>2. Pairs(M, k) # 0 => Tells(M, k, at)
    BY <1>3, <1>4 DEF Tells
  <2>3. Cardinality(Taken(M)) < MaxPairs
    BY <1>1, <1>4
  <2> HIDE DEF M, F, at
  <2>4. /\ Orderly(mem') /\ ret' \in AnswerType
        /\ f' = IF f.alive THEN Gone(F, Pairs(M, k)) ELSE NoFinding
    BY <1>4, <1>5, <1>6, <2>1, <2>2, <2>3, InsertedOrderly
  <2> QED
    BY <1>1, <2>4
<1>8. Known(mem', f')
  <2>1. n \in 0 .. MaxPairs /\ MaxPairs \in Nat
    BY <1>4, OrderlyFacts, StoreFacts
  <2>2. (IF n = 0 THEN -1 ELSE n) \in -1 .. MaxPairs
    <3> HIDE DEF n
    <3> QED
      BY <2>1
  <2> HIDE DEF n, F
  <2>3. /\ f' \in FindingType /\ f'.alive /\ f'.key = k /\ f'.at = NoSlot
        /\ f'.walk = "none"
    BY <1>5, <1>7, <2>2 DEF Gone, FindingType
  <2> QED
    BY <2>3 DEF Known
<1> QED
  BY <1>1, <1>7, <1>8 DEF IInv

(* The value of the pair that was found, or none, is an answer.            *)
LEMMA ShownAnswers ==
  ASSUME NEW M \in Stores, NEW k \in Key, NEW at, NEW l, NEW i,
         at # NoSlot => at \in Slot /\ IsAt(M, l, i, at)
  PROVE  Answer("show", k, IF at = NoSlot THEN NoValue ELSE M[at].value) \in AnswerType
<1>1. at # NoSlot => M[at] \in Pair
  BY StoreFacts DEF IsAt, In
<1>2. at # NoSlot => M[at].value \in Value
  BY <1>1 DEF Pair
<1>3. (IF at = NoSlot THEN NoValue ELSE M[at].value) \in 0 .. MaxPairs \cup Value \cup {NoValue}
  BY <1>2
<1> QED
  BY <1>3 DEF Answer, AnswerType

LEMMA NextPairKeeps ==
  ASSUME IInv, NextPair
  PROVE  IInv'
<1>1. /\ Orderly(mem) /\ Known(mem, f) /\ f \in FindingType /\ f.alive /\ f.key \in Key
      /\ pc = "idle" /\ turn \in 0 .. MaxPairs /\ pc' = pc /\ turn' = turn
      /\ MaxPairs \in Nat
  BY StoreFacts DEF IInv, Known, NextPair
<1> DEFINE k == f.key
           i == f.seq + 1
<1>2. i \in 0 .. MaxPairs /\ i < f.count /\ f.count \in 0 .. MaxPairs
  BY <1>1 DEF NextPair, MoreToCome, FindingType
<1>3. PICK r \in Looked(mem, k, i) : Shows(i, r)
  BY DEF NextPair
<1>4. i \in Int
  BY <1>2
<1>5. /\ Orderly(r.slots) /\ Pairs(r.slots, k) = Pairs(mem, k)
      /\ r.at # NoSlot <=> i \in 0 .. Pairs(mem, k) - 1
      /\ r.at # NoSlot => r.at \in Slot /\ IsAt(r.slots, k, i, r.at)
  <2> HIDE DEF i, k
  <2> QED
    BY <1>1, <1>3, <1>4, LookedOrderly DEF k
<1>6. /\ mem' = r.slots
      /\ f' = [f EXCEPT !.seq = i, !.at = r.at,
                        !.seen = IF r.at = NoSlot THEN f.seen ELSE f.seen \cup {i}]
      /\ ret' = Answer("show", k, IF r.at = NoSlot THEN NoValue ELSE r.slots[r.at].value)
  <2>1. r.at # NoSlot => Num(r.slots[r.at].seq) = i
    BY <1>5 DEF IsAt
  <2> QED
    BY <1>1, <1>3, <2>1 DEF Shows, FindingType
<1>7. /\ f' \in FindingType /\ f'.alive /\ f'.key = k /\ f'.seq = i /\ f'.at = r.at
      /\ f'.count = f.count /\ f'.walk = f.walk
      /\ f'.seen = IF r.at = NoSlot THEN f.seen ELSE f.seen \cup {i}
  <2>1. i \in -1 .. MaxPairs
    BY <1>1, <1>2
  <2> HIDE DEF i
  <2> QED
    BY <1>1, <1>2, <1>5, <1>6, <2>1 DEF FindingType
<1>8. f.walk # "none" => WalkOf(mem', f')
  <2> SUFFICES ASSUME f.walk # "none" PROVE WalkOf(mem', f')
    OBVIOUS
  <2> DEFINE n == Pairs(mem, k)
  <2>1. /\ f.count = n /\ n \in 0 .. MaxPairs
        /\ IF n = 0 THEN f.seen = {} /\ f.seq = 0
           ELSE f.seen = 0 .. f.seq /\ f.seq \in 0 .. n - 1
    BY <1>1, OrderlyFacts DEF Known, WalkOf
  <2>2. n # 0 /\ i \in 0 .. n - 1 /\ f.seen \cup {i} = 0 .. i
    <3> HIDE DEF n
    <3>1. n # 0 /\ i \in 0 .. n - 1
      BY <1>2, <2>1
    <3> QED
      BY <2>1, <3>1
  <2>3. r.at # NoSlot
    BY <1>5, <2>2
  <2>4. Pairs(mem', f'.key) = n
    BY <1>5, <1>6, <1>7
  <2> HIDE DEF n, i
  <2> QED
    BY <1>7, <2>1, <2>2, <2>3, <2>4 DEF WalkOf
<1>9. f.walk # "ended"
  <2>1. f.walk = "ended" => f.seq + 1 >= f.count
    BY <1>1 DEF Known
  <2>2. f.seq + 1 < f.count /\ f.seq \in Int /\ f.count \in Int
    BY <1>1, <1>2 DEF FindingType
  <2> QED
    BY <2>1, <2>2
<1>10. Known(mem', f')
  <2> HIDE DEF i, k
  <2> QED
    BY <1>1, <1>5, <1>6, <1>7, <1>8, <1>9 DEF Known, k
<1>11. ret' \in AnswerType
  <2>1. r.slots \in Stores
    BY <1>5 DEF Orderly
  <2> HIDE DEF i
  <2> QED
    BY <1>1, <1>5, <1>6, <2>1, ShownAnswers
<1> QED
  BY <1>1, <1>5, <1>6, <1>10, <1>11 DEF IInv

LEMMA NextEndsKeeps ==
  ASSUME IInv, NextEnds
  PROVE  IInv'
<1>1. /\ Orderly(mem) /\ Known(mem, f) /\ f \in FindingType /\ f.alive /\ f.key \in Key
      /\ pc = "idle" /\ turn \in 0 .. MaxPairs /\ pc' = pc /\ turn' = turn /\ mem' = mem
      /\ ~(f.seq + 1 < f.count)
      /\ f' = [f EXCEPT !.walk = IF f.walk = "on" THEN "ended" ELSE f.walk]
      /\ ret' = Answer("show", f.key, NoValue)
  BY DEF IInv, Known, NextEnds, MoreToCome, FindingType
<1>2. /\ f' \in FindingType /\ f'.alive /\ f'.key = f.key /\ f'.seq = f.seq /\ f'.at = f.at
      /\ f'.count = f.count /\ f'.seen = f.seen /\ f'.walk # "none" <=> f.walk # "none"
  BY <1>1 DEF FindingType
<1>3. f.seq + 1 >= f.count
  BY <1>1 DEF FindingType
<1>4. Known(mem', f')
  BY <1>1, <1>2, <1>3 DEF Known, WalkOf
<1>5. ret' \in AnswerType
  BY <1>1 DEF Answer, AnswerType
<1> QED
  BY <1>1, <1>4, <1>5 DEF IInv


LEMMA GetKeeps ==
  ASSUME IInv, NEW pos \in Int, Get(pos)
  PROVE  IInv'
<1>1. /\ Orderly(mem) /\ Known(mem, f) /\ f \in FindingType /\ f.alive /\ f.key \in Key
      /\ pc = "idle" /\ turn \in 0 .. MaxPairs /\ pc' = pc /\ turn' = turn
      /\ MaxPairs \in Nat
  BY StoreFacts DEF IInv, Known, Get
<1>2. CASE pos \in 0 .. f.count - 1
  <2>1. PICK r \in Looked(mem, f.key, pos) :
          /\ mem' = r.slots
          /\ f' = [f EXCEPT !.seq = pos, !.at = r.at, !.seen = {}, !.walk = "none"]
          /\ ret' = Answer("show", f.key,
                           IF r.at = NoSlot THEN NoValue ELSE r.slots[r.at].value)
    BY <1>2 DEF Get
  <2>2. /\ Orderly(r.slots) /\ r.slots \in Stores
        /\ r.at # NoSlot => r.at \in Slot /\ IsAt(r.slots, f.key, pos, r.at)
    <3>1. r.at # NoSlot => r.at \in Slot /\ IsAt(r.slots, f.key, pos, r.at)
      BY <1>1, LookedOrderly
    <3>2. Orderly(r.slots)
      BY <1>1, LookedOrderly
    <3> QED
      BY <3>1, <3>2 DEF Orderly
  <2>3. pos \in -1 .. MaxPairs
    BY <1>1, <1>2 DEF FindingType
  <2>4. /\ f' \in FindingType /\ f'.alive /\ f'.key = f.key /\ f'.seq = pos /\ f'.at = r.at
        /\ f'.walk = "none"
    BY <1>1, <2>1, <2>2, <2>3 DEF FindingType
  <2>5. Known(mem', f')
    BY <1>1, <2>1, <2>2, <2>4 DEF Known
  <2>6. ret' \in AnswerType
    BY <1>1, <2>1, <2>2, ShownAnswers
  <2> QED
    BY <1>1, <2>1, <2>2, <2>5, <2>6 DEF IInv
<1>3. CASE pos \notin 0 .. f.count - 1
  <2>1. ret' = Answer("show", f.key, NoValue) /\ mem' = mem /\ f' = f
    BY <1>3 DEF Get
  <2>2. ret' \in AnswerType
    BY <1>1, <2>1 DEF Answer, AnswerType
  <2> QED
    BY <1>1, <2>1, <2>2 DEF IInv
<1> QED
  BY <1>2, <1>3

(* A store is as orderly as one with the same numbers.                     *)
LEMMA SameOrder ==
  ASSUME NEW M, Orderly(M), NEW N \in Stores, Cardinality(Taken(N)) = Cardinality(Taken(M)),
         \A k : SameNumbers(M, N, k)
  PROVE  Orderly(N) /\ \A k \in Key : Pairs(N, k) = Pairs(M, k)
<1>1. \A k \in Key : Numbered(N, k, Pairs(M, k), Pairs(M, k))
  BY OrderlyFacts, SameNumbering
<1>2. \A k \in Key : Pairs(N, k) = Pairs(M, k)
  BY <1>1, NumberedCounts DEF Pairs
<1>3. Cardinality(Taken(N)) <= MaxPairs
  BY DEF Orderly
<1> QED
  BY <1>1, <1>2, <1>3 DEF Orderly

LEMMA WriteKeeps ==
  ASSUME IInv, NEW v \in Value, Write(v)
  PROVE  IInv'
<1>1. /\ Orderly(mem) /\ Known(mem, f) /\ f \in FindingType
      /\ pc = "idle" /\ f.at # NoSlot /\ f.alive /\ f.key \in Key
      /\ IsAt(mem, f.key, f.seq, f.at)
  BY DEF IInv, Known, Write, NoFinding
<1>2. f.at \in Slot /\ mem[f.at] # Empty /\ mem \in Stores
  BY <1>1 DEF IsAt, In, Orderly
<1>3. /\ mem' = [mem EXCEPT ![f.at].value = v]
      /\ f' = f /\ pc' = pc /\ turn' = turn /\ ret' = ret
  BY DEF Write
<1>4. /\ mem' \in Stores /\ Cardinality(Taken(mem')) = Cardinality(Taken(mem))
      /\ \A k : SameNumbers(mem, mem', k)
  <2> DEFINE N == mem'
             c == f.at
  <2>1. Rewrites(mem, c, v, N) /\ c \in Slot /\ mem[c] # Empty /\ mem \in Stores
    BY <1>2, <1>3 DEF Rewrites
  <2> HIDE DEF N, c
  <2>2. /\ N \in Stores /\ Cardinality(Taken(N)) = Cardinality(Taken(mem))
        /\ \A k : SameNumbers(mem, N, k)
    BY <2>1, ValueChanges
  <2> QED
    BY <2>2 DEF N
<1>5. Orderly(mem') /\ \A k \in Key : Pairs(mem', k) = Pairs(mem, k)
  BY <1>1, <1>4, SameOrder
<1>6. IsAt(mem', f.key, f.seq, f.at)
  BY <1>1, <1>2, <1>4 DEF IsAt, SameNumbers
<1>7. Known(mem', f)
  BY <1>1, <1>5, <1>6 DEF Known, WalkOf
<1> QED
  BY <1>1, <1>3, <1>5, <1>7 DEF IInv

LEMMA NoFindingKnown == \A M : Known(M, NoFinding)
<1>1. NoFinding \in FindingType
  BY StoreFacts DEF NoFinding, FindingType
<1> QED
  BY <1>1 DEF Known, NoFinding

LEMMA RemoveStartKeeps ==
  ASSUME IInv, NEW k \in Key, RemoveStart(k)
  PROVE  IInv'
<1>1. /\ Orderly(mem) /\ f = NoFinding /\ f \in FindingType /\ pc = "idle"
      /\ turn \in 0 .. MaxPairs /\ MaxPairs \in Nat
  BY StoreFacts DEF IInv, Known, RemoveStart
<1>2. PICK r \in Looked(mem, k, 0) :
        LET F == Points(f, k, r)
        IN /\ mem' = r.slots
           /\ ret' = Answer("remove", k, IF F.count = 0 THEN 0 ELSE 1)
           /\ IF F.count = 0
              THEN UNCHANGED <<f, pc, turn>>
              ELSE f' = F /\ pc' = "remove" /\ turn' = F.count - 1
  BY DEF RemoveStart
<1> DEFINE F == Points(f, k, r)
           n == Pairs(mem, k)
<1>3. /\ F \in FindingType /\ F.alive /\ F.key = k /\ F.count = n /\ F.walk = f.walk
  BY <1>1, FirstLooked
<1>4. Orderly(r.slots) /\ Pairs(r.slots, k) = n /\ n \in 0 .. MaxPairs
  BY <1>1, LookedOrderly, OrderlyFacts
<1>5. /\ mem' = r.slots
      /\ ret' = Answer("remove", k, IF F.count = 0 THEN 0 ELSE 1)
      /\ F.count = 0 => f' = f /\ pc' = pc /\ turn' = turn
      /\ F.count # 0 => f' = F /\ pc' = "remove" /\ turn' = F.count - 1
  BY <1>2
<1> HIDE DEF F, n
<1>6. ret' \in AnswerType
  <2>1. (IF F.count = 0 THEN 0 ELSE 1) \in 0 .. MaxPairs
    BY <1>1, <1>3, <1>4
  <2> QED
    BY <1>5, <2>1 DEF Answer, AnswerType
<1>7. CASE n = 0
  <2>1. Known(mem', f')
    BY <1>1, <1>3, <1>5, <1>7, NoFindingKnown
  <2> QED
    BY <1>1, <1>3, <1>4, <1>5, <1>6, <1>7, <2>1 DEF IInv
<1>8. CASE n # 0
  <2>1. f' = F /\ pc' = "remove" /\ turn' = n - 1
    BY <1>3, <1>5, <1>8
  <2>2. turn' + 1 = n /\ turn' \in 0 .. MaxPairs /\ turn' < n
    BY <1>1, <1>4, <1>8, <2>1
  <2>3. /\ mem' \in Stores /\ Cardinality(Taken(mem')) <= MaxPairs
        /\ \A l \in Key : Numbered(mem', l, Pairs(mem', l), Pairs(mem', l))
    BY <1>4, <1>5 DEF Orderly
  <2>4. Numbered(mem', k, turn' + 1, n)
    <3>1. Numbered(mem', k, n, n)
      BY <1>4, <1>5, <2>3
    <3> QED
      BY <2>2, <3>1
  <2>5. f'.walk = "none"
    BY <1>1, <1>3, <2>1 DEF NoFinding
  <2>6. Removal'
    BY <1>3, <2>1, <2>2, <2>3, <2>4, <2>5 DEF Removal
  <2> QED
    BY <1>6, <2>1, <2>2, <2>6 DEF IInv
<1> QED
  BY <1>7, <1>8

(* The last pair of k goes: what it leaves of the numbers.                 *)
Fewer(M, N, k, n, first) ==
  /\ N \in Stores /\ Cardinality(Taken(N)) <= Cardinality(Taken(M))
  /\ Numbered(N, k, n - 1, first)
  /\ \A l \in Key \ {k} : Numbered(N, l, Pairs(N, l), Pairs(N, l))

LEMMA OneFewer ==
  ASSUME NEW M \in Stores, NEW k, NEW n, NEW first, Numbered(M, k, n, first),
         \A l \in Key \ {k} : Numbered(M, l, Pairs(M, l), Pairs(M, l)),
         NEW c, IsAt(M, k, n - 1, c), NEW N, N = [M EXCEPT ![c] = Empty]
  PROVE  Fewer(M, N, k, n, first)
<1>1. /\ N \in Stores /\ Numbered(N, k, n - 1, first) /\ Others(M, N, k)
      /\ Cardinality(Taken(N)) <= Cardinality(Taken(M))
  BY LastGoes
<1>2. \A l \in Key \ {k} : Numbered(N, l, Pairs(M, l), Pairs(M, l))
  BY <1>1, SameNumbering DEF Others
<1>3. \A l \in Key \ {k} : Pairs(N, l) = Pairs(M, l)
  BY <1>2, NumberedCounts DEF Pairs
<1> QED
  BY <1>1, <1>2, <1>3 DEF Fewer

LEMMA RemoveTurnKeeps ==
  ASSUME IInv, RemoveTurn
  PROVE  IInv'
<1>1. /\ Removal /\ turn \in 0 .. MaxPairs /\ ret' = ret /\ ret \in AnswerType
      /\ MaxPairs \in Nat /\ f \in FindingType /\ pc = "remove"
  BY StoreFacts DEF IInv, RemoveTurn, Removal
<1>2. PICK r \in Looked(mem, f.key, turn) : mem' = Removed(r.slots, r.at)
  BY DEF RemoveTurn
<1> DEFINE n == turn + 1
           k == f.key
           M == r.slots
           c == r.at
           N == mem'
<1>3. /\ mem \in Stores /\ Numbered(mem, k, n, f.count) /\ k \in Key
      /\ \A l \in Key \ {k} : Numbered(mem, l, Pairs(mem, l), Pairs(mem, l))
      /\ Cardinality(Taken(mem)) <= MaxPairs
  BY <1>1 DEF Removal
<1>4. n \in Nat /\ n - 1 = turn /\ turn \in 0 .. n - 1
  BY <1>1
<1>5. /\ Cardinality(Taken(M)) = Cardinality(Taken(mem)) /\ M \in Stores
      /\ \A l, m, h : Numbered(mem, l, m, h) => Numbered(M, l, m, h)
  <2>1. Shuffled(mem, M) /\ M \in Stores
    BY <1>2, <1>3, LookedIs DEF Shuffled
  <2> HIDE DEF M
  <2> QED
    BY <2>1, ShuffledSame
<1>6. c # NoSlot /\ IsAt(M, k, turn, c)
  <2> HIDE DEF M, k, n, c
  <2>1. r \in Looked(mem, k, turn) /\ turn \in Int
    BY <1>1, <1>2 DEF k
  <2>2. /\ r.at # NoSlot <=> turn \in 0 .. n - 1
        /\ r.at # NoSlot => IsAt(r.slots, k, turn, r.at)
    BY <1>3, <2>1, LookedFinds
  <2> QED
    BY <1>4, <2>2 DEF M, c
<1>7. \A l \in Key \ {k} : Numbered(M, l, Pairs(M, l), Pairs(M, l))
  <2>1. \A l \in Key \ {k} : Numbered(M, l, Pairs(mem, l), Pairs(mem, l))
    BY <1>3, <1>5
  <2>2. \A l \in Key \ {k} : Pairs(M, l) = Pairs(mem, l)
    BY <2>1, NumberedCounts DEF Pairs
  <2> QED
    BY <2>1, <2>2
<1>8. N = [M EXCEPT ![c] = Empty]
  BY <1>2, <1>6 DEF Removed
<1>9. Fewer(M, N, k, n, f.count)
  <2>1. Numbered(M, k, n, f.count)
    BY <1>3, <1>5
  <2>2. IsAt(M, k, n - 1, c)
    BY <1>4, <1>6
  <2> HIDE DEF M, N, k, n, c
  <2> QED
    BY <1>5, <1>7, <1>8, <2>1, <2>2, OneFewer
<1>10. Cardinality(Taken(N)) <= MaxPairs /\ N \in Stores
  <2>1. Cardinality(Taken(N)) <= Cardinality(Taken(mem)) /\ N \in Stores
    BY <1>5, <1>9 DEF Fewer
  <2>2. Cardinality(Taken(N)) \in Nat /\ Cardinality(Taken(mem)) \in Nat
    BY StoreFacts
  <2> HIDE DEF N
  <2> QED
    BY <1>1, <1>3, <2>1, <2>2
<1>11. /\ Numbered(N, k, turn, f.count)
       /\ \A l \in Key \ {k} : Numbered(N, l, Pairs(N, l), Pairs(N, l))
  BY <1>4, <1>9 DEF Fewer
<1>12. CASE turn = 0
  <2>1. pc' = "idle" /\ turn' = 0 /\ f' = NoFinding
    BY <1>12 DEF RemoveTurn, LastTurn
  <2>2. Numbered(N, k, 0, 0)
    <3>1. Numbered(N, k, 0, f.count)
      BY <1>11, <1>12
    <3>2. In(N, k) = {}
      BY <3>1 DEF Numbered
    <3> QED
      BY <3>1, <3>2 DEF Numbered
  <2>3. Orderly(N)
    <3>1. \A l \in Key : \E m : Numbered(N, l, m, m)
      BY <1>11, <2>2
    <3> HIDE DEF N
    <3> QED
      BY <1>10, <3>1, IsOrderly
  <2>4. Known(mem', f')
    BY <2>1, NoFindingKnown
  <2> QED
    BY <1>1, <2>1, <2>3, <2>4 DEF IInv
<1>13. CASE turn # 0
  <2>1. turn' = turn - 1 /\ pc' = pc /\ f' = f
    BY <1>13 DEF RemoveTurn, LastTurn
  <2>2. turn' + 1 = turn /\ turn' \in 0 .. MaxPairs /\ turn' < f.count
    <3>1. turn < f.count /\ f.count \in Int
      BY <1>1 DEF Removal, FindingType
    <3> QED
      BY <1>1, <1>13, <2>1, <3>1
  <2>3. Numbered(mem', f.key, turn' + 1, f.count)
    BY <1>11, <2>2
  <2>4. Removal'
    BY <1>1, <1>10, <1>11, <2>1, <2>2, <2>3 DEF Removal
  <2> QED
    BY <1>1, <2>1, <2>2, <2>4 DEF IInv
<1> QED
  BY <1>12, <1>13


(* remove(f) of the last pair, or of another one with no table behind the  *)
(* first: one pair fewer in M, before the first pair is made to count.     *)
LEMMA LastTaken ==
  ASSUME Orderly(mem), NEW k \in Key, NEW n, n = Pairs(mem, k), n \in 1 .. MaxPairs,
         NEW pos \in 0 .. n - 1, NEW at \in Slot, IsAt(mem, k, pos, at),
         pos = n - 1 \/ FrontOnly,
         NEW r \in IF pos < n - 1 THEN Looked(mem, k, n - 1) ELSE {[slots |-> mem, at |-> at]},
         NEW M, M = Removed(IF pos < n - 1 THEN Copied(r.slots, r.at, at) ELSE mem, r.at)
  PROVE  /\ M \in Stores /\ Cardinality(Taken(M)) <= MaxPairs
         /\ Numbered(M, k, n - 1, n)
         /\ \A l \in Key \ {k} : Numbered(M, l, Pairs(M, l), Pairs(M, l))
<1>1. /\ mem \in Stores /\ Numbered(mem, k, n, n) /\ n \in Nat /\ MaxPairs \in Nat
      /\ \A l \in Key : Numbered(mem, l, Pairs(mem, l), Pairs(mem, l))
      /\ Cardinality(Taken(mem)) <= MaxPairs
      /\ at \in Slot /\ mem[at] # Empty
  BY OrderlyFacts, StoreFacts DEF IsAt, In, Orderly
<1>2. CASE pos = n - 1
  <2>1. r = [slots |-> mem, at |-> at] /\ ~(pos < n - 1) /\ at # NoSlot
    BY <1>1, <1>2, StoreFacts
  <2>2. M = [mem EXCEPT ![at] = Empty]
    BY <2>1 DEF Removed
  <2>3. Fewer(mem, M, k, n, n)
    BY <1>1, <1>2, <2>2, OneFewer
  <2>4. Cardinality(Taken(M)) \in Nat /\ Cardinality(Taken(mem)) \in Nat
    BY StoreFacts
  <2> QED
    BY <1>1, <2>3, <2>4 DEF Fewer
<1>3. CASE pos # n - 1
  <2> DEFINE last == n - 1
             N == Copied(r.slots, r.at, at)
             c == r.at
  <2>1. pos < last /\ last \in 0 .. n - 1 /\ last \in Int
    BY <1>1, <1>3
  <2>2. r \in Looked(mem, k, last) /\ M = Removed(N, c)
    BY <2>1
  <2>3. Taken(mem) \cap Back = {}
    BY <1>3, MultiMapAssumption DEF FrontOnly, Taken
  <2>4. r.slots = mem /\ c # NoSlot /\ c \in Slot /\ IsAt(mem, k, last, c)
    <3> HIDE DEF last, N
    <3>1. /\ r.at # NoSlot <=> last \in 0 .. n - 1
          /\ r.at # NoSlot => r.at \in Slot /\ IsAt(r.slots, k, last, r.at)
      BY <1>1, <2>1, <2>2, LookedFinds
    <3>2. r.slots = mem
      BY <1>1, <2>1, <2>2, <2>3, LookedIs
    <3> QED
      BY <2>1, <3>1, <3>2
  <2>5. mem[c] \in Pair
    BY <1>1, <2>4, StoreFacts DEF IsAt, In
  <2>6. Rewrites(mem, at, mem[c].value, N) /\ mem[c].value \in Value
    BY <1>1, <2>4, <2>5 DEF Copied, Rewrites, Pair
  <2> DEFINE v == mem[c].value
  <2>7. Rewrites(mem, at, v, N) /\ v \in Value
    BY <2>6
  <2> HIDE DEF N, v, c
  <2>8. /\ N \in Stores /\ Cardinality(Taken(N)) = Cardinality(Taken(mem))
        /\ \A l : SameNumbers(mem, N, l)
    BY <1>1, <2>7, ValueChanges
  <2>9. Orderly(N) /\ Pairs(N, k) = n
    BY <2>8, SameOrder
  <2>10. /\ Numbered(N, k, n, n)
         /\ \A l \in Key \ {k} : Numbered(N, l, Pairs(N, l), Pairs(N, l))
    BY <2>9 DEF Orderly
  <2>11. IsAt(N, k, n - 1, c)
    BY <2>4, <2>8 DEF IsAt, SameNumbers
  <2>12. M = [N EXCEPT ![c] = Empty]
    BY <2>2, <2>4 DEF Removed
  <2>13. Fewer(N, M, k, n, n)
    BY <2>8, <2>10, <2>11, <2>12, OneFewer
  <2>14. Cardinality(Taken(M)) \in Nat /\ Cardinality(Taken(mem)) \in Nat
    BY StoreFacts
  <2> QED
    BY <1>1, <2>8, <2>13, <2>14 DEF Fewer
<1> QED
  BY <1>2, <1>3

LEMMA RemoveFKeeps ==
  ASSUME IInv, Careful, RemoveF
  PROVE  IInv'
<1> DEFINE k == f.key
           n == f.count
           pos == f.seq
           at == f.at
<1>1. /\ Orderly(mem) /\ Known(mem, f) /\ f \in FindingType
      /\ pc = "idle" /\ at # NoSlot /\ f.alive /\ k \in Key
      /\ turn \in 0 .. MaxPairs /\ pc' = pc /\ turn' = turn
      /\ IsAt(mem, k, pos, at) /\ at \in Slot /\ MaxPairs \in Nat
      /\ ret' = Answer("removeOne", k, 1)
  <2>1. /\ pc = "idle" /\ at # NoSlot /\ pc' = pc /\ turn' = turn
        /\ ret' = Answer("removeOne", k, 1)
    BY DEF RemoveF
  <2>2. Orderly(mem) /\ Known(mem, f) /\ f \in FindingType /\ turn \in 0 .. MaxPairs
    BY <2>1 DEF IInv, Known
  <2>3. f.alive /\ k \in Key /\ IsAt(mem, k, pos, at)
    BY <2>1, <2>2 DEF Known, NoFinding
  <2>4. at \in Slot
    BY <2>3 DEF IsAt, In
  <2> QED
    BY <2>1, <2>2, <2>3, <2>4, StoreFacts
<1>2. n = Pairs(mem, k) /\ (pos = n - 1 \/ (pos > 0 /\ FrontOnly))
  BY DEF RemoveF, SlotsOf, Pairs, In
<1>3. n \in 1 .. MaxPairs /\ pos \in 0 .. n - 1
  <2>1. /\ Numbered(mem, k, Pairs(mem, k), Pairs(mem, k)) /\ Pairs(mem, k) \in 0 .. MaxPairs
    BY <1>1, OrderlyFacts
  <2>2. pos \in 0 .. n - 1 /\ n \in 0 .. MaxPairs
    <3>1. pos \in 0 .. Pairs(mem, k) - 1
      BY <1>1, <2>1 DEF IsAt, Numbered
    <3> QED
      BY <1>2, <2>1, <3>1
  <2> HIDE DEF n, pos
  <2> QED
    BY <1>1, <2>2
<1>4. PICK r \in IF pos < n - 1 THEN Looked(mem, k, n - 1)
                 ELSE {[slots |-> mem, at |-> at]} :
        LET M == Removed(IF pos < n - 1 THEN Copied(r.slots, r.at, at) ELSE mem, r.at)
        IN IF pos > 0
           THEN \E s \in Looked(M, k, 0) :
                  /\ mem' = Lowered(s.slots, s.at)
                  /\ f' = [f EXCEPT !.seq = 0, !.at = s.at, !.seen = {}, !.walk = "none"]
           ELSE /\ mem' = M
                /\ f' = [f EXCEPT !.seq = n - 1, !.at = NoSlot, !.seen = {}, !.walk = "none"]
  BY DEF RemoveF
<1> DEFINE M == Removed(IF pos < n - 1 THEN Copied(r.slots, r.at, at) ELSE mem, r.at)
<1>5. /\ M \in Stores /\ Cardinality(Taken(M)) <= MaxPairs
      /\ Numbered(M, k, n - 1, n)
      /\ \A l \in Key \ {k} : Numbered(M, l, Pairs(M, l), Pairs(M, l))
  <2>1. M = Removed(IF pos < n - 1 THEN Copied(r.slots, r.at, at) ELSE mem, r.at)
    OBVIOUS
  <2>2. r \in IF pos < n - 1 THEN Looked(mem, k, n - 1) ELSE {[slots |-> mem, at |-> at]}
    OBVIOUS
  <2> HIDE DEF M, k, n, pos, at
  <2> QED
    BY <1>1, <1>2, <1>3, <2>1, <2>2, LastTaken
<1>6. ret' \in AnswerType
  <2>1. 1 \in 0 .. MaxPairs
    <3> HIDE DEF n, pos
    <3> QED
      BY <1>1, <1>3
  <2> QED
    BY <1>1, <2>1 DEF Answer, AnswerType
<1>7. CASE pos > 0
  <2>1. PICK s \in Looked(M, k, 0) :
          /\ mem' = Lowered(s.slots, s.at)
          /\ f' = [f EXCEPT !.seq = 0, !.at = s.at, !.seen = {}, !.walk = "none"]
    BY <1>4, <1>7
  <2> DEFINE m == n - 1
             S == s.slots
             c == s.at
             N == mem'
  <2>2. m \in Nat /\ 0 \in 0 .. m - 1 /\ -n + 1 = -m /\ n \in Nat
    <3> HIDE DEF n, pos
    <3> QED
      BY <1>3, <1>7
  <2>3. Numbered(M, k, m, n)
    BY <1>5
  <2>4. S \in Stores /\ Numbered(S, k, m, n) /\ c # NoSlot /\ c \in Slot /\ IsAt(S, k, 0, c)
    <3> HIDE DEF M, k, m, n
    <3>1. /\ s.slots \in Stores /\ Numbered(s.slots, k, m, n)
          /\ s.at # NoSlot <=> 0 \in 0 .. m - 1
          /\ s.at # NoSlot => s.at \in Slot /\ IsAt(s.slots, k, 0, s.at)
      BY <1>5, <2>1, <2>3, LookedFinds
    <3> QED
      BY <2>2, <3>1
  <2>5. /\ Cardinality(Taken(S)) = Cardinality(Taken(M))
        /\ \A l, i, h : Numbered(M, l, i, h) => Numbered(S, l, i, h)
    <3> HIDE DEF M, k
    <3>1. Shuffled(M, S)
      BY <1>5, <2>1, LookedIs
    <3> HIDE DEF S
    <3> QED
      BY <3>1, ShuffledSame
  <2>6. CountsAs(S, c, m, N)
    <3>1. c \in In(S, k) /\ Num(S[c].seq) = 0 /\ S[c] \in Pair
      BY <2>4, StoreFacts DEF IsAt, In
    <3>2. S[c].seq <= 0
      BY <3>1 DEF Num, Pair
    <3>3. S[c].seq = -n
      BY <2>4, <3>1, <3>2 DEF Numbered
    <3>4. N = [S EXCEPT ![c].seq = S[c].seq + 1]
      BY <2>1, <2>4 DEF Lowered
    <3>5. S[c].seq + 1 = -m
      <4> HIDE DEF n, m
      <4> QED
        BY <2>2, <3>3
    <3> HIDE DEF N, S, c, m, n
    <3> QED
      BY <3>4, <3>5 DEF CountsAs
  <2>7. /\ N \in Stores /\ Numbered(N, k, m, m) /\ Others(S, N, k)
        /\ Cardinality(Taken(N)) = Cardinality(Taken(S)) /\ IsAt(N, k, 0, c)
    <3> HIDE DEF N, S, c, m, n, k
    <3> QED
      BY <2>2, <2>4, <2>6, FirstCounts
  <2>8. \A l \in Key : \E i : Numbered(N, l, i, i)
    <3> SUFFICES ASSUME NEW l \in Key PROVE \E i : Numbered(N, l, i, i)
      OBVIOUS
    <3>1. CASE l = k
      BY <2>7, <3>1
    <3>2. CASE l # k
      <4>1. Numbered(S, l, Pairs(M, l), Pairs(M, l)) /\ SameNumbers(S, N, l)
        BY <1>5, <2>5, <2>7, <3>2 DEF Others
      <4> HIDE DEF N, S, M
      <4>2. Numbered(N, l, Pairs(M, l), Pairs(M, l))
        BY <4>1, SameNumbering
      <4> QED
        BY <4>2
    <3> QED
      BY <3>1, <3>2
  <2>9. Orderly(N)
    <3>1. Cardinality(Taken(N)) <= MaxPairs
      BY <1>5, <2>5, <2>7
    <3> HIDE DEF N
    <3> QED
      BY <2>7, <2>8, <3>1, IsOrderly
  <2>10. /\ f' \in FindingType /\ f'.alive /\ f'.key = k /\ f'.seq = 0 /\ f'.at = c
         /\ f'.walk = "none"
    <3>1. 0 \in -1 .. MaxPairs
      BY <1>1
    <3> QED
      BY <1>1, <2>1, <2>4, <3>1 DEF FindingType
  <2>11. Known(mem', f')
    BY <1>1, <2>7, <2>10 DEF Known
  <2> QED
    BY <1>1, <1>6, <2>9, <2>11 DEF IInv
<1>8. CASE ~(pos > 0)
  <2>1. mem' = M /\ f' = [f EXCEPT !.seq = n - 1, !.at = NoSlot, !.seen = {}, !.walk = "none"]
    BY <1>4, <1>8
  <2>2. n = 1
    <3> HIDE DEF n, pos
    <3> QED
      BY <1>2, <1>3, <1>8
  <2>3. Numbered(M, k, 0, 0)
    <3>1. Numbered(M, k, 0, 1)
      BY <1>5, <2>2
    <3>2. In(M, k) = {}
      BY <3>1 DEF Numbered
    <3> QED
      BY <3>1, <3>2 DEF Numbered
  <2>4. Orderly(M)
    <3>1. \A l \in Key : \E i : Numbered(M, l, i, i)
      BY <1>5, <2>3
    <3> HIDE DEF M
    <3> QED
      BY <1>5, <3>1, IsOrderly
  <2>5. /\ f' \in FindingType /\ f'.alive /\ f'.key = k /\ f'.at = NoSlot
        /\ f'.walk = "none"
    <3>1. n - 1 \in -1 .. MaxPairs
      BY <1>1, <2>2
    <3> HIDE DEF n
    <3> QED
      BY <1>1, <2>1, <3>1 DEF FindingType
  <2>6. Known(mem', f')
    BY <1>1, <2>5 DEF Known
  <2> QED
    BY <1>1, <1>6, <2>1, <2>4, <2>6 DEF IInv
<1> QED
  BY <1>7, <1>8

LEMMA DropKeeps ==
  ASSUME IInv, Drop
  PROVE  IInv'
<1>1. /\ Orderly(mem) /\ turn \in 0 .. MaxPairs /\ ret \in AnswerType /\ pc = "idle"
      /\ f' = NoFinding /\ mem' = mem /\ pc' = pc /\ turn' = turn /\ ret' = ret
  BY DEF IInv, Drop
<1>2. Known(mem', f')
  BY <1>1, NoFindingKnown
<1> QED
  BY <1>1, <1>2 DEF IInv

LEMMA RemoveFMissKeeps ==
  ASSUME IInv, RemoveFMiss
  PROVE  IInv'
<1>1. /\ Orderly(mem) /\ Known(mem, f) /\ turn \in 0 .. MaxPairs /\ pc = "idle"
      /\ f' = f /\ mem' = mem /\ pc' = pc /\ turn' = turn
      /\ f.alive /\ ret' = Answer("removeOne", f.key, 0)
  BY DEF IInv, RemoveFMiss
<1>2. f.key \in Key /\ 0 \in 0 .. MaxPairs
  BY <1>1, StoreFacts DEF Known
<1>3. ret' \in AnswerType
  BY <1>1, <1>2 DEF Answer, AnswerType
<1> QED
  BY <1>1, <1>3 DEF IInv

LEMMA StepKeeps ==
  ASSUME IInv, Careful, [Next]_vars
  PROVE  IInv'
<1>1. CASE \E k \in Key : Lookup(k) \/ LookupF(k)
  BY <1>1, LookupKeeps DEF Lookup, LookupF
<1>2. CASE \E k \in Key : RemoveStart(k)
  BY <1>2, RemoveStartKeeps
<1>3. CASE \E k \in Key, v \in Value : Insert(k, v)
  BY <1>3, InsertKeeps
<1>4. CASE \E k \in Key, v \in Value : InsertF(k, v)
  BY <1>4, InsertFKeeps
<1>5. CASE \E v \in Value : Write(v)
  BY <1>5, WriteKeeps
<1>6. CASE \E pos \in -1 .. MaxPairs : Get(pos)
  <2>1. \A pos \in -1 .. MaxPairs : pos \in Int
    BY StoreFacts
  <2> QED
    BY <1>6, <2>1, GetKeeps
<1>7. CASE NextPair
  BY <1>7, NextPairKeeps
<1>8. CASE NextEnds
  BY <1>8, NextEndsKeeps
<1>9. CASE Drop
  BY <1>9, DropKeeps
<1>10. CASE RemoveTurn
  BY <1>10, RemoveTurnKeeps
<1>11. CASE RemoveF
  BY <1>11, RemoveFKeeps
<1>12. CASE RemoveFMiss
  BY <1>12, RemoveFMissKeeps
<1>13. CASE UNCHANGED vars
  BY <1>13 DEF vars, IInv, Removal, Orderly, Known
<1> QED
  BY <1>1, <1>2, <1>3, <1>4, <1>5, <1>6, <1>7, <1>8, <1>9, <1>10, <1>11, <1>12, <1>13
  DEF Next

LEMMA StartsWell == Init => IInv
<1> SUFFICES ASSUME Init PROVE IInv
  OBVIOUS
<1>1. /\ mem = [c \in Slot |-> Empty] /\ f = NoFinding /\ pc = "idle" /\ turn = 0
      /\ ret = Answer("init", NoValue, NoValue)
  BY DEF Init
<1>2. mem \in Stores /\ Taken(mem) = {} /\ \A k : In(mem, k) = {}
  BY <1>1 DEF Stores, Taken, In
<1>3. Cardinality(Taken(mem)) <= MaxPairs /\ 0 \in 0 .. MaxPairs
  BY <1>2, FS_EmptySet, StoreFacts
<1>4. \A k : Numbered(mem, k, 0, 0)
  BY <1>2 DEF Numbered
<1>5. Orderly(mem) /\ Known(mem, f)
  BY <1>1, <1>2, <1>3, <1>4, IsOrderly, NoFindingKnown
<1>6. ret \in AnswerType
  BY <1>1 DEF Answer, AnswerType
<1> QED
  BY <1>1, <1>3, <1>5, <1>6 DEF IInv

(* How many pairs of k the walk and the loops count, and what the first    *)
(* one says.                                                               *)
LEMMA NumbersOf ==
  ASSUME IInv, NEW k \in Key
  PROVE  LET n == IF Removing(k) THEN turn + 1 ELSE Pairs(mem, k)
         IN /\ Numbered(mem, k, n, IF Removing(k) THEN f.count ELSE n)
            /\ n <= MaxPairs
            /\ (IF Removing(k) THEN f.count ELSE n) \in n .. MaxPairs
<1> DEFINE n == IF Removing(k) THEN turn + 1 ELSE Pairs(mem, k)
           first == IF Removing(k) THEN f.count ELSE n
<1>1. Numbered(mem, k, n, first)
  <2>1. CASE Removing(k)
    BY <2>1 DEF Removing, IInv, Removal
  <2>2. CASE ~Removing(k) /\ pc = "remove"
    BY <2>2 DEF Removing, IInv, Removal
  <2>3. CASE pc = "idle"
    BY <2>3 DEF Removing, IInv, Orderly
  <2> QED
    BY <2>1, <2>2, <2>3 DEF IInv
<1>2. n \in Nat /\ n <= Cardinality(Taken(mem))
  <2> HIDE DEF n, first
  <2> QED
    BY <1>1, NumberedCounts DEF Numbered
<1>3. n \in 0 .. MaxPairs
  <2>1. Cardinality(Taken(mem)) <= MaxPairs
    BY DEF IInv, Orderly, Removal
  <2>2. Cardinality(Taken(mem)) \in Nat /\ MaxPairs \in Nat
    BY StoreFacts
  <2> HIDE DEF n
  <2> QED
    BY <1>2, <2>1, <2>2
<1>4. first \in n .. MaxPairs
  <2>1. CASE Removing(k)
    <3>1. turn < f.count /\ f.count \in 0 .. MaxPairs /\ turn \in 0 .. MaxPairs
      BY <2>1 DEF Removing, IInv, Removal, FindingType
    <3> QED
      BY <2>1, <3>1, StoreFacts
  <2>2. CASE ~Removing(k)
    <3>1. first = n
      BY <2>2
    <3> HIDE DEF n, first
    <3> QED
      BY <1>3, <3>1
  <2> QED
    BY <2>1, <2>2
<1> QED
  BY <1>1, <1>3, <1>4

LEMMA NumbersInRange ==
  ASSUME IInv, NEW k \in Key, NEW c \in In(mem, k), mem[c] \in Pair
  PROVE  mem[c].seq \in (-MaxPairs .. MaxPairs) \ {0}
<1>1. PICK n, first : /\ Numbered(mem, k, n, first) /\ n <= MaxPairs
                      /\ first \in n .. MaxPairs
  BY NumbersOf
<1>2. Num(mem[c].seq) \in 0 .. n - 1 /\ n \in Nat /\ MaxPairs \in Nat
  BY <1>1, StoreFacts DEF Numbered
<1>3. mem[c].seq <= 0 => mem[c].seq = -first
  BY <1>1 DEF Numbered
<1>4. mem[c].seq \in Int
  BY DEF Pair
<1> QED
  BY <1>1, <1>2, <1>3, <1>4 DEF Num

-----------------------------------------------------------------------------
(* IInv is an invariant of the multimap, for a client that is careful.     *)
THEOREM MultiMapInvariant ==
  ASSUME Careful PROVE Spec => []IInv
<1>1. IInv /\ [Next]_vars => IInv'
  BY StepKeeps
<1> QED
  BY <1>1, StartsWell, PTL DEF Spec

(* The number of a pair in its key is never 0, the mark of an empty slot,  *)
(* and the Finding and the answers stay in their ranges (insert, next,     *)
(* get and the two removes).                                               *)
THEOREM MultiMapTypeTheorem ==
  ASSUME Careful PROVE Spec => []TypeOK
<1> DEFINE P == [key : Key, value : Value, seq : (-MaxPairs .. MaxPairs) \ {0}]
<1>1. IInv => TypeOK
  <2> SUFFICES ASSUME IInv PROVE TypeOK
    OBVIOUS
  <2>1. /\ mem \in Stores /\ f \in FindingType /\ ret \in AnswerType
        /\ pc \in {"idle", "remove"} /\ turn \in 0 .. MaxPairs
    BY DEF IInv, Removal, Orderly, Known
  <2>2. ASSUME NEW c \in Slot, mem[c] # Empty PROVE mem[c] \in P
    <3>1. mem[c] \in Pair
      BY <2>1, <2>2, StoreFacts
    <3>2. mem[c].key \in Key /\ c \in In(mem, mem[c].key)
      BY <2>2, <3>1 DEF Pair, In
    <3>3. mem[c].seq \in (-MaxPairs .. MaxPairs) \ {0}
      BY <3>1, <3>2, NumbersInRange
    <3> QED
      BY <3>1, <3>3 DEF Pair
  <2>3. mem \in [Slot -> P \cup {Empty}]
    BY <2>1, <2>2 DEF Stores
  <2> QED
    BY <2>1, <2>3 DEF TypeOK, FindingType, AnswerType
<1> QED
  BY <1>1, MultiMapInvariant, PTL

(* The pairs of a key are numbered from 0 on without a gap, and the first  *)
(* one counts them, also between two turns of the loop of remove(k).       *)
THEOREM NumberingTheorem ==
  ASSUME Careful PROVE Spec => []Numbering
<1>1. IInv => Numbering
  <2> SUFFICES ASSUME IInv, NEW k \in Key
               PROVE  LET C == SlotsOf(k)
                          n == IF Removing(k) THEN turn + 1 ELSE Cardinality(C)
                      IN /\ Cardinality(C) = n
                         /\ {Num(mem[c].seq) : c \in C} = 0 .. n - 1
                         /\ \A c \in C : mem[c].seq <= 0 =>
                                         mem[c].seq = IF Removing(k) THEN -f.count ELSE -n
    BY DEF Numbering
  <2> DEFINE n == IF Removing(k) THEN turn + 1 ELSE Pairs(mem, k)
             first == IF Removing(k) THEN f.count ELSE n
  <2>1. SlotsOf(k) = In(mem, k)
    BY DEF SlotsOf, In
  <2>2. Numbered(mem, k, n, first)
    BY NumbersOf
  <2>3. Cardinality(In(mem, k)) = n
    BY <2>2, NumberedCounts
  <2>4. {Num(mem[c].seq) : c \in In(mem, k)} = 0 .. n - 1
    <3> HIDE DEF n, first
    <3> QED
      BY <2>2 DEF Numbered
  <2>5. \A c \in In(mem, k) : mem[c].seq <= 0 => mem[c].seq = -first
    <3> HIDE DEF n, first
    <3> QED
      BY <2>2 DEF Numbered
  <2> QED
    BY <2>1, <2>3, <2>4, <2>5 DEF Pairs
<1> QED
  BY <1>1, MultiMapInvariant, PTL

(* A Finding that points to a pair has its key and its number, wherever    *)
(* lookups have moved the pair; remove(f) assumes it.                      *)
THEOREM FindingPointsTheorem ==
  ASSUME Careful PROVE Spec => []FindingPoints
<1>1. IInv => FindingPoints
  BY DEF IInv, Known, FindingPoints, IsAt, In
<1> QED
  BY <1>1, MultiMapInvariant, PTL

(* When next answers false after a lookup, lookup and next have shown all  *)
(* pairs of the key.                                                       *)
THEOREM IterationTheorem ==
  ASSUME Careful PROVE Spec => []IterationComplete
<1>1. IInv => IterationComplete
  <2> SUFFICES ASSUME IInv, f.walk = "ended"
               PROVE  f.seen = 0 .. Cardinality(SlotsOf(f.key)) - 1
    BY DEF IterationComplete
  <2>1. pc = "idle"
    BY DEF IInv, Removal
  <2> DEFINE n == Pairs(mem, f.key)
  <2>2. WalkOf(mem, f) /\ f.seq + 1 >= f.count /\ f.alive /\ f.key \in Key
    BY <2>1 DEF IInv, Known, NoFinding
  <2>3. n \in 0 .. MaxPairs
    BY <2>1, <2>2, OrderlyFacts DEF IInv
  <2>4. f.seen = 0 .. n - 1
    <3>1. /\ f.count = n
          /\ IF n = 0 THEN f.seen = {} /\ f.seq = 0
             ELSE f.seen = 0 .. f.seq /\ f.seq \in 0 .. n - 1
      BY <2>2 DEF WalkOf
    <3> HIDE DEF n
    <3>2. n # 0 => f.seq = n - 1
      BY <2>2, <2>3, <3>1
    <3>3. n = 0 => 0 .. n - 1 = {}
      OBVIOUS
    <3> QED
      BY <3>1, <3>2, <3>3
  <2> QED
    BY <2>4 DEF Pairs, SlotsOf, In
<1> QED
  BY <1>1, MultiMapInvariant, PTL

=============================================================================
