------------------------ MODULE CuckooTableTheorems ------------------------
(***************************************************************************)
(* What the scans of CuckooTable return, for any table, any two buckets    *)
(* and any number of slots: the lemmas the proofs about a single table and *)
(* about the cascade share.                                                *)
(***************************************************************************)
EXTENDS CuckooTable, FiniteSetTheorems, TLAPS

(* A scan visits slots of the two home buckets only ...                    *)
LEMMA VisitIsHome ==
  ASSUME NEW b1 \in Bucket, NEW b2 \in Bucket, NEW n \in ScanStep
  PROVE  /\ Visit(b1, b2, n) \in HomeCells(b1, b2)
         /\ Visit(b1, b2, n) \in Cell
<1>1. SlotsPerBucket \in Nat
  BY TableAssumption
<1>2. CASE n < SlotsPerBucket
  <2>1. n \in Slot
    BY <1>1, <1>2 DEF ScanStep, Slot
  <2> QED
    BY <1>2, <2>1 DEF Visit, HomeCells, Cell
<1>3. CASE ~(n < SlotsPerBucket)
  <2>1. n - SlotsPerBucket \in Slot
    BY <1>1, <1>3 DEF ScanStep, Slot
  <2> QED
    BY <1>3, <2>1 DEF Visit, HomeCells, Cell
<1> QED
  BY <1>2, <1>3

(* ... and all of them.                                                    *)
LEMMA HomeIsVisited ==
  ASSUME NEW b1 \in Bucket, NEW b2 \in Bucket, NEW c \in HomeCells(b1, b2)
  PROVE  \E n \in ScanStep : Visit(b1, b2, n) = c
<1>1. SlotsPerBucket \in Nat
  BY TableAssumption
<1>2. PICK b \in {b1, b2}, i \in Slot : c = <<b, i>>
  BY DEF HomeCells
<1>3. CASE b = b1
  <2>1. i \in ScanStep /\ i < SlotsPerBucket
    BY <1>1 DEF Slot, ScanStep
  <2> QED
    BY <1>2, <1>3, <2>1 DEF Visit
<1>4. CASE b = b2
  <2>1. /\ i + SlotsPerBucket \in ScanStep
        /\ ~(i + SlotsPerBucket < SlotsPerBucket)
        /\ (i + SlotsPerBucket) - SlotsPerBucket = i
    BY <1>1 DEF Slot, ScanStep
  <2> QED
    BY <1>2, <1>4, <2>1 DEF Visit
<1> QED
  BY <1>3, <1>4

LEMMA HomeIsCell ==
  ASSUME NEW b1 \in Bucket, NEW b2 \in Bucket
  PROVE  HomeCells(b1, b2) \subseteq Cell
BY DEF HomeCells, Cell

(* A lookup that finds nothing: the key is in no slot of its home buckets. *)
LEMMA NotFound ==
  ASSUME NEW T, NEW b1 \in Bucket, NEW b2 \in Bucket, NEW k,
         ~Found(T, b1, b2, k),
         NEW c \in HomeCells(b1, b2)
  PROVE  ~KeyAt(T, c, k)
BY HomeIsVisited DEF Found

(* A lookup that finds something returns a slot of a home bucket that      *)
(* holds the key.                                                          *)
LEMMA FoundAtHolds ==
  ASSUME NEW T, NEW b1 \in Bucket, NEW b2 \in Bucket, NEW k, NEW c,
         FoundAt(T, b1, b2, k, c)
  PROVE  /\ c \in HomeCells(b1, b2)
         /\ KeyAt(T, c, k)
BY VisitIsHome DEF FoundAt

(* insert places a pair in an empty slot of a home bucket.                 *)
LEMMA FitsAtHome ==
  ASSUME NEW T, NEW b1 \in Bucket, NEW b2 \in Bucket, NEW k, NEW c,
         FitsAt(T, b1, b2, k, c)
  PROVE  /\ c \in HomeCells(b1, b2)
         /\ T[c] = Empty
BY VisitIsHome DEF FitsAt, StopsAt

(* insert kicks only when every slot it could use holds another key.       *)
LEMMA StuckIsFull ==
  ASSUME NEW T, NEW b1 \in Bucket, NEW b2 \in Bucket, NEW k,
         Stuck(T, b1, b2, k),
         NEW c \in HomeCells(b1, b2)
  PROVE  T[c] # Empty /\ ~KeyAt(T, c, k)
BY HomeIsVisited DEF Stuck, Stops

(* Storing into one slot changes that slot only.                           *)
LEMMA PutIs ==
  ASSUME NEW T \in Table, NEW c \in Cell, NEW x \in Pair \cup {Empty}
  PROVE  /\ Put(T, c, x) \in Table
         /\ Put(T, c, x)[c] = x
         /\ \A d \in Cell : d # c => Put(T, c, x)[d] = T[d]
BY DEF Put, Table

LEMMA CellFinite == IsFiniteSet(Cell)
<1>1. IsFiniteSet(Slot)
  BY TableAssumption, FS_Interval DEF Slot
<1> QED
  BY <1>1, TableAssumption, FS_Product DEF Cell

LEMMA UsedFinite == ASSUME NEW T PROVE IsFiniteSet(UsedCells(T))
BY CellFinite, FS_Subset DEF UsedCells

(* The number of used slots goes up by one when an empty slot is taken,    *)
(* down by one when a used one is cleared, and stays when a pair replaces  *)
(* another.                                                                *)
LEMMA PutCounts ==
  ASSUME NEW T \in Table, NEW c \in Cell, NEW p \in Pair
  PROVE  /\ Cardinality(UsedCells(T)) \in Nat
         /\ T[c] = Empty => Cardinality(UsedCells(Put(T, c, p)))
                              = Cardinality(UsedCells(T)) + 1
         /\ T[c] # Empty => UsedCells(Put(T, c, p)) = UsedCells(T)
         /\ T[c] # Empty => Cardinality(UsedCells(Put(T, c, Empty)))
                              = Cardinality(UsedCells(T)) - 1
<1>1. p # Empty
  BY TableAssumption
<1>2. /\ Put(T, c, p)[c] = p
      /\ \A d \in Cell : d # c => Put(T, c, p)[d] = T[d]
  BY PutIs
<1>3. /\ Put(T, c, Empty)[c] = Empty
      /\ \A d \in Cell : d # c => Put(T, c, Empty)[d] = T[d]
  BY PutIs
<1>4. Cardinality(UsedCells(T)) \in Nat
  BY UsedFinite, FS_CardinalityType
<1>5. ASSUME T[c] = Empty
      PROVE  Cardinality(UsedCells(Put(T, c, p))) = Cardinality(UsedCells(T)) + 1
  <2>1. /\ UsedCells(Put(T, c, p)) = UsedCells(T) \cup {c}
        /\ c \notin UsedCells(T)
    BY <1>1, <1>2, <1>5 DEF UsedCells
  <2> QED
    BY <2>1, UsedFinite, FS_AddElement
<1>6. T[c] # Empty => UsedCells(Put(T, c, p)) = UsedCells(T)
  BY <1>1, <1>2 DEF UsedCells
<1>7. ASSUME T[c] # Empty
      PROVE  Cardinality(UsedCells(Put(T, c, Empty))) = Cardinality(UsedCells(T)) - 1
  <2>1. /\ UsedCells(Put(T, c, Empty)) = UsedCells(T) \ {c}
        /\ c \in UsedCells(T)
    BY <1>3, <1>7 DEF UsedCells
  <2> QED
    BY <2>1, UsedFinite, FS_RemoveElement
<1> QED
  BY <1>4, <1>5, <1>6, <1>7

(* How many slots of D hold a pair of K: storing x in slot c takes away    *)
(* what was there and adds x.                                              *)
HoldersIn(T, D, K) == {d \in D : T[d] \in K}

LEMMA HoldersCount ==
  ASSUME NEW T \in Table, NEW D \in SUBSET Cell, NEW K \in SUBSET Pair
  PROVE  /\ IsFiniteSet(HoldersIn(T, D, K))
         /\ Cardinality(HoldersIn(T, D, K)) \in Nat
         /\ \A d \in D : T[d] \in K => Cardinality(HoldersIn(T, D, K)) > 0
<1>1. IsFiniteSet(HoldersIn(T, D, K))
  BY CellFinite, FS_Subset DEF HoldersIn
<1>2. Cardinality(HoldersIn(T, D, K)) \in Nat
  BY <1>1, FS_CardinalityType
<1>3. ASSUME NEW d \in D, T[d] \in K PROVE Cardinality(HoldersIn(T, D, K)) # 0
  <2>1. HoldersIn(T, D, K) # {}
    BY <1>3 DEF HoldersIn
  <2> QED
    BY <1>1, <2>1, FS_EmptySet
<1> QED
  BY <1>1, <1>2, <1>3

LEMMA PutHolders ==
  ASSUME NEW T \in Table, NEW D \in SUBSET Cell, NEW K \in SUBSET Pair,
         NEW c \in Cell, NEW x \in Pair \cup {Empty}
  PROVE  Cardinality(HoldersIn(Put(T, c, x), D, K))
           = Cardinality(HoldersIn(T, D, K))
             - (IF c \in D /\ T[c] \in K THEN 1 ELSE 0)
             + (IF c \in D /\ x \in K THEN 1 ELSE 0)
<1> DEFINE before == HoldersIn(T, D, K)
           after  == HoldersIn(Put(T, c, x), D, K)
           others == before \ {c}
<1>1. /\ Put(T, c, x)[c] = x
      /\ \A d \in Cell : d # c => Put(T, c, x)[d] = T[d]
  BY PutIs
<1>2. IsFiniteSet(before) /\ Cardinality(before) \in Nat
  BY HoldersCount
<1>3. /\ IsFiniteSet(others)
      /\ Cardinality(others) = Cardinality(before) - (IF c \in D /\ T[c] \in K THEN 1 ELSE 0)
  <2>1. c \in before <=> c \in D /\ T[c] \in K
    BY DEF HoldersIn
  <2> QED
    BY <1>2, <2>1, FS_RemoveElement
<1>4. Cardinality(after) = Cardinality(others) + (IF c \in D /\ x \in K THEN 1 ELSE 0)
  <2>1. CASE c \in D /\ x \in K
    <3>1. after = others \cup {c} /\ c \notin others
      BY <1>1, <2>1 DEF HoldersIn
    <3> QED
      BY <1>3, <2>1, <3>1, FS_AddElement
  <2>2. CASE ~(c \in D /\ x \in K)
    <3>1. after = others
      BY <1>1, <2>2 DEF HoldersIn
    <3>2. Cardinality(others) \in Nat
      BY <1>3, FS_CardinalityType
    <3> QED
      BY <2>2, <3>1, <3>2
  <2> QED
    BY <2>1, <2>2
<1> QED
  BY <1>3, <1>4

(* A key that is in one slot of its home buckets only is found there.      *)
LEMMA OnlyOneIsFound ==
  ASSUME NEW T, NEW b1 \in Bucket, NEW b2 \in Bucket, NEW k,
         NEW c \in HomeCells(b1, b2), KeyAt(T, c, k),
         \A d \in HomeCells(b1, b2) : KeyAt(T, d, k) => d = c
  PROVE  FoundAt(T, b1, b2, k, c) /\ Found(T, b1, b2, k)
<1>1. SlotsPerBucket \in Nat
  BY TableAssumption
<1>2. PICK b \in {b1, b2}, i \in Slot : c = <<b, i>>
  BY DEF HomeCells
<1>3. \E n \in ScanStep : /\ Visit(b1, b2, n) = c
                          /\ \A m \in ScanStep : m < n => Visit(b1, b2, m) # c
  <2>1. CASE b = b1
    <3>1. i \in ScanStep /\ i < SlotsPerBucket /\ i \in Nat
      BY <1>1 DEF Slot, ScanStep
    <3>2. Visit(b1, b2, i) = c
      BY <1>2, <2>1, <3>1 DEF Visit
    <3>3. ASSUME NEW m \in ScanStep, m < i PROVE Visit(b1, b2, m) # c
      <4>1. m < SlotsPerBucket /\ m # i
        BY <1>1, <3>1, <3>3 DEF ScanStep
      <4> QED
        BY <1>2, <4>1 DEF Visit
    <3> QED
      BY <3>1, <3>2, <3>3
  <2>2. CASE b = b2 /\ b1 # b2
    <3> DEFINE n == i + SlotsPerBucket
    <3>1. n \in ScanStep /\ ~(n < SlotsPerBucket) /\ n - SlotsPerBucket = i
      BY <1>1 DEF Slot, ScanStep
    <3>2. Visit(b1, b2, n) = c
      BY <1>2, <2>2, <3>1 DEF Visit
    <3>3. ASSUME NEW m \in ScanStep, m < n PROVE Visit(b1, b2, m) # c
      <4>1. m - SlotsPerBucket # i
        BY <1>1, <3>3 DEF ScanStep, Slot
      <4> QED
        BY <1>2, <2>2, <4>1 DEF Visit
    <3> QED
      BY <3>1, <3>2, <3>3
  <2> QED
    BY <2>1, <2>2
<1>4. PICK n \in ScanStep : /\ Visit(b1, b2, n) = c
                            /\ \A m \in ScanStep : m < n => Visit(b1, b2, m) # c
  BY <1>3
<1>5. \A m \in ScanStep : m < n => ~KeyAt(T, Visit(b1, b2, m), k)
  BY <1>4, VisitIsHome
<1> QED
  BY <1>4, <1>5 DEF FoundAt, Found
=============================================================================
