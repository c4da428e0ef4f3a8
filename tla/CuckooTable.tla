---------------------------- MODULE CuckooTable ----------------------------
(***************************************************************************)
(* The slots of a cuckoo table and the two scans every operation is built  *)
(* from (InternalCuckooMap.h).  A table has buckets of SlotsPerBucket      *)
(* slots; a key has two home buckets and a pair lives in a slot of one of  *)
(* them.  lookup and insert walk the same eight slots: those of the first  *)
(* home bucket, then those of the second.                                  *)
(*                                                                         *)
(* These are operators on a table T and two buckets, with no state, so     *)
(* that a single table (InternalCuckooMap) and a cascade of tables         *)
(* (CuckooMap) can both be written with them.                              *)
(***************************************************************************)
EXTENDS Integers, FiniteSets

CONSTANTS
  Key,            \* the keys clients use; none of them is Key(), the empty key
  Value,
  Bucket,         \* the buckets the keys of Key can reach
  SlotsPerBucket, \* 4 in the code
  Empty           \* the content of a slot whose key answers empty()

Pair == [key : Key, value : Value]

ASSUME TableAssumption ==
  /\ IsFiniteSet(Bucket)
  /\ SlotsPerBucket \in Nat \ {0}
  /\ Empty \notin Pair

Slot  == 0 .. SlotsPerBucket - 1
Cell  == Bucket \X Slot
Table == [Cell -> Pair \cup {Empty}]

KeyAt(T, c, k) == T[c] # Empty /\ T[c].key = k

UsedCells(T) == {c \in Cell : T[c] # Empty}

-----------------------------------------------------------------------------
(* The n-th slot a scan visits, n counted from 0.                          *)
ScanStep == 0 .. 2 * SlotsPerBucket - 1

Visit(b1, b2, n) == IF n < SlotsPerBucket THEN <<b1, n>>
                                          ELSE <<b2, n - SlotsPerBucket>>

(* lookup returns the first visited slot that holds the key.               *)
Found(T, b1, b2, k) == \E n \in ScanStep : KeyAt(T, Visit(b1, b2, n), k)

FoundAt(T, b1, b2, k, c) ==
  \E n \in ScanStep :
     /\ c = Visit(b1, b2, n)
     /\ KeyAt(T, c, k)
     /\ \A m \in ScanStep : m < n => ~KeyAt(T, Visit(b1, b2, m), k)

(* insert stops at the first visited slot that is empty or holds the key:  *)
(* an empty slot takes the pair, whatever the slots after it hold.         *)
Stops(T, k, c) == T[c] = Empty \/ KeyAt(T, c, k)

StopsAt(T, b1, b2, k, c) ==
  \E n \in ScanStep :
     /\ c = Visit(b1, b2, n)
     /\ Stops(T, k, c)
     /\ \A m \in ScanStep : m < n => ~Stops(T, k, Visit(b1, b2, m))

FitsAt(T, b1, b2, k, c)    == StopsAt(T, b1, b2, k, c) /\ T[c] = Empty
PresentAt(T, b1, b2, k, c) == StopsAt(T, b1, b2, k, c) /\ KeyAt(T, c, k)
Stuck(T, b1, b2, k) == \A n \in ScanStep : ~Stops(T, k, Visit(b1, b2, n))

(* The slot a kick may choose: any slot of either home bucket.             *)
HomeCells(b1, b2) == {b1, b2} \X Slot

(* expungeRandom takes the first used slot of the bucket it drew.          *)
FirstUsedAt(T, b, c) ==
  \E i \in Slot : /\ c = <<b, i>>
                  /\ T[c] # Empty
                  /\ \A j \in Slot : j < i => T[<<b, j>>] = Empty

Put(T, c, x) == [T EXCEPT ![c] = x]
=============================================================================
