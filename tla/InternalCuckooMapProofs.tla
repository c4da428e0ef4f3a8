---------------------- MODULE InternalCuckooMapProofs ----------------------
(***************************************************************************)
(* Theorems about one table, for every number of keys, values, buckets and *)
(* slots and for every pair of hash functions.                             *)
(*                                                                         *)
(* TypeOK needs PointerValid (a client writes through its pointer), and    *)
(* UniqueKeys needs Placement: insert looks for its key in two buckets     *)
(* only.  The inductive invariants are therefore TypeOK /\ PointerValid,   *)
(* then Placement, then UniqueKeys on top of both.                         *)
(***************************************************************************)
EXTENDS InternalCuckooMap, CuckooTableTheorems

HomeOf(k) == HomeCells(Home1[k], Home2[k])

LEMMA Homes == ASSUME NEW k \in Key
               PROVE  Home1[k] \in Bucket /\ Home2[k] \in Bucket
BY InternalAssumption

LEMMA PairNotEmpty == ASSUME NEW p \in Pair PROVE p # Empty /\ p.key \in Key
BY TableAssumption DEF Pair

(* What the steps of insert do, in terms of homes.                         *)
LEMMA FitsStep ==
  ASSUME NEW p \in Pair, NEW c \in Cell, InsertFits(p, c)
  PROVE  /\ c \in HomeOf(p.key)
         /\ cell[c] = Empty
BY Homes, PairNotEmpty, FitsAtHome DEF InsertFits, InsertFitsAt, HomeOf

LEMMA KicksStep ==
  ASSUME NEW p \in Pair, NEW c \in Cell, InsertKicks(p, c)
  PROVE  /\ c \in HomeOf(p.key)
         /\ cell[c] # Empty
         /\ ~KeyAt(cell, c, p.key)
BY Homes, PairNotEmpty, StuckIsFull DEF InsertKicks, InsertStuck, HomeOf

LEMMA LookupStep ==
  ASSUME NEW k \in Key, NEW c \in Cell, LookupAt(cell, k, c)
  PROVE  KeyAt(cell, c, k)
BY Homes, FoundAtHolds DEF LookupAt

-----------------------------------------------------------------------------
(* The type invariant, with the pointer of the caller.                     *)
Inv == TypeOK /\ PointerValid

LEMMA PlacedInv ==
  ASSUME Inv, NEW p \in Pair, Placed(p),
         ret' \in [op : {"init", "insert", "lookup", "remove"},
                   key : Key \cup {NoValue},
                   out : BOOLEAN \cup Value \cup {NoValue}]
  PROVE  Inv'
<1>1. PICK c \in Cell : InsertFits(p, c) \/ InsertKicks(p, c)
  BY DEF Placed
<1>2. cell \in Table /\ nrUsed \in Int /\ p # Empty
  BY PairNotEmpty DEF Inv, TypeOK
<1>3. /\ cell' = Put(cell, c, p)
      /\ nrUsed' \in Int
      /\ hand' \in Pair \cup {Empty}
      /\ ptr' = c
  BY <1>1, <1>2 DEF InsertFits, InsertKicks, Table
<1>4. cell' \in Table /\ cell'[c] = p
  BY <1>2, <1>3, PutIs
<1> QED
  BY <1>2, <1>3, <1>4 DEF Inv, TypeOK, PointerValid

LEMMA ClearInv ==
  ASSUME Inv, NEW c \in Cell, Clear(c),
         ret' \in [op : {"init", "insert", "lookup", "remove"},
                   key : Key \cup {NoValue},
                   out : BOOLEAN \cup Value \cup {NoValue}]
  PROVE  Inv'
<1>1. cell' \in Table
  BY PutIs DEF Inv, TypeOK, Clear
<1> QED
  BY <1>1 DEF Inv, TypeOK, PointerValid, Clear

(* Types hold and the caller's pointer never dangles, for every caller.    *)
THEOREM TypeCorrect == Spec => []Inv
<1>1. Init => Inv
  BY InternalAssumption DEF Init, Inv, TypeOK, PointerValid, Table, Answer
<1>2. Inv /\ [Next]_vars => Inv'
  <2> SUFFICES ASSUME Inv, [Next]_vars PROVE Inv'
    OBVIOUS
  <2>1. ASSUME NEW p \in Pair, InsertNew(p) PROVE Inv'
    BY <2>1, PlacedInv, PairNotEmpty DEF InsertNew, Answer
  <2>2. ASSUME NEW p \in Pair, InsertRefused(p) PROVE Inv'
    BY <2>2, PairNotEmpty DEF InsertRefused, InsertPresent, Answer, Inv, TypeOK, PointerValid
  <2>3. CASE InsertAgain
    <3>1. hand \in Pair /\ ret' = ret
      BY <2>3 DEF InsertAgain, Inv, TypeOK
    <3>2. CASE Placed(hand)
      BY <3>1, <3>2, PlacedInv DEF Inv, TypeOK
    <3>3. CASE InsertPresent(hand)
      BY <3>1, <3>3 DEF InsertPresent, Inv, TypeOK, PointerValid
    <3> QED
      BY <2>3, <3>2, <3>3 DEF InsertAgain
  <2>4. CASE CarryAway
    <3>1. hand \in Pair
      BY <2>4 DEF CarryAway, Inv, TypeOK
    <3> QED
      BY <2>4, <3>1, PairNotEmpty DEF CarryAway, Answer, Inv, TypeOK, PointerValid
  <2>5. ASSUME NEW k \in Key, Lookup(k) PROVE Inv'
    <3>1. CASE /\ ptr' = NoCell
               /\ ret' = Answer("lookup", k, NoValue)
      BY <2>5, <3>1 DEF Lookup, Answer, Inv, TypeOK, PointerValid
    <3>2. ASSUME NEW c \in Cell, LookupAt(cell, k, c), ptr' = c,
                 ret' = Answer("lookup", k, cell[c].value)
          PROVE  Inv'
      <4>1. cell[c] # Empty /\ cell[c] \in Pair
        BY <3>2, LookupStep DEF KeyAt, Inv, TypeOK, Table
      <4>2. cell[c].value \in Value
        BY <4>1 DEF Pair
      <4> QED
        BY <2>5, <3>2, <4>1, <4>2 DEF Lookup, Answer, Inv, TypeOK, PointerValid
    <3> QED
      BY <2>5, <3>1, <3>2 DEF Lookup
  <2>6. ASSUME NEW k \in Key, Remove(k) PROVE Inv'
    <3>1. CASE /\ ret' = Answer("remove", k, FALSE)
               /\ ptr' = NoCell
               /\ UNCHANGED <<cell, nrUsed, hand>>
      BY <3>1 DEF Answer, Inv, TypeOK, PointerValid
    <3>2. ASSUME NEW c \in Cell, Clear(c), ret' = Answer("remove", k, TRUE)
          PROVE  Inv'
      BY <3>2, ClearInv DEF Answer
    <3> QED
      BY <2>6, <3>1, <3>2 DEF Remove
  <2>7. ASSUME NEW v \in Value, WriteValue(v) PROVE Inv'
    <3>1. ptr \in Cell /\ cell \in Table /\ cell[ptr] \in Pair
      BY <2>7 DEF WriteValue, Inv, TypeOK, PointerValid, Table
    <3>2. [cell[ptr] EXCEPT !.value = v] \in Pair
      BY <3>1 DEF Pair
    <3>3. cell' = Put(cell, ptr, [cell[ptr] EXCEPT !.value = v])
      BY <2>7 DEF WriteValue, Put
    <3>4. cell' \in Table /\ cell'[ptr] # Empty
      BY <3>1, <3>2, <3>3, PutIs, PairNotEmpty
    <3> QED
      BY <2>7, <3>4 DEF WriteValue, Inv, TypeOK, PointerValid
  <2>8. CASE RemoveAt
    <3>1. ptr \in Cell /\ cell[ptr] \in Pair
      BY <2>8 DEF RemoveAt, Inv, TypeOK, PointerValid, Table
    <3> QED
      BY <2>8, <3>1, ClearInv, PairNotEmpty DEF RemoveAt, Answer
  <2>9. CASE ExpungeRandom
    <3>1. ptr \in Cell /\ cell \in Table /\ cell[ptr] \in Pair
      BY <2>9 DEF ExpungeRandom, Inv, TypeOK, PointerValid, Table
    <3>2. PICK c \in Cell : cell' = Put(cell, c, cell[ptr]) /\ hand' = cell[c] /\ ptr' = NoCell
      BY <2>9 DEF ExpungeRandom
    <3>3. cell' \in Table /\ hand' \in Pair \cup {Empty}
      BY <3>1, <3>2, PutIs DEF Table
    <3> QED
      BY <2>9, <3>2, <3>3 DEF ExpungeRandom, Inv, TypeOK, PointerValid
  <2>10. CASE UNCHANGED vars
    BY <2>10 DEF vars, Inv, TypeOK, PointerValid
  <2> QED
    BY <2>1, <2>2, <2>3, <2>4, <2>5, <2>6, <2>7, <2>8, <2>9, <2>10 DEF Next
<1> QED
  BY <1>1, <1>2, PTL DEF Spec

(* The theorem on its two conjuncts, which runs check.                     *)
THEOREM TypeTheorem == Spec => []TypeOK
<1>1. Inv => TypeOK
  BY DEF Inv
<1> QED
  BY <1>1, TypeCorrect, PTL

THEOREM PointerTheorem == Spec => []PointerValid
<1>1. Inv => PointerValid
  BY DEF Inv
<1> QED
  BY <1>1, TypeCorrect, PTL

-----------------------------------------------------------------------------
(* What a step does to the slots, whichever call it is.                    *)
Brings(p) == \/ hand = p
             \/ hand = Empty /\ (Checked => ~Lookups(cell, p.key))

StepFits  == \E p \in Pair, c \in Cell : Brings(p) /\ InsertFits(p, c)
StepKicks == \E p \in Pair, c \in Cell : Brings(p) /\ InsertKicks(p, c)

StepWrites == \E c \in Cell, v \in Value :
  /\ cell[c] \in Pair
  /\ cell' = Put(cell, c, [key |-> cell[c].key, value |-> v])
  /\ UNCHANGED <<nrUsed, hand>>

StepClears == \E c \in Cell : hand = Empty /\ cell[c] \in Pair /\ Clear(c)

StepKeeps == UNCHANGED <<cell, nrUsed>> /\ hand' \in {hand, Empty}

StepExpunges == \E c \in Cell, p \in Pair :
  /\ Expunging
  /\ cell[c] \in Pair
  /\ cell' = Put(cell, c, p) /\ hand' = cell[c] /\ UNCHANGED nrUsed

LEMMA Steps ==
  ASSUME Inv, [Next]_vars
  PROVE  \/ StepFits \/ StepKicks \/ StepWrites
         \/ StepClears \/ StepKeeps \/ StepExpunges
<1>1. /\ cell \in [Cell -> Pair \cup {Empty}]
      /\ \A c \in Cell : cell[c] # Empty => cell[c] \in Pair
      /\ hand # Empty => hand \in Pair
      /\ ptr # NoCell => ptr \in Cell /\ cell[ptr] \in Pair
  BY DEF Inv, TypeOK, PointerValid, Table
<1>2. ASSUME NEW p \in Pair, Placed(p), Brings(p) PROVE StepFits \/ StepKicks
  BY <1>2 DEF Placed, StepFits, StepKicks
<1>3. ASSUME NEW p \in Pair, InsertNew(p) PROVE StepFits \/ StepKicks
  BY <1>2, <1>3 DEF InsertNew, Brings
<1>4. ASSUME NEW p \in Pair, InsertRefused(p) PROVE StepKeeps
  BY <1>4 DEF InsertRefused, InsertPresent, StepKeeps
<1>5. CASE InsertAgain
  <2>1. CASE Placed(hand)
    BY <1>1, <1>2, <1>5, <2>1 DEF InsertAgain, Brings
  <2>2. CASE InsertPresent(hand)
    BY <2>2 DEF InsertPresent, StepKeeps
  <2> QED
    BY <1>5, <2>1, <2>2 DEF InsertAgain
<1>6. CASE CarryAway
  BY <1>6 DEF CarryAway, StepKeeps
<1>7. ASSUME NEW k \in Key, Lookup(k) PROVE StepKeeps
  BY <1>7 DEF Lookup, StepKeeps
<1>8. ASSUME NEW k \in Key, Remove(k) PROVE StepKeeps \/ StepClears
  <2>1. CASE UNCHANGED <<cell, nrUsed, hand>>
    BY <2>1 DEF StepKeeps
  <2>2. ASSUME NEW c \in Cell, LookupAt(cell, k, c), Clear(c) PROVE StepClears
    BY <1>1, <1>8, <2>2, LookupStep DEF KeyAt, StepClears, Remove
  <2> QED
    BY <1>8, <2>1, <2>2 DEF Remove
<1>9. ASSUME NEW v \in Value, WriteValue(v) PROVE StepWrites
  <2>1. ptr \in Cell /\ cell[ptr] \in Pair
    BY <1>1, <1>9 DEF WriteValue
  <2>2. [cell[ptr] EXCEPT !.value = v] = [key |-> cell[ptr].key, value |-> v]
    BY <2>1 DEF Pair
  <2>3. /\ cell' = Put(cell, ptr, [cell[ptr] EXCEPT !.value = v])
        /\ UNCHANGED <<nrUsed, hand>>
    BY <1>9 DEF WriteValue, Put
  <2> QED
    BY <2>1, <2>2, <2>3 DEF StepWrites
<1>10. CASE RemoveAt
  BY <1>1, <1>10 DEF RemoveAt, StepClears
<1>11. CASE ExpungeRandom
  <2>1. PICK b \in ExpungeBuckets, c \in Cell :
          /\ FirstUsedAt(cell, b, c)
          /\ cell' = Put(cell, c, cell[ptr]) /\ hand' = cell[c]
    BY <1>11 DEF ExpungeRandom
  <2>2. cell[c] \in Pair /\ cell[ptr] \in Pair
    BY <1>1, <1>11, <2>1 DEF FirstUsedAt, ExpungeRandom
  <2> QED
    BY <1>11, <2>1, <2>2 DEF ExpungeRandom, StepExpunges
<1>12. CASE UNCHANGED vars
  BY <1>12 DEF vars, StepKeeps
<1> QED
  BY <1>3, <1>4, <1>5, <1>6, <1>7, <1>8, <1>9, <1>10, <1>11, <1>12 DEF Next

-----------------------------------------------------------------------------
(* nrUsed counts the used slots, for every caller.                         *)
LEMMA UsedCountStep ==
  ASSUME Inv, UsedCount, [Next]_vars PROVE UsedCount'
<1>1. cell \in Table
  BY DEF Inv, TypeOK
<1>2. CASE StepFits
  <2>1. PICK p \in Pair, c \in Cell : InsertFits(p, c)
    BY <1>2 DEF StepFits
  <2>2. cell[c] = Empty /\ cell' = Put(cell, c, p) /\ nrUsed' = nrUsed + 1
    BY <2>1, FitsStep DEF InsertFits
  <2>3. Cardinality(UsedCells(cell')) = Cardinality(UsedCells(cell)) + 1
    BY <1>1, <2>2, PutCounts
  <2> QED
    BY <2>2, <2>3 DEF UsedCount
<1>3. CASE StepKicks
  <2>1. PICK p \in Pair, c \in Cell : InsertKicks(p, c)
    BY <1>3 DEF StepKicks
  <2>2. cell[c] # Empty /\ cell' = Put(cell, c, p) /\ nrUsed' = nrUsed
    BY <2>1, KicksStep DEF InsertKicks
  <2>3. UsedCells(cell') = UsedCells(cell)
    BY <1>1, <2>2, PutCounts
  <2> QED
    BY <2>2, <2>3 DEF UsedCount
<1>4. CASE StepWrites
  <2>1. PICK c \in Cell, v \in Value :
          /\ cell[c] \in Pair
          /\ cell' = Put(cell, c, [key |-> cell[c].key, value |-> v])
          /\ nrUsed' = nrUsed
    BY <1>4 DEF StepWrites
  <2>2. [key |-> cell[c].key, value |-> v] \in Pair /\ cell[c] # Empty
    BY <2>1, PairNotEmpty DEF Pair
  <2>3. UsedCells(cell') = UsedCells(cell)
    BY <1>1, <2>1, <2>2, PutCounts
  <2> QED
    BY <2>1, <2>3 DEF UsedCount
<1>5. CASE StepClears
  <2>1. PICK c \in Cell : cell[c] # Empty /\ cell' = Put(cell, c, Empty)
                            /\ nrUsed' = nrUsed - 1
    BY <1>5, PairNotEmpty DEF StepClears, Clear
  <2>2. PICK p : p \in Pair
    BY <1>5 DEF StepClears
  <2>3. Cardinality(UsedCells(cell')) = Cardinality(UsedCells(cell)) - 1
    BY <1>1, <2>1, <2>2, PutCounts
  <2> QED
    BY <2>1, <2>3 DEF UsedCount
<1>6. CASE StepKeeps
  BY <1>6 DEF StepKeeps, UsedCount
<1>7. CASE StepExpunges
  <2>1. PICK c \in Cell, p \in Pair :
          /\ cell[c] # Empty /\ cell' = Put(cell, c, p) /\ nrUsed' = nrUsed
    BY <1>7, PairNotEmpty DEF StepExpunges
  <2>2. UsedCells(cell') = UsedCells(cell)
    BY <1>1, <2>1, PutCounts
  <2> QED
    BY <2>1, <2>2 DEF UsedCount
<1> QED
  BY <1>2, <1>3, <1>4, <1>5, <1>6, <1>7, Steps

THEOREM UsedCountTheorem == Spec => []UsedCount
<1>1. Init => UsedCount
  <2> SUFFICES ASSUME Init PROVE UsedCount
    OBVIOUS
  <2>1. UsedCells(cell) = {} /\ nrUsed = 0
    BY DEF Init, UsedCells
  <2> QED
    BY <2>1, FS_EmptySet DEF UsedCount
<1>2. Inv /\ UsedCount /\ [Next]_vars => UsedCount'
  BY UsedCountStep
<1> QED
  BY <1>1, <1>2, TypeCorrect, PTL DEF Spec

-----------------------------------------------------------------------------
(* Without expungeRandom, every pair stays in a home of its key: a kick    *)
(* puts the pair in hand into one of its own two buckets.                  *)
LEMMA PlacementStep ==
  ASSUME ~Expunging, Inv, Placement, [Next]_vars PROVE Placement'
<1>1. cell \in Table
  BY DEF Inv, TypeOK
<1>2. ASSUME NEW p \in Pair, NEW c \in HomeOf(p.key), c \in Cell,
             cell' = Put(cell, c, p)
      PROVE  Placement'
  <2>1. cell'[c] = p /\ \A d \in Cell : d # c => cell'[d] = cell[d]
    BY <1>1, <1>2, PutIs
  <2> QED
    BY <1>2, <2>1 DEF Placement, HomeOf
<1>3. CASE StepFits
  BY <1>2, <1>3, FitsStep DEF StepFits, InsertFits
<1>4. CASE StepKicks
  BY <1>2, <1>4, KicksStep DEF StepKicks, InsertKicks
<1>5. CASE StepWrites
  <2>1. PICK c \in Cell, v \in Value :
          /\ cell[c] \in Pair
          /\ cell' = Put(cell, c, [key |-> cell[c].key, value |-> v])
    BY <1>5 DEF StepWrites
  <2>2. /\ [key |-> cell[c].key, value |-> v] \in Pair
        /\ c \in HomeOf(cell[c].key)
    BY <2>1, PairNotEmpty DEF Pair, Placement, HomeOf
  <2> QED
    BY <1>2, <2>1, <2>2
<1>6. CASE StepClears
  <2>1. PICK c \in Cell : cell' = Put(cell, c, Empty)
    BY <1>6 DEF StepClears, Clear
  <2>2. cell'[c] = Empty /\ \A d \in Cell : d # c => cell'[d] = cell[d]
    BY <1>1, <2>1, PutIs
  <2> QED
    BY <2>2 DEF Placement
<1>7. CASE StepKeeps
  BY <1>7 DEF StepKeeps, Placement
<1> QED
  BY <1>3, <1>4, <1>5, <1>6, <1>7, Steps DEF StepExpunges

THEOREM PlacementTheorem == ASSUME ~Expunging PROVE Spec => []Placement
<1>1. Init => Placement
  BY DEF Init, Placement
<1>2. Inv /\ Placement /\ [Next]_vars => Placement'
  BY PlacementStep
<1> QED
  BY <1>1, <1>2, TypeCorrect, PTL DEF Spec

-----------------------------------------------------------------------------
(* With a caller that checks, a pair that insert is given is not stored:   *)
(* its own pair because lookup, which sees all of its homes, found none;   *)
(* a pair in hand by the invariant itself.                                 *)
LEMMA BroughtIsNew ==
  ASSUME Checked, Placement, UniqueKeys, NEW p \in Pair, Brings(p)
  PROVE  \A d \in Cell : ~KeyAt(cell, d, p.key)
<1>1. CASE hand = p
  BY <1>1, PairNotEmpty DEF UniqueKeys
<1>2. CASE ~Lookups(cell, p.key)
  <2> SUFFICES ASSUME NEW d \in Cell, KeyAt(cell, d, p.key) PROVE FALSE
    OBVIOUS
  <2>1. d \in HomeCells(Home1[p.key], Home2[p.key])
    BY DEF Placement, KeyAt
  <2> QED
    BY <1>2, <2>1, Homes, PairNotEmpty, NotFound DEF Lookups
<1> QED
  BY <1>1, <1>2 DEF Brings

LEMMA UniqueKeysStep ==
  ASSUME Checked, ~Expunging, Inv, Placement, UniqueKeys, [Next]_vars
  PROVE  UniqueKeys'
<1>1. cell \in Table
  BY DEF Inv, TypeOK
<1>2. CASE StepFits
  <2>1. PICK p \in Pair, c \in Cell : Brings(p) /\ InsertFits(p, c)
    BY <1>2 DEF StepFits
  <2>2. hand' = Empty /\ cell'[c] = p /\ \A d \in Cell : d # c => cell'[d] = cell[d]
    BY <1>1, <2>1, PutIs DEF InsertFits
  <2>3. \A d \in Cell : ~KeyAt(cell, d, p.key)
    BY <2>1, BroughtIsNew
  <2> QED
    BY <2>2, <2>3 DEF UniqueKeys, KeyAt
<1>3. CASE StepKicks
  <2>1. PICK p \in Pair, c \in Cell : Brings(p) /\ InsertKicks(p, c)
    BY <1>3 DEF StepKicks
  <2>2. hand' = cell[c] /\ cell'[c] = p /\ \A d \in Cell : d # c => cell'[d] = cell[d]
    BY <1>1, <2>1, PutIs DEF InsertKicks
  <2>3. \A d \in Cell : ~KeyAt(cell, d, p.key)
    BY <2>1, BroughtIsNew
  <2>4. cell[c] # Empty
    BY <2>1, KicksStep
  <2> QED
    BY <2>2, <2>3, <2>4 DEF UniqueKeys, KeyAt
<1>4. CASE StepWrites
  <2>1. PICK c \in Cell, v \in Value :
          /\ cell[c] \in Pair
          /\ cell' = Put(cell, c, [key |-> cell[c].key, value |-> v])
          /\ hand' = hand
    BY <1>4 DEF StepWrites
  <2>2. [key |-> cell[c].key, value |-> v] \in Pair /\ cell[c] # Empty
    BY <2>1, PairNotEmpty DEF Pair
  <2>3. /\ cell'[c] = [key |-> cell[c].key, value |-> v]
        /\ \A d \in Cell : d # c => cell'[d] = cell[d]
    BY <1>1, <2>1, <2>2, PutIs
  <2>4. cell'[c].key = cell[c].key
    BY <2>3
  <2> QED
    BY <2>1, <2>2, <2>3, <2>4 DEF UniqueKeys, KeyAt
<1>5. CASE StepClears
  <2>1. PICK c \in Cell : hand = Empty /\ hand' = Empty /\ cell' = Put(cell, c, Empty)
    BY <1>5 DEF StepClears, Clear
  <2>2. cell'[c] = Empty /\ \A d \in Cell : d # c => cell'[d] = cell[d]
    BY <1>1, <2>1, PutIs
  <2> QED
    BY <2>1, <2>2 DEF UniqueKeys
<1>6. CASE StepKeeps
  BY <1>6 DEF StepKeeps, UniqueKeys, KeyAt
<1> QED
  BY <1>2, <1>3, <1>4, <1>5, <1>6, Steps DEF StepExpunges

THEOREM UniqueKeysTheorem ==
  ASSUME Checked, ~Expunging PROVE Spec => []UniqueKeys
<1>1. Init => UniqueKeys
  BY DEF Init, UniqueKeys
<1>2. Inv /\ Placement /\ UniqueKeys /\ [Next]_vars => UniqueKeys'
  BY UniqueKeysStep
<1> QED
  BY <1>1, <1>2, TypeCorrect, PlacementTheorem, PTL DEF Spec

-----------------------------------------------------------------------------
(* No caller loses a key otherwise than by removing it.                    *)
LEMMA PlacedKeeps ==
  ASSUME Inv, NEW p \in Pair, hand \in {p, Empty}, Placed(p),
         NEW k \in Key, Holds(k)
  PROVE  Holds(k)'
<1>1. PICK c \in Cell : InsertFits(p, c) \/ InsertKicks(p, c)
  BY DEF Placed
<1>2. cell' = Put(cell, c, p) /\ cell \in Table /\ p # Empty
  BY <1>1, PairNotEmpty DEF InsertFits, InsertKicks, Inv, TypeOK
<1>3. cell'[c] = p /\ \A d \in Cell : d # c => cell'[d] = cell[d]
  BY <1>2, PutIs
<1>4. cell[c] # Empty => hand' = cell[c]
  BY <1>1, FitsStep DEF InsertKicks
<1> QED
  BY <1>2, <1>3, <1>4 DEF Holds, KeyAt

LEMMA KeysKeptStep ==
  ASSUME Inv, [Next]_vars, NEW k \in Key, Holds(k), ~Holds(k)'
  PROVE  ret' = Answer("remove", k, TRUE)
<1>1. /\ cell \in Table
      /\ \A c \in Cell : cell[c] # Empty => cell[c] \in Pair
      /\ hand # Empty => hand \in Pair
      /\ ptr # NoCell => ptr \in Cell /\ cell[ptr] \in Pair
  BY DEF Inv, TypeOK, PointerValid, Table
<1>2. ASSUME NEW p \in Pair, InsertNew(p) PROVE FALSE
  BY <1>2, PlacedKeeps DEF InsertNew
<1>3. ASSUME NEW p \in Pair, InsertRefused(p) PROVE FALSE
  BY <1>3 DEF InsertRefused, InsertPresent, Holds
<1>4. CASE InsertAgain
  <2>1. CASE Placed(hand)
    BY <1>1, <1>4, <2>1, PlacedKeeps DEF InsertAgain
  <2>2. CASE InsertPresent(hand)
    BY <2>2 DEF InsertPresent, InsertPresentAt, PresentAt, Holds, KeyAt
  <2> QED
    BY <1>4, <2>1, <2>2 DEF InsertAgain
<1>5. CASE CarryAway
  BY <1>5 DEF CarryAway, Holds
<1>6. ASSUME NEW j \in Key, Lookup(j) PROVE FALSE
  BY <1>6 DEF Lookup, Holds
<1>7. ASSUME NEW c \in Cell, hand = Empty, Clear(c) PROVE cell[c].key = k
  <2>1. \A d \in Cell : d # c => cell'[d] = cell[d]
    BY <1>1, <1>7, PutIs DEF Clear
  <2> QED
    BY <1>7, <2>1 DEF Holds, KeyAt
<1>8. ASSUME NEW j \in Key, Remove(j) PROVE ret' = Answer("remove", k, TRUE)
  <2>1. CASE UNCHANGED <<cell, nrUsed, hand>>
    BY <2>1 DEF Holds
  <2>2. ASSUME NEW c \in Cell, LookupAt(cell, j, c), Clear(c),
               ret' = Answer("remove", j, TRUE)
        PROVE  ret' = Answer("remove", k, TRUE)
    BY <1>7, <1>8, <2>2, LookupStep DEF KeyAt, Remove
  <2> QED
    BY <1>8, <2>1, <2>2 DEF Remove
<1>9. ASSUME NEW v \in Value, WriteValue(v) PROVE FALSE
  <2>1. /\ cell'[ptr] = [cell[ptr] EXCEPT !.value = v]
        /\ \A d \in Cell : d # ptr => cell'[d] = cell[d]
    BY <1>1, <1>9 DEF WriteValue, Table
  <2>2. cell'[ptr] \in Pair /\ cell'[ptr].key = cell[ptr].key
    BY <1>1, <1>9, <2>1 DEF WriteValue, Pair
  <2> QED
    BY <1>1, <1>9, <2>1, <2>2, PairNotEmpty DEF WriteValue, Holds, KeyAt
<1>10. CASE RemoveAt
  BY <1>1, <1>7, <1>10 DEF RemoveAt
<1>11. CASE ExpungeRandom
  <2>1. PICK c \in Cell : cell' = Put(cell, c, cell[ptr]) /\ hand' = cell[c]
    BY <1>11 DEF ExpungeRandom
  <2>2. \A d \in Cell : d # c => cell'[d] = cell[d]
    BY <1>1, <1>11, <2>1, PutIs DEF ExpungeRandom
  <2> QED
    BY <1>11, <2>1, <2>2 DEF ExpungeRandom, Holds, KeyAt
<1>12. CASE UNCHANGED vars
  BY <1>12 DEF vars, Holds
<1> QED
  BY <1>2, <1>3, <1>4, <1>5, <1>6, <1>8, <1>9, <1>10, <1>11, <1>12 DEF Next

THEOREM KeysKeptTheorem == Spec => KeysKept
<1>1. Inv /\ [Next]_vars
        => [\A k \in Key : Holds(k) /\ ~Holds(k)' => ret' = Answer("remove", k, TRUE)]_vars
  BY KeysKeptStep
<1> QED
  BY <1>1, TypeCorrect, PTL DEF Spec, KeysKept

-----------------------------------------------------------------------------
(* The table implements UniqueMap.  First, the value of a key is what its  *)
(* pair says, wherever the pair is.                                        *)
Unique(T, h) ==
  /\ \A c, d \in Cell : T[c] # Empty /\ T[d] # Empty /\ T[c].key = T[d].key => c = d
  /\ h # Empty => \A c \in Cell : ~KeyAt(T, c, h.key)

LEMMA ValueIs ==
  ASSUME NEW T, NEW h, Unique(T, h), NEW k
  PROVE  /\ \A c \in Cell : KeyAt(T, c, k) => ValueIn(T, h, k) = T[c].value
         /\ h # Empty /\ h.key = k => ValueIn(T, h, k) = h.value
         /\ (\A c \in Cell : ~KeyAt(T, c, k)) /\ ~(h # Empty /\ h.key = k)
              => ValueIn(T, h, k) = NoValue
<1>1. ASSUME NEW c \in Cell, KeyAt(T, c, k) PROVE ValueIn(T, h, k) = T[c].value
  <2> DEFINE d == CHOOSE d \in Cell : KeyAt(T, d, k)
  <2>1. d \in Cell /\ KeyAt(T, d, k)
    BY <1>1
  <2>2. d = c
    BY <1>1, <2>1 DEF Unique, KeyAt
  <2>3. ValueIn(T, h, k) = T[d].value
    BY <1>1 DEF ValueIn
  <2> QED
    BY <2>2, <2>3
<1>2. ASSUME h # Empty, h.key = k PROVE ValueIn(T, h, k) = h.value
  BY <1>2 DEF ValueIn, Unique
<1>3. ASSUME \A c \in Cell : ~KeyAt(T, c, k), ~(h # Empty /\ h.key = k)
      PROVE  ValueIn(T, h, k) = NoValue
  BY <1>3 DEF ValueIn
<1> QED
  BY <1>1, <1>2, <1>3

Dict == [k \in Key |-> ValueIn(cell, hand, k)]

(* Everything that the steps need: the invariants before and after.        *)
Before == /\ Checked /\ ~Expunging
          /\ Inv /\ Placement /\ UniqueKeys

LEMMA UniqueNow == UniqueKeys => Unique(cell, hand)
BY DEF UniqueKeys, Unique

LEMMA UniqueNext == UniqueKeys' => Unique(cell', hand')
BY DEF UniqueKeys, Unique, KeyAt

(* Placing a pair gives its key its value and leaves every other key its   *)
(* own, the displaced one included.                                        *)
LEMMA PlacedDict ==
  ASSUME Before, UniqueKeys', NEW p \in Pair, Brings(p), Placed(p)
  PROVE  Dict' = [Dict EXCEPT ![p.key] = p.value]
<1>1. PICK c \in Cell : InsertFits(p, c) \/ InsertKicks(p, c)
  BY DEF Placed
<1>2. cell \in Table /\ p # Empty /\ p.key \in Key
  BY PairNotEmpty DEF Before, Inv, TypeOK
<1>3. cell' = Put(cell, c, p)
  BY <1>1 DEF InsertFits, InsertKicks
<1>4. cell'[c] = p /\ \A d \in Cell : d # c => cell'[d] = cell[d]
  BY <1>2, <1>3, PutIs
<1>5. hand' = cell[c]
  BY <1>1, FitsStep DEF InsertFits, InsertKicks
<1>6. hand # Empty => hand = p
  BY DEF Brings
<1>7. ValueIn(cell', hand', p.key) = p.value
  BY <1>2, <1>4, UniqueNext, ValueIs DEF KeyAt
<1>8. ASSUME NEW k \in Key, k # p.key
      PROVE  ValueIn(cell', hand', k) = ValueIn(cell, hand, k)
  <2>1. CASE KeyAt(cell, c, k)
    <3>1. ValueIn(cell, hand, k) = cell[c].value
      BY <2>1, UniqueNow, ValueIs DEF Before
    <3>2. ValueIn(cell', hand', k) = hand'.value
      BY <1>5, <2>1, UniqueNext, ValueIs DEF KeyAt
    <3> QED
      BY <1>5, <3>1, <3>2
  <2>2. ASSUME NEW d \in Cell, d # c, KeyAt(cell, d, k)
        PROVE  ValueIn(cell', hand', k) = ValueIn(cell, hand, k)
    <3>1. ValueIn(cell, hand, k) = cell[d].value
      BY <2>2, UniqueNow, ValueIs DEF Before
    <3>2. ValueIn(cell', hand', k) = cell'[d].value
      BY <1>4, <2>2, UniqueNext, ValueIs DEF KeyAt
    <3> QED
      BY <1>4, <2>2, <3>1, <3>2
  <2>3. CASE \A d \in Cell : ~KeyAt(cell, d, k)
    <3>1. ValueIn(cell, hand, k) = NoValue
      BY <1>6, <1>8, <2>3, UniqueNow, ValueIs DEF Before
    <3>2. /\ \A d \in Cell : ~KeyAt(cell', d, k)
          /\ ~(hand' # Empty /\ hand'.key = k)
      BY <1>2, <1>4, <1>5, <1>8, <2>3 DEF KeyAt
    <3>3. ValueIn(cell', hand', k) = NoValue
      BY <3>2, UniqueNext, ValueIs
    <3> QED
      BY <3>1, <3>3
  <2> QED
    BY <2>1, <2>2, <2>3
<1> QED
  BY <1>2, <1>7, <1>8 DEF Dict

(* Clearing a slot takes the key of its pair out of the map.               *)
LEMMA ClearDict ==
  ASSUME Before, UniqueKeys', NEW c \in Cell, hand = Empty, cell[c] \in Pair, Clear(c)
  PROVE  /\ Dict' = [Dict EXCEPT ![cell[c].key] = NoValue]
         /\ Dict[cell[c].key] # NoValue
<1>1. cell \in Table /\ cell[c] # Empty /\ cell[c].key \in Key
  BY PairNotEmpty DEF Before, Inv, TypeOK
<1>2. /\ cell'[c] = Empty /\ hand' = Empty
      /\ \A d \in Cell : d # c => cell'[d] = cell[d]
  BY <1>1, PutIs DEF Clear
<1>3. ValueIn(cell', hand', cell[c].key) = NoValue
  <2>1. \A d \in Cell : ~KeyAt(cell', d, cell[c].key)
    BY <1>1, <1>2 DEF KeyAt, Before, UniqueKeys
  <2> QED
    BY <1>2, <2>1, UniqueNext, ValueIs
<1>4. ASSUME NEW k \in Key, k # cell[c].key
      PROVE  ValueIn(cell', hand', k) = ValueIn(cell, hand, k)
  <2>1. ASSUME NEW d \in Cell, KeyAt(cell, d, k)
        PROVE  ValueIn(cell', hand', k) = ValueIn(cell, hand, k)
    <3>1. d # c
      BY <1>4, <2>1 DEF KeyAt
    <3>2. ValueIn(cell, hand, k) = cell[d].value
      BY <2>1, UniqueNow, ValueIs DEF Before
    <3>3. ValueIn(cell', hand', k) = cell'[d].value
      BY <1>2, <2>1, <3>1, UniqueNext, ValueIs DEF KeyAt
    <3> QED
      BY <1>2, <3>1, <3>2, <3>3
  <2>2. CASE \A d \in Cell : ~KeyAt(cell, d, k)
    <3>1. ValueIn(cell, hand, k) = NoValue
      BY <2>2, UniqueNow, ValueIs DEF Before
    <3>2. \A d \in Cell : ~KeyAt(cell', d, k)
      BY <1>2, <2>2 DEF KeyAt
    <3>3. ValueIn(cell', hand', k) = NoValue
      BY <1>2, <3>2, UniqueNext, ValueIs
    <3> QED
      BY <3>1, <3>3
  <2> QED
    BY <2>1, <2>2
<1>5. ValueIn(cell, hand, cell[c].key) = cell[c].value
  BY <1>1, UniqueNow, ValueIs DEF Before, KeyAt
<1>6. cell[c].value # NoValue
  BY InternalAssumption DEF Pair
<1> QED
  BY <1>1, <1>3, <1>4, <1>5, <1>6 DEF Dict

(* A lookup that fails means the key is not in the map.                    *)
LEMMA MissDict ==
  ASSUME Before, hand = Empty, NEW k \in Key, ~Lookups(cell, k)
  PROVE  Dict[k] = NoValue
<1>1. ASSUME NEW d \in Cell, KeyAt(cell, d, k) PROVE FALSE
  <2>1. d \in HomeCells(Home1[k], Home2[k])
    BY <1>1 DEF Before, Placement, KeyAt
  <2> QED
    BY <1>1, <2>1, Homes, NotFound DEF Lookups
<1> QED
  BY <1>1, UniqueNow, ValueIs DEF Before, Dict

(* Every step is a step of the map, or none.                               *)
LEMMA MapStep ==
  ASSUME Before, UniqueKeys', [Next]_vars
  PROVE  [Abstract!Next]_(Abstract!umVars)
<1> USE DEF Abstract!umVars
<1>1. /\ cell \in Table
      /\ \A c \in Cell : cell[c] # Empty => cell[c] \in Pair
      /\ hand # Empty => hand \in Pair
      /\ ptr # NoCell => ptr \in Cell /\ cell[ptr] \in Pair
  BY DEF Before, Inv, TypeOK, PointerValid, Table
<1>2. ASSUME NEW p \in Pair, InsertNew(p) PROVE Abstract!Next
  <2>1. Brings(p) /\ ~Lookups(cell, p.key) /\ Placed(p) /\ hand = Empty
    BY <1>2 DEF InsertNew, Brings, Before
  <2>2. p.key \in Key /\ p.value \in Value
    BY DEF Pair
  <2>3. Dict' = [Dict EXCEPT ![p.key] = p.value]
    BY <2>1, PlacedDict
  <2>4. Dict[p.key] = NoValue
    BY <2>1, <2>2, MissDict
  <2>5. Abstract!InsertNew(p.key, p.value)
    BY <1>2, <2>3, <2>4 DEF InsertNew, Dict, Answer, Abstract!InsertNew, Abstract!Answer
  <2> QED
    BY <2>2, <2>5 DEF Abstract!Next
<1>3. ASSUME NEW p \in Pair, InsertRefused(p) PROVE FALSE
  <2>1. Brings(p) /\ \E c \in Cell : KeyAt(cell, c, p.key)
    BY <1>3 DEF InsertRefused, InsertPresent, InsertPresentAt, PresentAt, Brings, Before
  <2> QED
    BY <2>1, BroughtIsNew DEF Before
<1>4. CASE InsertAgain
  <2>1. hand \in Pair /\ Brings(hand)
    BY <1>1, <1>4 DEF InsertAgain, Brings
  <2>2. ~InsertPresent(hand)
    BY <2>1, BroughtIsNew DEF Before, InsertPresent, InsertPresentAt, PresentAt
  <2>3. Dict' = [Dict EXCEPT ![hand.key] = hand.value]
    BY <1>4, <2>1, <2>2, PlacedDict DEF InsertAgain
  <2>4. hand.key \in Key /\ Dict[hand.key] = hand.value
    BY <1>4, <2>1, UniqueNow, ValueIs, PairNotEmpty DEF InsertAgain, Before, Dict
  <2>5. Dict' = Dict
    BY <2>3, <2>4 DEF Dict
  <2> QED
    BY <1>4, <2>5 DEF InsertAgain, Dict
<1>5. CASE CarryAway
  <2>1. hand \in Pair /\ hand.key \in Key /\ hand # Empty
    BY <1>1, <1>5, PairNotEmpty DEF CarryAway
  <2>2. hand' = Empty /\ cell' = cell
    BY <1>5 DEF CarryAway
  <2>3. Dict[hand.key] = hand.value /\ hand.value # NoValue
    BY <2>1, UniqueNow, ValueIs, InternalAssumption DEF Before, Dict, Pair
  <2>4. ValueIn(cell', hand', hand.key) = NoValue
    BY <2>1, <2>2 DEF ValueIn, Before, UniqueKeys
  <2>5. ASSUME NEW k \in Key, k # hand.key
        PROVE  ValueIn(cell', hand', k) = ValueIn(cell, hand, k)
    BY <2>2, <2>5 DEF ValueIn
  <2>6. Dict' = [Dict EXCEPT ![hand.key] = NoValue]
    BY <2>1, <2>4, <2>5 DEF Dict
  <2>7. Abstract!Remove(hand.key)
    BY <1>5, <2>3, <2>6 DEF CarryAway, Dict, Answer, Abstract!Remove, Abstract!Answer
  <2> QED
    BY <2>1, <2>7 DEF Abstract!Next
<1>6. ASSUME NEW k \in Key, Lookup(k) PROVE Abstract!Next
  <2>1. Dict' = Dict /\ hand = Empty
    BY <1>6 DEF Lookup, Dict
  <2>2. ret' = Answer("lookup", k, Dict[k])
    <3>1. CASE ~Lookups(cell, k) /\ ret' = Answer("lookup", k, NoValue)
      BY <2>1, <3>1, MissDict
    <3>2. ASSUME NEW c \in Cell, LookupAt(cell, k, c),
                 ret' = Answer("lookup", k, cell[c].value)
          PROVE  ret' = Answer("lookup", k, Dict[k])
      BY <3>2, LookupStep, UniqueNow, ValueIs DEF Before, Dict
    <3> QED
      BY <1>6, <3>1, <3>2 DEF Lookup
  <2>3. Abstract!Lookup(k)
    BY <2>1, <2>2 DEF Dict, Answer, Abstract!Lookup, Abstract!Answer
  <2> QED
    BY <2>3 DEF Abstract!Next
<1>7. ASSUME NEW k \in Key, Remove(k) PROVE Abstract!Next
  <2>1. CASE /\ ~Lookups(cell, k)
             /\ ret' = Answer("remove", k, FALSE)
             /\ UNCHANGED <<cell, nrUsed, hand>>
    <3>1. Dict[k] = NoValue /\ Dict' = Dict
      BY <1>7, <2>1, MissDict DEF Remove, Dict
    <3>2. Dict' = [Dict EXCEPT ![k] = NoValue]
      BY <3>1 DEF Dict
    <3> QED
      BY <2>1, <3>1, <3>2 DEF Dict, Answer, Abstract!Next, Abstract!Remove, Abstract!Answer
  <2>2. ASSUME NEW c \in Cell, LookupAt(cell, k, c), Clear(c),
               ret' = Answer("remove", k, TRUE)
        PROVE  Abstract!Next
    <3>1. cell[c] \in Pair /\ cell[c].key = k /\ hand = Empty
      BY <1>1, <1>7, <2>2, LookupStep DEF KeyAt, Remove
    <3>2. Dict' = [Dict EXCEPT ![k] = NoValue] /\ Dict[k] # NoValue
      BY <2>2, <3>1, ClearDict
    <3> QED
      BY <2>2, <3>2 DEF Dict, Answer, Abstract!Next, Abstract!Remove, Abstract!Answer
  <2> QED
    BY <1>7, <2>1, <2>2 DEF Remove
<1>8. ASSUME NEW v \in Value, WriteValue(v) PROVE Abstract!Next
  <2> DEFINE k == cell[ptr].key
  <2>1. ptr \in Cell /\ cell[ptr] \in Pair /\ cell[ptr] # Empty /\ k \in Key /\ hand = Empty
    BY <1>1, <1>8, PairNotEmpty DEF WriteValue
  <2>2. /\ cell'[ptr] = [cell[ptr] EXCEPT !.value = v] /\ hand' = Empty
        /\ \A d \in Cell : d # ptr => cell'[d] = cell[d]
    BY <1>1, <1>8, <2>1 DEF WriteValue, Table
  <2>3. cell'[ptr] \in Pair /\ cell'[ptr].key = k /\ cell'[ptr].value = v
    BY <2>1, <2>2 DEF Pair
  <2>4. ValueIn(cell, hand, k) = cell[ptr].value /\ cell[ptr].value # NoValue
    BY <2>1, UniqueNow, ValueIs, InternalAssumption DEF Before, KeyAt, Pair
  <2>5. ValueIn(cell', hand', k) = v
    BY <2>1, <2>3, UniqueNext, ValueIs, PairNotEmpty DEF KeyAt
  <2>6. ASSUME NEW j \in Key, j # k
        PROVE  ValueIn(cell', hand', j) = ValueIn(cell, hand, j)
    <3>1. ASSUME NEW d \in Cell, KeyAt(cell, d, j)
          PROVE  ValueIn(cell', hand', j) = ValueIn(cell, hand, j)
      <4>1. d # ptr
        BY <2>6, <3>1 DEF KeyAt
      <4>2. ValueIn(cell, hand, j) = cell[d].value
        BY <3>1, UniqueNow, ValueIs DEF Before
      <4>3. ValueIn(cell', hand', j) = cell'[d].value
        BY <2>2, <3>1, <4>1, UniqueNext, ValueIs DEF KeyAt
      <4> QED
        BY <2>2, <3>1, <4>1, <4>2, <4>3
    <3>2. CASE \A d \in Cell : ~KeyAt(cell, d, j)
      <4>1. ValueIn(cell, hand, j) = NoValue
        BY <2>1, <3>2, UniqueNow, ValueIs DEF Before
      <4>2. \A d \in Cell : ~KeyAt(cell', d, j)
        BY <2>2, <2>3, <2>6, <3>2 DEF KeyAt
      <4>3. ValueIn(cell', hand', j) = NoValue
        BY <2>2, <4>2, UniqueNext, ValueIs
      <4> QED
        BY <4>1, <4>3
    <3> QED
      BY <3>1, <3>2
  <2>7. Dict' = [Dict EXCEPT ![k] = v] /\ Dict[k] # NoValue
    BY <2>1, <2>4, <2>5, <2>6 DEF Dict
  <2>8. Abstract!Write(k, v)
    BY <1>8, <2>7 DEF WriteValue, Dict, Abstract!Write
  <2> QED
    BY <2>1, <2>8 DEF Abstract!Next
<1>9. CASE RemoveAt
  <2>1. ptr \in Cell /\ cell[ptr] \in Pair /\ cell[ptr].key \in Key /\ hand = Empty
    BY <1>1, <1>9, PairNotEmpty DEF RemoveAt
  <2>2. /\ Dict' = [Dict EXCEPT ![cell[ptr].key] = NoValue]
        /\ Dict[cell[ptr].key] # NoValue
    BY <1>9, <2>1, ClearDict DEF RemoveAt
  <2>3. Abstract!Remove(cell[ptr].key)
    BY <1>9, <2>2 DEF RemoveAt, Dict, Answer, Abstract!Remove, Abstract!Answer
  <2> QED
    BY <2>1, <2>3 DEF Abstract!Next
<1>10. ~ExpungeRandom
  BY DEF ExpungeRandom, Before
<1>11. CASE UNCHANGED vars
  BY <1>11 DEF vars, Dict
<1> QED
  BY <1>2, <1>3, <1>4, <1>5, <1>6, <1>7, <1>8, <1>9, <1>10, <1>11 DEF Next

(* A table whose caller checks before it inserts, and does not expunge, is *)
(* a map with unique keys: no kick, re-insertion or removal shows.         *)
THEOREM MapTheorem ==
  ASSUME Checked, ~Expunging PROVE Spec => ImplementsMap
<1>1. Init => Abstract!Init
  <2> SUFFICES ASSUME Init PROVE Abstract!Init
    OBVIOUS
  <2>1. \A k \in Key : ValueIn(cell, hand, k) = NoValue
    BY DEF Init, ValueIn, KeyAt
  <2> QED
    BY <2>1 DEF Init, Answer, Abstract!Init, Abstract!Answer
<1>2. Inv /\ Placement /\ UniqueKeys /\ UniqueKeys' /\ [Next]_vars
        => [Abstract!Next]_(Abstract!umVars)
  BY MapStep DEF Before
<1> QED
  BY <1>1, <1>2, TypeCorrect, PlacementTheorem, UniqueKeysTheorem, PTL
     DEF Spec, ImplementsMap, Abstract!Spec
=============================================================================
