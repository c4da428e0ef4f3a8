------------------------- MODULE InternalCuckooMap -------------------------
(***************************************************************************)
(* One cuckoo hash table (InternalCuckooMap.h) and the caller that uses    *)
(* it.  A call is one step: the class has no lock and starts no thread.    *)
(* What makes it more than a map is that insert may answer 1 and hand the  *)
(* caller another pair than the one it brought; the caller must insert     *)
(* that one (the sample loop, lines 223-236) or carry it to another table  *)
(* (CuckooMap::innerInsert) before it does anything else.                  *)
(*                                                                         *)
(* Two questions are left to constants, because the answer is the          *)
(* caller's:                                                               *)
(*   Checked    insert is called only for a key that lookup did not find   *)
(*   Expunging  the caller calls expungeRandom the way CuckooMap does,     *)
(*              with the pair that it has just inserted                    *)
(***************************************************************************)
EXTENDS CuckooTable

CONSTANTS
  Home1, Home2,   \* hashToPos of the two hash functions, by key
  ExpungeBuckets, \* the buckets pseudoRandomHash reaches
  NoValue, NoCell,
  Checked, Expunging

ASSUME InternalAssumption ==
  /\ Home1 \in [Key -> Bucket]
  /\ Home2 \in [Key -> Bucket]
  /\ ExpungeBuckets \subseteq Bucket
  /\ NoValue \notin Value
  /\ NoCell \notin Cell
  /\ Checked \in BOOLEAN
  /\ Expunging \in BOOLEAN

VARIABLES
  cell,    \* the slots
  nrUsed,  \* _nrUsed
  hand,    \* the pair a call handed back and the caller still has to place
  ptr,     \* the slot the caller's kOut or *kPtr points to
  ret      \* the answer of the last call

vars == <<cell, nrUsed, hand, ptr, ret>>

Answer(op, k, out) == [op |-> op, key |-> k, out |-> out]

Mut_Lookups_FirstBucket(T, k) == Found(T, Home1[k], Home1[k], k)  \* pos for pos2

Lookups(T, k)         == Found(T, Home1[k], Home2[k], k)
LookupAt(T, k, c)     == FoundAt(T, Home1[k], Home2[k], k, c)
InsertFitsAt(k, c)    == FitsAt(cell, Home1[k], Home2[k], k, c)
InsertPresentAt(k, c) == PresentAt(cell, Home1[k], Home2[k], k, c)
InsertStuck(k)        == Stuck(cell, Home1[k], Home2[k], k)

Init == /\ cell = [c \in Cell |-> Empty]
        /\ nrUsed = 0
        /\ hand = Empty
        /\ ptr = NoCell
        /\ ret = Answer("init", NoValue, NoValue)

-----------------------------------------------------------------------------
(* insert(k, v, kPtr, vPtr) called with the pair p: 0, an empty slot took  *)
(* it; -1, the scan met its key; 1, it took the slot of another pair, any  *)
(* of the eight, which p becomes.                                          *)
Mut_InsertFits_PointsPast(p, c) ==   \* *kPtr one slot too far
  /\ InsertFitsAt(p.key, c)
  /\ cell' = Put(cell, c, p)
  /\ nrUsed' = nrUsed + 1
  /\ hand' = Empty
  /\ ptr' = <<c[1], c[2] + 1>>

InsertFits(p, c) ==
  /\ InsertFitsAt(p.key, c)
  /\ cell' = Put(cell, c, p)
  /\ nrUsed' = nrUsed + 1
  /\ hand' = Empty
  /\ ptr' = c

InsertPresent(p) ==
  /\ \E c \in Cell : InsertPresentAt(p.key, c)
  /\ hand' = Empty
  /\ ptr' = NoCell
  /\ UNCHANGED <<cell, nrUsed>>

Mut_InsertKicks_NoSwap(p, c) ==   \* the caller gets its own pair back
  /\ InsertStuck(p.key)
  /\ c \in HomeCells(Home1[p.key], Home2[p.key])
  /\ cell' = Put(cell, c, p)
  /\ hand' = p
  /\ ptr' = c
  /\ UNCHANGED nrUsed

Mut_InsertKicks_Drops(p, c) ==   \* the displaced pair is overwritten
  /\ InsertStuck(p.key)
  /\ c \in HomeCells(Home1[p.key], Home2[p.key])
  /\ cell' = Put(cell, c, p)
  /\ hand' = Empty
  /\ ptr' = c
  /\ UNCHANGED nrUsed

Mut_InsertKicks_Counts(p, c) ==   \* counts the new pair but not the one it displaced
  /\ InsertStuck(p.key)
  /\ c \in HomeCells(Home1[p.key], Home2[p.key])
  /\ cell' = Put(cell, c, p)
  /\ hand' = cell[c]
  /\ ptr' = c
  /\ nrUsed' = nrUsed + 1

Mut_InsertKicks_OwnHome(p, c) ==   \* kicks from a home of another key
  /\ InsertStuck(p.key)
  /\ \E k \in Key : c \in HomeCells(Home1[k], Home2[k]) /\ cell[c] # Empty
  /\ cell' = Put(cell, c, p)
  /\ hand' = cell[c]
  /\ ptr' = c
  /\ UNCHANGED nrUsed

InsertKicks(p, c) ==
  /\ InsertStuck(p.key)
  /\ c \in HomeCells(Home1[p.key], Home2[p.key])
  /\ cell' = Put(cell, c, p)
  /\ hand' = cell[c]
  /\ ptr' = c
  /\ UNCHANGED nrUsed

Placed(p) == \E c \in Cell : InsertFits(p, c) \/ InsertKicks(p, c)

(* The caller brings a pair of its own ...                                 *)
InsertNew(p) == /\ hand = Empty
                /\ Checked => ~Lookups(cell, p.key)
                /\ Placed(p)
                /\ ret' = Answer("insert", p.key, TRUE)

InsertRefused(p) == /\ hand = Empty
                    /\ Checked => ~Lookups(cell, p.key)
                    /\ InsertPresent(p)
                    /\ ret' = Answer("insert", p.key, FALSE)

(* ... or the one that the previous call handed back.                      *)
InsertAgain == /\ hand # Empty
               /\ Placed(hand) \/ InsertPresent(hand)
               /\ UNCHANGED ret

(* The caller's rounds are used up: it keeps the pair for another table.   *)
CarryAway == /\ hand # Empty
             /\ hand' = Empty
             /\ ptr' = NoCell
             /\ ret' = Answer("remove", hand.key, TRUE)
             /\ UNCHANGED <<cell, nrUsed>>

Lookup(k) ==
  /\ hand = Empty
  /\ \/ /\ ~Lookups(cell, k)
        /\ ptr' = NoCell
        /\ ret' = Answer("lookup", k, NoValue)
     \/ \E c \in Cell : /\ LookupAt(cell, k, c)
                        /\ ptr' = c
                        /\ ret' = Answer("lookup", k, cell[c].value)
  /\ UNCHANGED <<cell, nrUsed, hand>>

(* The caller writes the value through the pointer it was given.           *)
WriteValue(v) ==
  /\ hand = Empty
  /\ ptr # NoCell
  /\ cell' = [cell EXCEPT ![ptr].value = v]
  /\ UNCHANGED <<nrUsed, hand, ptr, ret>>

(* remove of a slot, and of the key that lookup finds.                     *)
Mut_Clear_KeepsPointer(c) == /\ cell' = Put(cell, c, Empty)
                             /\ nrUsed' = nrUsed - 1
                             /\ UNCHANGED <<hand, ptr>>

Clear(c) == /\ cell' = Put(cell, c, Empty)
            /\ nrUsed' = nrUsed - 1
            /\ ptr' = NoCell
            /\ UNCHANGED hand

RemoveAt == /\ hand = Empty
            /\ ptr # NoCell
            /\ Clear(ptr)
            /\ ret' = Answer("remove", cell[ptr].key, TRUE)

Remove(k) ==
  /\ hand = Empty
  /\ \/ /\ ~Lookups(cell, k)
        /\ ret' = Answer("remove", k, FALSE)
        /\ ptr' = NoCell
        /\ UNCHANGED <<cell, nrUsed, hand>>
     \/ \E c \in Cell : /\ LookupAt(cell, k, c)
                        /\ Clear(c)
                        /\ ret' = Answer("remove", k, TRUE)

(* expungeRandom(k, v) with the pair just inserted, still in k and v: the  *)
(* first used slot of a reachable bucket is swapped with it.               *)
ExpungeRandom ==
  /\ Expunging
  /\ hand = Empty
  /\ ptr # NoCell
  /\ ret.op = "insert"
  /\ \E b \in ExpungeBuckets, c \in Cell :
       /\ FirstUsedAt(cell, b, c)
       /\ cell' = Put(cell, c, cell[ptr])
       /\ hand' = cell[c]
       /\ ptr' = NoCell
  /\ UNCHANGED <<nrUsed, ret>>

Next == \/ \E p \in Pair : InsertNew(p) \/ InsertRefused(p)
        \/ InsertAgain
        \/ CarryAway
        \/ \E k \in Key : Lookup(k) \/ Remove(k)
        \/ \E v \in Value : WriteValue(v)
        \/ RemoveAt
        \/ ExpungeRandom

Spec == Init /\ [][Next]_vars

-----------------------------------------------------------------------------
TypeOK == /\ cell \in Table
          /\ nrUsed \in Int
          /\ hand \in Pair \cup {Empty}
          /\ ptr \in Cell \cup {NoCell}
          /\ ret \in [op : {"init", "insert", "lookup", "remove"},
                      key : Key \cup {NoValue},
                      out : BOOLEAN \cup Value \cup {NoValue}]

(* A pair is in a slot of one of its key's two home buckets, however many  *)
(* pairs were kicked around: lookup looks nowhere else.                    *)
Placement == \A c \in Cell : cell[c] # Empty =>
               c \in HomeCells(Home1[cell[c].key], Home2[cell[c].key])

(* No key is in two slots, nor in a slot and in the caller's hand.         *)
UniqueKeys ==
  /\ \A c, d \in Cell : cell[c] # Empty /\ cell[d] # Empty
                          /\ cell[c].key = cell[d].key => c = d
  /\ hand # Empty => \A c \in Cell : ~KeyAt(cell, c, hand.key)

(* The pointer a caller holds leads to a pair until its next call; the     *)
(* caller may remove it or write to it.                                    *)
PointerValid == ptr # NoCell => cell[ptr] # Empty

(* nrUsed, which overfull() judges the table by, is the number of used     *)
(* slots.                                                                  *)
UsedCount == nrUsed = Cardinality(UsedCells(cell))

(* A pair that is stored, or still in the caller's hand, goes away only in *)
(* a call that was asked to remove its key: no insert, kick or expunge     *)
(* loses one of the pairs it moves around.                                 *)
Holds(k) == \/ \E c \in Cell : KeyAt(cell, c, k)
            \/ hand # Empty /\ hand.key = k

KeysKept ==
  [][\A k \in Key : Holds(k) /\ ~Holds(k)' => ret' = Answer("remove", k, TRUE)]_vars

(* The table is a unique map: the value of a key is that of its pair, in   *)
(* its slot or in the caller's hand.                                       *)
ValueIn(T, h, k) ==
  IF \E c \in Cell : KeyAt(T, c, k) THEN T[CHOOSE c \in Cell : KeyAt(T, c, k)].value
  ELSE IF h # Empty /\ h.key = k THEN h.value ELSE NoValue

Abstract == INSTANCE UniqueMap WITH dict <- [k \in Key |-> ValueIn(cell, hand, k)]

ImplementsMap == Abstract!Spec
=============================================================================
