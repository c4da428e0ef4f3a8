----------------------------- MODULE CuckooMap -----------------------------
(***************************************************************************)
(* The cascade of tables (CuckooMap.h) as one thread uses it.  A map has   *)
(* tables in layers, each four times as large as the one before.  lookup   *)
(* searches them in order and may move what it found one layer to the      *)
(* front; insert starts at the last table and pushes the pair that a table *)
(* cannot keep to another one, and to a new table in the end.              *)
(*                                                                         *)
(* A lookup that moves nothing and a remove are one step.  innerInsert is  *)
(* one step per round of its loop, with the loop's local variables in ins: *)
(*   "round"     calling sub.insert (lines 310-330)                        *)
(*   "settled"   the table took the pair; overfull()? (lines 331-338)      *)
(*   "expunged"  a pair is out and goes to another layer (lines 339-351)   *)
(*   "grow"      no layer is left: append a table (lines 356-397)          *)
(*   "aborted"   throw without an exception, which ends the process        *)
(*                                                                         *)
(* Checked says that the client inserts a key only after lookup did not    *)
(* find it, as CuckooMultiMap does.                                        *)
(***************************************************************************)
EXTENDS CuckooTable

CONSTANTS
  MaxLayers,         \* bound on the tables of this model
  LayerOf,           \* the layer of a bucket
  Home1, Home2,      \* the home buckets, by layer and key
  Capacity,          \* capacity(), by layer
  ExpungeBuckets,    \* the buckets pseudoRandomHash reaches
  Class, ClassOf,    \* fingerprints with their two filter buckets, by layer and key
  Rounds, MoveRounds,\* maxRounds: 128 from insert, 4 from lookup
  MaxCount,          \* bound on the counters of this model
  NoValue, NoCell,
  Checked, UseFilters, AllocMayFail

Layer == 0 .. MaxLayers - 1

ASSUME CascadeAssumption ==
  /\ MaxLayers \in Nat \ {0}
  /\ LayerOf \in [Bucket -> Layer]
  /\ Home1 \in [Layer -> [Key -> Bucket]]
  /\ Home2 \in [Layer -> [Key -> Bucket]]
  /\ \A l \in Layer, k \in Key : LayerOf[Home1[l][k]] = l /\ LayerOf[Home2[l][k]] = l
  /\ Capacity \in [Layer -> Nat]
  /\ ExpungeBuckets \subseteq Bucket
  /\ ClassOf \in [Layer -> [Key -> Class]]
  /\ Rounds \in Nat \ {0} /\ MoveRounds \in Nat \ {0}
  /\ MaxCount \in Nat
  /\ NoValue \notin Value
  /\ NoCell \notin Cell
  /\ Checked \in BOOLEAN /\ UseFilters \in BOOLEAN /\ AllocMayFail \in BOOLEAN

VARIABLES
  cell,     \* the slots of all tables
  nLayers,  \* _tables.size()
  subUsed,  \* _nrUsed of each table
  filter,   \* how many fingerprints of a class each filter holds
  nrUsed,   \* _nrUsed of the map
  pc, ins,  \* where innerInsert is, and its local variables
  find,     \* the slot the client's Finding points to, and its layer
  ret       \* the answer of the last call

tables == <<cell, nLayers, subUsed, filter, nrUsed>>
vars   == <<cell, nLayers, subUsed, filter, nrUsed, pc, ins, find, ret>>

Answer(op, k, out) == [op |-> op, key |-> k, out |-> out]

Nothing   == [at |-> NoCell, layer |-> -1]
InUse     == 0 .. nLayers - 1
LastLayer == nLayers - 1
LayerCell(l) == {c \in Cell : LayerOf[c[1]] = l}

(* overfull(): more than 15/16 of the slots are used.  The counter is      *)
(* unsigned: below zero it is huge, and so is its product by 16.           *)
Overfull(l) == subUsed[l] < 0 \/ subUsed[l] * 16 > Capacity[l] * 15

(* Counters that have lost touch with the slots could grow without end;    *)
(* exact ones never exceed the number of keys.                             *)
Bounded == nrUsed <= MaxCount /\ \A l \in Layer : subUsed[l] \in 0 .. MaxCount

SubFound(l, k)        == Found(cell, Home1[l][k], Home2[l][k], k)
SubFoundAt(l, k, c)   == FoundAt(cell, Home1[l][k], Home2[l][k], k, c)
Mut_SubFitsAt_Anywhere(l, k, c) ==    \* takes any empty slot of the table
  cell[c] = Empty /\ LayerOf[c[1]] = l

SubFitsAt(l, k, c)    == FitsAt(cell, Home1[l][k], Home2[l][k], k, c)
SubPresentAt(l, k, c) == PresentAt(cell, Home1[l][k], Home2[l][k], k, c)
SubStuck(l, k)        == Stuck(cell, Home1[l][k], Home2[l][k], k)

(* The filters: a key may be in the layer if its class is counted.         *)
FilterLookup(l, k)    == UseFilters => filter[l][ClassOf[l][k]] > 0
FilterAdd(f, l, k)    == IF UseFilters THEN [f EXCEPT ![l][ClassOf[l][k]] = @ + 1] ELSE f
Mut_FilterRemove_Leaks(f, l, k) == f   \* innerRemove forgets the filter

FilterRemove(f, l, k) == IF UseFilters /\ f[l][ClassOf[l][k]] > 0
                         THEN [f EXCEPT ![l][ClassOf[l][k]] = @ - 1] ELSE f

(* innerLookup: the first layer whose filter and table both have the key.  *)
Mut_Answers_LastSkipped(l, k) ==      \* the loop over the tables ends too early
  l \in 0 .. nLayers - 2 /\ FilterLookup(l, k) /\ SubFound(l, k)

Answers(l, k) == l \in InUse /\ FilterLookup(l, k) /\ SubFound(l, k)
FirstLayer(l, k) == Answers(l, k) /\ \A m \in InUse : m < l => ~Answers(m, k)
Visible(k) == \E l \in InUse : Answers(l, k)
FindAt(k, l, c) == FirstLayer(l, k) /\ SubFoundAt(l, k, c)

(* innerInsert(p, f, layerHint): its local variables at its first round.   *)
(*   hand     kCopy, vCopy       orig    originalKey                       *)
(*   atLayer  originalKeyAtLayer round, last, rounds   i, res, maxRounds   *)
(*   track    f is not null                                                *)
Start(p, track, layer, rounds) ==
  [hand |-> p, orig |-> p.key, atLayer |-> p.key, layer |-> layer,
   round |-> 0, rounds |-> rounds, last |-> 1, track |-> track]

NoInsert == [hand |-> Empty, orig |-> NoValue, atLayer |-> NoValue, layer |-> 0,
             round |-> 0, rounds |-> 1, last |-> 1, track |-> FALSE]

Init ==
  /\ cell = [c \in Cell |-> Empty]
  /\ nLayers = 1
  /\ subUsed = [l \in Layer |-> 0]
  /\ filter = [l \in Layer |-> [x \in Class |-> 0]]
  /\ nrUsed = 0
  /\ pc = "idle"
  /\ ins = NoInsert
  /\ find = Nothing
  /\ ret = Answer("init", NoValue, NoValue)

-----------------------------------------------------------------------------
(* lookup(k) and lookup(k, f)                                              *)
Mut_LookupMiss_LoopEnd(k) ==          \* f._layer is set to the loop counter
  /\ pc = "idle"
  /\ ~Visible(k)
  /\ find' = [Nothing EXCEPT !.layer = nLayers]
  /\ ret' = Answer("lookup", k, NoValue)
  /\ UNCHANGED <<tables, pc, ins>>

LookupMiss(k) ==
  /\ pc = "idle"
  /\ ~Visible(k)
  /\ find' = Nothing
  /\ ret' = Answer("lookup", k, NoValue)
  /\ UNCHANGED <<tables, pc, ins>>

LookupHit(k) ==
  /\ pc = "idle"
  /\ \E l \in InUse, c \in Cell :
       /\ FindAt(k, l, c)
       /\ find' = [at |-> c, layer |-> l]
       /\ ret' = Answer("lookup", k, cell[c].value)
  /\ UNCHANGED <<tables, pc, ins>>

(* innerRemove(f) of the pair in slot c of layer l                         *)
Mut_InnerRemove_NotCounted(l, c) ==   \* --_nrUsed is missing
  /\ filter' = FilterRemove(filter, l, cell[c].key)
  /\ cell' = Put(cell, c, Empty)
  /\ subUsed' = [subUsed EXCEPT ![l] = @ - 1]
  /\ UNCHANGED <<nLayers, nrUsed>>

InnerRemove(l, c) ==
  /\ filter' = FilterRemove(filter, l, cell[c].key)
  /\ cell' = Put(cell, c, Empty)
  /\ subUsed' = [subUsed EXCEPT ![l] = @ - 1]
  /\ nrUsed' = nrUsed - 1
  /\ UNCHANGED nLayers

(* The heuristic: with some luck a pair found behind the first layer is    *)
(* removed and inserted one layer further to the front, where it may       *)
(* displace others.                                                        *)
LookupMove(k) ==
  /\ pc = "idle"
  /\ Bounded
  /\ \E l \in InUse, c \in Cell :
       /\ l > 0
       /\ FindAt(k, l, c)
       /\ InnerRemove(l, c)
       /\ ins' = Start(cell[c], TRUE, l - 1, MoveRounds)
       /\ find' = [at |-> NoCell, layer |-> l]
  /\ pc' = "round"
  /\ UNCHANGED ret

(* insert(k, v), and insert(k, v, f), which clears f._key at its end       *)
Insert(p) ==
  /\ pc = "idle"
  /\ Bounded
  /\ Checked => ~Visible(p.key)
  /\ ins' = Start(p, FALSE, LastLayer, Rounds)
  /\ pc' = "round"
  /\ find' = Nothing
  /\ UNCHANGED <<tables, ret>>

(* remove(k), and remove(f) of what the Finding points to                  *)
RemoveMiss(k) ==
  /\ pc = "idle"
  /\ ~Visible(k)
  /\ find' = Nothing
  /\ ret' = Answer("remove", k, FALSE)
  /\ UNCHANGED <<tables, pc, ins>>

RemoveHit(k) ==
  /\ pc = "idle"
  /\ \E l \in InUse, c \in Cell : FindAt(k, l, c) /\ InnerRemove(l, c)
  /\ find' = Nothing
  /\ ret' = Answer("remove", k, TRUE)
  /\ UNCHANGED <<pc, ins>>

RemoveFound ==
  /\ pc = "idle"
  /\ find.at # NoCell
  /\ InnerRemove(find.layer, find.at)
  /\ find' = [find EXCEPT !.at = NoCell]
  /\ ret' = Answer("remove", cell[find.at].key, TRUE)
  /\ UNCHANGED <<pc, ins>>

(* The client writes the value through the Finding.                        *)
WriteValue(v) ==
  /\ pc = "idle"
  /\ find.at # NoCell
  /\ cell' = [cell EXCEPT ![find.at].value = v]
  /\ UNCHANGED <<nLayers, subUsed, filter, nrUsed, pc, ins, find, ret>>

-----------------------------------------------------------------------------
(* The steps of innerInsert.  When it returns, lookup answers with what    *)
(* the Finding now points to; insert answers whether it took place.        *)
Hand  == ins.hand
Mut_Track_FirstRound == ins.track /\ ins.round = 0   \* f is only written once

Track == ins.track /\ Hand.key = ins.orig

Return(T, took, at) ==
  /\ pc' = "idle"
  /\ ins' = NoInsert
  /\ ret' = IF ins.track
            THEN Answer("lookup", ins.orig, IF at = NoCell THEN NoValue ELSE T[at].value)
            ELSE Answer("insert", ins.orig, took)

Mut_PointTo_OldLayer(c, l) ==         \* f->_layer = layer is missing
  find' = IF Track THEN [find EXCEPT !.at = c] ELSE find

PointTo(c, l) == find' = IF Track THEN [at |-> c, layer |-> l] ELSE find

RoundPresent ==
  /\ pc = "round"
  /\ \E c \in Cell : SubPresentAt(ins.layer, Hand.key, c)
  /\ find' = IF Track THEN [find EXCEPT !.layer = ins.layer] ELSE find
  /\ Return(cell, FALSE, find.at)
  /\ UNCHANGED tables

RoundFits ==
  /\ pc = "round"
  /\ \E c \in Cell : /\ SubFitsAt(ins.layer, Hand.key, c)
                     /\ cell' = Put(cell, c, Hand)
                     /\ PointTo(c, ins.layer)
  /\ subUsed' = [subUsed EXCEPT ![ins.layer] = @ + 1]
  /\ filter' = FilterAdd(filter, ins.layer, ins.atLayer)
  /\ nrUsed' = nrUsed + 1
  /\ ins' = [ins EXCEPT !.last = 0]
  /\ pc' = "settled"
  /\ UNCHANGED <<nLayers, ret>>

Mut_RoundKicks_NoSwap ==   \* the displaced pair is overwritten
  /\ pc = "round"
  /\ SubStuck(ins.layer, Hand.key)
  /\ \E c \in HomeCells(Home1[ins.layer][Hand.key], Home2[ins.layer][Hand.key]) :
       /\ cell' = Put(cell, c, Hand)
       /\ ins' = [ins EXCEPT !.round = @ + 1, !.last = 1]
       /\ PointTo(c, ins.layer)
  /\ pc' = IF ins.round + 1 = ins.rounds THEN "expunged" ELSE "round"
  /\ UNCHANGED <<nLayers, subUsed, filter, nrUsed, ret>>

Mut_RoundKicks_Endless ==   \* i is not counted
  /\ pc = "round"
  /\ SubStuck(ins.layer, Hand.key)
  /\ \E c \in HomeCells(Home1[ins.layer][Hand.key], Home2[ins.layer][Hand.key]) :
       /\ cell' = Put(cell, c, Hand)
       /\ ins' = [ins EXCEPT !.hand = cell[c], !.last = 1]
       /\ PointTo(c, ins.layer)
  /\ pc' = IF ins.round + 1 = ins.rounds THEN "expunged" ELSE "round"
  /\ UNCHANGED <<nLayers, subUsed, filter, nrUsed, ret>>

RoundKicks ==
  /\ pc = "round"
  /\ SubStuck(ins.layer, Hand.key)
  /\ \E c \in HomeCells(Home1[ins.layer][Hand.key], Home2[ins.layer][Hand.key]) :
       /\ cell' = Put(cell, c, Hand)
       /\ ins' = [ins EXCEPT !.hand = cell[c], !.round = @ + 1, !.last = 1]
       /\ PointTo(c, ins.layer)
  /\ pc' = IF ins.round + 1 = ins.rounds THEN "expunged" ELSE "round"
  /\ UNCHANGED <<nLayers, subUsed, filter, nrUsed, ret>>

Settled ==
  /\ pc = "settled"
  /\ ~Overfull(ins.layer)
  /\ Return(cell, TRUE, find.at)
  /\ UNCHANGED <<tables, find>>

(* expungeRandom(kCopy, vCopy): kCopy is the pair just placed.             *)
ExpungeRandom ==
  /\ pc = "settled"
  /\ Overfull(ins.layer)
  /\ \E b \in ExpungeBuckets, c \in Cell :
       /\ LayerOf[b] = ins.layer
       /\ FirstUsedAt(cell, b, c)
       /\ cell' = Put(cell, c, Hand)
       /\ ins' = [ins EXCEPT !.hand = cell[c]]
  /\ pc' = "expunged"
  /\ UNCHANGED <<nLayers, subUsed, filter, nrUsed, find, ret>>

ExpungeFails ==
  /\ pc = "settled"
  /\ Overfull(ins.layer)
  /\ \A b \in ExpungeBuckets : LayerOf[b] = ins.layer =>
       \A c \in Cell : ~FirstUsedAt(cell, b, c)
  /\ pc' = "aborted"
  /\ UNCHANGED <<tables, ins, find, ret>>

(* Bring the filter of the layer up to date and go on: to the last layer,  *)
(* or behind it.                                                           *)
NextLayer == IF ins.layer = LastLayer THEN ins.layer + 1 ELSE LastLayer
Mut_Moved_Never == FALSE              \* the filter is not brought up to date

Moved     == UseFilters /\ Hand.key # ins.atLayer
FilterHas(l, k) == filter[l][ClassOf[l][k]] > 0

Expunged ==
  /\ pc = "expunged"
  /\ Moved => FilterHas(ins.layer, Hand.key)
  /\ filter' = IF Moved
               THEN FilterAdd(FilterRemove(filter, ins.layer, Hand.key), ins.layer, ins.atLayer)
               ELSE filter
  /\ ins' = [ins EXCEPT !.atLayer = IF Moved THEN Hand.key ELSE @,
                        !.layer = NextLayer, !.round = 0]
  /\ pc' = IF NextLayer = nLayers THEN "grow" ELSE "round"
  /\ UNCHANGED <<cell, nLayers, subUsed, nrUsed, find, ret>>

(* A filter refuses: the kick loop of CuckooFilter::insert is exhausted,   *)
(* or CuckooFilter::remove does not find the fingerprint.                  *)
FilterRefuses ==
  /\ UseFilters
  /\ \/ pc = "round" /\ \E c \in Cell : SubFitsAt(ins.layer, Hand.key, c)
     \/ pc = "expunged" /\ Moved
  /\ pc' = "aborted"
  /\ UNCHANGED <<tables, ins, find, ret>>

(* A new table is empty and takes the pair in the first slot of its first  *)
(* home; the while loop does nothing if the last sub.insert answered 0.    *)
Grow ==
  LET l == nLayers
      c == <<Home1[l][Hand.key], 0>>
  IN /\ pc = "grow"
     /\ nLayers < MaxLayers
     /\ nLayers' = nLayers + 1
     /\ filter' = FilterAdd(filter, l, Hand.key)
     /\ nrUsed' = nrUsed + 1
     /\ IF ins.last = 1
        THEN /\ cell' = Put(cell, c, Hand)
             /\ subUsed' = [subUsed EXCEPT ![l] = @ + 1]
             /\ PointTo(c, l)
        ELSE UNCHANGED <<cell, subUsed, find>>
     /\ Return(cell', TRUE, find'.at)

(* new Subtable throws: the exception passes through insert or lookup.     *)
GrowFails ==
  /\ pc = "grow"
  /\ AllocMayFail
  /\ pc' = "idle"
  /\ ins' = NoInsert
  /\ ret' = Answer("bad_alloc", ins.orig, NoValue)
  /\ find' = Nothing
  /\ UNCHANGED tables

InnerInsert == \/ RoundPresent \/ RoundFits \/ RoundKicks
               \/ Settled \/ ExpungeRandom \/ ExpungeFails
               \/ Expunged \/ FilterRefuses \/ Grow \/ GrowFails

Next == \/ \E k \in Key : \/ LookupMiss(k) \/ LookupHit(k) \/ LookupMove(k)
                          \/ RemoveMiss(k) \/ RemoveHit(k)
        \/ \E p \in Pair : Insert(p)
        \/ \E v \in Value : WriteValue(v)
        \/ RemoveFound
        \/ InnerInsert

Spec == Init /\ [][Next]_vars

(* A call that is under way goes on: the thread that made it runs.         *)
FairSpec == Spec /\ WF_vars(InnerInsert)

-----------------------------------------------------------------------------
(* innerInsert has a pair that is in no table.                             *)
HandOut == pc \in {"round", "expunged", "grow", "aborted"}

TypeOK ==
  /\ cell \in Table
  /\ nLayers \in 1 .. MaxLayers
  /\ subUsed \in [Layer -> Int]
  /\ filter \in [Layer -> [Class -> Int]]
  /\ nrUsed \in Int
  /\ pc \in {"idle", "round", "settled", "expunged", "grow", "aborted"}
  /\ ins \in [hand : Pair \cup {Empty}, orig : Key \cup {NoValue},
              atLayer : Key \cup {NoValue}, layer : 0 .. MaxLayers, round : Nat,
              rounds : Nat \ {0}, last : 0 .. 1, track : BOOLEAN]
  /\ find \in [at : Cell \cup {NoCell}, layer : -1 .. MaxLayers - 1]
  /\ ret \in [op : {"init", "insert", "lookup", "remove", "bad_alloc"},
              key : Key \cup {NoValue}, out : BOOLEAN \cup Value \cup {NoValue}]

(* A key has one pair in all the tables, and none while innerInsert has    *)
(* its pair out.                                                           *)
UniqueKeys ==
  /\ \A c, d \in Cell : cell[c] # Empty /\ cell[d] # Empty
                          /\ cell[c].key = cell[d].key => c = d
  /\ HandOut => \A c \in Cell : ~KeyAt(cell, c, Hand.key)

(* Between calls, lookup finds every pair that is stored, in its slot: no  *)
(* filter says no, and no kick left a pair where no scan goes.             *)
LookupComplete ==
  pc = "idle" => \A c \in Cell : cell[c] # Empty =>
                   FindAt(cell[c].key, LayerOf[c[1]], c)

(* A pair is in one of the two home buckets it has in its layer, in a      *)
(* table that exists.                                                      *)
Placement ==
  \A c \in Cell : cell[c] # Empty =>
    LET l == LayerOf[c[1]] k == cell[c].key
    IN l \in InUse /\ c \in HomeCells(Home1[l][k], Home2[l][k])

(* Every table counts its used slots, which overfull() relies on.          *)
SubCount == \A l \in Layer :
              subUsed[l] = Cardinality({c \in LayerCell(l) : cell[c] # Empty})

(* nrUsed() of the map counts the pairs stored, in all layers.             *)
MapCount == nrUsed = Cardinality(UsedCells(cell))

(* Between calls a filter holds one fingerprint for each pair of its       *)
(* table: kicks and moves leave none behind and take none away.            *)
FilterExact ==
  UseFilters /\ pc = "idle" =>
    \A l \in Layer, x \in Class :
      filter[l][x] = Cardinality({c \in LayerCell(l) :
                         cell[c] # Empty /\ ClassOf[l][cell[c].key] = x})

(* The Finding of a lookup leads to the pair of the key that was looked    *)
(* up, also when the pair was moved and kicked around on the way.          *)
FindingPoints ==
  pc = "idle" /\ find.at # NoCell =>
    /\ KeyAt(cell, find.at, ret.key)
    /\ LayerOf[find.at[1]] = find.layer

(* A key goes away only when a call removes it, or when the memory for a   *)
(* new table cannot be had, and then it is the one pair that was out.      *)
Holds(k) == \/ \E c \in Cell : KeyAt(cell, c, k)
            \/ HandOut /\ Hand.key = k

KeysKept ==
  [][\A k \in Key : Holds(k) /\ ~Holds(k)' =>
        \/ ret' = Answer("remove", k, TRUE)
        \/ ret'.op = "bad_alloc" /\ k = Hand.key]_vars

(* A call returns, whatever it displaces, or the process ends.             *)
OperationsReturn == pc # "idle" ~> pc \in {"idle", "aborted"}

(* The cascade is a unique map.  While insert(k, v) is under way, k is not *)
(* in the map; every other key has the value of its pair, in a slot or in  *)
(* the hand of innerInsert.                                                *)
ValueOf(k) ==
  IF pc # "idle" /\ ~ins.track /\ ins.orig = k THEN NoValue
  ELSE IF \E c \in Cell : KeyAt(cell, c, k)
  THEN cell[CHOOSE c \in Cell : KeyAt(cell, c, k)].value
  ELSE IF HandOut /\ Hand.key = k THEN Hand.value ELSE NoValue

Abstract == INSTANCE UniqueMap WITH dict <- [k \in Key |-> ValueOf(k)]

ImplementsMap == Abstract!Spec
=============================================================================
