-------------------------- MODULE CuckooMapProofs --------------------------
(***************************************************************************)
(* Theorems on the cascade (CuckooMap), for any keys, tables, rounds and   *)
(* clients.                                                                *)
(*                                                                         *)
(* The types hold without a condition.  The rest holds as long as no table *)
(* is overfull when it has taken a pair: an overfull table writes a second *)
(* copy of that pair over another one (ExpungeRandom); the run             *)
(* map_overfull_loses shows what that costs.  Roomy excludes it, and is an *)
(* assumption of every theorem but TypeTheorem.                            *)
(***************************************************************************)
EXTENDS CuckooMap, CuckooTableTheorems

-----------------------------------------------------------------------------
(* The scans, in the table of one layer.                                   *)
LEMMA Homes ==
  ASSUME NEW l \in Layer, NEW k \in Key
  PROVE  /\ Home1[l][k] \in Bucket /\ Home2[l][k] \in Bucket
         /\ HomeCells(Home1[l][k], Home2[l][k]) \subseteq Cell
         /\ \A c \in HomeCells(Home1[l][k], Home2[l][k]) : LayerOf[c[1]] = l
<1>1. Home1[l][k] \in Bucket /\ Home2[l][k] \in Bucket
  BY CascadeAssumption
<1>2. ASSUME NEW c \in HomeCells(Home1[l][k], Home2[l][k])
      PROVE  LayerOf[c[1]] = l
  <2>1. c[1] \in {Home1[l][k], Home2[l][k]}
    BY DEF HomeCells
  <2> QED
    BY <2>1, CascadeAssumption
<1> QED
  BY <1>1, <1>2, HomeIsCell

LEMMA PairNotEmpty == ASSUME NEW p \in Pair
                      PROVE  p # Empty /\ p.key \in Key /\ p.value \in Value
BY TableAssumption DEF Pair

LEMMA FindStep ==
  ASSUME NEW l \in Layer, NEW k \in Key, NEW c, SubFoundAt(l, k, c)
  PROVE  /\ c \in Cell /\ LayerOf[c[1]] = l
         /\ c \in HomeCells(Home1[l][k], Home2[l][k])
         /\ cell[c] # Empty /\ cell[c].key = k
<1>1. c \in HomeCells(Home1[l][k], Home2[l][k]) /\ KeyAt(cell, c, k)
  BY Homes, FoundAtHolds DEF SubFoundAt
<1> QED
  BY <1>1, Homes DEF KeyAt

LEMMA FitsStep ==
  ASSUME NEW l \in Layer, NEW k \in Key, NEW c, SubFitsAt(l, k, c)
  PROVE  /\ c \in Cell /\ LayerOf[c[1]] = l
         /\ c \in HomeCells(Home1[l][k], Home2[l][k])
         /\ cell[c] = Empty
<1>1. Home1[l][k] \in Bucket /\ Home2[l][k] \in Bucket
  BY Homes
<1>2. FitsAt(cell, Home1[l][k], Home2[l][k], k, c)
  BY DEF SubFitsAt
<1>3. c \in HomeCells(Home1[l][k], Home2[l][k]) /\ cell[c] = Empty
  BY <1>1, <1>2, FitsAtHome
<1> QED
  BY <1>3, Homes

LEMMA KicksStep ==
  ASSUME NEW l \in Layer, NEW k \in Key, SubStuck(l, k),
         NEW c \in HomeCells(Home1[l][k], Home2[l][k])
  PROVE  /\ c \in Cell /\ LayerOf[c[1]] = l
         /\ cell[c] # Empty /\ cell[c].key # k
<1>1. cell[c] # Empty /\ ~KeyAt(cell, c, k)
  BY Homes, StuckIsFull DEF SubStuck
<1> QED
  BY <1>1, Homes DEF KeyAt

-----------------------------------------------------------------------------
(* Types, and what innerInsert's variables mean at each of its steps.      *)
FindUsed == find.at # NoCell => cell[find.at] # Empty /\ find.layer \in InUse

InFlight == pc # "idle" => ins.hand \in Pair /\ ins.orig \in Key /\ ins.atLayer \in Key

AtLayer == pc \in {"round", "settled", "expunged"} => ins.layer \in InUse

InsType == [hand : Pair \cup {Empty}, orig : Key \cup {NoValue},
            atLayer : Key \cup {NoValue}, layer : 0 .. MaxLayers, round : Nat,
            rounds : Nat \ {0}, last : 0 .. 1, track : BOOLEAN]

RetType == [op : {"init", "insert", "lookup", "remove", "bad_alloc"},
            key : Key \cup {NoValue}, out : BOOLEAN \cup Value \cup {NoValue}]

FindType == [at : Cell \cup {NoCell}, layer : -1 .. MaxLayers - 1]

Typed == /\ cell \in Table /\ nLayers \in 1 .. MaxLayers
         /\ subUsed \in [Layer -> Int] /\ filter \in [Layer -> [Class -> Int]]
         /\ nrUsed \in Int
         /\ pc \in {"idle", "round", "settled", "expunged", "grow", "aborted"}
         /\ ins \in InsType /\ find \in FindType /\ ret \in RetType

TInv == Typed /\ FindUsed /\ InFlight /\ AtLayer

LEMMA Facts ==
  ASSUME TInv
  PROVE  /\ cell \in Table
         /\ \A c \in Cell : cell[c] # Empty => cell[c] \in Pair
         /\ InUse \subseteq Layer /\ LastLayer \in InUse
         /\ find.at # NoCell => find.at \in Cell /\ cell[find.at] \in Pair
         /\ NoCell \notin Cell
<1>1. cell \in Table /\ nLayers \in 1 .. MaxLayers /\ find.at \in Cell \cup {NoCell}
  BY DEF TInv, Typed, FindType
<1>2. InUse \subseteq Layer /\ LastLayer \in InUse
  BY <1>1, CascadeAssumption DEF InUse, Layer, LastLayer
<1>3. \A c \in Cell : cell[c] # Empty => cell[c] \in Pair
  BY <1>1 DEF Table
<1> QED
  BY <1>1, <1>2, <1>3, CascadeAssumption DEF TInv, FindUsed

LEMMA NoInsertType == NoInsert \in InsType /\ Nothing \in FindType /\ Nothing.at = NoCell
BY CascadeAssumption DEF NoInsert, Nothing, InsType, FindType

LEMMA InitTInv == Init => TInv
<1> SUFFICES ASSUME Init PROVE TInv
  OBVIOUS
<1> USE DEF Init
<1>1. cell \in Table /\ nLayers \in 1 .. MaxLayers
  BY CascadeAssumption DEF Table
<1>2. subUsed \in [Layer -> Int] /\ filter \in [Layer -> [Class -> Int]] /\ nrUsed \in Int
  OBVIOUS
<1>3. ret \in RetType
  BY DEF Answer, RetType
<1> QED
  BY <1>1, <1>2, <1>3, NoInsertType DEF Typed, TInv, FindUsed, InFlight, AtLayer

(* The filters keep their type.                                            *)
LEMMA FilterType ==
  ASSUME NEW f \in [Layer -> [Class -> Int]], NEW l \in Layer, NEW k \in Key
  PROVE  /\ FilterAdd(f, l, k) \in [Layer -> [Class -> Int]]
         /\ FilterRemove(f, l, k) \in [Layer -> [Class -> Int]]
<1>1. ClassOf[l][k] \in Class
  BY CascadeAssumption
<1>2. f[l] \in [Class -> Int]
  OBVIOUS
<1>3. ASSUME NEW n \in Int
      PROVE  [f EXCEPT ![l][ClassOf[l][k]] = n] \in [Layer -> [Class -> Int]]
  <2>1. [f[l] EXCEPT ![ClassOf[l][k]] = n] \in [Class -> Int]
    BY <1>1, <1>2
  <2> QED
    BY <2>1
<1>4. f[l][ClassOf[l][k]] \in Int
  BY <1>1, <1>2
<1> QED
  BY <1>3, <1>4 DEF FilterAdd, FilterRemove

(* A call returns.                                                         *)
LEMMA ReturnStep ==
  ASSUME TInv, pc # "idle", NEW T, NEW took \in BOOLEAN, NEW at,
         at # NoCell => T[at] \in Pair, Return(T, took, at)
  PROVE  pc' = "idle" /\ ins' = NoInsert /\ ret' \in RetType
<1>1. ins.orig \in Key
  BY DEF TInv, InFlight
<1>2. at # NoCell => T[at].value \in Value
  BY PairNotEmpty
<1> QED
  BY <1>1, <1>2 DEF Return, Answer, RetType

(* innerRemove clears a slot.                                              *)
LEMMA InnerRemoveStep ==
  ASSUME TInv, NEW l \in InUse, NEW c \in Cell, cell[c] \in Pair, InnerRemove(l, c)
  PROVE  /\ cell' \in Table /\ cell'[c] = Empty
         /\ \A d \in Cell : d # c => cell'[d] = cell[d]
         /\ nLayers' = nLayers /\ subUsed' \in [Layer -> Int]
         /\ filter' \in [Layer -> [Class -> Int]] /\ nrUsed' \in Int
<1>1. /\ cell \in Table /\ subUsed \in [Layer -> Int] /\ nrUsed \in Int
      /\ filter \in [Layer -> [Class -> Int]] /\ l \in Layer
  BY Facts DEF TInv, Typed
<1>2. cell[c].key \in Key
  BY PairNotEmpty
<1>3. filter' \in [Layer -> [Class -> Int]]
  BY <1>1, <1>2, FilterType DEF InnerRemove
<1>4. subUsed' \in [Layer -> Int] /\ nrUsed' \in Int
  BY <1>1 DEF InnerRemove
<1> QED
  BY <1>1, <1>3, <1>4, PutIs DEF InnerRemove

(* A round stores the pair in hand in a slot of the table.                 *)
LEMMA PutStep ==
  ASSUME TInv, NEW c \in Cell, NEW p \in Pair, cell' = Put(cell, c, p)
  PROVE  /\ cell' \in Table /\ cell'[c] = p
         /\ \A d \in Cell : d # c => cell'[d] = cell[d]
         /\ \A d \in Cell : cell[d] # Empty => cell'[d] # Empty
<1>1. cell \in Table /\ p # Empty
  BY Facts, PairNotEmpty
<1> QED
  BY <1>1, PutIs

(* The Finding after a round.                                              *)
LEMMA PointToStep ==
  ASSUME TInv, NEW c \in Cell, NEW p \in Pair, cell' = Put(cell, c, p),
         NEW l \in Layer, l <= nLayers, PointTo(c, l),
         nLayers' >= nLayers /\ nLayers' \in Nat, l < nLayers'
  PROVE  find' \in FindType /\ FindUsed'
<1>1. find \in FindType /\ nLayers \in 1 .. MaxLayers
  BY DEF Typed, TInv
<1>2. CASE find' = find
  BY <1>1, <1>2, PutStep, Facts DEF TInv, FindUsed, InUse
<1>3. CASE find' = [at |-> c, layer |-> l]
  <2>1. find' \in FindType
    BY <1>3, CascadeAssumption DEF FindType, Layer
  <2>2. cell'[find'.at] # Empty /\ find'.layer \in InUse'
    BY <1>3, PutStep, PairNotEmpty DEF InUse, Layer
  <2> QED
    BY <2>1, <2>2 DEF FindUsed
<1> QED
  BY <1>2, <1>3 DEF PointTo

(* The calls that are one step.                                            *)
LEMMA CallTInv ==
  ASSUME TInv,
         \/ \E k \in Key : LookupMiss(k) \/ LookupHit(k) \/ LookupMove(k)
                             \/ RemoveMiss(k) \/ RemoveHit(k)
         \/ \E p \in Pair : Insert(p)
         \/ \E v \in Value : WriteValue(v)
         \/ RemoveFound
  PROVE  TInv'
<1> USE DEF TInv
<1>1. ASSUME NEW k \in Key, LookupMiss(k) \/ RemoveMiss(k) PROVE TInv'
  <2>1. find' = Nothing /\ ret' \in RetType /\ UNCHANGED <<tables, pc, ins>>
    <3>1. ret' = Answer("lookup", k, NoValue) \/ ret' = Answer("remove", k, FALSE)
      BY <1>1 DEF LookupMiss, RemoveMiss
    <3>2. Answer("lookup", k, NoValue) \in RetType
      BY DEF Answer, RetType
    <3>3. Answer("remove", k, FALSE) \in RetType
      BY DEF Answer, RetType
    <3> QED
      BY <1>1, <3>1, <3>2, <3>3 DEF LookupMiss, RemoveMiss
  <2> QED
    BY <2>1, NoInsertType DEF Typed, tables, FindUsed, InFlight, AtLayer, InUse
<1>2. ASSUME NEW k \in Key, LookupHit(k) PROVE TInv'
  <2>1. PICK l \in InUse, c \in Cell :
             /\ FindAt(k, l, c)
             /\ find' = [at |-> c, layer |-> l]
             /\ ret' = Answer("lookup", k, cell[c].value)
    BY <1>2 DEF LookupHit
  <2>2. cell[c] \in Pair /\ cell[c] # Empty
    BY <2>1, Facts, FindStep DEF FindAt
  <2>3. ret' \in RetType
    BY <2>1, <2>2, PairNotEmpty DEF Answer, RetType
  <2>4. find' \in FindType
    BY <2>1, Facts, CascadeAssumption DEF FindType, Layer
  <2>5. UNCHANGED <<tables, pc, ins>>
    BY <1>2 DEF LookupHit
  <2> QED
    BY <2>1, <2>2, <2>3, <2>4, <2>5 DEF Typed, tables, FindUsed, InFlight, AtLayer, InUse
<1>3. ASSUME NEW k \in Key, LookupMove(k) PROVE TInv'
  <2>1. PICK l \in InUse, c \in Cell :
             /\ l > 0
             /\ FindAt(k, l, c)
             /\ InnerRemove(l, c)
             /\ ins' = Start(cell[c], TRUE, l - 1, MoveRounds)
             /\ find' = [at |-> NoCell, layer |-> l]
    BY <1>3 DEF LookupMove
  <2>2. cell[c] \in Pair /\ l \in Layer /\ l - 1 \in InUse
    <3>1. l \in Layer /\ SubFoundAt(l, k, c)
      BY <2>1, Facts DEF FindAt
    <3>2. cell[c] \in Pair
      BY <3>1, Facts, FindStep
    <3>3. l - 1 \in InUse
      BY <2>1 DEF InUse, Typed
    <3> QED
      BY <3>1, <3>2, <3>3
  <2>3. find' \in FindType
    BY <2>1, <2>2, CascadeAssumption DEF FindType, Layer
  <2>4. l - 1 \in 0 .. MaxLayers
    BY <2>1, <2>2, CascadeAssumption DEF Layer
  <2>5. ins' \in InsType
    BY <2>1, <2>2, <2>4, PairNotEmpty, CascadeAssumption DEF Start, InsType
  <2>6. pc' = "round" /\ ret' = ret
    BY <1>3 DEF LookupMove
  <2>7. InFlight'
    BY <2>1, <2>2, PairNotEmpty DEF InFlight, Start
  <2>8. AtLayer' /\ FindUsed'
    BY <2>1, <2>2, InnerRemoveStep DEF AtLayer, FindUsed, Start, InUse
  <2> QED
    BY <2>1, <2>2, <2>3, <2>5, <2>6, <2>7, <2>8, InnerRemoveStep DEF Typed
<1>4. ASSUME NEW k \in Key, RemoveHit(k) PROVE TInv'
  <2>1. PICK l \in InUse, c \in Cell : FindAt(k, l, c) /\ InnerRemove(l, c)
    BY <1>4 DEF RemoveHit
  <2>2. cell[c] \in Pair /\ l \in Layer
    BY <2>1, Facts, FindStep DEF FindAt
  <2>3. find' = Nothing /\ ret' \in RetType /\ UNCHANGED <<pc, ins>> /\ pc = "idle"
    BY <1>4 DEF RemoveHit, Answer, RetType
  <2> QED
    BY <2>1, <2>2, <2>3, InnerRemoveStep, NoInsertType
    DEF Typed, FindUsed, InFlight, AtLayer
<1>5. CASE RemoveFound
  <2>1. /\ find.at \in Cell /\ cell[find.at] \in Pair /\ find.layer \in InUse
        /\ InnerRemove(find.layer, find.at)
    BY <1>5, Facts DEF RemoveFound, FindUsed
  <2>2. cell[find.at].key \in Key
    BY <2>1, PairNotEmpty
  <2>3. ret' \in RetType
    BY <1>5, <2>2 DEF RemoveFound, Answer, RetType
  <2>4. find' \in FindType /\ find'.at = NoCell
    BY <1>5 DEF Typed, RemoveFound, FindType
  <2>5. UNCHANGED <<pc, ins>> /\ pc = "idle"
    BY <1>5 DEF RemoveFound
  <2> QED
    BY <2>1, <2>3, <2>4, <2>5, InnerRemoveStep DEF Typed, FindUsed, InFlight, AtLayer
<1>6. ASSUME NEW p \in Pair, Insert(p) PROVE TInv'
  <2>1. p.key \in Key /\ LastLayer \in InUse /\ LastLayer \in 0 .. MaxLayers
    BY PairNotEmpty, Facts, CascadeAssumption DEF Layer
  <2>2. ins' \in InsType /\ ins'.hand = p /\ ins'.orig = p.key /\ ins'.atLayer = p.key
        /\ ins'.layer = LastLayer
    BY <1>6, <2>1, CascadeAssumption DEF Insert, Start, InsType
  <2>3. pc' = "round" /\ find' = Nothing /\ UNCHANGED <<tables, ret>>
    BY <1>6 DEF Insert
  <2> QED
    BY <2>1, <2>2, <2>3, NoInsertType DEF Typed, tables, FindUsed, InFlight, AtLayer, InUse
<1>7. ASSUME NEW v \in Value, WriteValue(v) PROVE TInv'
  <2>1. find.at \in Cell /\ cell[find.at] \in Pair /\ cell \in Table
    BY <1>7, Facts DEF WriteValue
  <2>2. [cell[find.at] EXCEPT !.value = v] \in Pair
    BY <2>1 DEF Pair
  <2>3. /\ cell' \in Table /\ cell'[find.at] \in Pair
        /\ \A d \in Cell : d # find.at => cell'[d] = cell[d]
    BY <1>7, <2>1, <2>2 DEF WriteValue, Table
  <2>4. UNCHANGED <<nLayers, subUsed, filter, nrUsed, pc, ins, find, ret>>
    BY <1>7 DEF WriteValue
  <2> QED
    BY <2>1, <2>3, <2>4, PairNotEmpty DEF Typed, FindUsed, InFlight, AtLayer, InUse
<1> QED
  BY <1>1, <1>2, <1>3, <1>4, <1>5, <1>6, <1>7

(* What a step of innerInsert starts from.                                 *)
LEMMA InnerFacts ==
  ASSUME TInv, pc # "idle"
  PROVE  /\ Hand \in Pair /\ Hand.key \in Key /\ Hand # Empty
         /\ ins \in InsType /\ find \in FindType /\ nLayers \in 1 .. MaxLayers
         /\ pc \in {"round", "settled", "expunged"} => ins.layer \in InUse /\ ins.layer \in Layer
BY Facts, PairNotEmpty DEF TInv, Typed, InFlight, AtLayer, Hand

(* The steps of innerInsert.                                               *)
LEMMA InnerTInv == ASSUME TInv, InnerInsert PROVE TInv'
<1> USE DEF TInv
<1>1. CASE RoundPresent
  <2>1. Hand \in Pair /\ ins.layer \in InUse /\ ins.layer \in Layer /\ pc # "idle"
    BY <1>1, InnerFacts DEF RoundPresent
  <2>2. pc' = "idle" /\ ins' = NoInsert /\ ret' \in RetType
    BY <1>1, <2>1, Facts, ReturnStep DEF RoundPresent
  <2>3. find' \in FindType /\ find'.at = find.at /\ find'.layer \in {find.layer, ins.layer}
    <3>1. find \in FindType /\ ins.layer \in -1 .. MaxLayers - 1
      BY <2>1, CascadeAssumption DEF Typed, Layer
    <3>2. find' = find \/ find' = [find EXCEPT !.layer = ins.layer]
      BY <1>1 DEF RoundPresent
    <3> QED
      BY <3>1, <3>2 DEF FindType
  <2>4. UNCHANGED tables
    BY <1>1 DEF RoundPresent
  <2> QED
    BY <2>1, <2>2, <2>3, <2>4, NoInsertType
    DEF Typed, tables, FindUsed, InFlight, AtLayer, InUse
<1>2. CASE RoundFits
  <2>1. /\ Hand \in Pair /\ Hand.key \in Key /\ ins.layer \in InUse
        /\ ins.layer \in Layer /\ pc # "idle"
    BY <1>2, InnerFacts DEF RoundFits
  <2>2. PICK c \in Cell : /\ SubFitsAt(ins.layer, Hand.key, c)
                         /\ cell' = Put(cell, c, Hand)
                         /\ PointTo(c, ins.layer)
    BY <1>2 DEF RoundFits
  <2>3. UNCHANGED <<nLayers, ret>> /\ pc' = "settled" /\ ins' = [ins EXCEPT !.last = 0]
    BY <1>2 DEF RoundFits
  <2>4. ins' \in InsType /\ ins'.hand = ins.hand /\ ins'.orig = ins.orig
        /\ ins'.atLayer = ins.atLayer /\ ins'.layer = ins.layer
    BY <2>3 DEF Typed, InsType
  <2>5. ins.layer <= nLayers /\ nLayers' >= nLayers /\ nLayers' \in Nat /\ ins.layer < nLayers'
    BY <2>1, <2>3 DEF InUse, Typed
  <2>6. find' \in FindType /\ FindUsed'
    BY <2>1, <2>2, <2>5, PointToStep
  <2>7. subUsed' \in [Layer -> Int] /\ nrUsed' \in Int
    BY <1>2, <2>1 DEF RoundFits, Typed
  <2>8. filter' \in [Layer -> [Class -> Int]]
    BY <1>2, <2>1, FilterType DEF RoundFits, Typed, InFlight
  <2>9. cell' \in Table
    BY <2>1, <2>2, PutStep
  <2> QED
    BY <2>1, <2>3, <2>4, <2>6, <2>7, <2>8, <2>9 DEF Typed, InFlight, AtLayer, InUse
<1>3. CASE RoundKicks
  <2>1. /\ Hand \in Pair /\ Hand.key \in Key /\ ins.layer \in InUse
        /\ ins.layer \in Layer /\ pc # "idle"
    BY <1>3, InnerFacts DEF RoundKicks
  <2>2. PICK c \in HomeCells(Home1[ins.layer][Hand.key], Home2[ins.layer][Hand.key]) :
             /\ cell' = Put(cell, c, Hand)
             /\ ins' = [ins EXCEPT !.hand = cell[c], !.round = @ + 1, !.last = 1]
             /\ PointTo(c, ins.layer)
    BY <1>3 DEF RoundKicks
  <2>3. c \in Cell /\ cell[c] \in Pair
    BY <1>3, <2>1, KicksStep, Facts DEF RoundKicks
  <2>4. ins' \in InsType /\ ins'.hand = cell[c] /\ ins'.orig = ins.orig
        /\ ins'.atLayer = ins.atLayer /\ ins'.layer = ins.layer
    <3>1. ins \in InsType
      BY DEF Typed
    <3>2. ins.round + 1 \in Nat /\ cell[c] \in Pair \cup {Empty}
      BY <2>3, <3>1 DEF InsType
    <3>3. ins' = [ins EXCEPT !.hand = cell[c], !.round = @ + 1, !.last = 1]
      BY <2>2
    <3>4. /\ ins'.hand = cell[c] /\ ins'.orig = ins.orig
          /\ ins'.atLayer = ins.atLayer /\ ins'.layer = ins.layer
      BY <3>1, <3>3 DEF InsType
    <3>5. ins' = [hand |-> cell[c], orig |-> ins.orig, atLayer |-> ins.atLayer,
                  layer |-> ins.layer, round |-> ins.round + 1, rounds |-> ins.rounds,
                  last |-> 1, track |-> ins.track]
      BY <3>1, <3>3 DEF InsType
    <3>6. /\ ins.orig \in Key \cup {NoValue} /\ ins.atLayer \in Key \cup {NoValue}
          /\ ins.layer \in 0 .. MaxLayers /\ ins.rounds \in Nat \ {0} /\ ins.track \in BOOLEAN
      BY <3>1 DEF InsType
    <3>7. ins' \in InsType
      BY <3>2, <3>5, <3>6 DEF InsType
    <3> QED
      BY <3>4, <3>7
  <2>5. UNCHANGED <<nLayers, subUsed, filter, nrUsed, ret>> /\ pc' \in {"expunged", "round"}
    BY <1>3 DEF RoundKicks
  <2>6. ins.layer <= nLayers /\ nLayers' >= nLayers /\ nLayers' \in Nat /\ ins.layer < nLayers'
    BY <2>1, <2>5 DEF InUse, Typed
  <2>7. find' \in FindType /\ FindUsed'
    BY <2>1, <2>2, <2>3, <2>6, PointToStep
  <2>8. cell' \in Table
    BY <2>1, <2>2, <2>3, PutStep
  <2> QED
    BY <2>1, <2>3, <2>4, <2>5, <2>7, <2>8 DEF Typed, InFlight, AtLayer, InUse
<1>4. CASE Settled
  <2>1. pc # "idle" /\ UNCHANGED <<tables, find>>
    BY <1>4 DEF Settled
  <2>2. pc' = "idle" /\ ins' = NoInsert /\ ret' \in RetType
    BY <1>4, <2>1, Facts, ReturnStep DEF Settled
  <2> QED
    BY <2>1, <2>2, NoInsertType DEF Typed, tables, FindUsed, InFlight, AtLayer, InUse
<1>5. CASE ExpungeRandom
  <2>1. /\ Hand \in Pair /\ ins.layer \in InUse /\ pc # "idle"
    BY <1>5, InnerFacts DEF ExpungeRandom
  <2>2. PICK b \in ExpungeBuckets, c \in Cell :
             /\ FirstUsedAt(cell, b, c)
             /\ cell' = Put(cell, c, Hand)
             /\ ins' = [ins EXCEPT !.hand = cell[c]]
    BY <1>5 DEF ExpungeRandom
  <2>3. cell[c] \in Pair
    BY <2>2, Facts DEF FirstUsedAt
  <2>4. ins' \in InsType /\ ins'.hand = cell[c] /\ ins'.orig = ins.orig
        /\ ins'.atLayer = ins.atLayer /\ ins'.layer = ins.layer
    BY <2>2, <2>3 DEF Typed, InsType
  <2>5. UNCHANGED <<nLayers, subUsed, filter, nrUsed, find, ret>> /\ pc' = "expunged"
    BY <1>5 DEF ExpungeRandom
  <2>6. cell' \in Table /\ FindUsed'
    BY <2>1, <2>2, <2>5, PutStep, Facts DEF FindUsed, InUse
  <2> QED
    BY <2>1, <2>3, <2>4, <2>5, <2>6 DEF Typed, InFlight, AtLayer, InUse
<1>6. CASE ExpungeFails \/ FilterRefuses
  <2>1. pc # "idle" /\ pc' = "aborted" /\ UNCHANGED <<tables, ins, find, ret>>
    BY <1>6 DEF ExpungeFails, FilterRefuses
  <2> QED
    BY <2>1 DEF Typed, tables, FindUsed, InFlight, AtLayer, InUse
<1>7. CASE Expunged
  <2>1. /\ Hand \in Pair /\ Hand.key \in Key /\ ins.layer \in InUse
        /\ ins.layer \in Layer /\ pc # "idle"
    BY <1>7, InnerFacts DEF Expunged
  <2>2. /\ UNCHANGED <<cell, nLayers, subUsed, nrUsed, find, ret>>
        /\ ins' = [ins EXCEPT !.atLayer = IF Moved THEN Hand.key ELSE @,
                              !.layer = NextLayer, !.round = 0]
        /\ pc' = IF NextLayer = nLayers THEN "grow" ELSE "round"
    BY <1>7 DEF Expunged
  <2>3. filter' \in [Layer -> [Class -> Int]]
    BY <1>7, <2>1, FilterType DEF Expunged, Typed, InFlight
  <2>4. /\ NextLayer \in 0 .. MaxLayers
        /\ NextLayer = nLayers \/ NextLayer \in InUse
    BY <2>1, CascadeAssumption DEF NextLayer, LastLayer, InUse, Typed
  <2>5. ins' \in InsType /\ ins'.hand = ins.hand /\ ins'.orig = ins.orig
        /\ ins'.atLayer \in Key /\ ins'.layer = NextLayer
    BY <2>1, <2>2, <2>4 DEF Typed, InsType, InFlight
  <2> QED
    BY <2>1, <2>2, <2>3, <2>4, <2>5 DEF Typed, FindUsed, InFlight, AtLayer, InUse
<1>8. CASE Grow
  <2> DEFINE l == nLayers
             c == <<Home1[l][Hand.key], 0>>
  <2>1. /\ Hand \in Pair /\ Hand.key \in Key /\ pc # "idle"
    BY <1>8, InnerFacts DEF Grow
  <2>2. l \in Layer /\ nLayers' = nLayers + 1 /\ nLayers' \in 1 .. MaxLayers
    BY <1>8, CascadeAssumption DEF Grow, Layer, Typed
  <2>3. c \in Cell
    BY <2>1, <2>2, CascadeAssumption, TableAssumption DEF Cell, Slot
  <2>4. cell' \in Table /\ find' \in FindType /\ FindUsed' /\ subUsed' \in [Layer -> Int]
    <3>1. CASE ins.last = 1
      <4>1. cell' = Put(cell, c, Hand) /\ PointTo(c, l)
        BY <1>8, <3>1 DEF Grow
      <4>2. find' \in FindType /\ FindUsed'
        BY <2>1, <2>2, <2>3, <4>1, PointToStep DEF Typed
      <4>3. subUsed' \in [Layer -> Int]
        BY <1>8, <2>2, <3>1 DEF Grow, Typed
      <4> QED
        BY <2>1, <2>3, <4>1, <4>2, <4>3, PutStep
    <3>2. CASE ins.last # 1
      BY <1>8, <2>2, <3>2 DEF Grow, Typed, FindUsed, InUse
    <3> QED
      BY <3>1, <3>2
  <2>5. filter' \in [Layer -> [Class -> Int]] /\ nrUsed' \in Int
    BY <1>8, <2>1, <2>2, FilterType DEF Grow, Typed
  <2>6. find'.at # NoCell => cell'[find'.at] \in Pair
    BY <2>4 DEF FindUsed, FindType, Table
  <2>7. pc' = "idle" /\ ins' = NoInsert /\ ret' \in RetType
    BY <1>8, <2>1, <2>6, ReturnStep DEF Grow
  <2> QED
    BY <2>2, <2>4, <2>5, <2>7, NoInsertType DEF Typed, InFlight, AtLayer
<1>9. CASE GrowFails
  <2>1. /\ pc' = "idle" /\ ins' = NoInsert /\ find' = Nothing /\ UNCHANGED tables
        /\ ret' = Answer("bad_alloc", ins.orig, NoValue) /\ pc # "idle"
    BY <1>9 DEF GrowFails
  <2>2. ret' \in RetType
    BY <2>1 DEF Answer, RetType, InFlight
  <2> QED
    BY <2>1, <2>2, NoInsertType DEF Typed, tables, FindUsed, InFlight, AtLayer, InUse
<1> QED
  BY <1>1, <1>2, <1>3, <1>4, <1>5, <1>6, <1>7, <1>8, <1>9 DEF InnerInsert

(* TInv is inductive.                                                      *)
THEOREM TypeCorrect == Spec => []TInv
<1>1. TInv /\ [Next]_vars => TInv'
  <2>1. TInv /\ Next => TInv'
    BY CallTInv, InnerTInv DEF Next
  <2>2. TInv /\ UNCHANGED vars => TInv'
    BY DEF vars, TInv, Typed, FindUsed, InFlight, AtLayer, InUse
  <2> QED
    BY <2>1, <2>2
<1> QED
  BY <1>1, InitTInv, PTL DEF Spec

(* The tables, the Finding and the variables of innerInsert keep their     *)
(* types, for every client, overfull tables and failed allocations         *)
(* included.                                                               *)
THEOREM TypeTheorem == Spec => []TypeOK
<1>1. TInv => TypeOK
  BY DEF TInv, Typed, TypeOK, InsType, FindType, RetType
<1> QED
  BY <1>1, TypeCorrect, PTL

-----------------------------------------------------------------------------
(* While no table is overfull.                                             *)
Roomy == pc = "settled" => ~Overfull(ins.layer)

RoomySpec == Spec /\ []Roomy

(* Before innerInsert has placed its pair, res is 1: lines 381-397 do      *)
(* store the pair that is out in the new table.                            *)
LastOne == HandOut => ins.last = 1

RInv == TInv /\ Placement /\ LastOne

-----------------------------------------------------------------------------
(* What a step does to the pairs.  Every action is one of seven kinds:     *)
(* nothing moves; innerInsert gets a pair from the client; a slot is       *)
(* cleared; the pair in hand goes into an empty slot; it takes the place   *)
(* of another; the client writes a value; the pair in hand is given up.    *)
Rests == /\ UNCHANGED <<cell, nrUsed, nLayers>>
         /\ HandOut' <=> HandOut
         /\ HandOut => ins'.hand = Hand

Receives(p) == /\ UNCHANGED <<cell, nrUsed, nLayers>>
               /\ pc = "idle" /\ ~HandOut /\ HandOut' /\ ins'.hand = p
               /\ Checked => ~Visible(p.key)

Frees(c) == /\ cell[c] # Empty
            /\ cell' = Put(cell, c, Empty)
            /\ nrUsed' = nrUsed - 1 /\ UNCHANGED nLayers
            /\ ~HandOut
            /\ \/ HandOut' /\ ins'.hand = cell[c]
               \/ ~HandOut' /\ ret' = Answer("remove", cell[c].key, TRUE)

Fills(l, c) == /\ c \in HomeCells(Home1[l][Hand.key], Home2[l][Hand.key])
               /\ cell[c] = Empty
               /\ cell' = Put(cell, c, Hand)
               /\ nrUsed' = nrUsed + 1 /\ nLayers <= nLayers' /\ l < nLayers'
               /\ HandOut /\ ~HandOut'

Swaps(l, c) == /\ c \in HomeCells(Home1[l][Hand.key], Home2[l][Hand.key])
               /\ cell[c] # Empty
               /\ cell' = Put(cell, c, Hand)
               /\ UNCHANGED <<nrUsed, nLayers>> /\ l < nLayers
               /\ HandOut /\ HandOut' /\ ins'.hand = cell[c]

Writes(c, v) == /\ cell[c] # Empty
                /\ cell' = [cell EXCEPT ![c].value = v]
                /\ UNCHANGED <<nrUsed, nLayers>>
                /\ ~HandOut /\ ~HandOut'

GivesUp == /\ UNCHANGED <<cell, nrUsed, nLayers>>
           /\ HandOut /\ ~HandOut'
           /\ (\E c \in Cell : KeyAt(cell, c, Hand.key)) \/ ret'.op = "bad_alloc"

(* innerInsert carries a pair: the first, fourth, fifth and last kinds.    *)
Carries == \/ Rests
           \/ \E l \in Layer, c \in Cell : Fills(l, c) \/ Swaps(l, c)
           \/ GivesUp

Effect == \/ Carries
          \/ \E p \in Pair : Receives(p)
          \/ \E c \in Cell : Frees(c)
          \/ \E c \in Cell, v \in Value : Writes(c, v)

(* A layer that does not exist yet is empty.                               *)
LEMMA NewLayerEmpty ==
  ASSUME RInv, NEW c \in Cell, LayerOf[c[1]] = nLayers
  PROVE  cell[c] = Empty
BY DEF RInv, TInv, Typed, Placement, InUse

(* The calls of the client.                                                *)
LEMMA CallEffect ==
  ASSUME RInv,
         \/ \E k \in Key : LookupMiss(k) \/ LookupHit(k) \/ LookupMove(k)
                             \/ RemoveMiss(k) \/ RemoveHit(k)
         \/ \E p \in Pair : Insert(p)
         \/ \E v \in Value : WriteValue(v)
         \/ RemoveFound
  PROVE  Effect
<1>1. ASSUME NEW k \in Key, LookupMiss(k) \/ LookupHit(k) \/ RemoveMiss(k) PROVE Effect
  <2>1. Rests
    BY <1>1 DEF LookupMiss, LookupHit, RemoveMiss, tables, Rests, HandOut, Hand
  <2> QED
    BY <2>1 DEF Effect, Carries
<1>2. ASSUME NEW k \in Key, LookupMove(k) PROVE Effect
  <2>1. PICK l \in InUse, c \in Cell :
             FindAt(k, l, c) /\ InnerRemove(l, c) /\ ins' = Start(cell[c], TRUE, l - 1, MoveRounds)
    BY <1>2 DEF LookupMove
  <2>2. cell[c] # Empty
    BY <2>1, Facts, FindStep DEF RInv, FindAt
  <2>3. Frees(c)
    BY <1>2, <2>1, <2>2 DEF LookupMove, Start, InnerRemove, Frees, HandOut
  <2> QED
    BY <2>3 DEF Effect
<1>3. ASSUME NEW k \in Key, RemoveHit(k) PROVE Effect
  <2>1. PICK l \in InUse, c \in Cell : FindAt(k, l, c) /\ InnerRemove(l, c)
    BY <1>3 DEF RemoveHit
  <2>2. cell[c] # Empty /\ cell[c].key = k
    BY <2>1, Facts, FindStep DEF RInv, FindAt
  <2>3. Frees(c)
    BY <1>3, <2>1, <2>2 DEF RemoveHit, InnerRemove, Frees, HandOut
  <2> QED
    BY <2>3 DEF Effect
<1>4. ASSUME RemoveFound PROVE Effect
  <2>1. find.at \in Cell /\ cell[find.at] # Empty
    BY <1>4, Facts DEF RemoveFound, RInv, TInv, FindUsed
  <2>2. Frees(find.at)
    BY <1>4, <2>1 DEF RemoveFound, InnerRemove, Frees, HandOut
  <2> QED
    BY <2>1, <2>2 DEF Effect
<1>5. ASSUME NEW p \in Pair, Insert(p) PROVE Effect
  <2>1. Receives(p)
    BY <1>5 DEF Insert, tables, Start, Receives, HandOut
  <2> QED
    BY <2>1 DEF Effect
<1>6. ASSUME NEW v \in Value, WriteValue(v) PROVE Effect
  <2>1. find.at \in Cell /\ cell[find.at] # Empty
    BY <1>6, Facts DEF WriteValue, RInv, TInv, FindUsed
  <2>2. Writes(find.at, v)
    BY <1>6, <2>1 DEF WriteValue, Writes, HandOut
  <2> QED
    BY <2>1, <2>2 DEF Effect
<1> QED
  BY <1>1, <1>2, <1>3, <1>4, <1>5, <1>6

(* The steps of innerInsert.                                               *)
LEMMA InnerEffect == ASSUME RInv, Roomy, InnerInsert PROVE Carries
<1> USE DEF HandOut
<1>1. CASE RoundPresent
  <2>1. \E c \in Cell : KeyAt(cell, c, Hand.key)
    BY <1>1 DEF RoundPresent, SubPresentAt, PresentAt
  <2>2. GivesUp
    BY <1>1, <2>1 DEF RoundPresent, Return, tables, GivesUp
  <2> QED
    BY <2>2 DEF Carries
<1>2. CASE RoundFits
  <2>1. Hand.key \in Key /\ ins.layer \in InUse /\ ins.layer \in Layer /\ nLayers \in Nat
    BY <1>2, InnerFacts DEF RoundFits, RInv
  <2>2. PICK c \in Cell : SubFitsAt(ins.layer, Hand.key, c) /\ cell' = Put(cell, c, Hand)
    BY <1>2 DEF RoundFits
  <2>3. Fills(ins.layer, c)
    BY <1>2, <2>1, <2>2, FitsStep DEF RoundFits, Fills, InUse
  <2> QED
    BY <2>1, <2>3 DEF Carries
<1>3. CASE RoundKicks
  <2>1. Hand.key \in Key /\ ins.layer \in InUse /\ ins.layer \in Layer /\ nLayers \in Nat
        /\ ins \in InsType
    BY <1>3, InnerFacts DEF RoundKicks, RInv
  <2>2. PICK c \in HomeCells(Home1[ins.layer][Hand.key], Home2[ins.layer][Hand.key]) :
             /\ cell' = Put(cell, c, Hand)
             /\ ins' = [ins EXCEPT !.hand = cell[c], !.round = @ + 1, !.last = 1]
    BY <1>3 DEF RoundKicks
  <2>3. c \in Cell /\ cell[c] # Empty
    BY <1>3, <2>1, KicksStep DEF RoundKicks
  <2>4. ins'.hand = cell[c]
    BY <2>1, <2>2 DEF InsType
  <2>5. Swaps(ins.layer, c)
    BY <1>3, <2>1, <2>2, <2>3, <2>4 DEF RoundKicks, Swaps, InUse
  <2> QED
    BY <2>1, <2>3, <2>5 DEF Carries
<1>4. CASE Settled
  <2>1. Rests
    BY <1>4 DEF Settled, Return, tables, Rests
  <2> QED
    BY <2>1 DEF Carries
<1>5. CASE ExpungeRandom \/ ExpungeFails
  BY <1>5 DEF Roomy, ExpungeRandom, ExpungeFails
<1>6. CASE Expunged
  <2>1. ins'.hand = Hand
    BY <1>6, InnerFacts DEF Expunged, Hand, InsType, RInv
  <2>2. Rests
    BY <1>6, <2>1 DEF Expunged, Rests
  <2> QED
    BY <2>2 DEF Carries
<1>7. CASE FilterRefuses
  <2>1. Rests
    BY <1>7 DEF FilterRefuses, tables, Rests, Hand
  <2> QED
    BY <2>1 DEF Carries
<1>8. CASE Grow
  <2> DEFINE l == nLayers
             c == <<Home1[l][Hand.key], 0>>
  <2>1. Hand.key \in Key /\ ins.last = 1 /\ nLayers \in 1 .. MaxLayers
    BY <1>8, InnerFacts DEF Grow, RInv, LastOne
  <2>2. l \in Layer /\ nLayers <= nLayers' /\ l < nLayers'
    BY <1>8, <2>1, CascadeAssumption DEF Grow, Layer
  <2>3. c \in HomeCells(Home1[l][Hand.key], Home2[l][Hand.key])
    BY TableAssumption DEF HomeCells, Slot
  <2>4. c \in Cell /\ LayerOf[c[1]] = nLayers
    BY <2>1, <2>2, <2>3, Homes
  <2>5. cell[c] = Empty
    BY <2>4, NewLayerEmpty
  <2>6. Fills(l, c)
    BY <1>8, <2>1, <2>2, <2>3, <2>5 DEF Grow, Return, Fills
  <2> QED
    BY <2>2, <2>4, <2>6 DEF Carries
<1>9. CASE GrowFails
  <2>1. GivesUp
    BY <1>9 DEF GrowFails, tables, Answer, GivesUp
  <2> QED
    BY <2>1 DEF Carries
<1> QED
  BY <1>1, <1>2, <1>3, <1>4, <1>5, <1>6, <1>7, <1>8, <1>9 DEF InnerInsert

(* Every step is of one of these kinds.                                    *)
LEMMA StepEffect == ASSUME RInv, Roomy, Next PROVE Effect
BY CallEffect, InnerEffect DEF Next, Effect
-----------------------------------------------------------------------------
(* What a kind of step leaves in the slots.                                *)
LEMMA WritesStep ==
  ASSUME TInv, NEW c \in Cell, NEW v \in Value, Writes(c, v)
  PROVE  \A d \in Cell : /\ cell'[d] = Empty <=> cell[d] = Empty
                         /\ cell[d] # Empty => cell'[d].key = cell[d].key
<1>1. cell \in Table /\ cell[c] \in Pair /\ cell' = [cell EXCEPT ![c].value = v]
  BY Facts DEF Writes
<1>2. [cell[c] EXCEPT !.value = v] \in Pair /\ [cell[c] EXCEPT !.value = v].key = cell[c].key
  BY <1>1 DEF Pair
<1>3. cell'[c] = [cell[c] EXCEPT !.value = v] /\ \A d \in Cell : d # c => cell'[d] = cell[d]
  BY <1>1 DEF Table
<1> QED
  BY <1>1, <1>2, <1>3, PairNotEmpty

LEMMA HandFacts ==
  ASSUME TInv, HandOut
  PROVE  Hand \in Pair /\ Hand.key \in Key /\ Hand # Empty
BY InnerFacts DEF HandOut

LEMMA FreesStep ==
  ASSUME TInv, NEW c \in Cell, Frees(c)
  PROVE  cell'[c] = Empty /\ \A d \in Cell : d # c => cell'[d] = cell[d]
BY Facts, PutIs DEF Frees

LEMMA StoresStep ==
  ASSUME TInv, NEW l \in Layer, NEW c \in Cell, Fills(l, c) \/ Swaps(l, c)
  PROVE  /\ cell'[c] = Hand /\ cell'[c] # Empty
         /\ \A d \in Cell : d # c => cell'[d] = cell[d]
<1>1. HandOut /\ cell' = Put(cell, c, Hand)
  BY DEF Fills, Swaps
<1> QED
  BY <1>1, HandFacts, PutStep

(* The pairs stay in their home buckets.                                   *)
LEMMA PlacementStep == ASSUME RInv, TInv', Effect PROVE Placement'
<1> DEFINE Placed(c) == cell[c] # Empty =>
             /\ LayerOf[c[1]] \in InUse
             /\ c \in HomeCells(Home1[LayerOf[c[1]]][cell[c].key],
                                Home2[LayerOf[c[1]]][cell[c].key])
<1>1. nLayers \in Nat /\ nLayers' \in Nat
  BY DEF RInv, TInv, Typed
<1>2. \A d \in Cell : Placed(d)
  BY DEF RInv, Placement
<1> HIDE DEF Placed
<1>3. CASE UNCHANGED <<cell, nLayers>>
  BY <1>2, <1>3 DEF Placed, Placement, InUse
<1>4. ASSUME NEW c \in Cell, Frees(c) PROVE Placement'
  <2>1. InUse' = InUse
    BY <1>4 DEF Frees, InUse
  <2> QED
    BY <1>2, <1>4, <2>1, FreesStep DEF RInv, Placed, Placement
<1>5. ASSUME NEW l \in Layer, NEW c \in Cell, Fills(l, c) \/ Swaps(l, c) PROVE Placement'
  <2>1. InUse \subseteq InUse' /\ l \in InUse'
    <3>1. nLayers <= nLayers' /\ l < nLayers' /\ l \in Nat
      BY <1>1, <1>5, CascadeAssumption DEF Fills, Swaps, Layer
    <3>2. InUse = 0 .. nLayers - 1 /\ InUse' = 0 .. nLayers' - 1
      BY DEF InUse
    <3>3. ASSUME NEW m \in Nat, NEW n \in Nat, m <= n, l < n
          PROVE  0 .. m - 1 \subseteq 0 .. n - 1 /\ l \in 0 .. n - 1
      BY <3>1, <3>3
    <3> QED
      BY <1>1, <3>1, <3>2, <3>3
  <2>2. LayerOf[c[1]] = l /\ c \in HomeCells(Home1[l][Hand.key], Home2[l][Hand.key])
    BY <1>5, HandFacts, Homes DEF Fills, Swaps, RInv
  <2> QED
    BY <1>2, <1>5, <2>1, <2>2, StoresStep DEF RInv, Placed, Placement
<1>6. ASSUME NEW c \in Cell, NEW v \in Value, Writes(c, v) PROVE Placement'
  <2>1. InUse' = InUse
    BY <1>6 DEF Writes, InUse
  <2> QED
    BY <1>2, <1>6, <2>1, WritesStep DEF RInv, Placed, Placement
<1> QED
  BY <1>3, <1>4, <1>5, <1>6 DEF Effect, Carries, Rests, Receives, GivesUp

(* A pair that is out is stored by the next table that is made.            *)
LEMMA LastOneStep == ASSUME RInv, Roomy, Next PROVE LastOne'
<1> USE DEF LastOne, HandOut
<1>1. CASE pc' = "idle" \/ pc' = "settled"
  BY <1>1
<1>2. CASE UNCHANGED <<pc, ins>>
  BY <1>2 DEF RInv
<1>3. CASE ins'.last = 1
  BY <1>3
<1>4. ASSUME NEW k \in Key, LookupMiss(k) \/ LookupHit(k) \/ LookupMove(k)
                              \/ RemoveMiss(k) \/ RemoveHit(k)
      PROVE  LastOne'
  <2>1. UNCHANGED <<pc, ins>> \/ \E p, r, n, t : ins' = Start(p, t, n, r)
    BY <1>4 DEF LookupMiss, LookupHit, LookupMove, RemoveMiss, RemoveHit
  <2> QED
    BY <1>2, <1>3, <2>1 DEF Start
<1>5. ASSUME NEW p \in Pair, Insert(p) PROVE LastOne'
  BY <1>3, <1>5 DEF Insert, Start
<1>6. ASSUME RemoveFound \/ \E v \in Value : WriteValue(v) PROVE LastOne'
  BY <1>2, <1>6 DEF RemoveFound, WriteValue
<1>7. CASE RoundPresent \/ RoundFits \/ Settled \/ Grow \/ GrowFails
  BY <1>1, <1>7 DEF RoundPresent, RoundFits, Settled, Grow, GrowFails, Return
<1>8. CASE RoundKicks
  <2>1. ins \in InsType
    BY DEF RInv, TInv, Typed
  <2> QED
    BY <1>3, <1>8, <2>1 DEF RoundKicks, InsType
<1>9. CASE ExpungeRandom \/ ExpungeFails
  BY <1>9 DEF ExpungeRandom, ExpungeFails, Roomy
<1>10. CASE Expunged
  <2>1. ins \in InsType /\ ins.last = 1
    BY <1>10 DEF RInv, TInv, Typed, Expunged
  <2> QED
    BY <1>3, <1>10, <2>1 DEF Expunged, InsType
<1>11. CASE FilterRefuses
  BY <1>3, <1>11 DEF FilterRefuses, RInv
<1> QED
  BY <1>4, <1>5, <1>6, <1>7, <1>8, <1>9, <1>10, <1>11 DEF Next, InnerInsert

(* The inductive invariant of the cascade: types, homes, and that a pair   *)
(* that is out will be stored.                                             *)
THEOREM RoomyInvariant == RoomySpec => []RInv
<1>1. Init => Placement /\ LastOne
  BY DEF Init, Placement, LastOne, HandOut
<1>2. TInv /\ (Placement /\ LastOne) /\ Roomy /\ [Next]_vars => (Placement /\ LastOne)'
  <2>1. RInv /\ Roomy /\ Next => (Placement /\ LastOne)'
    BY StepEffect, PlacementStep, LastOneStep, CallTInv, InnerTInv DEF Next, RInv
  <2>2. RInv /\ UNCHANGED vars => (Placement /\ LastOne)'
    BY DEF vars, RInv, Placement, LastOne, HandOut, InUse
  <2> QED
    BY <2>1, <2>2 DEF RInv
<1>3. TInv /\ Placement /\ LastOne => RInv
  BY DEF RInv
<1> QED
  BY <1>1, <1>2, <1>3, TypeCorrect, PTL DEF RoomySpec, Spec

(* A pair is in one of the two home buckets it has in its layer, in a      *)
(* table that exists, whatever was kicked or moved: lookup can see it.     *)
(* Any client, filters and failed allocations included.                    *)
THEOREM PlacementTheorem == RoomySpec => []Placement
<1>1. RInv => Placement
  BY DEF RInv
<1> QED
  BY <1>1, RoomyInvariant, PTL

-----------------------------------------------------------------------------
(* nrUsed() is the number of pairs stored, in all layers.                  *)
LEMMA MapCountStep == ASSUME RInv, MapCount, Effect PROVE MapCount'
<1>1. cell \in Table
  BY DEF RInv, TInv, Typed
<1>2. CASE UNCHANGED <<cell, nrUsed>>
  BY <1>2 DEF MapCount, UsedCells
<1>3. ASSUME NEW c \in Cell, Frees(c) PROVE MapCount'
  <2>1. cell[c] \in Pair
    BY <1>3, Facts DEF RInv, Frees
  <2> QED
    BY <1>1, <1>3, <2>1, PutCounts DEF MapCount, Frees
<1>4. ASSUME NEW l \in Layer, NEW c \in Cell, Fills(l, c) PROVE MapCount'
  <2>1. Hand \in Pair
    BY <1>4, HandFacts DEF RInv, Fills
  <2> QED
    BY <1>1, <1>4, <2>1, PutCounts DEF MapCount, Fills
<1>5. ASSUME NEW l \in Layer, NEW c \in Cell, Swaps(l, c) PROVE MapCount'
  <2>1. Hand \in Pair
    BY <1>5, HandFacts DEF RInv, Swaps
  <2> QED
    BY <1>1, <1>5, <2>1, PutCounts DEF MapCount, Swaps
<1>6. ASSUME NEW c \in Cell, NEW v \in Value, Writes(c, v) PROVE MapCount'
  <2>1. UsedCells(cell') = UsedCells(cell) /\ nrUsed' = nrUsed
    BY <1>6, WritesStep DEF RInv, UsedCells, Writes
  <2> QED
    BY <2>1 DEF MapCount
<1> QED
  BY <1>2, <1>3, <1>4, <1>5, <1>6 DEF Effect, Carries, Rests, Receives, GivesUp

(* nrUsed() counts the pairs that are stored, through kicks, moves, new    *)
(* tables and failed allocations, for any client.                          *)
THEOREM MapCountTheorem == RoomySpec => []MapCount
<1>1. Init => MapCount
  <2>1. ASSUME Init PROVE UsedCells(cell) = {} /\ nrUsed = 0
    BY <2>1 DEF Init, UsedCells
  <2> QED
    BY <2>1, FS_EmptySet DEF MapCount
<1>2. RInv /\ Roomy /\ MapCount /\ [Next]_vars => MapCount'
  <2>1. RInv /\ Roomy /\ MapCount /\ Next => MapCount'
    BY StepEffect, MapCountStep
  <2>2. MapCount /\ UNCHANGED vars => MapCount'
    BY DEF vars, MapCount, UsedCells
  <2> QED
    BY <2>1, <2>2
<1> QED
  BY <1>1, <1>2, RoomyInvariant, PTL DEF RoomySpec, Spec
-----------------------------------------------------------------------------
(* No step loses a pair: what is displaced is in hand until it is stored.  *)
LEMMA KeptStep ==
  ASSUME RInv, Effect, NEW k \in Key, Holds(k), ~Holds(k)'
  PROVE  \/ ret' = Answer("remove", k, TRUE)
         \/ ret'.op = "bad_alloc" /\ k = Hand.key
<1> USE DEF Holds, KeyAt
<1>1. CASE Rests
  BY <1>1 DEF Rests, Hand
<1>2. ASSUME NEW p \in Pair, Receives(p) PROVE FALSE
  BY <1>2 DEF Receives
<1>3. ASSUME NEW c \in Cell, Frees(c) PROVE ret' = Answer("remove", k, TRUE)
  BY <1>3, FreesStep DEF Frees, Hand, RInv
<1>4. ASSUME NEW l \in Layer, NEW c \in Cell, Fills(l, c) PROVE FALSE
  BY <1>4, StoresStep DEF Fills, RInv
<1>5. ASSUME NEW l \in Layer, NEW c \in Cell, Swaps(l, c) PROVE FALSE
  BY <1>5, StoresStep DEF Swaps, RInv, Hand
<1>6. ASSUME NEW c \in Cell, NEW v \in Value, Writes(c, v) PROVE FALSE
  BY <1>6, WritesStep DEF Writes, RInv
<1>7. CASE GivesUp
  BY <1>7 DEF GivesUp
<1> QED
  BY <1>1, <1>2, <1>3, <1>4, <1>5, <1>6, <1>7 DEF Effect, Carries

(* A key goes away only when a call removes it, or with the one pair that  *)
(* was out when the memory for a new table could not be had.  Any client,  *)
(* with or without filters.                                                *)
THEOREM KeysKeptTheorem == RoomySpec => KeysKept
<1> DEFINE Kept == \A k \in Key : Holds(k) /\ ~Holds(k)' =>
                     \/ ret' = Answer("remove", k, TRUE)
                     \/ ret'.op = "bad_alloc" /\ k = Hand.key
<1>1. RInv /\ Roomy /\ [Next]_vars => [Kept]_vars
  BY StepEffect, KeptStep
<1>2. KeysKept <=> [][Kept]_vars
  BY DEF KeysKept
<1> HIDE DEF Kept
<1> QED
  BY <1>1, <1>2, RoomyInvariant, PTL DEF RoomySpec, Spec

-----------------------------------------------------------------------------
(* What the cascade needs of its filters: between calls, the filter of a   *)
(* layer does not deny a key that is stored there.                         *)
FiltersAnswer ==
  pc = "idle" => \A c \in Cell : cell[c] # Empty => FilterLookup(LayerOf[c[1]], cell[c].key)

(* A key that lookup does not find is in no slot.                          *)
LEMMA NotVisible ==
  ASSUME RInv, FiltersAnswer, pc = "idle", NEW k \in Key, ~Visible(k), NEW c \in Cell
  PROVE  ~KeyAt(cell, c, k)
<1> SUFFICES ASSUME KeyAt(cell, c, k) PROVE FALSE
  OBVIOUS
<1> DEFINE l == LayerOf[c[1]]
<1>1. l \in InUse /\ c \in HomeCells(Home1[l][k], Home2[l][k]) /\ FilterLookup(l, k)
  BY DEF RInv, Placement, FiltersAnswer, KeyAt
<1>2. l \in Layer /\ ~SubFound(l, k)
  BY <1>1, Facts DEF RInv, Visible, Answers
<1> QED
  BY <1>1, <1>2, Homes, NotFound DEF SubFound

(* A step keeps the keys unique: only an insert brings a new pair, and     *)
(* lookup did not find its key.                                            *)
LEMMA UniqueStep ==
  ASSUME RInv, Checked, FiltersAnswer, UniqueKeys, Effect
  PROVE  UniqueKeys'
<1>1. \A c, d \in Cell : cell[c] # Empty /\ cell[d] # Empty
                          /\ cell[c].key = cell[d].key => c = d
  BY DEF UniqueKeys
<1>2. HandOut => \A c \in Cell : ~KeyAt(cell, c, Hand.key)
  BY DEF UniqueKeys
<1>3. CASE Rests \/ GivesUp
  BY <1>1, <1>2, <1>3 DEF Rests, GivesUp, UniqueKeys, KeyAt, Hand
<1>4. ASSUME NEW p \in Pair, Receives(p) PROVE UniqueKeys'
  <2>1. \A c \in Cell : ~KeyAt(cell, c, p.key)
    BY <1>4, NotVisible, PairNotEmpty DEF Receives
  <2> QED
    BY <1>1, <1>4, <2>1 DEF Receives, UniqueKeys, KeyAt, Hand
<1>5. ASSUME NEW c \in Cell, Frees(c) PROVE UniqueKeys'
  BY <1>1, <1>5, FreesStep DEF Frees, RInv, UniqueKeys, KeyAt, Hand
<1>6. ASSUME NEW l \in Layer, NEW c \in Cell, Fills(l, c) \/ Swaps(l, c) PROVE UniqueKeys'
  <2>1. \A d \in Cell : cell[d] # Empty => cell[d].key # Hand.key
    BY <1>2, <1>6 DEF Fills, Swaps, KeyAt
  <2>2. /\ cell'[c] = Hand
        /\ \A d \in Cell : d # c => cell'[d] = cell[d]
    BY <1>6, StoresStep DEF RInv
  <2>3. HandOut' => ins'.hand = cell[c] /\ cell[c] # Empty
    BY <1>6 DEF Fills, Swaps
  <2> QED
    BY <1>1, <2>1, <2>2, <2>3 DEF UniqueKeys, KeyAt, Hand
<1>7. ASSUME NEW c \in Cell, NEW v \in Value, Writes(c, v) PROVE UniqueKeys'
  <2>1. ~HandOut'
    BY <1>7 DEF Writes
  <2> QED
    BY <1>1, <1>7, <2>1, WritesStep DEF RInv, UniqueKeys
<1> QED
  BY <1>3, <1>4, <1>5, <1>6, <1>7 DEF Effect, Carries

-----------------------------------------------------------------------------
(* The Finding of a lookup.  While innerInsert is under way the pair that  *)
(* is looked up is in hand, or in the slot the Finding points to; an       *)
(* insert has no Finding.                                                  *)
Points(k) == KeyAt(cell, find.at, k) /\ LayerOf[find.at[1]] = find.layer

Pointing == pc # "idle" /\ find.at # NoCell =>
              ins.track /\ ((HandOut /\ Hand.key = ins.orig) \/ Points(ins.orig))

(* The calls of the client leave the Finding on its pair.                  *)
LEMMA PointingCall ==
  ASSUME RInv, FindingPoints, Pointing,
         \/ \E k \in Key : LookupMiss(k) \/ LookupHit(k) \/ LookupMove(k)
                             \/ RemoveMiss(k) \/ RemoveHit(k)
         \/ \E p \in Pair : Insert(p)
         \/ \E v \in Value : WriteValue(v)
         \/ RemoveFound
  PROVE  FindingPoints' /\ Pointing'
<1>1. CASE find'.at = NoCell
  BY <1>1 DEF FindingPoints, Pointing
<1>2. ASSUME NEW k \in Key, LookupMiss(k) \/ LookupMove(k) \/ RemoveMiss(k) \/ RemoveHit(k)
      PROVE  find'.at = NoCell
  <2>1. find' = Nothing \/ \E l \in InUse : find' = [at |-> NoCell, layer |-> l]
    BY <1>2 DEF LookupMiss, LookupMove, RemoveMiss, RemoveHit
  <2> QED
    BY <2>1 DEF Nothing
<1>3. ASSUME NEW p \in Pair, Insert(p) PROVE find'.at = NoCell
  BY <1>3 DEF Insert, Nothing
<1>4. ASSUME RemoveFound PROVE find'.at = NoCell
  BY <1>4 DEF RemoveFound, RInv, TInv, Typed, FindType
<1>5. ASSUME NEW k \in Key, LookupHit(k) PROVE FindingPoints' /\ Pointing'
  <2>1. PICK l \in InUse, c \in Cell :
             /\ FindAt(k, l, c)
             /\ find' = [at |-> c, layer |-> l]
             /\ ret' = Answer("lookup", k, cell[c].value)
    BY <1>5 DEF LookupHit
  <2>2. KeyAt(cell, c, k) /\ LayerOf[c[1]] = l
    BY <2>1, Facts, FindStep DEF RInv, FindAt, KeyAt
  <2>3. pc' = "idle" /\ cell' = cell /\ ret'.key = k
    BY <1>5, <2>1 DEF LookupHit, tables, Answer
  <2> QED
    BY <2>1, <2>2, <2>3 DEF FindingPoints, Pointing, KeyAt
<1>6. ASSUME NEW v \in Value, WriteValue(v) PROVE FindingPoints' /\ Pointing'
  <2>1. find.at \in Cell /\ cell[find.at] # Empty
    BY <1>6, Facts DEF WriteValue, RInv, TInv, FindUsed
  <2>2. Writes(find.at, v)
    BY <1>6, <2>1 DEF WriteValue, Writes, HandOut
  <2>3. cell'[find.at] # Empty /\ cell'[find.at].key = cell[find.at].key
    BY <2>1, <2>2, WritesStep DEF RInv
  <2>4. pc = "idle" /\ pc' = "idle" /\ find.at # NoCell /\ UNCHANGED <<find, ret>>
    BY <1>6 DEF WriteValue
  <2> QED
    BY <2>3, <2>4 DEF FindingPoints, Pointing, KeyAt
<1> QED
  BY <1>1, <1>2, <1>3, <1>4, <1>5, <1>6

(* The pair in hand is stored in a slot: the Finding points to it if it is *)
(* the one looked up; otherwise what it points to is still there, or has   *)
(* just been displaced.                                                    *)
LEMMA PointingStore ==
  ASSUME RInv, Pointing, pc # "idle", NEW l \in Layer, NEW c \in Cell,
         LayerOf[c[1]] = l, Fills(l, c) \/ Swaps(l, c), PointTo(c, l),
         NEW k, k = ins.orig, find'.at # NoCell
  PROVE  ins.track /\ ((Swaps(l, c) /\ cell[c].key = k) \/ Points(k)')
<1>1. cell'[c] = Hand /\ Hand # Empty /\ \A d \in Cell : d # c => cell'[d] = cell[d]
  BY StoresStep, HandFacts DEF RInv, Fills, Swaps
<1>2. CASE Track
  <2>1. find' = [at |-> c, layer |-> l]
    BY <1>2 DEF PointTo
  <2> QED
    BY <1>1, <1>2, <2>1 DEF Track, Points, KeyAt
<1>3. CASE ~Track
  <2>1. find' = find /\ find.at \in Cell /\ find.at # NoCell
    BY <1>3, Facts DEF PointTo, RInv
  <2>2. ins.track /\ Points(k)
    BY <1>3, <2>1 DEF Pointing, Track
  <2>3. CASE find.at = c
    BY <2>2, <2>3 DEF Points, KeyAt, Fills
  <2>4. CASE find.at # c
    BY <1>1, <2>1, <2>2, <2>4 DEF Points, KeyAt
  <2> QED
    BY <2>2, <2>3, <2>4
<1> QED
  BY <1>2, <1>3

(* So do the steps of innerInsert.                                         *)
LEMMA PointingInner ==
  ASSUME RInv, Roomy, UniqueKeys, Pointing, InnerInsert
  PROVE  FindingPoints' /\ Pointing'
<1> USE DEF HandOut
<1>1. ASSUME RoundPresent PROVE FALSE
  BY <1>1 DEF RoundPresent, SubPresentAt, PresentAt, UniqueKeys
<1>2. CASE RoundFits
  <2>1. /\ Hand.key \in Key /\ ins.layer \in InUse /\ ins.layer \in Layer /\ nLayers \in Nat
        /\ ins \in InsType /\ pc # "idle"
    BY <1>2, InnerFacts DEF RoundFits, RInv
  <2>2. PICK c \in Cell : /\ SubFitsAt(ins.layer, Hand.key, c)
                         /\ cell' = Put(cell, c, Hand)
                         /\ PointTo(c, ins.layer)
    BY <1>2 DEF RoundFits
  <2>3. Fills(ins.layer, c) /\ LayerOf[c[1]] = ins.layer
    BY <1>2, <2>1, <2>2, FitsStep DEF RoundFits, Fills, InUse
  <2>4. cell[c] = Empty
    BY <2>3 DEF Fills
  <2>5. pc' = "settled" /\ ins'.track = ins.track /\ ins'.orig = ins.orig
    BY <1>2, <2>1 DEF RoundFits, InsType
  <2>6. ASSUME NEW k, k = ins.orig, find'.at # NoCell PROVE ins.track /\ Points(k)'
    BY <2>1, <2>2, <2>3, <2>4, <2>6, PointingStore DEF Swaps
  <2> QED
    BY <2>5, <2>6 DEF FindingPoints, Pointing, Points
<1>3. CASE RoundKicks
  <2>1. /\ Hand.key \in Key /\ ins.layer \in InUse /\ ins.layer \in Layer /\ nLayers \in Nat
        /\ ins \in InsType /\ pc # "idle"
    BY <1>3, InnerFacts DEF RoundKicks, RInv
  <2>2. PICK c \in HomeCells(Home1[ins.layer][Hand.key], Home2[ins.layer][Hand.key]) :
             /\ cell' = Put(cell, c, Hand)
             /\ ins' = [ins EXCEPT !.hand = cell[c], !.round = @ + 1, !.last = 1]
             /\ PointTo(c, ins.layer)
    BY <1>3 DEF RoundKicks
  <2>3. c \in Cell /\ cell[c] # Empty /\ LayerOf[c[1]] = ins.layer
    BY <1>3, <2>1, KicksStep DEF RoundKicks
  <2>4. ins'.hand = cell[c] /\ ins'.track = ins.track /\ ins'.orig = ins.orig
    BY <2>1, <2>2 DEF InsType
  <2>5. Swaps(ins.layer, c)
    BY <1>3, <2>1, <2>2, <2>3, <2>4 DEF RoundKicks, Swaps, InUse
  <2>6. ASSUME NEW k, k = ins.orig, find'.at # NoCell
        PROVE  ins.track /\ (cell[c].key = k \/ Points(k)')
    BY <2>1, <2>2, <2>3, <2>5, <2>6, PointingStore
  <2>7. pc' \in {"round", "expunged"}
    BY <1>3 DEF RoundKicks
  <2> QED
    BY <2>4, <2>6, <2>7 DEF FindingPoints, Pointing, Points, Hand
<1>4. CASE Settled
  <2>1. /\ pc = "settled" /\ pc' = "idle" /\ UNCHANGED <<cell, find>>
        /\ ret'.key = ins.orig
    BY <1>4 DEF Settled, tables, Return, Answer
  <2>2. find.at # NoCell => Points(ins.orig)
    BY <2>1 DEF Pointing
  <2> QED
    BY <2>1, <2>2 DEF FindingPoints, Pointing, Points, KeyAt
<1>5. CASE ExpungeRandom \/ ExpungeFails
  BY <1>5 DEF Roomy, ExpungeRandom, ExpungeFails
<1>6. CASE Expunged \/ FilterRefuses
  <2>1. ins \in InsType /\ pc # "idle" /\ HandOut
    BY <1>6 DEF RInv, TInv, Typed, Expunged, FilterRefuses
  <2>2. /\ ins'.hand = ins.hand /\ ins'.track = ins.track /\ ins'.orig = ins.orig
        /\ UNCHANGED <<cell, find>>
    BY <1>6, <2>1 DEF Expunged, FilterRefuses, InsType, tables
  <2>3. pc' \in {"round", "grow", "aborted"}
    BY <1>6 DEF Expunged, FilterRefuses
  <2> QED
    BY <2>1, <2>2, <2>3 DEF FindingPoints, Pointing, Points, Hand, KeyAt
<1>7. CASE Grow
  <2> DEFINE l == nLayers
             c == <<Home1[l][Hand.key], 0>>
  <2>1. Hand.key \in Key /\ ins.last = 1 /\ nLayers \in 1 .. MaxLayers /\ pc # "idle"
    BY <1>7, InnerFacts DEF Grow, RInv, LastOne
  <2>2. l \in Layer /\ nLayers <= nLayers' /\ l < nLayers'
    BY <1>7, <2>1, CascadeAssumption DEF Grow, Layer
  <2>3. c \in HomeCells(Home1[l][Hand.key], Home2[l][Hand.key])
    BY TableAssumption DEF HomeCells, Slot
  <2>4. c \in Cell /\ LayerOf[c[1]] = l
    BY <2>1, <2>2, <2>3, Homes
  <2>5. cell[c] = Empty
    BY <2>4, NewLayerEmpty
  <2>6. Fills(l, c)
    BY <1>7, <2>1, <2>2, <2>3, <2>5 DEF Grow, Return, Fills
  <2>7. PointTo(c, l)
    BY <1>7, <2>1 DEF Grow
  <2>8. ASSUME NEW k, k = ins.orig, find'.at # NoCell PROVE Points(k)'
    BY <2>1, <2>2, <2>4, <2>5, <2>6, <2>7, <2>8, PointingStore DEF Swaps
  <2>9. pc' = "idle" /\ ret'.key = ins.orig
    BY <1>7 DEF Grow, Return, Answer
  <2> QED
    BY <2>8, <2>9 DEF FindingPoints, Pointing, Points
<1>8. CASE GrowFails
  BY <1>8 DEF GrowFails, Nothing, FindingPoints, Pointing
<1> QED
  BY <1>1, <1>2, <1>3, <1>4, <1>5, <1>6, <1>7, <1>8 DEF InnerInsert

-----------------------------------------------------------------------------
(* The books of a layer: the number of its used slots, and how many        *)
(* fingerprints of each class its filter holds.  While innerInsert is      *)
(* under way in a layer, the pair that came in is stored there and its     *)
(* fingerprint is not added yet; the one in hand has left the table, and   *)
(* its fingerprint is still there.                                         *)
Mark(m, k, l, x) == IF m = l /\ ClassOf[l][k] = x THEN 1 ELSE 0

InClass(l, x) == {p \in Pair : ClassOf[l][p.key] = x}

InLayer(l)    == Cardinality(HoldersIn(cell, LayerCell(l), Pair))
PairsOf(l, x) == Cardinality(HoldersIn(cell, LayerCell(l), InClass(l, x)))

Pending(l, x) == IF pc \in {"round", "expunged"}
                 THEN Mark(ins.layer, Hand.key, l, x) - Mark(ins.layer, ins.atLayer, l, x)
                 ELSE 0

FilterBooks == UseFilters /\ pc # "aborted" =>
  \A l \in Layer, x \in Class : filter[l][x] = PairsOf(l, x) + Pending(l, x)

UsedBooks == \A l \in Layer : subUsed[l] = InLayer(l)

Books == FilterBooks /\ UsedBooks

LEMMA MarkType ==
  ASSUME NEW m, NEW k, NEW l, NEW x
  PROVE  /\ Mark(m, k, l, x) \in {0, 1} /\ Mark(m, k, l, x) \in Int
         /\ m # l => Mark(m, k, l, x) = 0
BY DEF Mark

(* The sets the counters of the properties count.                          *)
LEMMA CountsAre ==
  ASSUME TInv, NEW l \in Layer, NEW x \in Class
  PROVE  /\ HoldersIn(cell, LayerCell(l), Pair) = {c \in LayerCell(l) : cell[c] # Empty}
         /\ HoldersIn(cell, LayerCell(l), InClass(l, x))
              = {c \in LayerCell(l) : cell[c] # Empty /\ ClassOf[l][cell[c].key] = x}
         /\ InLayer(l) \in Nat /\ PairsOf(l, x) \in Nat
<1>1. cell \in Table /\ \A c \in Cell : cell[c] # Empty => cell[c] \in Pair
  BY Facts
<1>2. LayerCell(l) \in SUBSET Cell /\ InClass(l, x) \in SUBSET Pair
  BY DEF LayerCell, InClass
<1>3. InLayer(l) \in Nat /\ PairsOf(l, x) \in Nat
  BY <1>1, <1>2, HoldersCount DEF InLayer, PairsOf
<1> QED
  BY <1>1, <1>2, <1>3, PairNotEmpty DEF HoldersIn, InClass

(* Storing y in slot c moves a mark and a slot of its layer.               *)
LEMMA StoreCounts ==
  ASSUME TInv, NEW c \in Cell, NEW y \in Pair \cup {Empty}, cell' = Put(cell, c, y),
         NEW l \in Layer, NEW x \in Class
  PROVE  /\ InLayer(l)' = InLayer(l)
              - (IF LayerOf[c[1]] = l /\ cell[c] # Empty THEN 1 ELSE 0)
              + (IF LayerOf[c[1]] = l /\ y # Empty THEN 1 ELSE 0)
         /\ PairsOf(l, x)' = PairsOf(l, x)
              - (IF cell[c] # Empty THEN Mark(LayerOf[c[1]], cell[c].key, l, x) ELSE 0)
              + (IF y # Empty THEN Mark(LayerOf[c[1]], y.key, l, x) ELSE 0)
<1>1. cell \in Table /\ cell[c] \in Pair \cup {Empty}
  BY Facts
<1>2. LayerCell(l) \in SUBSET Cell /\ InClass(l, x) \in SUBSET Pair /\ Pair \in SUBSET Pair
  BY DEF LayerCell, InClass
<1>3. c \in LayerCell(l) <=> LayerOf[c[1]] = l
  BY DEF LayerCell
<1>4. \A p \in Pair \cup {Empty} : p \in Pair <=> p # Empty
  BY PairNotEmpty
<1>5. \A p \in Pair \cup {Empty} :
        p \in InClass(l, x) <=> p # Empty /\ ClassOf[l][p.key] = x
  BY <1>4 DEF InClass
<1>6. LayerCell(l)' = LayerCell(l) /\ InClass(l, x)' = InClass(l, x)
  BY DEF LayerCell, InClass
<1>7. InLayer(l)' = InLayer(l)
              - (IF c \in LayerCell(l) /\ cell[c] \in Pair THEN 1 ELSE 0)
              + (IF c \in LayerCell(l) /\ y \in Pair THEN 1 ELSE 0)
  BY <1>1, <1>2, PutHolders DEF InLayer, LayerCell
<1>8. PairsOf(l, x)' = PairsOf(l, x)
              - (IF c \in LayerCell(l) /\ cell[c] \in InClass(l, x) THEN 1 ELSE 0)
              + (IF c \in LayerCell(l) /\ y \in InClass(l, x) THEN 1 ELSE 0)
  <2>1. Cardinality(HoldersIn(Put(cell, c, y), LayerCell(l), InClass(l, x)))
          = Cardinality(HoldersIn(cell, LayerCell(l), InClass(l, x)))
              - (IF c \in LayerCell(l) /\ cell[c] \in InClass(l, x) THEN 1 ELSE 0)
              + (IF c \in LayerCell(l) /\ y \in InClass(l, x) THEN 1 ELSE 0)
    BY <1>1, <1>2, PutHolders
  <2> QED
    BY <2>1, <1>6 DEF PairsOf
<1> QED
  BY <1>1, <1>3, <1>4, <1>5, <1>7, <1>8 DEF Mark

(* Nothing is stored: the slots and the classes are counted as before,     *)
(* also when the client writes a value.                                    *)
LEMMA KeepCounts ==
  ASSUME \A c \in Cell : /\ cell'[c] \in Pair <=> cell[c] \in Pair
                         /\ cell[c] \in Pair => cell'[c].key = cell[c].key,
         NEW l, NEW x
  PROVE  InLayer(l)' = InLayer(l) /\ PairsOf(l, x)' = PairsOf(l, x)
<1>1. HoldersIn(cell', LayerCell(l), Pair) = HoldersIn(cell, LayerCell(l), Pair)
  BY DEF HoldersIn, LayerCell
<1>2. HoldersIn(cell', LayerCell(l), InClass(l, x)) = HoldersIn(cell, LayerCell(l), InClass(l, x))
  BY DEF HoldersIn, LayerCell, InClass
<1> QED
  BY <1>1, <1>2 DEF InLayer, PairsOf, LayerCell, InClass, HoldersIn

(* What the filter operations do to the count of a class.                  *)
LEMMA FilterSteps ==
  ASSUME UseFilters, NEW f \in [Layer -> [Class -> Int]], NEW m \in Layer, NEW k \in Key,
         NEW l \in Layer, NEW x \in Class
  PROVE  /\ FilterAdd(f, m, k)[l][x] = f[l][x] + Mark(m, k, l, x)
         /\ f[m][ClassOf[m][k]] > 0 =>
              FilterRemove(f, m, k)[l][x] = f[l][x] - Mark(m, k, l, x)
<1>1. ClassOf[m][k] \in Class
  BY CascadeAssumption
<1>2. f[m] \in [Class -> Int] /\ f[l] \in [Class -> Int] /\ f[l][x] \in Int
  OBVIOUS
<1>3. ASSUME NEW n \in Int
      PROVE  [f EXCEPT ![m][ClassOf[m][k]] = n][l][x]
               = IF m = l /\ ClassOf[m][k] = x THEN n ELSE f[l][x]
  BY <1>1, <1>2
<1>4. f[m][ClassOf[m][k]] \in Int
  BY <1>1, <1>2
<1>5. FilterAdd(f, m, k)[l][x] = f[l][x] + Mark(m, k, l, x)
  BY <1>2, <1>3, <1>4 DEF FilterAdd, Mark
<1>6. f[m][ClassOf[m][k]] > 0 =>
        FilterRemove(f, m, k)[l][x] = f[l][x] - Mark(m, k, l, x)
  BY <1>2, <1>3, <1>4 DEF FilterRemove, Mark
<1> QED
  BY <1>5, <1>6

LEMMA NonePending ==
  ASSUME NEW l, NEW x
  PROVE  /\ pc \notin {"round", "expunged"} => Pending(l, x) = 0
         /\ (pc' \in {"round", "expunged"} => ins'.hand.key = ins'.atLayer)
              => Pending(l, x)' = 0
BY MarkType DEF Pending, Hand

(* A step that stores nothing and leaves the books alone.                  *)
LEMMA BooksRest ==
  ASSUME Books, UNCHANGED <<subUsed, filter>>,
         \A c \in Cell : /\ cell'[c] \in Pair <=> cell[c] \in Pair
                         /\ cell[c] \in Pair => cell'[c].key = cell[c].key,
         pc' # "aborted" => /\ pc # "aborted"
                            /\ \A l \in Layer, x \in Class : Pending(l, x)' = Pending(l, x)
  PROVE  Books'
BY KeepCounts DEF Books, FilterBooks, UsedBooks

(* innerRemove of a pair in its layer.                                     *)
LEMMA BooksRemove ==
  ASSUME TInv, Books, pc = "idle", NEW m \in InUse, NEW c \in Cell,
         cell[c] # Empty, LayerOf[c[1]] = m, InnerRemove(m, c),
         pc' \in {"round", "expunged"} => ins'.hand.key = ins'.atLayer
  PROVE  Books'
<1>1. /\ cell \in Table /\ cell[c] \in Pair /\ m \in Layer /\ cell[c].key \in Key
      /\ subUsed \in [Layer -> Int] /\ filter \in [Layer -> [Class -> Int]]
  BY Facts, PairNotEmpty DEF TInv, Typed
<1>2. \A l \in Layer, x \in Class :
        /\ InLayer(l)' = InLayer(l) - (IF m = l THEN 1 ELSE 0)
        /\ PairsOf(l, x)' = PairsOf(l, x) - Mark(m, cell[c].key, l, x)
        /\ InLayer(l) \in Nat /\ PairsOf(l, x) \in Nat
        /\ Pending(l, x) = 0 /\ Pending(l, x)' = 0
  BY <1>1, StoreCounts, CountsAre, NonePending, MarkType DEF InnerRemove
<1>3. UsedBooks'
  <2>1. \A l \in Layer : subUsed'[l] = subUsed[l] - (IF m = l THEN 1 ELSE 0)
    BY <1>1 DEF InnerRemove
  <2>2. Class # {}
    BY <1>1, CascadeAssumption
  <2> QED
    BY <1>1, <1>2, <2>1, <2>2 DEF Books, UsedBooks
<1>4. ASSUME UseFilters PROVE FilterBooks'
  <2> DEFINE y == ClassOf[m][cell[c].key]
  <2>1. y \in Class
    BY <1>1, CascadeAssumption
  <2>2. \A l \in Layer, x \in Class : filter[l][x] = PairsOf(l, x)
    BY <1>2, <1>4 DEF Books, FilterBooks
  <2>3. filter[m][y] > 0
    <3>1. c \in LayerCell(m) /\ cell[c] \in InClass(m, y)
      BY <1>1 DEF LayerCell, InClass
    <3>2. LayerCell(m) \in SUBSET Cell /\ InClass(m, y) \in SUBSET Pair
      BY DEF LayerCell, InClass
    <3> QED
      BY <1>1, <2>1, <2>2, <3>1, <3>2, HoldersCount DEF PairsOf
  <2>4. \A l \in Layer, x \in Class :
          filter'[l][x] = filter[l][x] - Mark(m, cell[c].key, l, x)
    BY <1>1, <1>4, <2>3, FilterSteps DEF InnerRemove
  <2>5. \A l \in Layer, x \in Class : filter'[l][x] = PairsOf(l, x)' + Pending(l, x)'
    BY <1>2, <2>2, <2>4, MarkType
  <2> QED
    BY <2>5 DEF FilterBooks
<1> QED
  BY <1>3, <1>4 DEF Books, FilterBooks

(* The calls of the client.                                                *)
LEMMA BooksCall ==
  ASSUME RInv, FindingPoints, Books,
         \/ \E k \in Key : LookupMiss(k) \/ LookupHit(k) \/ LookupMove(k)
                             \/ RemoveMiss(k) \/ RemoveHit(k)
         \/ \E p \in Pair : Insert(p)
         \/ \E v \in Value : WriteValue(v)
         \/ RemoveFound
  PROVE  Books'
<1>1. ASSUME NEW k \in Key, LookupMiss(k) \/ LookupHit(k) \/ RemoveMiss(k) PROVE Books'
  BY <1>1, BooksRest, NonePending DEF LookupMiss, LookupHit, RemoveMiss, tables
<1>2. ASSUME NEW p \in Pair, Insert(p) PROVE Books'
  BY <1>2, BooksRest, NonePending DEF Insert, Start, tables
<1>3. ASSUME NEW v \in Value, WriteValue(v) PROVE Books'
  <2>1. find.at \in Cell /\ cell[find.at] # Empty /\ cell \in Table
    BY <1>3, Facts DEF WriteValue, RInv, TInv, FindUsed
  <2>2. Writes(find.at, v)
    BY <1>3, <2>1 DEF WriteValue, Writes, HandOut
  <2>3. cell' \in Table
    BY <1>3, CallTInv DEF RInv, TInv, Typed
  <2>4. \A c \in Cell : /\ cell'[c] \in Pair <=> cell[c] \in Pair
                        /\ cell[c] \in Pair => cell'[c].key = cell[c].key
    BY <2>1, <2>2, <2>3, WritesStep, PairNotEmpty DEF RInv, Table
  <2> QED
    BY <1>3, <2>4, BooksRest, NonePending DEF WriteValue
<1>4. ASSUME NEW k \in Key, LookupMove(k) PROVE Books'
  <2>1. PICK l \in InUse, c \in Cell :
             FindAt(k, l, c) /\ InnerRemove(l, c) /\ ins' = Start(cell[c], TRUE, l - 1, MoveRounds)
    BY <1>4 DEF LookupMove
  <2>2. cell[c] # Empty /\ LayerOf[c[1]] = l
    BY <2>1, Facts, FindStep DEF RInv, FindAt
  <2> QED
    BY <1>4, <2>1, <2>2, BooksRemove DEF LookupMove, Start, RInv
<1>5. ASSUME NEW k \in Key, RemoveHit(k) PROVE Books'
  <2>1. PICK l \in InUse, c \in Cell : FindAt(k, l, c) /\ InnerRemove(l, c)
    BY <1>5 DEF RemoveHit
  <2>2. cell[c] # Empty /\ LayerOf[c[1]] = l
    BY <2>1, Facts, FindStep DEF RInv, FindAt
  <2> QED
    BY <1>5, <2>1, <2>2, BooksRemove DEF RemoveHit, RInv
<1>6. ASSUME RemoveFound PROVE Books'
  <2>1. find.at \in Cell /\ cell[find.at] # Empty /\ find.layer \in InUse
    BY <1>6, Facts DEF RemoveFound, RInv, TInv, FindUsed
  <2>2. LayerOf[find.at[1]] = find.layer
    BY <1>6 DEF RemoveFound, FindingPoints
  <2> QED
    BY <1>6, <2>1, <2>2, BooksRemove DEF RemoveFound, RInv
<1> QED
  BY <1>1, <1>2, <1>3, <1>4, <1>5, <1>6

(* A round of innerInsert, or Grow, stores the pair in hand in layer m.    *)
LEMMA BooksStore ==
  ASSUME TInv, HandOut, NEW c \in Cell, cell' = Put(cell, c, Hand),
         NEW l \in Layer, NEW x \in Class
  PROVE  /\ InLayer(l) \in Nat /\ PairsOf(l, x) \in Nat
         /\ cell[c] = Empty =>
              /\ InLayer(l)' = InLayer(l) + (IF LayerOf[c[1]] = l THEN 1 ELSE 0)
              /\ PairsOf(l, x)' = PairsOf(l, x) + Mark(LayerOf[c[1]], Hand.key, l, x)
         /\ cell[c] # Empty =>
              /\ InLayer(l)' = InLayer(l)
              /\ PairsOf(l, x)' = PairsOf(l, x) + Mark(LayerOf[c[1]], Hand.key, l, x)
                                    - Mark(LayerOf[c[1]], cell[c].key, l, x)
<1>1. Hand \in Pair /\ Hand # Empty
  BY HandFacts
<1>2. InLayer(l) \in Nat /\ PairsOf(l, x) \in Nat
  BY CountsAre
<1> QED
  BY <1>1, <1>2, StoreCounts, MarkType

LEMMA BooksInner ==
  ASSUME RInv, Roomy, UniqueKeys, Books, InnerInsert
  PROVE  Books'
<1> USE DEF HandOut
<1>0. /\ subUsed \in [Layer -> Int] /\ filter \in [Layer -> [Class -> Int]]
      /\ pc # "idle" /\ TInv /\ ins \in InsType /\ ins.atLayer \in Key
      /\ Hand.key \in Key /\ nLayers \in 1 .. MaxLayers
  <2>1. pc # "idle"
    BY DEF InnerInsert, RoundPresent, RoundFits, RoundKicks, Settled, ExpungeRandom,
           ExpungeFails, Expunged, FilterRefuses, Grow, GrowFails
  <2> QED
    BY <2>1, InnerFacts DEF RInv, TInv, Typed, InFlight
<1>1. ASSUME RoundPresent PROVE FALSE
  BY <1>1 DEF RoundPresent, SubPresentAt, PresentAt, UniqueKeys
<1>2. CASE RoundFits
  <2> DEFINE m == ins.layer
  <2>1. m \in Layer
    BY <1>0, <1>2, InnerFacts DEF RoundFits
  <2>2. PICK c \in Cell : SubFitsAt(m, Hand.key, c) /\ cell' = Put(cell, c, Hand)
    BY <1>2 DEF RoundFits
  <2>3. cell[c] = Empty /\ LayerOf[c[1]] = m
    BY <1>0, <2>1, <2>2, FitsStep
  <2>4. \A l \in Layer, x \in Class :
          /\ InLayer(l)' = InLayer(l) + (IF m = l THEN 1 ELSE 0)
          /\ PairsOf(l, x)' = PairsOf(l, x) + Mark(m, Hand.key, l, x)
          /\ InLayer(l) \in Nat /\ PairsOf(l, x) \in Nat
          /\ Pending(l, x) = Mark(m, Hand.key, l, x) - Mark(m, ins.atLayer, l, x)
          /\ Pending(l, x)' = 0
    BY <1>0, <1>2, <2>2, <2>3, BooksStore, NonePending DEF RoundFits, Pending
  <2>5. UsedBooks'
    <3>1. \A l \in Layer : subUsed'[l] = subUsed[l] + (IF m = l THEN 1 ELSE 0)
      BY <1>0, <1>2 DEF RoundFits
    <3>2. Class # {}
      BY <1>0, <2>1, CascadeAssumption
    <3> QED
      BY <2>4, <3>1, <3>2 DEF Books, UsedBooks
  <2>6. ASSUME UseFilters PROVE FilterBooks'
    <3>1. \A l \in Layer, x \in Class :
            filter'[l][x] = filter[l][x] + Mark(m, ins.atLayer, l, x)
      BY <1>0, <1>2, <2>1, <2>6, FilterSteps DEF RoundFits
    <3>2. \A l \in Layer, x \in Class : filter[l][x] = PairsOf(l, x) + Pending(l, x)
      BY <1>2, <2>6 DEF RoundFits, Books, FilterBooks
    <3>3. \A l \in Layer, x \in Class : filter'[l][x] = PairsOf(l, x)' + Pending(l, x)'
      BY <2>4, <3>1, <3>2, MarkType
    <3> QED
      BY <3>3 DEF FilterBooks
  <2> QED
    BY <2>5, <2>6 DEF Books, FilterBooks
<1>3. CASE RoundKicks
  <2> DEFINE m == ins.layer
  <2>1. m \in Layer
    BY <1>0, <1>3, InnerFacts DEF RoundKicks
  <2>2. PICK c \in HomeCells(Home1[m][Hand.key], Home2[m][Hand.key]) :
             /\ cell' = Put(cell, c, Hand)
             /\ ins' = [ins EXCEPT !.hand = cell[c], !.round = @ + 1, !.last = 1]
    BY <1>3 DEF RoundKicks
  <2>3. c \in Cell /\ cell[c] # Empty /\ LayerOf[c[1]] = m
    BY <1>0, <1>3, <2>1, KicksStep DEF RoundKicks
  <2>4. /\ ins'.hand = cell[c] /\ ins'.layer = m /\ ins'.atLayer = ins.atLayer
        /\ pc' \in {"round", "expunged"} /\ UNCHANGED <<subUsed, filter>>
    BY <1>0, <1>3, <2>2 DEF InsType, RoundKicks
  <2>5. \A l \in Layer, x \in Class :
          /\ InLayer(l)' = InLayer(l)
          /\ PairsOf(l, x)' = PairsOf(l, x) + Mark(m, Hand.key, l, x) - Mark(m, cell[c].key, l, x)
          /\ PairsOf(l, x) \in Nat
    BY <1>0, <1>3, <2>2, <2>3, BooksStore DEF RoundKicks
  <2>6. \A l \in Layer, x \in Class :
          /\ Pending(l, x) = Mark(m, Hand.key, l, x) - Mark(m, ins.atLayer, l, x)
          /\ Pending(l, x)' = Mark(m, cell[c].key, l, x) - Mark(m, ins.atLayer, l, x)
    BY <1>3, <2>4 DEF RoundKicks, Pending, Hand, Mark
  <2>7. UsedBooks'
    <3>1. Class # {}
      BY <1>0, <2>1, CascadeAssumption
    <3> QED
      BY <2>4, <2>5, <3>1 DEF Books, UsedBooks
  <2>8. ASSUME UseFilters PROVE FilterBooks'
    <3>1. \A l \in Layer, x \in Class : filter[l][x] = PairsOf(l, x) + Pending(l, x)
      BY <1>3, <2>8 DEF RoundKicks, Books, FilterBooks
    <3>2. \A l \in Layer, x \in Class : filter'[l][x] = PairsOf(l, x)' + Pending(l, x)'
      BY <2>4, <2>5, <2>6, <3>1, MarkType
    <3> QED
      BY <3>2 DEF FilterBooks
  <2> QED
    BY <2>7, <2>8 DEF Books, FilterBooks
<1>4. CASE Settled \/ GrowFails
  BY <1>4, BooksRest, NonePending DEF Settled, GrowFails, Return, tables
<1>5. CASE ExpungeRandom \/ ExpungeFails
  BY <1>5 DEF Roomy, ExpungeRandom, ExpungeFails
<1>6. CASE FilterRefuses
  BY <1>6, BooksRest DEF FilterRefuses, tables
<1>7. CASE Expunged
  <2> DEFINE m == ins.layer
  <2>1. m \in Layer
    BY <1>0, <1>7, InnerFacts DEF Expunged
  <2>2. UNCHANGED <<cell, subUsed>> /\ pc' \in {"grow", "round"}
    BY <1>7 DEF Expunged
  <2>3. ins'.hand = Hand /\ ins'.atLayer = IF Moved THEN Hand.key ELSE ins.atLayer
    BY <1>0, <1>7 DEF Expunged, InsType, Hand
  <2>4. \A l \in Layer, x \in Class :
          /\ InLayer(l)' = InLayer(l) /\ PairsOf(l, x)' = PairsOf(l, x)
          /\ PairsOf(l, x) \in Nat
          /\ Pending(l, x) = Mark(m, Hand.key, l, x) - Mark(m, ins.atLayer, l, x)
          /\ UseFilters => Pending(l, x)' = 0
    <3>1. UseFilters => ins'.hand.key = ins'.atLayer
      BY <2>3 DEF Moved
    <3>2. pc = "expunged"
      BY <1>7 DEF Expunged
    <3> QED
      BY <1>0, <2>2, <3>1, <3>2, KeepCounts, CountsAre, NonePending DEF Pending
  <2>5. ASSUME UseFilters PROVE FilterBooks'
    <3>1. \A l \in Layer, x \in Class : filter[l][x] = PairsOf(l, x) + Pending(l, x)
      BY <1>7, <2>5 DEF Expunged, Books, FilterBooks
    <3>2. \A l \in Layer, x \in Class :
            filter'[l][x] = filter[l][x] - Mark(m, Hand.key, l, x) + Mark(m, ins.atLayer, l, x)
      <4>1. CASE Moved
        <5> DEFINE g == FilterRemove(filter, m, Hand.key)
        <5>1. g \in [Layer -> [Class -> Int]] /\ filter' = FilterAdd(g, m, ins.atLayer)
          BY <1>0, <1>7, <2>1, <4>1, FilterType DEF Expunged
        <5>2. filter[m][ClassOf[m][Hand.key]] > 0
          BY <1>7, <4>1 DEF Expunged, FilterHas
        <5>3. ASSUME NEW l \in Layer, NEW x \in Class
              PROVE  g[l][x] = filter[l][x] - Mark(m, Hand.key, l, x)
          <6>1. filter \in [Layer -> [Class -> Int]] /\ Hand.key \in Key
            BY <1>0
          <6> QED
            BY <2>1, <2>5, <5>2, <6>1, FilterSteps
        <5> HIDE DEF g
        <5>4. \A l \in Layer, x \in Class : filter'[l][x] = g[l][x] + Mark(m, ins.atLayer, l, x)
          BY <1>0, <2>1, <2>5, <5>1, FilterSteps
        <5> QED
          BY <5>3, <5>4
      <4>2. CASE ~Moved
        <5>1. Hand.key = ins.atLayer /\ filter' = filter
          BY <1>7, <2>5, <4>2 DEF Expunged, Moved
        <5>2. \A l \in Layer, x \in Class : filter[l][x] \in Int
          BY <1>0
        <5> QED
          BY <5>1, <5>2, MarkType
      <4> QED
        BY <4>1, <4>2
    <3>3. \A l \in Layer, x \in Class : filter'[l][x] = PairsOf(l, x)' + Pending(l, x)'
      BY <2>4, <2>5, <3>1, <3>2, MarkType
    <3> QED
      BY <3>3 DEF FilterBooks
  <2>6. UsedBooks'
    BY <2>2, <2>4, <2>1, <1>0, CascadeAssumption DEF Books, UsedBooks
  <2> QED
    BY <2>5, <2>6 DEF Books, FilterBooks
<1>8. CASE Grow
  <2> DEFINE m == nLayers
             c == <<Home1[m][Hand.key], 0>>
  <2>1. ins.last = 1 /\ m \in Layer
    BY <1>0, <1>8, CascadeAssumption DEF Grow, RInv, LastOne, Layer
  <2>2. c \in HomeCells(Home1[m][Hand.key], Home2[m][Hand.key])
    BY TableAssumption DEF HomeCells, Slot
  <2>3. c \in Cell /\ LayerOf[c[1]] = m
    BY <1>0, <2>1, <2>2, Homes
  <2>4. cell[c] = Empty
    BY <2>3, NewLayerEmpty
  <2>5. cell' = Put(cell, c, Hand) /\ pc = "grow" /\ pc' = "idle"
    BY <1>8, <2>1 DEF Grow, Return
  <2> HIDE DEF c
  <2>6. \A l \in Layer, x \in Class :
          /\ InLayer(l)' = InLayer(l) + (IF m = l THEN 1 ELSE 0)
          /\ PairsOf(l, x)' = PairsOf(l, x) + Mark(m, Hand.key, l, x)
          /\ InLayer(l) \in Nat /\ PairsOf(l, x) \in Nat
          /\ Pending(l, x) = 0 /\ Pending(l, x)' = 0
    BY <1>0, <2>3, <2>4, <2>5, BooksStore, NonePending
  <2>7. UsedBooks'
    <3>1. \A l \in Layer : subUsed'[l] = subUsed[l] + (IF m = l THEN 1 ELSE 0)
      BY <1>0, <1>8, <2>1 DEF Grow
    <3>2. Class # {}
      BY <1>0, <2>1, CascadeAssumption
    <3> QED
      BY <2>6, <3>1, <3>2 DEF Books, UsedBooks
  <2>8. ASSUME UseFilters PROVE FilterBooks'
    <3>1. \A l \in Layer, x \in Class :
            filter'[l][x] = filter[l][x] + Mark(m, Hand.key, l, x)
      BY <1>0, <1>8, <2>1, <2>8, FilterSteps DEF Grow
    <3>2. \A l \in Layer, x \in Class : filter[l][x] = PairsOf(l, x)
      BY <2>5, <2>6, <2>8 DEF Books, FilterBooks
    <3>3. \A l \in Layer, x \in Class : filter'[l][x] = PairsOf(l, x)' + Pending(l, x)'
      BY <2>6, <3>1, <3>2, MarkType
    <3> QED
      BY <3>3 DEF FilterBooks
  <2> QED
    BY <2>7, <2>8 DEF Books, FilterBooks
<1> QED
  BY <1>1, <1>2, <1>3, <1>4, <1>5, <1>6, <1>7, <1>8 DEF InnerInsert

(* With exact books no filter denies a key that is stored in its layer.    *)
LEMMA BooksAnswer == ASSUME TInv, Books PROVE FiltersAnswer
<1> SUFFICES ASSUME UseFilters, pc = "idle", NEW c \in Cell, cell[c] # Empty
             PROVE  filter[LayerOf[c[1]]][ClassOf[LayerOf[c[1]]][cell[c].key]] > 0
  BY DEF FiltersAnswer, FilterLookup
<1> DEFINE l == LayerOf[c[1]]
           x == ClassOf[l][cell[c].key]
<1>1. cell \in Table /\ cell[c] \in Pair /\ cell[c].key \in Key
  BY Facts, PairNotEmpty
<1>2. l \in Layer /\ x \in Class
  BY <1>1, CascadeAssumption DEF Cell
<1>3. filter[l][x] = PairsOf(l, x) + Pending(l, x) /\ Pending(l, x) = 0 /\ PairsOf(l, x) \in Nat
  BY <1>2, NonePending, CountsAre DEF Books, FilterBooks
<1>4. c \in LayerCell(l) /\ cell[c] \in InClass(l, x)
  BY <1>1 DEF LayerCell, InClass
<1>5. LayerCell(l) \in SUBSET Cell /\ InClass(l, x) \in SUBSET Pair
  BY DEF LayerCell, InClass
<1>6. PairsOf(l, x) > 0
  BY <1>1, <1>4, <1>5, HoldersCount DEF PairsOf
<1> QED
  BY <1>3, <1>6

(* Together with the homes, this is inductive for a client that looks a    *)
(* key up before it inserts it: exact filters let lookup see every pair,   *)
(* so the keys stay unique; unique keys let the Finding lead to its pair   *)
(* and its layer; and a removal through it keeps the books.                *)
CheckedInv == UniqueKeys /\ FindingPoints /\ Pointing /\ Books

THEOREM CheckedInvariant == ASSUME Checked PROVE RoomySpec => []CheckedInv
<1>1. Init => CheckedInv
  <2> SUFFICES ASSUME Init PROVE CheckedInv
    OBVIOUS
  <2>1. UniqueKeys /\ FindingPoints /\ Pointing
    BY DEF Init, UniqueKeys, HandOut, Nothing, FindingPoints, Pointing
  <2>2. \A l \in Layer, K \in SUBSET Pair : HoldersIn(cell, LayerCell(l), K) = {}
    BY PairNotEmpty DEF Init, HoldersIn, LayerCell
  <2>3. \A l \in Layer : InLayer(l) = 0
    BY <2>2, FS_EmptySet DEF InLayer
  <2>4. \A l \in Layer, x \in Class : PairsOf(l, x) = 0
    <3>1. \A l \in Layer, x \in Class : InClass(l, x) \in SUBSET Pair
      BY DEF InClass
    <3> QED
      BY <2>2, <3>1, FS_EmptySet DEF PairsOf
  <2>5. Books
    BY <2>3, <2>4 DEF Init, Books, FilterBooks, UsedBooks, Pending
  <2> QED
    BY <2>1, <2>5 DEF CheckedInv
<1>2. RInv /\ Roomy /\ CheckedInv /\ [Next]_vars => CheckedInv'
  <2>1. RInv /\ Roomy /\ CheckedInv /\ Next => CheckedInv'
    <3> SUFFICES ASSUME RInv, Roomy, CheckedInv, Next PROVE CheckedInv'
      OBVIOUS
    <3>1. UniqueKeys'
      BY StepEffect, UniqueStep, BooksAnswer DEF CheckedInv, RInv
    <3>2. FindingPoints' /\ Pointing'
      BY PointingCall, PointingInner DEF CheckedInv, Next
    <3>3. Books'
      BY BooksCall, BooksInner DEF CheckedInv, Next
    <3> QED
      BY <3>1, <3>2, <3>3 DEF CheckedInv
  <2>2. CheckedInv /\ UNCHANGED vars => CheckedInv'
    BY DEF vars, CheckedInv, UniqueKeys, FindingPoints, Pointing, Points, HandOut, Hand, KeyAt,
           Books, FilterBooks, UsedBooks, InLayer, PairsOf, Pending, HoldersIn
  <2> QED
    BY <2>1, <2>2
<1> QED
  BY <1>1, <1>2, RoomyInvariant, PTL DEF RoomySpec, Spec

(* A client that inserts a key only after lookup did not find it has every *)
(* key once in all the tables, and nowhere while innerInsert has its pair  *)
(* out: innerInsert, which looks at one table at a time, makes no second   *)
(* pair.  With or without filters.                                         *)
THEOREM UniqueKeysTheorem == ASSUME Checked PROVE RoomySpec => []UniqueKeys
<1>1. CheckedInv => UniqueKeys
  BY DEF CheckedInv
<1> QED
  BY <1>1, CheckedInvariant, PTL

(* The Finding of a lookup leads to the pair of the key that was looked    *)
(* up, in the layer it names, also when the pair was moved to the front    *)
(* and kicked around on the way, and the client has written values since.  *)
THEOREM FindingTheorem == ASSUME Checked PROVE RoomySpec => []FindingPoints
<1>1. CheckedInv => FindingPoints
  BY DEF CheckedInv
<1> QED
  BY <1>1, CheckedInvariant, PTL

(* Every table counts its used slots, whatever was kicked, moved to        *)
(* another layer, removed through a Finding or refused by a filter:        *)
(* overfull() decides on the truth.                                        *)
THEOREM SubCountTheorem == ASSUME Checked PROVE RoomySpec => []SubCount
<1>1. TInv /\ CheckedInv => SubCount
  <2> SUFFICES ASSUME TInv, CheckedInv, NEW l \in Layer
               PROVE  subUsed[l] = Cardinality({c \in LayerCell(l) : cell[c] # Empty})
    BY DEF SubCount
  <2>1. HoldersIn(cell, LayerCell(l), Pair) = {c \in LayerCell(l) : cell[c] # Empty}
    <3>1. \A c \in LayerCell(l) : cell[c] \in Pair <=> cell[c] # Empty
      BY Facts, PairNotEmpty DEF LayerCell
    <3> QED
      BY <3>1 DEF HoldersIn
  <2> QED
    BY <2>1 DEF CheckedInv, Books, UsedBooks, InLayer
<1> QED
  BY <1>1, CheckedInvariant, RoomyInvariant, PTL DEF RInv

(* Between calls, a filter holds one fingerprint for each pair of its      *)
(* table: innerInsert, which adds and removes fingerprints only when it    *)
(* leaves a layer, leaves none behind and takes none away, over any number *)
(* of kicks and layers.                                                    *)
THEOREM FilterTheorem == ASSUME Checked PROVE RoomySpec => []FilterExact
<1>1. TInv /\ CheckedInv => FilterExact
  <2> SUFFICES ASSUME TInv, CheckedInv, UseFilters, pc = "idle", NEW l \in Layer, NEW x \in Class
               PROVE  filter[l][x] = Cardinality({c \in LayerCell(l) :
                                        cell[c] # Empty /\ ClassOf[l][cell[c].key] = x})
    BY DEF FilterExact
  <2>1. filter[l][x] = PairsOf(l, x) + Pending(l, x) /\ Pending(l, x) = 0 /\ PairsOf(l, x) \in Nat
    BY NonePending, CountsAre DEF CheckedInv, Books, FilterBooks
  <2>2. HoldersIn(cell, LayerCell(l), InClass(l, x))
          = {c \in LayerCell(l) : cell[c] # Empty /\ ClassOf[l][cell[c].key] = x}
    BY CountsAre
  <2> QED
    BY <2>1, <2>2 DEF PairsOf
<1> QED
  BY <1>1, CheckedInvariant, RoomyInvariant, PTL DEF RInv

(* Between calls, lookup finds every pair that is stored, in its slot and  *)
(* in the first layer that answers: no filter denies it, and no kick left  *)
(* it where no scan goes.                                                  *)
THEOREM LookupTheorem == ASSUME Checked PROVE RoomySpec => []LookupComplete
<1>1. RInv /\ CheckedInv => LookupComplete
  <2> SUFFICES ASSUME RInv, CheckedInv, pc = "idle", NEW c \in Cell, cell[c] # Empty
               PROVE  FindAt(cell[c].key, LayerOf[c[1]], c)
    BY DEF LookupComplete
  <2> DEFINE l == LayerOf[c[1]]
             k == cell[c].key
  <2>1. l \in InUse /\ l \in Layer /\ k \in Key /\ InUse \subseteq Layer
    BY Facts, PairNotEmpty DEF RInv, Placement
  <2>2. c \in HomeCells(Home1[l][k], Home2[l][k]) /\ KeyAt(cell, c, k)
    BY DEF RInv, Placement, KeyAt
  <2>3. ASSUME NEW d \in Cell, KeyAt(cell, d, k) PROVE d = c
    BY <2>3 DEF CheckedInv, UniqueKeys, KeyAt
  <2>4. SubFoundAt(l, k, c) /\ SubFound(l, k)
    <3>1. \A d \in HomeCells(Home1[l][k], Home2[l][k]) : KeyAt(cell, d, k) => d = c
      BY <2>1, <2>3, Homes
    <3> QED
      BY <2>1, <2>2, <3>1, Homes, OnlyOneIsFound DEF SubFoundAt, SubFound
  <2>5. FilterLookup(l, k)
    BY BooksAnswer DEF RInv, CheckedInv, FiltersAnswer
  <2>6. ASSUME NEW m \in InUse, SubFound(m, k) PROVE m = l
    <3>1. PICK n \in ScanStep : KeyAt(cell, Visit(Home1[m][k], Home2[m][k], n), k)
      BY <2>6 DEF SubFound, Found
    <3>2. /\ Visit(Home1[m][k], Home2[m][k], n) \in Cell
          /\ LayerOf[Visit(Home1[m][k], Home2[m][k], n)[1]] = m
      BY <2>1, <3>1, Homes, VisitIsHome
    <3> QED
      BY <2>3, <3>1, <3>2
  <2>7. FirstLayer(l, k)
    <3>1. \A m \in InUse : m < l => m # l
      BY <2>1 DEF InUse
    <3> QED
      BY <2>1, <2>4, <2>5, <2>6, <3>1 DEF FirstLayer, Answers
  <2> QED
    BY <2>4, <2>7 DEF FindAt
<1> QED
  BY <1>1, CheckedInvariant, RoomyInvariant, PTL

-----------------------------------------------------------------------------
(* The cascade is a unique map.  The pairs it has, in a slot or in hand.   *)
Stored == {p \in Pair : (\E c \in Cell : cell[c] = p) \/ (HandOut /\ Hand = p)}

Inserting(k) == pc # "idle" /\ ~ins.track /\ ins.orig = k

(* While innerInsert is under way, the pair it was called for is stored or *)
(* in hand, and in hand as long as the Finding of its lookup is not set.   *)
OrigHeld == pc # "idle" => \E p \in Stored : p.key = ins.orig
Unplaced == pc # "idle" /\ ins.track /\ find.at = NoCell => HandOut /\ Hand.key = ins.orig

ValueIn(T, out, h, k) ==
  IF \E c \in Cell : KeyAt(T, c, k) THEN T[CHOOSE c \in Cell : KeyAt(T, c, k)].value
  ELSE IF out /\ h.key = k THEN h.value ELSE NoValue

LEMMA ValueInIs ==
  ASSUME NEW T, NEW out, NEW h, NEW k,
         \A c, d \in Cell : T[c] # Empty /\ T[d] # Empty /\ T[c].key = T[d].key => c = d,
         out => \A c \in Cell : ~KeyAt(T, c, h.key)
  PROVE  /\ \A c \in Cell : KeyAt(T, c, k) => ValueIn(T, out, h, k) = T[c].value
         /\ out /\ h.key = k => ValueIn(T, out, h, k) = h.value
         /\ (\A c \in Cell : ~KeyAt(T, c, k)) /\ ~(out /\ h.key = k)
              => ValueIn(T, out, h, k) = NoValue
<1>1. ASSUME NEW c \in Cell, KeyAt(T, c, k) PROVE ValueIn(T, out, h, k) = T[c].value
  <2> DEFINE d == CHOOSE e \in Cell : KeyAt(T, e, k)
  <2>1. d \in Cell /\ KeyAt(T, d, k)
    BY <1>1
  <2>2. d = c
    BY <1>1, <2>1 DEF KeyAt
  <2> QED
    BY <1>1, <2>2 DEF ValueIn
<1> QED
  BY <1>1 DEF ValueIn

(* The value of a key is that of its pair.                                 *)
LEMMA ValueNow ==
  ASSUME TInv, UniqueKeys, NEW k
  PROVE  /\ Inserting(k) => ValueOf(k) = NoValue
         /\ ~Inserting(k) => /\ \A p \in Stored : p.key = k => ValueOf(k) = p.value
                             /\ (\A p \in Stored : p.key # k) => ValueOf(k) = NoValue
<1>1. ValueOf(k) = IF Inserting(k) THEN NoValue ELSE ValueIn(cell, HandOut, Hand, k)
  BY DEF ValueOf, Inserting, ValueIn
<1>2. /\ \A c \in Cell : KeyAt(cell, c, k) => ValueIn(cell, HandOut, Hand, k) = cell[c].value
      /\ HandOut /\ Hand.key = k => ValueIn(cell, HandOut, Hand, k) = Hand.value
      /\ (\A c \in Cell : ~KeyAt(cell, c, k)) /\ ~(HandOut /\ Hand.key = k)
           => ValueIn(cell, HandOut, Hand, k) = NoValue
  BY ValueInIs DEF UniqueKeys
<1>3. \A c \in Cell : cell[c] # Empty => cell[c] \in Pair
  BY Facts
<1>4. HandOut => Hand \in Pair
  BY HandFacts
<1>5. \A p \in Pair : p # Empty
  BY PairNotEmpty
<1>6. ASSUME NEW p \in Stored, p.key = k
      PROVE  ValueIn(cell, HandOut, Hand, k) = p.value
  BY <1>2, <1>5, <1>6 DEF Stored, KeyAt
<1>7. ASSUME \A p \in Stored : p.key # k
      PROVE  ValueIn(cell, HandOut, Hand, k) = NoValue
  BY <1>2, <1>3, <1>4, <1>7 DEF Stored, KeyAt
<1> QED
  BY <1>1, <1>6, <1>7

LEMMA ValueNext ==
  ASSUME TInv', UniqueKeys', NEW k
  PROVE  /\ Inserting(k)' => ValueOf(k)' = NoValue
         /\ ~Inserting(k)' => /\ \A p \in Stored' : p.key = k => ValueOf(k)' = p.value
                              /\ (\A p \in Stored' : p.key # k) => ValueOf(k)' = NoValue
<1> DEFINE V == ValueIn(cell', HandOut', Hand', k)
<1>1. ValueOf(k)' = IF Inserting(k)' THEN NoValue ELSE V
  BY DEF ValueOf, Inserting, ValueIn, KeyAt
<1>2. /\ \A c, d \in Cell : cell'[c] # Empty /\ cell'[d] # Empty
                              /\ cell'[c].key = cell'[d].key => c = d
      /\ HandOut' => \A c \in Cell : ~KeyAt(cell', c, Hand'.key)
  BY DEF UniqueKeys, KeyAt
<1>3. /\ \A c \in Cell : KeyAt(cell', c, k) => V = cell'[c].value
      /\ HandOut' /\ Hand'.key = k => V = Hand'.value
      /\ (\A c \in Cell : ~KeyAt(cell', c, k)) /\ ~(HandOut' /\ Hand'.key = k) => V = NoValue
  BY <1>2, ValueInIs
<1>4. \A c \in Cell : cell'[c] # Empty => cell'[c] \in Pair
  BY DEF TInv, Typed, Table
<1>5. HandOut' => Hand' \in Pair
  BY DEF TInv, InFlight, HandOut, Hand
<1>6. \A p \in Pair : p # Empty
  BY PairNotEmpty
<1> HIDE DEF V
<1>7. ASSUME NEW p \in Stored', p.key = k PROVE V = p.value
  BY <1>3, <1>6, <1>7 DEF Stored, KeyAt
<1>8. ASSUME \A p \in Stored' : p.key # k PROVE V = NoValue
  BY <1>3, <1>4, <1>5, <1>8 DEF Stored, KeyAt
<1> QED
  BY <1>1, <1>7, <1>8

(* innerInsert loses no pair and makes none.                               *)
LEMMA StoredInner ==
  ASSUME RInv, Roomy, UniqueKeys, ~AllocMayFail, InnerInsert
  PROVE  Stored' = Stored
<1> USE DEF Stored
<1>1. CASE Rests
  BY <1>1 DEF Rests, Hand
<1>2. ASSUME NEW l \in Layer, NEW c \in Cell, Fills(l, c) PROVE Stored' = Stored
  <2>1. /\ cell'[c] = Hand /\ \A d \in Cell : d # c => cell'[d] = cell[d]
        /\ HandOut /\ ~HandOut' /\ cell[c] = Empty
    BY <1>2, StoresStep DEF RInv, Fills
  <2>2. \A p \in Pair : (\E d \in Cell : cell'[d] = p) <=> Hand = p \/ \E d \in Cell : cell[d] = p
    BY <2>1, PairNotEmpty
  <2> QED
    BY <2>1, <2>2
<1>3. ASSUME NEW l \in Layer, NEW c \in Cell, Swaps(l, c) PROVE Stored' = Stored
  <2>1. /\ cell'[c] = Hand /\ \A d \in Cell : d # c => cell'[d] = cell[d]
        /\ HandOut /\ HandOut' /\ Hand' = cell[c]
    BY <1>3, StoresStep DEF RInv, Swaps, Hand
  <2>2. \A p \in Pair : (\E d \in Cell : cell'[d] = p) \/ cell[c] = p
                           <=> Hand = p \/ \E d \in Cell : cell[d] = p
    BY <2>1
  <2> QED
    BY <2>1, <2>2
<1>4. ASSUME GivesUp PROVE FALSE
  <2>1. ~RoundPresent
    BY DEF RoundPresent, SubPresentAt, PresentAt, UniqueKeys, HandOut
  <2>2. HandOut /\ ~HandOut' /\ UNCHANGED cell
    BY <1>4 DEF GivesUp
  <2>3. ~RoundFits /\ ~Settled /\ ~Grow
    <3>1. ASSUME RoundFits PROVE FALSE
      <4>1. /\ Hand.key \in Key /\ ins.layer \in Layer /\ Hand # Empty
        BY <3>1, InnerFacts DEF RoundFits, RInv
      <4>2. PICK c \in Cell : SubFitsAt(ins.layer, Hand.key, c) /\ cell' = Put(cell, c, Hand)
        BY <3>1 DEF RoundFits
      <4>3. cell[c] = Empty /\ cell'[c] = Hand
        BY <4>1, <4>2, <2>2, FitsStep, PutStep, HandFacts DEF RInv
      <4> QED
        BY <2>2, <4>1, <4>3
    <3>2. ~Settled
      BY <2>2 DEF Settled, HandOut
    <3>3. ASSUME Grow PROVE FALSE
      <4>1. nrUsed \in Int /\ nrUsed' = nrUsed + 1 /\ nrUsed' = nrUsed
        BY <1>4, <3>3 DEF Grow, GivesUp, RInv, TInv, Typed
      <4> QED
        BY <4>1
    <3> QED
      BY <3>1, <3>2, <3>3
  <2>4. ~RoundKicks /\ ~ExpungeRandom /\ ~ExpungeFails /\ ~Expunged /\ ~FilterRefuses
    BY <2>2 DEF RoundKicks, ExpungeRandom, ExpungeFails, Expunged, FilterRefuses, HandOut
  <2>5. ~GrowFails
    BY DEF GrowFails
  <2> QED
    BY <2>1, <2>3, <2>4, <2>5 DEF InnerInsert
<1> QED
  BY <1>1, <1>2, <1>3, <1>4, InnerEffect DEF Carries

(* It goes on with the same call, or returns from it.                      *)
LEMMA SameCall ==
  ASSUME RInv, Roomy, UniqueKeys, ~AllocMayFail, InnerInsert
  PROVE  /\ pc # "idle"
         /\ \/ /\ pc' # "idle" /\ ret' = ret
               /\ ins'.orig = ins.orig /\ ins'.track = ins.track
            \/ /\ Settled \/ Grow
               /\ pc' = "idle"
<1>1. pc # "idle" => ins \in InsType
  BY DEF RInv, TInv, Typed
<1>2. ~RoundPresent /\ ~GrowFails /\ ~ExpungeRandom /\ ~ExpungeFails
  BY DEF RoundPresent, SubPresentAt, PresentAt, UniqueKeys, HandOut, GrowFails, ExpungeRandom,
         ExpungeFails, Roomy
<1>3. CASE RoundFits \/ RoundKicks \/ Expunged \/ FilterRefuses
  <2>1. pc # "idle" /\ pc' # "idle" /\ ret' = ret
    BY <1>3 DEF RoundFits, RoundKicks, Expunged, FilterRefuses
  <2>2. ins'.orig = ins.orig /\ ins'.track = ins.track
    BY <1>1, <1>3, <2>1 DEF RoundFits, RoundKicks, Expunged, FilterRefuses, InsType
  <2> QED
    BY <2>1, <2>2
<1>4. CASE Settled \/ Grow
  BY <1>4 DEF Settled, Grow, Return
<1> QED
  BY <1>2, <1>3, <1>4 DEF InnerInsert

OInv == OrigHeld /\ Unplaced

LEMMA OrigCall ==
  ASSUME RInv, OInv,
         \/ \E k \in Key : LookupMiss(k) \/ LookupHit(k) \/ LookupMove(k)
                             \/ RemoveMiss(k) \/ RemoveHit(k)
         \/ \E p \in Pair : Insert(p)
         \/ \E v \in Value : WriteValue(v)
         \/ RemoveFound
  PROVE  OInv'
<1>1. CASE pc' = "idle"
  BY <1>1 DEF OInv, OrigHeld, Unplaced
<1>2. ASSUME NEW p \in Pair, Insert(p) PROVE OInv'
  <2>1. HandOut' /\ Hand' = p /\ ins'.orig = p.key /\ ~ins'.track
    BY <1>2 DEF Insert, Start, HandOut, Hand
  <2> QED
    BY <2>1 DEF OInv, OrigHeld, Unplaced, Stored
<1>3. ASSUME NEW k \in Key, LookupMove(k) PROVE OInv'
  <2>1. PICK l \in InUse, c \in Cell :
             FindAt(k, l, c) /\ InnerRemove(l, c) /\ ins' = Start(cell[c], TRUE, l - 1, MoveRounds)
    BY <1>3 DEF LookupMove
  <2>2. cell[c] \in Pair
    BY <2>1, Facts, FindStep DEF RInv, FindAt
  <2>3. HandOut' /\ Hand' = cell[c] /\ ins'.orig = cell[c].key
    BY <1>3, <2>1 DEF LookupMove, Start, HandOut, Hand
  <2> QED
    BY <2>2, <2>3 DEF OInv, OrigHeld, Unplaced, Stored
<1> QED
  BY <1>1, <1>2, <1>3 DEF LookupMiss, LookupHit, RemoveMiss, RemoveHit, WriteValue, RemoveFound

(* A pair that is placed has a slot the Finding can point to.              *)
LEMMA PlacedFinding ==
  ASSUME RInv, Unplaced, InnerInsert, Roomy, UniqueKeys, ~AllocMayFail,
         ins.track, find'.at = NoCell
  PROVE  pc' # "idle" /\ HandOut' /\ ins'.hand.key = ins.orig
<1>1. ins \in InsType /\ find \in FindType /\ NoCell \notin Cell /\ pc # "idle"
  BY SameCall, Facts DEF RInv, TInv, Typed
<1>2. ~RoundPresent /\ ~GrowFails /\ ~ExpungeRandom /\ ~ExpungeFails
  BY DEF RoundPresent, SubPresentAt, PresentAt, UniqueKeys, HandOut, GrowFails, ExpungeRandom,
         ExpungeFails, Roomy
<1>3. ASSUME NEW c \in Cell, NEW l, PointTo(c, l) PROVE FALSE
  <2>1. CASE Track
    BY <1>1, <1>3, <2>1 DEF PointTo
  <2>2. CASE ~Track
    <3>1. find.at = NoCell
      BY <1>3, <2>2 DEF PointTo
    <3> QED
      BY <1>1, <2>2, <3>1 DEF Unplaced, Track
  <2> QED
    BY <2>1, <2>2
<1>4. ~RoundFits
  BY <1>3 DEF RoundFits
<1>5. ~RoundKicks
  <2>1. ASSUME RoundKicks PROVE FALSE
    <3>1. Hand.key \in Key /\ ins.layer \in Layer
      BY <2>1, InnerFacts DEF RoundKicks, RInv
    <3> QED
      BY <1>3, <2>1, <3>1, Homes DEF RoundKicks
  <2> QED
    BY <2>1
<1>6. ~Grow
  <2>1. ASSUME Grow PROVE FALSE
    <3>1. Hand.key \in Key /\ ins.last = 1 /\ nLayers \in Layer
      BY <2>1, InnerFacts, CascadeAssumption DEF Grow, RInv, LastOne, HandOut, Layer, TInv, Typed
    <3>2. <<Home1[nLayers][Hand.key], 0>> \in Cell
      BY <3>1, Homes, TableAssumption DEF Cell, Slot
    <3> QED
      BY <1>3, <2>1, <3>1, <3>2 DEF Grow
  <2> QED
    BY <2>1
<1>7. ~Settled
  BY <1>1 DEF Settled, Unplaced, HandOut
<1>8. CASE Expunged \/ FilterRefuses
  BY <1>1, <1>8 DEF Expunged, FilterRefuses, Unplaced, HandOut, InsType, Hand
<1> QED
  BY <1>2, <1>4, <1>5, <1>6, <1>7, <1>8 DEF InnerInsert

LEMMA OrigInner ==
  ASSUME RInv, Roomy, UniqueKeys, ~AllocMayFail, OInv, InnerInsert
  PROVE  OInv'
<1>1. OrigHeld'
  BY StoredInner, SameCall DEF OInv, OrigHeld
<1>2. Unplaced'
  BY SameCall, PlacedFinding DEF OInv, Unplaced, Hand
<1> QED
  BY <1>1, <1>2 DEF OInv

Dict == [k \in Key |-> ValueOf(k)]

(* What the map is like before and after a step of a client that checks.   *)
Before == /\ RInv /\ Roomy /\ CheckedInv /\ OInv /\ ~AllocMayFail
          /\ TInv' /\ UniqueKeys' /\ FindingPoints'

LEMMA SameDict ==
  ASSUME Before, Stored' = Stored, \A k \in Key : Inserting(k)' <=> Inserting(k)
  PROVE  Dict' = Dict
<1> SUFFICES ASSUME NEW k \in Key PROVE ValueOf(k)' = ValueOf(k)
  BY DEF Dict
<1> QED
  BY ValueNow, ValueNext DEF Before, RInv, CheckedInv

LEMMA IdleDict ==
  ASSUME Before, pc = "idle", NEW k \in Key
  PROVE  /\ \A c \in Cell : KeyAt(cell, c, k) => Dict[k] = cell[c].value
         /\ (\A c \in Cell : ~KeyAt(cell, c, k)) => Dict[k] = NoValue
<1>1. ~Inserting(k) /\ ~HandOut /\ Dict[k] = ValueOf(k)
  BY DEF Inserting, HandOut, Dict
<1>2. \A c \in Cell : cell[c] # Empty => cell[c] \in Pair
  BY Facts DEF Before, RInv
<1>3. \A c \in Cell : KeyAt(cell, c, k) => cell[c] \in Stored
  BY <1>2 DEF KeyAt, Stored
<1>4. \A p \in Stored : \E c \in Cell : p = cell[c] /\ cell[c] # Empty
  BY <1>1, PairNotEmpty DEF Stored
<1> QED
  BY <1>1, <1>3, <1>4, ValueNow DEF Before, RInv, CheckedInv, KeyAt

LEMMA HeldValue ==
  ASSUME Before, NEW c \in Cell, cell[c] # Empty
  PROVE  cell[c].key \in Key /\ cell[c].value \in Value /\ cell[c].value # NoValue
BY Facts, PairNotEmpty, CascadeAssumption DEF Before, RInv

(* A removal takes the pair of one key out of the map.                     *)
LEMMA RemoveDict ==
  ASSUME Before, pc = "idle", pc' = "idle", NEW c \in Cell, cell[c] # Empty,
         cell' = Put(cell, c, Empty)
  PROVE  /\ Dict' = [Dict EXCEPT ![cell[c].key] = NoValue]
         /\ Dict[cell[c].key] # NoValue
<1>1. /\ cell'[c] = Empty /\ \A d \in Cell : d # c => cell'[d] = cell[d]
  BY Facts, PutIs DEF Before, RInv
<1>2. cell[c].key \in Key /\ Dict[cell[c].key] = cell[c].value /\ cell[c].value # NoValue
  BY HeldValue, IdleDict DEF KeyAt
<1>3. \A d \in Cell : cell[d] # Empty /\ cell[d].key = cell[c].key => d = c
  BY DEF Before, CheckedInv, UniqueKeys
<1>4. ~HandOut /\ ~HandOut'
  BY DEF HandOut
<1>5. /\ \A p \in Stored' : p \in Stored /\ p.key # cell[c].key
      /\ \A p \in Stored : p.key # cell[c].key => p \in Stored'
  BY <1>1, <1>3, <1>4, PairNotEmpty DEF Stored
<1>6. ASSUME NEW k \in Key
      PROVE  ValueOf(k)' = IF k = cell[c].key THEN NoValue ELSE ValueOf(k)
  <2>1. ~Inserting(k) /\ ~Inserting(k)'
    BY DEF Inserting
  <2> QED
    BY <1>5, <2>1, ValueNow, ValueNext DEF Before, RInv, CheckedInv
<1>7. Dict' = [Dict EXCEPT ![cell[c].key] = NoValue]
  BY <1>2, <1>6 DEF Dict
<1> QED
  BY <1>2, <1>7

(* The calls of the client.                                                *)
LEMMA MapCall ==
  ASSUME Before, Checked,
         \/ \E k \in Key : LookupMiss(k) \/ LookupHit(k) \/ LookupMove(k)
                             \/ RemoveMiss(k) \/ RemoveHit(k)
         \/ \E p \in Pair : Insert(p)
         \/ \E v \in Value : WriteValue(v)
         \/ RemoveFound
  PROVE  [Abstract!Next]_(Abstract!umVars)
<1> USE DEF Abstract!umVars
<1>1. ASSUME NEW k \in Key, LookupMiss(k) \/ RemoveMiss(k) PROVE Abstract!Next
  <2>1. pc = "idle" /\ ~Visible(k) /\ UNCHANGED <<cell, pc, ins>>
    BY <1>1 DEF LookupMiss, RemoveMiss, tables
  <2>2. \A c \in Cell : ~KeyAt(cell, c, k)
    BY <2>1, NotVisible, BooksAnswer DEF Before, RInv, CheckedInv
  <2>3. Dict[k] = NoValue
    BY <2>1, <2>2, IdleDict
  <2>4. Dict' = Dict
    BY <2>1, SameDict DEF Stored, Inserting, HandOut, Hand
  <2>5. CASE LookupMiss(k)
    <3>1. Abstract!Lookup(k)
      BY <2>3, <2>4, <2>5 DEF LookupMiss, Dict, Answer, Abstract!Lookup, Abstract!Answer
    <3> QED
      BY <3>1 DEF Abstract!Next
  <2>6. CASE RemoveMiss(k)
    <3>1. Dict' = [Dict EXCEPT ![k] = NoValue]
      BY <2>3, <2>4 DEF Dict
    <3>2. Abstract!Remove(k)
      BY <2>3, <2>6, <3>1 DEF RemoveMiss, Dict, Answer, Abstract!Remove, Abstract!Answer
    <3> QED
      BY <3>2 DEF Abstract!Next
  <2> QED
    BY <1>1, <2>5, <2>6
<1>2. ASSUME NEW k \in Key, LookupHit(k) PROVE Abstract!Next
  <2>1. PICK l \in InUse, c \in Cell : FindAt(k, l, c) /\ ret' = Answer("lookup", k, cell[c].value)
    BY <1>2 DEF LookupHit
  <2>2. KeyAt(cell, c, k)
    BY <2>1, Facts, FindStep DEF Before, RInv, FindAt, KeyAt
  <2>3. Dict[k] = cell[c].value
    BY <1>2, <2>2, IdleDict DEF LookupHit
  <2>4. Dict' = Dict
    BY <1>2, SameDict DEF LookupHit, tables, Stored, Inserting, HandOut, Hand
  <2>5. Abstract!Lookup(k)
    BY <2>1, <2>3, <2>4 DEF Dict, Answer, Abstract!Lookup, Abstract!Answer
  <2> QED
    BY <2>5 DEF Abstract!Next
<1>3. ASSUME NEW k \in Key, LookupMove(k) PROVE UNCHANGED Abstract!umVars
  <2>1. PICK l \in InUse, c \in Cell :
             FindAt(k, l, c) /\ InnerRemove(l, c) /\ ins' = Start(cell[c], TRUE, l - 1, MoveRounds)
    BY <1>3 DEF LookupMove
  <2>2. cell[c] \in Pair
    BY <2>1, Facts, FindStep DEF Before, RInv, FindAt
  <2>3. /\ cell'[c] = Empty /\ \A d \in Cell : d # c => cell'[d] = cell[d]
        /\ ~HandOut /\ HandOut' /\ Hand' = cell[c]
    BY <1>3, <2>1, <2>2, Facts, PutIs
    DEF LookupMove, InnerRemove, Start, HandOut, Hand, Before, RInv
  <2>4. Stored' = Stored
    <3>1. \A p \in Pair : p # Empty
      BY PairNotEmpty
    <3> QED
      BY <2>2, <2>3, <3>1 DEF Stored
  <2>5. Dict' = Dict
    BY <1>3, <2>1, <2>4, SameDict DEF LookupMove, Start, Inserting
  <2> QED
    BY <1>3, <2>5 DEF LookupMove, Dict
<1>4. ASSUME NEW k \in Key, RemoveHit(k) PROVE Abstract!Next
  <2>1. PICK l \in InUse, c \in Cell : FindAt(k, l, c) /\ InnerRemove(l, c)
    BY <1>4 DEF RemoveHit
  <2>2. cell[c] # Empty /\ cell[c].key = k
    BY <2>1, Facts, FindStep DEF Before, RInv, FindAt
  <2>3. Dict' = [Dict EXCEPT ![k] = NoValue] /\ Dict[k] # NoValue
    BY <1>4, <2>1, <2>2, RemoveDict DEF RemoveHit, InnerRemove
  <2>4. Abstract!Remove(k)
    BY <1>4, <2>3 DEF RemoveHit, Dict, Answer, Abstract!Remove, Abstract!Answer
  <2> QED
    BY <2>4 DEF Abstract!Next
<1>5. ASSUME RemoveFound PROVE Abstract!Next
  <2> DEFINE k == cell[find.at].key
  <2>1. find.at \in Cell /\ cell[find.at] # Empty
    BY <1>5, Facts DEF RemoveFound, Before, RInv, TInv, FindUsed
  <2>2. k \in Key
    BY <2>1, HeldValue
  <2>3. Dict' = [Dict EXCEPT ![k] = NoValue] /\ Dict[k] # NoValue
    BY <1>5, <2>1, RemoveDict DEF RemoveFound, InnerRemove
  <2>4. Abstract!Remove(k)
    BY <1>5, <2>3 DEF RemoveFound, Dict, Answer, Abstract!Remove, Abstract!Answer
  <2> QED
    BY <2>2, <2>4 DEF Abstract!Next
<1>6. ASSUME NEW p \in Pair, Insert(p) PROVE UNCHANGED Abstract!umVars
  <2>1. /\ pc = "idle" /\ cell' = cell /\ ~HandOut /\ HandOut' /\ Hand' = p /\ p.key \in Key
        /\ pc' # "idle" /\ ins'.orig = p.key /\ ~ins'.track /\ ~Visible(p.key)
    BY <1>6, PairNotEmpty DEF Insert, tables, Start, HandOut, Hand
  <2>2. \A c \in Cell : ~KeyAt(cell, c, p.key)
    BY <2>1, NotVisible, BooksAnswer DEF Before, RInv, CheckedInv
  <2>3. Dict[p.key] = NoValue
    BY <2>1, <2>2, IdleDict
  <2>4. ASSUME NEW k \in Key PROVE ValueOf(k)' = ValueOf(k)
    <3>1. CASE k = p.key
      <4>1. Inserting(k)'
        BY <2>1, <3>1 DEF Inserting
      <4> QED
        BY <2>1, <2>3, <3>1, <4>1, ValueNext DEF Before, Dict
    <3>2. CASE k # p.key
      <4>1. ~Inserting(k) /\ ~Inserting(k)'
        BY <2>1, <3>2 DEF Inserting
      <4>2. \A q \in Pair : q.key = k => (q \in Stored' <=> q \in Stored)
        BY <2>1, <3>2 DEF Stored
      <4>3. Stored \subseteq Pair /\ Stored' \subseteq Pair
        BY DEF Stored
      <4> QED
        BY <4>1, <4>2, <4>3, ValueNow, ValueNext DEF Before, RInv, CheckedInv
    <3> QED
      BY <3>1, <3>2
  <2> QED
    BY <1>6, <2>4 DEF Insert, Dict
<1>7. ASSUME NEW v \in Value, WriteValue(v) PROVE Abstract!Next
  <2> DEFINE c == find.at
             k == cell[c].key
  <2>1. c \in Cell /\ cell[c] # Empty /\ cell[c] \in Pair /\ cell \in Table
    BY <1>7, Facts DEF WriteValue, Before, RInv, TInv, FindUsed
  <2>2. /\ cell'[c] = [cell[c] EXCEPT !.value = v]
        /\ \A d \in Cell : d # c => cell'[d] = cell[d]
        /\ pc = "idle" /\ pc' = "idle" /\ ~HandOut /\ ~HandOut'
    BY <1>7, <2>1 DEF WriteValue, Table, HandOut
  <2>3. cell'[c] \in Pair /\ cell'[c].key = k /\ cell'[c].value = v
    BY <2>1, <2>2 DEF Pair
  <2>4. k \in Key /\ Dict[k] = cell[c].value /\ cell[c].value # NoValue
    BY <2>1, <2>2, HeldValue, IdleDict DEF KeyAt
  <2>5. cell'[c] \in Stored'
    BY <2>1, <2>3 DEF Stored
  <2>6. \A q \in Pair : q.key # k => (q \in Stored' <=> q \in Stored)
    BY <2>1, <2>2, <2>3 DEF Stored
  <2>7. ASSUME NEW j \in Key PROVE ValueOf(j)' = IF j = k THEN v ELSE ValueOf(j)
    <3>1. ~Inserting(j) /\ ~Inserting(j)' /\ Stored \subseteq Pair /\ Stored' \subseteq Pair
      BY <2>2 DEF Inserting, Stored
    <3> QED
      BY <2>3, <2>5, <2>6, <3>1, ValueNow, ValueNext DEF Before, RInv, CheckedInv
  <2>8. Dict' = [Dict EXCEPT ![k] = v]
    BY <2>4, <2>7 DEF Dict
  <2>9. Abstract!Write(k, v)
    BY <1>7, <2>4, <2>8 DEF WriteValue, Dict, Abstract!Write
  <2> QED
    BY <2>4, <2>9 DEF Abstract!Next
<1> QED
  BY <1>1, <1>2, <1>3, <1>4, <1>5, <1>6, <1>7

(* innerInsert stutters until it returns: then the pair of an insert is in *)
(* the map, and a lookup that moved its pair answers its value.            *)
LEMMA MapInner ==
  ASSUME Before, InnerInsert
  PROVE  [Abstract!Next]_(Abstract!umVars)
<1> USE DEF Abstract!umVars
<1>1. /\ Stored' = Stored /\ pc # "idle"
      /\ \/ /\ pc' # "idle" /\ ret' = ret
            /\ ins'.orig = ins.orig /\ ins'.track = ins.track
         \/ /\ Settled \/ Grow
            /\ pc' = "idle"
  BY StoredInner, SameCall DEF Before, CheckedInv
<1>2. CASE pc' # "idle"
  <2>1. Dict' = Dict
    BY <1>1, <1>2, SameDict DEF Inserting
  <2> QED
    BY <1>1, <1>2, <2>1 DEF Dict
<1>3. CASE pc' = "idle" /\ (Settled \/ Grow)
  <2>0. PICK k \in Key : k = ins.orig
    BY <1>1 DEF Before, RInv, TInv, InFlight
  <2>1. k \in Key /\ \A j \in Key : ~Inserting(j)'
    BY <1>3 DEF Inserting
  <2>2. PICK p \in Stored : p.key = k
    BY <1>1, <2>0 DEF Before, OInv, OrigHeld
  <2>3. p \in Pair /\ p.value \in Value /\ p.value # NoValue
    BY PairNotEmpty, CascadeAssumption DEF Stored
  <2>4. ValueOf(k)' = p.value
    BY <1>1, <2>1, <2>2, ValueNext DEF Before
  <2>5. ASSUME ins.track PROVE Abstract!Next
    <3>1. Dict' = Dict
      BY <1>1, <2>1, <2>5, SameDict DEF Inserting
    <3>2. find'.at # NoCell
      BY <1>3, <2>5, PlacedFinding DEF Before, OInv, CheckedInv
    <3>3. ret' = Answer("lookup", k, cell'[find'.at].value)
      BY <1>3, <2>0, <2>5, <3>2 DEF Settled, Grow, Return, tables
    <3>4. KeyAt(cell', find'.at, k)
      BY <1>3, <3>2, <3>3 DEF Before, FindingPoints, Answer, KeyAt
    <3>5. find'.at \in Cell /\ cell'[find'.at] \in Pair
      BY <3>2, <3>4 DEF Before, TInv, Typed, FindType, Table, KeyAt
    <3>6. cell'[find'.at] \in Stored'
      BY <3>5 DEF Stored
    <3>7. ValueOf(k)' = cell'[find'.at].value
      BY <2>1, <3>4, <3>6, ValueNext DEF Before, KeyAt
    <3>8. Dict[k] = ValueOf(k)'
      BY <2>1, <3>1 DEF Dict
    <3>9. Abstract!Lookup(k)
      BY <3>1, <3>3, <3>7, <3>8 DEF Dict, Answer, Abstract!Lookup, Abstract!Answer
    <3> QED
      BY <2>1, <3>9 DEF Abstract!Next
  <2>6. ASSUME ~ins.track PROVE Abstract!Next
    <3>1. Inserting(k) /\ \A j \in Key : j # k => ~Inserting(j)
      BY <1>1, <2>0, <2>6 DEF Inserting
    <3>2. Dict[k] = NoValue
      BY <2>1, <3>1, ValueNow DEF Before, RInv, CheckedInv, Dict
    <3>3. \A j \in Key : ValueOf(j)' = IF j = k THEN p.value ELSE ValueOf(j)
      BY <1>1, <2>1, <2>4, <3>1, ValueNow, ValueNext DEF Before, RInv, CheckedInv
    <3>4. Dict' = [Dict EXCEPT ![k] = p.value]
      BY <2>1, <3>3 DEF Dict
    <3>5. ret' = Answer("insert", k, TRUE)
      BY <1>3, <2>0, <2>6 DEF Settled, Grow, Return
    <3>6. Abstract!InsertNew(k, p.value)
      BY <3>2, <3>4, <3>5 DEF Dict, Answer, Abstract!InsertNew, Abstract!Answer
    <3> QED
      BY <2>1, <2>3, <3>6 DEF Abstract!Next
  <2> QED
    BY <2>5, <2>6
<1> QED
  BY <1>1, <1>2, <1>3

(* The cascade is a map with unique keys: no filter, kick, new layer, move *)
(* to the front or removal through a Finding shows, and each call that     *)
(* returns has done what the map promises.  The client looks a key up      *)
(* before it inserts it, and memory can be had.                            *)
THEOREM MapTheorem ==
  ASSUME Checked, ~AllocMayFail PROVE RoomySpec => ImplementsMap
<1>1. Init => Abstract!Init /\ OInv
  <2> SUFFICES ASSUME Init PROVE Abstract!Init /\ OInv
    OBVIOUS
  <2>1. \A k \in Key : ValueOf(k) = NoValue
    BY DEF Init, ValueOf, KeyAt, HandOut
  <2>2. Abstract!Init
    BY <2>1 DEF Init, Answer, Abstract!Init, Abstract!Answer
  <2> QED
    BY <2>2 DEF Init, OInv, OrigHeld, Unplaced
<1>2. RInv /\ Roomy /\ CheckedInv /\ OInv /\ [Next]_vars => OInv'
  <2>1. RInv /\ Roomy /\ CheckedInv /\ OInv /\ Next => OInv'
    BY OrigCall, OrigInner DEF Next, CheckedInv
  <2>2. OInv /\ UNCHANGED vars => OInv'
    BY DEF vars, OInv, OrigHeld, Unplaced, Stored, HandOut, Hand
  <2> QED
    BY <2>1, <2>2
<1>3. RInv /\ Roomy /\ CheckedInv /\ OInv /\ RInv' /\ CheckedInv' /\ [Next]_vars
        => [Abstract!Next]_(Abstract!umVars)
  <2> SUFFICES ASSUME RInv, Roomy, CheckedInv, OInv, RInv', CheckedInv', [Next]_vars
               PROVE  [Abstract!Next]_(Abstract!umVars)
    OBVIOUS
  <2>1. Before
    BY DEF Before, RInv, CheckedInv
  <2>2. CASE Next
    BY <2>1, <2>2, MapCall, MapInner DEF Next
  <2>3. CASE UNCHANGED vars
    BY <2>3 DEF vars, Abstract!umVars, ValueOf, KeyAt, HandOut, Hand
  <2> QED
    BY <2>2, <2>3
<1> QED
  BY <1>1, <1>2, <1>3, RoomyInvariant, CheckedInvariant, PTL
     DEF RoomySpec, Spec, ImplementsMap, Abstract!Spec
=============================================================================
