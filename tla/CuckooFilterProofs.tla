------------------------- MODULE CuckooFilterProofs -------------------------
(***************************************************************************)
(* Theorems on the approximate set (CuckooFilter), for any keys, hashes,   *)
(* numbers of buckets and slots, and any client that removes what it has   *)
(* inserted.                                                               *)
(***************************************************************************)
EXTENDS CuckooFilter, FiniteSetTheorems, TLAPS

Slots == [Cell -> Fingerprint \cup {0}]

(* The slots of D whose content is in K.                                   *)
Holding(s, D, K) == {c \in D : s[c] \in K}

LEMMA CellFinite == IsFiniteSet(Cell)
<1>1. Size \in Int /\ SlotsPerBucket \in Int
  BY FilterAssumption
<1>2. IsFiniteSet(Bucket) /\ IsFiniteSet(Slot)
  BY <1>1, FS_Interval DEF Bucket, Slot
<1> QED
  BY <1>2, FS_Product DEF Cell

LEMMA HoldingFinite ==
  ASSUME NEW s, NEW D \in SUBSET Cell, NEW K
  PROVE  /\ IsFiniteSet(Holding(s, D, K))
         /\ Cardinality(Holding(s, D, K)) \in Nat
<1>1. IsFiniteSet(Holding(s, D, K))
  BY CellFinite, FS_Subset DEF Holding
<1> QED
  BY <1>1, FS_CardinalityType

(* Whether slot c with content x is one of them, as a number.              *)
One(D, K, c, x) == IF c \in D /\ x \in K THEN 1 ELSE 0

LEMMA OneType == \A D, K, c, x : One(D, K, c, x) \in Int
BY DEF One

(* Writing y into slot c takes away what was there and adds y.             *)
Recounts(s, t, c, y, D, K) ==
  /\ t \in Slots
  /\ Cardinality(Holding(t, D, K))
       = Cardinality(Holding(s, D, K)) - One(D, K, c, s[c]) + One(D, K, c, y)

LEMMA WriteHolding ==
  ASSUME NEW s \in Slots, NEW D \in SUBSET Cell, NEW K, NEW c \in Cell,
         NEW y \in Fingerprint \cup {0}, NEW t \in {[s EXCEPT ![c] = y]}
  PROVE  Recounts(s, t, c, y, D, K)
<1> DEFINE before == Holding(s, D, K)
           after  == Holding(t, D, K)
           others == before \ {c}
<1>1. /\ t \in Slots /\ t[c] = y
      /\ \A d \in Cell : d # c => t[d] = s[d]
  BY DEF Slots
<1>2. IsFiniteSet(before) /\ Cardinality(before) \in Nat
  BY HoldingFinite
<1>3. /\ IsFiniteSet(others)
      /\ Cardinality(others) = Cardinality(before) - One(D, K, c, s[c])
  <2>1. c \in before <=> c \in D /\ s[c] \in K
    BY DEF Holding
  <2>2. /\ IsFiniteSet(others)
        /\ Cardinality(others) = IF c \in before THEN Cardinality(before) - 1
                                                ELSE Cardinality(before)
    BY <1>2, FS_RemoveElement
  <2> HIDE DEF before, others
  <2> QED
    BY <1>2, <2>1, <2>2 DEF One
<1>4. Cardinality(after) = Cardinality(others) + One(D, K, c, y)
  <2>1. CASE c \in D /\ y \in K
    <3>1. after = others \cup {c} /\ c \notin others
      BY <1>1, <2>1 DEF Holding
    <3> QED
      BY <1>3, <2>1, <3>1, FS_AddElement DEF One
  <2>2. CASE ~(c \in D /\ y \in K)
    <3>1. after = others
      BY <1>1, <2>2 DEF Holding
    <3>2. Cardinality(others) \in Nat
      BY <1>3, FS_CardinalityType
    <3> HIDE DEF after, others
    <3> QED
      BY <2>2, <3>1, <3>2 DEF One
  <2> QED
    BY <2>1, <2>2
<1> QED
  BY <1>1, <1>3, <1>4 DEF Recounts

-----------------------------------------------------------------------------
(* The two buckets of a key or fingerprint exist, for every size.          *)
LEMMA Positions ==
  /\ \A n \in Bits : HashToPos(n) \in Bucket
  /\ \A k \in Key : Pos(k) \in Bucket /\ FpOf[k] \in Fingerprint
  /\ \A b \in Bucket, f \in Fingerprint :
       Other(b, f) \in Bucket /\ Pair(b, f) \X Slot \subseteq Cell
<1>1. /\ NiceSize \in Nat /\ Size \in Nat /\ Size <= NiceSize /\ NiceSize <= 2 * Size
      /\ KeyBits \in [Key -> Bits] /\ ShortBits \in [Fingerprint -> Bits]
      /\ FpOf \in [Key -> Fingerprint] /\ XorOf \in [Bits \X Bits -> Bits]
  BY FilterAssumption
<1>2. ASSUME NEW n \in Bits PROVE HashToPos(n) \in Bucket
  BY <1>1 DEF Bits, Bucket, HashToPos
<1>3. \A k \in Key : Pos(k) \in Bucket /\ FpOf[k] \in Fingerprint
  BY <1>1, <1>2 DEF Pos
<1>4. ASSUME NEW b \in Bucket, NEW f \in Fingerprint
      PROVE  Other(b, f) \in Bucket
  <2>1. b \in Bits /\ ShortBits[f] \in Bits
    BY <1>1 DEF Bits, Bucket
  <2>2. XorOf[<<b, ShortBits[f]>>] \in Bits
    BY <1>1, <2>1
  <2> QED
    BY <1>2, <2>2 DEF Other
<1>5. \A b \in Bucket, f \in Fingerprint : Pair(b, f) \X Slot \subseteq Cell
  BY <1>4 DEF Pair, Cell
<1> QED
  BY <1>2, <1>3, <1>4, <1>5

(* What a scan stops at is a slot of the two buckets of the key.           *)
LEMMA FirstOfStep ==
  ASSUME NEW k \in Key, NEW x, NEW c, FirstOf(k, x, c)
  PROVE  c \in Cell /\ slot[c] = x /\ c[1] \in Pair(Pos(k), FpOf[k])
<1>1. Pos(k) \in Bucket /\ Other(Pos(k), FpOf[k]) \in Bucket
  BY Positions
<1>2. PICK i \in Slot : /\ c \in {<<Pos(k), i>>, <<Other(Pos(k), FpOf[k]), i>>}
                        /\ slot[c] = x
  BY DEF FirstOf, FirstIn
<1> QED
  BY <1>1, <1>2 DEF Cell, Pair

(* Every step but the one that gives up a fingerprint is one of four:      *)
(* nothing is stored; a fingerprint goes into an empty slot; one goes out  *)
(* of its slot; the one in flight takes the place of another, which goes   *)
(* to an empty slot or is the next in flight.                              *)
KInv == /\ TypeOK
        /\ pc = "kick" => fp \in Fingerprint /\ Full(at)

LEMMA KickStep ==
  ASSUME KInv, NEW i \in Slot, Kick(i)
  PROVE  /\ pc = "kick" /\ <<at, i>> \in Cell /\ at \in Bucket
         /\ fp \in Fingerprint /\ Displaced(i) \in Fingerprint /\ Goes(i) \in Bucket
         /\ slot[<<at, i>>] = Displaced(i)
         /\ UNCHANGED members
<1>1. pc = "kick" /\ <<at, i>> \in Cell /\ slot[<<at, i>>] # 0 /\ slot \in Slots
  BY DEF Kick, KInv, TypeOK, Full, Cell, Slots
<1>2. Displaced(i) \in Fingerprint
  BY <1>1 DEF Displaced, Slots
<1> QED
  BY <1>1, <1>2, Positions DEF Displaced, Goes, KInv, TypeOK, Kick

LEMMA KickFitsStep ==
  ASSUME KInv, NEW i \in Slot, Kick(i), KickFits(i)
  PROVE  \E e \in Cell : /\ e[1] = Goes(i) /\ slot[e] = 0 /\ e # <<at, i>>
                         /\ slot' = [Kicked(i) EXCEPT ![e] = Displaced(i)]
<1>1. PICK j \in Slot : /\ FirstIn(Goes(i), 0, j)
                        /\ slot' = [Kicked(i) EXCEPT ![<<Goes(i), j>>] = Displaced(i)]
  BY DEF KickFits
<1>2. /\ <<Goes(i), j>> \in Cell /\ slot[<<Goes(i), j>>] = 0
      /\ Displaced(i) # 0 /\ slot[<<at, i>>] = Displaced(i)
  BY <1>1, KickStep, FilterAssumption DEF FirstIn, Cell
<1> QED
  BY <1>1, <1>2

LEMMA KickedIs ==
  ASSUME KInv, NEW i \in Slot, Kick(i)
  PROVE  /\ Kicked(i) \in Slots /\ Kicked(i)[<<at, i>>] = fp
         /\ \A c \in Cell : c # <<at, i>> => Kicked(i)[c] = slot[c]
         /\ \A c \in Cell : slot[c] # 0 => Kicked(i)[c] # 0
BY KickStep, FilterAssumption DEF Kicked, Slots, KInv, TypeOK

LEMMA KInvNext == ASSUME KInv, [Next]_vars PROVE KInv'
<1>1. /\ slot \in Slots /\ nrUsed \in Int /\ pc \in {"idle", "kick"} /\ at \in Bucket
      /\ fp \in Fingerprint \cup {0} /\ attempt \in 0 .. MaxRounds - 1 /\ ret \in BOOLEAN
      /\ members \in [Key -> 0 .. MaxCopies] /\ dropped \in Nat
      /\ MaxCopies \in Nat /\ MaxRounds \in Nat \ {0}
  BY FilterAssumption DEF KInv, TypeOK, Slots
<1>2. ASSUME NEW k \in Key, Calls(k) PROVE members' \in [Key -> 0 .. MaxCopies]
  BY <1>1, <1>2 DEF Calls
<1>3. ASSUME NEW k \in Key, InsertFits(k) PROVE KInv'
  <2>1. PICK c \in Cell : FirstOf(k, 0, c) /\ slot' = [slot EXCEPT ![c] = FpOf[k]]
    BY <1>3 DEF InsertFits
  <2>2. slot' \in Slots
    BY <1>1, <2>1, Positions DEF Slots
  <2> QED
    BY <1>1, <1>2, <1>3, <2>2 DEF InsertFits, Calls, KInv, TypeOK, Slots
<1>4. ASSUME NEW k \in Key, InsertCrowded(k) PROVE KInv'
  <2>1. at' \in Bucket /\ Full(at') /\ FpOf[k] \in Fingerprint
    BY <1>4, Positions DEF InsertCrowded, Pair
  <2>2. 0 \in 0 .. MaxRounds - 1
    BY <1>1
  <2> QED
    BY <1>1, <1>2, <1>4, <2>1, <2>2 DEF InsertCrowded, KInv, TypeOK, Slots, Full
<1>5. ASSUME NEW i \in Slot, Kick(i) PROVE KInv'
  <2>1. CASE KickFits(i)
    <3>1. PICK e \in Cell : slot' = [Kicked(i) EXCEPT ![e] = Displaced(i)]
      BY <1>5, <2>1, KickFitsStep
    <3>2. slot' \in Slots
      BY <1>5, <3>1, KickedIs, KickStep DEF Slots
    <3>3. members' = members
      BY <1>5, KickStep
    <3> QED
      BY <1>1, <2>1, <3>2, <3>3 DEF KickFits, KInv, TypeOK, Slots
  <2>2. CASE KickOn(i)
    <3>1. slot' = Kicked(i) /\ slot' \in Slots /\ at' \in Bucket /\ at' = Goes(i)
      BY <1>5, <2>2, KickedIs, KickStep DEF KickOn
    <3>2. Full(at)'
      <4>1. \A j \in Slot : <<Goes(i), j>> \in Cell /\ slot[<<Goes(i), j>>] # 0
        BY <1>5, <2>2, KickStep DEF KickOn, Full, Cell
      <4> QED
        BY <1>5, <3>1, <4>1, KickedIs DEF Full
    <3>3. attempt' \in 0 .. MaxRounds - 1
      BY <1>1, <2>2 DEF KickOn
    <3> QED
      BY <1>1, <1>5, <2>2, <3>1, <3>2, <3>3, KickStep DEF KickOn, KInv, TypeOK, Slots
  <2>3. CASE GiveUp(i)
    <3>1. slot' \in Slots
      BY <1>5, <2>3, KickedIs DEF GiveUp
    <3>2. members' = members
      BY <1>5, KickStep
    <3>3. /\ pc' = "idle" /\ ret' = FALSE /\ dropped' = dropped + 1
          /\ UNCHANGED <<nrUsed, at, fp, attempt>>
      BY <2>3 DEF GiveUp
    <3>4. dropped' \in Nat
      BY <1>1, <3>3
    <3>5. ret' \in BOOLEAN
      BY <3>3
    <3>6. TypeOK'
      BY <1>1, <3>1, <3>2, <3>3, <3>4, <3>5 DEF TypeOK, Slots
    <3> QED
      BY <3>3, <3>6 DEF KInv
  <2> QED
    BY <1>5, <2>1, <2>2, <2>3 DEF Kick
<1>6. ASSUME NEW k \in Key, Remove(k) PROVE KInv'
  <2>1. members' \in [Key -> 0 .. MaxCopies]
    BY <1>1, <1>6 DEF Remove
  <2>2. slot' \in Slots
    <3>1. slot' = slot \/ \E c \in Cell : slot' = [slot EXCEPT ![c] = 0]
      BY <1>6 DEF Remove
    <3> QED
      BY <1>1, <3>1 DEF Slots
  <2>3. nrUsed' \in Int /\ ret' \in BOOLEAN
    <3>1. (nrUsed' = nrUsed - 1 /\ ret' = TRUE) \/ (nrUsed' = nrUsed /\ ret' = FALSE)
      BY <1>6 DEF Remove
    <3>2. nrUsed' \in Int
      BY <1>1, <3>1
    <3>3. ret' \in BOOLEAN
      BY <3>1
    <3> QED
      BY <3>2, <3>3
  <2> QED
    BY <1>1, <1>6, <2>1, <2>2, <2>3 DEF Remove, KInv, TypeOK, Slots
<1>7. CASE UNCHANGED vars
  BY <1>7 DEF vars, KInv, TypeOK, Full
<1> QED
  BY <1>3, <1>4, <1>5, <1>6, <1>7 DEF Next, AnyKick

(* KInv is inductive.                                                      *)
THEOREM KickInvariant == Spec => []KInv
<1>1. Init => KInv
  <2> SUFFICES ASSUME Init PROVE KInv
    OBVIOUS
  <2>1. 0 \in Bucket /\ 0 \in 0 .. MaxRounds - 1 /\ nrUsed \in Int /\ 0 \in 0 .. MaxCopies
    BY FilterAssumption DEF Init, Bucket
  <2> QED
    BY <2>1 DEF Init, KInv, TypeOK
<1>2. KInv /\ [Next]_vars => KInv'
  BY KInvNext
<1> QED
  BY <1>1, <1>2, PTL DEF Spec

(* The fingerprints, the bucket and the fingerprint in flight keep their   *)
(* types, whatever the size of the table: hashToPos stays in range.        *)
THEOREM TypeTheorem == Spec => []TypeOK
<1>1. KInv => TypeOK
  BY DEF KInv
<1> QED
  BY <1>1, KickInvariant, PTL

-----------------------------------------------------------------------------
(* What a step does to the slots of D with a content in K.                 *)
Count(D, K) == Cardinality(Holding(slot, D, K))

LEMMA WriteCounts ==
  ASSUME KInv, NEW D \in SUBSET Cell, NEW K, NEW c \in Cell, NEW y \in Fingerprint \cup {0},
         slot' = [slot EXCEPT ![c] = y]
  PROVE  /\ Count(D, K) \in Nat
         /\ Cardinality(Holding(slot', D, K))
              = Count(D, K) - One(D, K, c, slot[c]) + One(D, K, c, y)
<1>1. slot \in Slots
  BY DEF KInv, TypeOK, Slots
<1>2. Count(D, K) \in Nat
  BY HoldingFinite DEF Count
<1>3. Recounts(slot, slot', c, y, D, K)
  BY <1>1, WriteHolding
<1> QED
  BY <1>2, <1>3 DEF Count, Recounts

LEMMA KickCounts ==
  ASSUME KInv, NEW i \in Slot, Kick(i), NEW D \in SUBSET Cell, NEW K
  PROVE  /\ Count(D, K) \in Nat
         /\ slot' = Kicked(i) =>
              Cardinality(Holding(slot', D, K))
                = Count(D, K) - One(D, K, <<at, i>>, Displaced(i)) + One(D, K, <<at, i>>, fp)
         /\ \A e \in Cell :
              slot[e] = 0 /\ e # <<at, i>> /\ slot' = [Kicked(i) EXCEPT ![e] = Displaced(i)] =>
                Cardinality(Holding(slot', D, K))
                  = Count(D, K) - One(D, K, <<at, i>>, Displaced(i)) + One(D, K, <<at, i>>, fp)
                      - One(D, K, e, 0) + One(D, K, e, Displaced(i))
<1>1. /\ slot \in Slots /\ <<at, i>> \in Cell /\ slot[<<at, i>>] = Displaced(i)
      /\ fp \in Fingerprint \cup {0} /\ Displaced(i) \in Fingerprint \cup {0}
  BY KickStep DEF KInv, TypeOK, Slots
<1>2. Count(D, K) \in Nat
  BY HoldingFinite DEF Count
<1>3. /\ Kicked(i) \in Slots
      /\ Cardinality(Holding(Kicked(i), D, K))
           = Cardinality(Holding(slot, D, K))
               - One(D, K, <<at, i>>, slot[<<at, i>>]) + One(D, K, <<at, i>>, fp)
  <2>1. Kicked(i) = [slot EXCEPT ![<<at, i>>] = fp]
    BY DEF Kicked
  <2> DEFINE t == Kicked(i)
             c == <<at, i>>
  <2>2. t \in {[slot EXCEPT ![c] = fp]} /\ slot \in Slots /\ c \in Cell
        /\ fp \in Fingerprint \cup {0}
    BY <1>1, <2>1
  <2> HIDE DEF t, c
  <2>3. Recounts(slot, t, c, fp, D, K)
    BY <2>2, WriteHolding
  <2> QED
    BY <2>3 DEF t, c, Recounts
<1>4. Cardinality(Holding(Kicked(i), D, K))
        = Count(D, K) - One(D, K, <<at, i>>, Displaced(i)) + One(D, K, <<at, i>>, fp)
  BY <1>1, <1>3 DEF Count
<1>5. ASSUME NEW e \in Cell, slot[e] = 0, e # <<at, i>>,
             slot' = [Kicked(i) EXCEPT ![e] = Displaced(i)]
      PROVE  Cardinality(Holding(slot', D, K))
               = Count(D, K) - One(D, K, <<at, i>>, Displaced(i)) + One(D, K, <<at, i>>, fp)
                   - One(D, K, e, 0) + One(D, K, e, Displaced(i))
  <2>1. Kicked(i)[e] = 0
    BY <1>5, KickedIs
  <2>2. Cardinality(Holding(slot', D, K))
          = Cardinality(Holding(Kicked(i), D, K))
              - One(D, K, e, Kicked(i)[e]) + One(D, K, e, Displaced(i))
    <3> DEFINE s == Kicked(i)
               x == Displaced(i)
               t == slot'
    <3>1. /\ s \in Slots /\ x \in Fingerprint \cup {0} /\ e \in Cell
          /\ t \in {[s EXCEPT ![e] = x]}
      BY <1>1, <1>3, <1>5
    <3> HIDE DEF s, x, t
    <3>2. Recounts(s, t, e, x, D, K)
      BY <3>1, WriteHolding
    <3> QED
      BY <3>2 DEF s, x, t, Recounts
  <2> DEFINE a == Cardinality(Holding(slot', D, K))
             b == Cardinality(Holding(Kicked(i), D, K))
             e0 == One(D, K, e, 0)
             e1 == One(D, K, e, Displaced(i))
             m == Count(D, K)
             m0 == One(D, K, <<at, i>>, Displaced(i))
             m1 == One(D, K, <<at, i>>, fp)
  <2>3. m \in Int /\ m0 \in Int /\ m1 \in Int /\ e0 \in Int /\ e1 \in Int
    BY <1>2, OneType
  <2>4. b = m - m0 + m1 /\ a = b - e0 + e1
    BY <1>4, <2>1, <2>2
  <2> HIDE DEF a, b, e0, e1, m, m0, m1
  <2>5. a = m - m0 + m1 - e0 + e1
    BY <2>3, <2>4
  <2> QED
    BY <2>5 DEF a, b, e0, e1, m, m0, m1
<1> QED
  BY <1>2, <1>4, <1>5

(* nrUsed moves with the number of used slots in every step, of a kick     *)
(* included: it counts a fingerprint when one more slot is used.           *)
LEMMA CountStep ==
  ASSUME KInv, Next
  PROVE  nrUsed' - nrUsed = Cardinality(Used') - Cardinality(Used)
<1>0. /\ slot \in Slots /\ nrUsed \in Int /\ 0 \notin Fingerprint
  BY FilterAssumption DEF KInv, TypeOK, Slots
<1>1. Cardinality(Used) = Count(Cell, Fingerprint)
  <2>1. Used = Holding(slot, Cell, Fingerprint)
    BY <1>0 DEF Used, Holding, Slots
  <2> QED
    BY <2>1 DEF Count
<1>2. Cardinality(Used') = Cardinality(Holding(slot', Cell, Fingerprint))
  <2>1. KInv'
    BY KInvNext
  <2>2. Used' = Holding(slot', Cell, Fingerprint)
    BY <1>0, <2>1 DEF Used, Holding, KInv, TypeOK
  <2> QED
    BY <2>2
<1>3. Count(Cell, Fingerprint) \in Nat
  BY HoldingFinite DEF Count
<1> SUFFICES nrUsed' - nrUsed
               = Cardinality(Holding(slot', Cell, Fingerprint)) - Count(Cell, Fingerprint)
  BY <1>1, <1>2
<1>4. CASE UNCHANGED <<slot, nrUsed>>
  BY <1>0, <1>3, <1>4 DEF Count
<1>5. ASSUME NEW k \in Key, InsertFits(k)
      PROVE  nrUsed' - nrUsed
               = Cardinality(Holding(slot', Cell, Fingerprint)) - Count(Cell, Fingerprint)
  <2>1. PICK c \in Cell : FirstOf(k, 0, c) /\ slot' = [slot EXCEPT ![c] = FpOf[k]]
    BY <1>5 DEF InsertFits
  <2>2. slot[c] = 0 /\ FpOf[k] \in Fingerprint
    BY <2>1, FirstOfStep, Positions
  <2>3. One(Cell, Fingerprint, c, slot[c]) = 0 /\ One(Cell, Fingerprint, c, FpOf[k]) = 1
    BY <1>0, <2>2 DEF One
  <2>4. Cardinality(Holding(slot', Cell, Fingerprint)) = Count(Cell, Fingerprint) + 1
    <3>1. Cardinality(Holding(slot', Cell, Fingerprint))
            = Count(Cell, Fingerprint) - One(Cell, Fingerprint, c, slot[c])
                + One(Cell, Fingerprint, c, FpOf[k])
      BY <2>1, <2>2, WriteCounts
    <3> QED
      BY <1>3, <2>3, <3>1
  <2>5. nrUsed' = nrUsed + 1
    BY <1>5 DEF InsertFits
  <2> QED
    BY <1>0, <1>3, <2>4, <2>5
<1>6. ASSUME NEW i \in Slot, Kick(i)
      PROVE  nrUsed' - nrUsed
               = Cardinality(Holding(slot', Cell, Fingerprint)) - Count(Cell, Fingerprint)
  <2> DEFINE c == <<at, i>>
  <2>1. /\ One(Cell, Fingerprint, c, Displaced(i)) = 1 /\ One(Cell, Fingerprint, c, fp) = 1
        /\ \A e \in Cell : /\ One(Cell, Fingerprint, e, 0) = 0
                           /\ One(Cell, Fingerprint, e, Displaced(i)) = 1
    BY <1>0, <1>6, KickStep DEF One
  <2>2. CASE KickFits(i)
    <3>1. PICK e \in Cell : /\ slot[e] = 0 /\ e # c
                            /\ slot' = [Kicked(i) EXCEPT ![e] = Displaced(i)]
      BY <1>6, <2>2, KickFitsStep
    <3>2. Cardinality(Holding(slot', Cell, Fingerprint)) = Count(Cell, Fingerprint) + 1
      <4>1. Cardinality(Holding(slot', Cell, Fingerprint))
              = Count(Cell, Fingerprint) - One(Cell, Fingerprint, c, Displaced(i))
                  + One(Cell, Fingerprint, c, fp) - One(Cell, Fingerprint, e, 0)
                  + One(Cell, Fingerprint, e, Displaced(i))
        BY <1>6, <3>1, KickCounts
      <4> QED
        BY <1>3, <2>1, <4>1
    <3>3. nrUsed' = nrUsed + 1
      BY <2>2 DEF KickFits
    <3> QED
      BY <1>0, <1>3, <3>2, <3>3
  <2>3. CASE KickOn(i) \/ GiveUp(i)
    <3>1. slot' = Kicked(i) /\ nrUsed' = nrUsed
      BY <2>3 DEF KickOn, GiveUp
    <3>2. Cardinality(Holding(slot', Cell, Fingerprint)) = Count(Cell, Fingerprint)
      <4>1. Cardinality(Holding(slot', Cell, Fingerprint))
              = Count(Cell, Fingerprint) - One(Cell, Fingerprint, c, Displaced(i))
                  + One(Cell, Fingerprint, c, fp)
        BY <1>6, <3>1, KickCounts
      <4> QED
        BY <1>3, <2>1, <4>1
    <3> QED
      BY <1>0, <1>3, <3>1, <3>2
  <2> QED
    BY <1>6, <2>2, <2>3 DEF Kick
<1>7. ASSUME NEW k \in Key, Remove(k)
      PROVE  nrUsed' - nrUsed
               = Cardinality(Holding(slot', Cell, Fingerprint)) - Count(Cell, Fingerprint)
  <2>1. ASSUME NEW c \in Cell, FirstOf(k, FpOf[k], c), slot' = [slot EXCEPT ![c] = 0],
               nrUsed' = nrUsed - 1
        PROVE  nrUsed' - nrUsed
                 = Cardinality(Holding(slot', Cell, Fingerprint)) - Count(Cell, Fingerprint)
    <3>1. slot[c] \in Fingerprint
      BY <2>1, FirstOfStep, Positions
    <3>2. One(Cell, Fingerprint, c, slot[c]) = 1 /\ One(Cell, Fingerprint, c, 0) = 0
      BY <1>0, <3>1 DEF One
    <3>3. Cardinality(Holding(slot', Cell, Fingerprint)) = Count(Cell, Fingerprint) - 1
      <4>1. Cardinality(Holding(slot', Cell, Fingerprint))
              = Count(Cell, Fingerprint) - One(Cell, Fingerprint, c, slot[c])
                  + One(Cell, Fingerprint, c, 0)
        BY <2>1, WriteCounts
      <4> QED
        BY <1>3, <3>2, <4>1
    <3> QED
      BY <1>0, <1>3, <2>1, <3>3
  <2> QED
    BY <1>4, <1>7, <2>1 DEF Remove
<1> QED
  BY <1>4, <1>5, <1>6, <1>7 DEF Next, AnyKick, InsertCrowded

(* nrUsed moves with the number of used slots, wherever it started, in an  *)
(* insert that fits, one that kicks and one that gives up, and in a remove *)
(* that finds something or nothing.                                        *)
THEOREM CountTheorem == Spec => CountMoves
<1> DEFINE Moves == nrUsed' - nrUsed = Cardinality(Used') - Cardinality(Used)
<1>1. KInv /\ [Next]_vars => [Moves]_vars
  BY CountStep
<1>2. CountMoves <=> [][Moves]_vars
  BY DEF CountMoves
<1> HIDE DEF Moves
<1> QED
  BY <1>1, <1>2, KickInvariant, PTL DEF Spec

-----------------------------------------------------------------------------
(* Where the size is a power of two, the two buckets of a fingerprint are  *)
(* each the other of the other; so a bucket of one pair is in a second     *)
(* pair of the same fingerprint only if the pairs are one.                 *)
LEMMA OtherBack ==
  ASSUME Size = NiceSize
  PROVE  \A b \in Bucket, f \in Fingerprint :
           Other(b, f) \in Bucket /\ Other(Other(b, f), f) = b
<1>1. /\ NiceSize \in Nat /\ ShortBits \in [Fingerprint -> Bits]
      /\ XorOf \in [Bits \X Bits -> Bits] /\ Bucket = Bits
      /\ \A a, b \in Bits : XorOf[<<XorOf[<<a, b>>], b>>] = a
  BY FilterAssumption DEF Bucket, Bits
<1>2. \A n \in Bits : HashToPos(n) = n
  BY <1>1 DEF Bits, HashToPos
<1>3. ASSUME NEW b \in Bucket, NEW f \in Fingerprint
      PROVE  Other(b, f) = XorOf[<<b, ShortBits[f]>>] /\ XorOf[<<b, ShortBits[f]>>] \in Bits
  <2>1. b \in Bits /\ ShortBits[f] \in Bits
    BY <1>1
  <2>2. XorOf[<<b, ShortBits[f]>>] \in Bits
    BY <1>1, <2>1
  <2> QED
    BY <1>2, <2>2 DEF Other
<1>4. ASSUME NEW b \in Bucket, NEW f \in Fingerprint
      PROVE  Other(b, f) \in Bucket /\ Other(Other(b, f), f) = b
  <2> DEFINE o == Other(b, f)
  <2>1. o \in Bucket /\ o = XorOf[<<b, ShortBits[f]>>]
    BY <1>1, <1>3
  <2> HIDE DEF o
  <2>2. Other(o, f) = XorOf[<<o, ShortBits[f]>>]
    BY <1>3, <2>1
  <2>3. Other(o, f) = b
    BY <1>1, <2>1, <2>2
  <2> QED
    BY <2>1, <2>3 DEF o
<1> QED
  BY <1>4

LEMMA SameClass ==
  ASSUME Size = NiceSize, NEW a \in Bucket, NEW b \in Bucket, NEW f \in Fingerprint,
         NEW d \in Pair(a, f)
  PROVE  d \in Pair(b, f) <=> a \in Pair(b, f)
<1>1. /\ Other(a, f) \in Bucket /\ Other(Other(a, f), f) = a
      /\ Other(b, f) \in Bucket /\ Other(Other(b, f), f) = b
  BY OtherBack
<1> QED
  BY <1>1 DEF Pair

(* The members of a class, and the fingerprint in flight as one of it.     *)
InClass(k, b, f) == FpOf[k] = f /\ Pos(k) \in Pair(b, f)
Adds(k, b, f)    == IF InClass(k, b, f) THEN 1 ELSE 0
Inflight(b, f)   == IF pc = "kick" /\ fp = f /\ at \in Pair(b, f) THEN 1 ELSE 0

Cells(b, f) == Pair(b, f) \X Slot

(* Whether a slot of a class takes a fingerprint is a question of its      *)
(* class: it is the same for both buckets where it may go.                 *)
LEMMA OneInClass ==
  ASSUME Size = NiceSize, NEW a \in Bucket, NEW b \in Bucket, NEW f \in Fingerprint,
         NEW c \in Cell, NEW x \in Fingerprint, c[1] \in Pair(a, x)
  PROVE  /\ One(Cells(b, f), {f}, c, x) = IF x = f /\ a \in Pair(b, f) THEN 1 ELSE 0
         /\ One(Cells(b, f), {f}, c, 0) = 0
<1>1. 0 # f
  BY FilterAssumption
<1>2. c \in Cells(b, f) <=> c[1] \in Pair(b, f)
  BY DEF Cells, Cell
<1>3. x = f => (c[1] \in Pair(b, f) <=> a \in Pair(b, f))
  BY SameClass
<1> QED
  BY <1>1, <1>2, <1>3 DEF One

LEMMA HeldIs ==
  ASSUME KInv, NEW b \in Bucket, NEW f \in Fingerprint
  PROVE  /\ Cells(b, f) \in SUBSET Cell
         /\ HeldIn(b, f) = Count(Cells(b, f), {f}) + Inflight(b, f)
         /\ HeldIn(b, f)' = Cardinality(Holding(slot', Cells(b, f), {f})) + Inflight(b, f)'
         /\ Count(Cells(b, f), {f}) \in Nat /\ Inflight(b, f) \in Nat
<1>1. Cells(b, f) \in SUBSET Cell
  BY Positions DEF Cells
<1>2. /\ {c \in Cells(b, f) : slot[c] = f} = Holding(slot, Cells(b, f), {f})
      /\ {c \in Cells(b, f) : slot'[c] = f} = Holding(slot', Cells(b, f), {f})
  BY DEF Holding
<1>3. HeldIn(b, f) = Count(Cells(b, f), {f}) + Inflight(b, f)
  BY <1>2 DEF HeldIn, Count, Inflight, Cells
<1>4. HeldIn(b, f)' = Cardinality(Holding(slot', Cells(b, f), {f})) + Inflight(b, f)'
  BY <1>2 DEF HeldIn, Inflight, Cells, Pair, Other, HashToPos
<1>5. Count(Cells(b, f), {f}) \in Nat /\ Inflight(b, f) \in Nat
  BY <1>1, HoldingFinite DEF Count, Inflight
<1> QED
  BY <1>1, <1>3, <1>4, <1>5


(* An insert adds one fingerprint to the class of its key, stored or in    *)
(* flight, and none to the others.                                         *)
LEMMA HeldInsert ==
  ASSUME KInv, Size = NiceSize, NEW k \in Key, InsertFits(k) \/ InsertCrowded(k),
         NEW b \in Bucket, NEW f \in Fingerprint
  PROVE  HeldIn(b, f)' = HeldIn(b, f) + Adds(k, b, f)
<1> DEFINE D == Cells(b, f)
           n == Count(D, {f})
           m == Cardinality(Holding(slot', D, {f}))
<1>1. /\ D \in SUBSET Cell /\ n \in Nat
      /\ HeldIn(b, f) = n + Inflight(b, f) /\ HeldIn(b, f)' = m + Inflight(b, f)'
  BY HeldIs
<1>2. Pos(k) \in Bucket /\ FpOf[k] \in Fingerprint
  BY Positions
<1>3. pc = "idle" /\ Inflight(b, f) = 0
  BY DEF InsertFits, InsertCrowded, Calls, Inflight
<1>4. CASE InsertFits(k)
  <2>1. PICK c \in Cell : FirstOf(k, 0, c) /\ slot' = [slot EXCEPT ![c] = FpOf[k]]
    BY <1>4 DEF InsertFits
  <2>2. slot[c] = 0 /\ c[1] \in Pair(Pos(k), FpOf[k])
    BY <2>1, FirstOfStep
  <2>3. /\ One(D, {f}, c, 0) = 0
        /\ One(D, {f}, c, FpOf[k]) = Adds(k, b, f)
    BY <1>2, <2>2, OneInClass DEF Adds, InClass
  <2>4. m = n - One(D, {f}, c, 0) + One(D, {f}, c, FpOf[k])
    <3> HIDE DEF D
    <3> QED
      BY <1>1, <1>2, <2>1, <2>2, WriteCounts
  <2>5. Inflight(b, f)' = 0
    BY <1>3, <1>4 DEF InsertFits, Inflight
  <2> HIDE DEF D, n, m
  <2> QED
    BY <1>1, <1>3, <2>3, <2>4, <2>5
<1>5. CASE InsertCrowded(k)
  <2>1. m = n
    BY <1>5 DEF InsertCrowded, Count
  <2>2. pc' = "kick" /\ fp' = FpOf[k] /\ at' \in Pair(Pos(k), FpOf[k])
    BY <1>5 DEF InsertCrowded
  <2>3. fp' = f => (at' \in Pair(b, f) <=> Pos(k) \in Pair(b, f))
    BY <1>2, <2>2, SameClass
  <2>4. Inflight(b, f)' = Adds(k, b, f)
    BY <2>2, <2>3 DEF Inflight, Adds, InClass, Pair, Other, HashToPos
  <2> HIDE DEF D, n, m
  <2> QED
    BY <1>1, <1>3, <2>1, <2>4
<1> QED
  BY <1>4, <1>5

(* A kick moves fingerprints within their classes.                         *)
LEMMA HeldKick ==
  ASSUME KInv, Size = NiceSize, NEW i \in Slot, Kick(i), ~GiveUp(i),
         NEW b \in Bucket, NEW f \in Fingerprint
  PROVE  HeldIn(b, f)' = HeldIn(b, f)
<1> DEFINE D == Cells(b, f)
           K == {f}
           n == Count(D, K)
           m == Cardinality(Holding(slot', D, K))
           c == <<at, i>>
           x == Displaced(i)
           x1 == One(D, K, c, x)
           fp1 == One(D, K, c, fp)
<1>1. /\ D \in SUBSET Cell /\ n \in Nat
      /\ HeldIn(b, f) = n + Inflight(b, f) /\ HeldIn(b, f)' = m + Inflight(b, f)'
  BY HeldIs
<1>2. /\ pc = "kick" /\ c \in Cell /\ at \in Bucket /\ fp \in Fingerprint
      /\ x \in Fingerprint /\ Goes(i) = Other(at, x) /\ Goes(i) \in Bucket
  BY KickStep DEF Goes
<1>3. /\ x1 = IF x = f /\ at \in Pair(b, f) THEN 1 ELSE 0
      /\ fp1 = IF fp = f /\ at \in Pair(b, f) THEN 1 ELSE 0
  BY <1>2, OneInClass DEF Pair
<1>4. fp1 = Inflight(b, f) /\ x1 \in Int /\ fp1 \in Int
  BY <1>2, <1>3 DEF Inflight
<1>5. x = f => (Goes(i) \in Pair(b, f) <=> at \in Pair(b, f))
  <2>1. Goes(i) \in Pair(at, x)
    BY <1>2 DEF Pair
  <2> QED
    BY <1>2, <2>1, SameClass
<1>6. CASE KickFits(i)
  <2>1. PICK e \in Cell : /\ e[1] = Goes(i) /\ slot[e] = 0 /\ e # c
                          /\ slot' = [Kicked(i) EXCEPT ![e] = x]
    BY <1>6, KickFitsStep
  <2>2. One(D, K, e, 0) = 0 /\ One(D, K, e, x) = x1
    <3>1. e[1] \in Pair(at, x)
      BY <1>2, <2>1 DEF Pair
    <3> QED
      BY <1>2, <1>3, <3>1, OneInClass
  <2>3. m = n - x1 + fp1 - One(D, K, e, 0) + One(D, K, e, x)
    BY <1>1, <2>1, KickCounts
  <2>4. Inflight(b, f)' = 0
    BY <1>6 DEF KickFits, Inflight
  <2> HIDE DEF D, K, n, m, c, x, x1, fp1
  <2> QED
    BY <1>1, <1>4, <2>2, <2>3, <2>4
<1>7. CASE KickOn(i)
  <2>1. m = n - x1 + fp1
    <3>1. slot' = Kicked(i)
      BY <1>7 DEF KickOn
    <3> QED
      BY <1>1, <3>1, KickCounts
  <2>2. pc' = "kick" /\ fp' = x /\ at' = Goes(i)
    BY <1>2, <1>7 DEF KickOn
  <2>3. Inflight(b, f)' = IF fp' = f /\ at' \in Pair(b, f) THEN 1 ELSE 0
    BY <2>2 DEF Inflight, Pair, Other, HashToPos
  <2>4. Inflight(b, f)' = x1
    <3> HIDE DEF D, K, n, m, c, x, x1, fp1
    <3> QED
      BY <1>3, <1>5, <2>2, <2>3
  <2> HIDE DEF D, K, n, m, c, x, x1, fp1
  <2> QED
    BY <1>1, <1>4, <2>1, <2>4
<1> QED
  BY <1>6, <1>7 DEF Kick

(* A remove that finds a fingerprint takes one of the class of its key.    *)
LEMMA HeldRemove ==
  ASSUME KInv, Size = NiceSize, NEW k \in Key, Remove(k),
         NEW b \in Bucket, NEW f \in Fingerprint
  PROVE  \/ HeldIn(b, f)' = HeldIn(b, f) - Adds(k, b, f)
         \/ ~Lookup(k)
<1> DEFINE D == Cells(b, f)
           n == Count(D, {f})
           m == Cardinality(Holding(slot', D, {f}))
<1>1. /\ D \in SUBSET Cell /\ n \in Nat
      /\ HeldIn(b, f) = n + Inflight(b, f) /\ HeldIn(b, f)' = m + Inflight(b, f)'
  BY HeldIs
<1>2. Pos(k) \in Bucket /\ FpOf[k] \in Fingerprint
  BY Positions
<1>3. Inflight(b, f) = 0 /\ Inflight(b, f)' = 0
  BY DEF Remove, Inflight
<1> SUFFICES ASSUME Lookup(k)
             PROVE  HeldIn(b, f)' = HeldIn(b, f) - Adds(k, b, f)
  OBVIOUS
<1>4. PICK c \in Cell : FirstOf(k, FpOf[k], c) /\ slot' = [slot EXCEPT ![c] = 0]
  BY DEF Remove
<1>5. slot[c] = FpOf[k] /\ c[1] \in Pair(Pos(k), FpOf[k])
  BY <1>4, FirstOfStep
<1>6. /\ One(D, {f}, c, 0) = 0
      /\ One(D, {f}, c, FpOf[k]) = Adds(k, b, f)
  BY <1>2, <1>5, OneInClass DEF Adds, InClass
<1>7. m = n - One(D, {f}, c, FpOf[k]) + One(D, {f}, c, 0)
  <2> HIDE DEF D
  <2> QED
    BY <1>1, <1>4, <1>5, WriteCounts
<1> HIDE DEF D, n, m
<1> QED
  BY <1>1, <1>3, <1>6, <1>7 DEF Adds


(* The copies of the members of a class, one more or one less at a call.   *)
CopiesOf(ms, b, f) ==
  {c \in Key \X (1 .. MaxCopies) : InClass(c[1], b, f) /\ c[2] <= ms[c[1]]}

LEMMA CopiesAre ==
  ASSUME NEW b, NEW f
  PROVE  Copies(b, f) = CopiesOf(members, b, f) /\ Copies(b, f)' = CopiesOf(members', b, f)
<1>1. Copies(b, f) = CopiesOf(members, b, f)
  BY DEF Copies, CopiesOf, InClass
<1>2. Copies(b, f)' = CopiesOf(members', b, f)
  BY DEF Copies, CopiesOf, InClass, Pos, Pair, Other, HashToPos
<1> QED
  BY <1>1, <1>2

OneMore(ms, k, next) == /\ ms \in [Key -> 0 .. MaxCopies]
                        /\ next \in [Key -> 0 .. MaxCopies]
                        /\ next = [ms EXCEPT ![k] = ms[k] + 1]

LEMMA CopiesOneMore ==
  ASSUME NEW k \in Key, NEW ms, NEW next, OneMore(ms, k, next), NEW b, NEW f,
         IsFiniteSet(CopiesOf(ms, b, f)) \/ IsFiniteSet(CopiesOf(next, b, f))
  PROVE  /\ IsFiniteSet(CopiesOf(ms, b, f)) /\ IsFiniteSet(CopiesOf(next, b, f))
         /\ Cardinality(CopiesOf(ms, b, f)) \in Nat
         /\ Cardinality(CopiesOf(next, b, f))
              = Cardinality(CopiesOf(ms, b, f)) + Adds(k, b, f)
<1> DEFINE C == CopiesOf(ms, b, f)
           N == CopiesOf(next, b, f)
           new == <<k, ms[k] + 1>>
<1>1. /\ new \in Key \X (1 .. MaxCopies) /\ new \notin C
      /\ \A c \in Key \X (1 .. MaxCopies) :
           c[2] <= next[c[1]] <=> c[2] <= ms[c[1]] \/ c = new
  <2>1. MaxCopies \in Nat
    BY FilterAssumption
  <2>2. ms[k] \in Nat /\ ms[k] + 1 \in 1 .. MaxCopies
    <3>1. ms[k] \in 0 .. MaxCopies /\ next[k] \in 0 .. MaxCopies /\ next[k] = ms[k] + 1
      BY DEF OneMore
    <3> QED
      BY <2>1, <3>1
  <2>3. new \in Key \X (1 .. MaxCopies) /\ new \notin C
    BY <2>2 DEF CopiesOf
  <2>4. ASSUME NEW l \in Key, NEW n \in 1 .. MaxCopies
        PROVE  n <= next[l] <=> n <= ms[l] \/ (l = k /\ n = ms[k] + 1)
    <3>1. ms[l] \in Nat /\ n \in Nat /\ next[l] = IF l = k THEN ms[k] + 1 ELSE ms[l]
      BY DEF OneMore
    <3> QED
      BY <2>2, <3>1
  <2> QED
    BY <2>3, <2>4
<1>2. N = IF InClass(k, b, f) THEN C \cup {new} ELSE C
  BY <1>1 DEF CopiesOf
<1>3. /\ IsFiniteSet(C) /\ IsFiniteSet(N) /\ Cardinality(C) \in Nat
  <2>1. C \subseteq N
    BY <1>2
  <2>2. IsFiniteSet(C)
    BY <2>1, FS_Subset
  <2>3. IsFiniteSet(N)
    <3> HIDE DEF C, N, new
    <3> QED
      BY <1>2, <2>2, FS_AddElement
  <2> QED
    BY <2>2, <2>3, FS_CardinalityType
<1>4. Cardinality(N) = Cardinality(C) + Adds(k, b, f)
  <2> HIDE DEF C, N, new
  <2>1. CASE InClass(k, b, f)
    <3>1. Cardinality(N) = Cardinality(C) + 1
      BY <1>1, <1>2, <1>3, <2>1, FS_AddElement
    <3> QED
      BY <2>1, <3>1 DEF Adds
  <2>2. CASE ~InClass(k, b, f)
    BY <1>2, <1>3, <2>2 DEF Adds
  <2> QED
    BY <2>1, <2>2
<1> QED
  BY <1>3, <1>4

-----------------------------------------------------------------------------
CInv == /\ KInv
        /\ dropped = 0 =>
             \A b \in Bucket, f \in Fingerprint :
               IsFiniteSet(Copies(b, f)) /\ HeldIn(b, f) = Cardinality(Copies(b, f))

(* A member is found between calls: its class has as many fingerprints as  *)
(* it has members.                                                         *)
LEMMA MemberFound ==
  ASSUME CInv, pc = "idle", dropped = 0, NEW k \in Key, members[k] > 0
  PROVE  Lookup(k)
<1> DEFINE b == Pos(k)
           f == FpOf[k]
<1>1. b \in Bucket /\ f \in Fingerprint /\ members[k] \in 0 .. MaxCopies /\ MaxCopies \in Nat
  BY Positions, FilterAssumption DEF CInv, KInv, TypeOK
<1>2. <<k, 1>> \in Copies(b, f)
  BY <1>1 DEF Copies, Pair
<1>3. IsFiniteSet(Copies(b, f)) /\ HeldIn(b, f) = Cardinality(Copies(b, f))
  BY <1>1 DEF CInv
<1> HIDE DEF b, f
<1>4. HeldIn(b, f) # 0
  BY <1>2, <1>3, FS_EmptySet
<1>5. Inflight(b, f) = 0
  BY DEF Inflight
<1>6. Cardinality(Holding(slot, Cells(b, f), {f})) # 0
  BY <1>1, <1>4, <1>5, HeldIs DEF CInv, Count
<1>7. Holding(slot, Cells(b, f), {f}) # {}
  BY <1>6, FS_EmptySet
<1> QED
  BY <1>7 DEF Holding, Cells, Lookup, b, f

LEMMA CInvNext ==
  ASSUME Size = NiceSize, CInv, [Next]_vars
  PROVE  CInv'
<1>1. KInv /\ KInv' /\ members \in [Key -> 0 .. MaxCopies] /\ dropped \in Nat /\ MaxCopies \in Nat
  BY KInvNext, FilterAssumption DEF CInv, KInv, TypeOK
<1> SUFFICES ASSUME dropped' = 0, NEW b \in Bucket, NEW f \in Fingerprint
             PROVE  IsFiniteSet(Copies(b, f)') /\ HeldIn(b, f)' = Cardinality(Copies(b, f)')
  BY <1>1 DEF CInv, Bucket
<1>3. dropped = 0
  BY <1>1 DEF vars, Next, AnyKick, Kick, InsertFits, InsertCrowded, Remove, KickFits, KickOn, GiveUp
<1> DEFINE C == CopiesOf(members, b, f)
           N == CopiesOf(members', b, f)
<1>4. /\ Copies(b, f) = C /\ Copies(b, f)' = N
      /\ IsFiniteSet(C) /\ HeldIn(b, f) = Cardinality(C) /\ Cardinality(C) \in Nat
  BY <1>3, CopiesAre, FS_CardinalityType DEF CInv
<1> HIDE DEF C, N
<1>5. ASSUME NEW k \in Key, InsertFits(k) \/ InsertCrowded(k)
      PROVE  IsFiniteSet(N) /\ HeldIn(b, f)' = Cardinality(N)
  <2>1. members[k] < MaxCopies /\ members' = [members EXCEPT ![k] = @ + 1]
    BY <1>5 DEF InsertFits, InsertCrowded, Calls
  <2>2. IsFiniteSet(N) /\ Cardinality(N) = Cardinality(C) + Adds(k, b, f)
    <3>1. members[k] + 1 \in 0 .. MaxCopies
      BY <1>1, <2>1
    <3>2. OneMore(members, k, members')
      BY <1>1, <2>1, <3>1 DEF OneMore
    <3> QED
      BY <1>4, <3>2, CopiesOneMore DEF C, N
  <2>3. HeldIn(b, f)' = HeldIn(b, f) + Adds(k, b, f)
    BY <1>1, <1>5, HeldInsert
  <2> QED
    BY <1>4, <2>2, <2>3
<1>6. ASSUME NEW i \in Slot, Kick(i)
      PROVE  IsFiniteSet(N) /\ HeldIn(b, f)' = Cardinality(N)
  <2>1. ~GiveUp(i)
    BY <1>3 DEF GiveUp
  <2>2. N = C
    BY <1>6 DEF Kick, C, N
  <2>3. HeldIn(b, f)' = HeldIn(b, f)
    BY <1>1, <1>6, <2>1, HeldKick
  <2> QED
    BY <1>4, <2>2, <2>3
<1>7. ASSUME NEW k \in Key, Remove(k)
      PROVE  IsFiniteSet(N) /\ HeldIn(b, f)' = Cardinality(N)
  <2>1. pc = "idle" /\ members[k] > 0 /\ members' = [members EXCEPT ![k] = @ - 1]
    BY <1>7 DEF Remove
  <2>2. IsFiniteSet(N) /\ Cardinality(N) = Cardinality(C) - Adds(k, b, f)
    <3>1. members[k] \in Nat /\ members[k] - 1 \in 0 .. MaxCopies
      BY <1>1, <2>1
    <3>2. members' \in [Key -> 0 .. MaxCopies] /\ members'[k] = members[k] - 1
      BY <1>1, <2>1, <3>1
    <3>3. members = [members' EXCEPT ![k] = members'[k] + 1]
      <4>1. members'[k] + 1 = members[k]
        BY <3>1, <3>2
      <4>2. \A l \in Key : members[l] = IF l = k THEN members'[k] + 1 ELSE members'[l]
        BY <1>1, <2>1, <4>1
      <4> QED
        BY <1>1, <3>2, <4>2
    <3>4. OneMore(members', k, members)
      BY <1>1, <3>2, <3>3 DEF OneMore
    <3>5. /\ IsFiniteSet(CopiesOf(members', b, f)) /\ Cardinality(CopiesOf(members', b, f)) \in Nat
          /\ Cardinality(CopiesOf(members, b, f))
               = Cardinality(CopiesOf(members', b, f)) + Adds(k, b, f)
      BY <1>4, <3>4, CopiesOneMore DEF C
    <3> QED
      BY <3>5 DEF C, N, Adds
  <2>3. HeldIn(b, f)' = HeldIn(b, f) - Adds(k, b, f)
    BY <1>1, <1>3, <1>7, <2>1, HeldRemove, MemberFound
  <2> QED
    BY <1>4, <2>2, <2>3
<1>8. IsFiniteSet(N) /\ HeldIn(b, f)' = Cardinality(N)
  <2>1. CASE UNCHANGED vars
    <3>1. N = C
      BY <2>1 DEF vars, C, N
    <3>2. HeldIn(b, f)' = HeldIn(b, f)
      BY <2>1 DEF vars, HeldIn, Pair, Other, HashToPos
    <3> QED
      BY <1>4, <3>1, <3>2
  <2>2. CASE Next
    <3>1. CASE AnyKick
      BY <1>6, <3>1 DEF AnyKick
    <3>2. CASE \E k \in Key : InsertFits(k) \/ InsertCrowded(k) \/ Remove(k)
      BY <1>5, <1>7, <3>2
    <3> QED
      BY <2>2, <3>1, <3>2 DEF Next
  <2> QED
    BY <2>1, <2>2
<1> QED
  BY <1>4, <1>8

(* CInv is inductive where the number of buckets is a power of two.        *)
THEOREM ClassInvariant == ASSUME Size = NiceSize PROVE Spec => []CInv
<1>1. Init => CInv
  <2> SUFFICES ASSUME Init PROVE CInv
    OBVIOUS
  <2>1. KInv
    <3>1. 0 \in Bucket /\ 0 \in 0 .. MaxRounds - 1 /\ nrUsed \in Int /\ 0 \in 0 .. MaxCopies
      BY FilterAssumption DEF Init, Bucket
    <3> QED
      BY <3>1 DEF Init, KInv, TypeOK
  <2>2. ASSUME NEW b \in Bucket, NEW f \in Fingerprint
        PROVE  IsFiniteSet(Copies(b, f)) /\ HeldIn(b, f) = Cardinality(Copies(b, f))
    <3>1. Copies(b, f) = {}
      BY DEF Init, Copies
    <3>2. Holding(slot, Cells(b, f), {f}) = {}
      <4>1. Cells(b, f) \subseteq Cell /\ f # 0
        BY <2>1, HeldIs, FilterAssumption
      <4>2. \A c \in Cells(b, f) : slot[c] = 0
        BY <4>1 DEF Init
      <4> QED
        BY <4>1, <4>2 DEF Holding
    <3>3. HeldIn(b, f) = 0
      <4>1. /\ HeldIn(b, f) = Count(Cells(b, f), {f}) + Inflight(b, f)
            /\ Inflight(b, f) = 0
        BY <2>1, HeldIs DEF Init, Inflight
      <4>2. Count(Cells(b, f), {f}) = 0
        BY <3>2, FS_EmptySet DEF Count
      <4> QED
        BY <4>1, <4>2
    <3> QED
      BY <3>1, <3>3, FS_EmptySet
  <2> QED
    BY <2>1, <2>2 DEF CInv
<1>2. CInv /\ [Next]_vars => CInv'
  BY CInvNext
<1> QED
  BY <1>1, <1>2, PTL DEF Spec

(* Until an insert fails, the filter holds of every class of keys it       *)
(* cannot tell apart exactly as many fingerprints as there are members,    *)
(* also in the midst of a kick: what a remove of CuckooMap relies on.      *)
THEOREM ClassTheorem == ASSUME Size = NiceSize PROVE Spec => []ClassExact
<1>1. CInv => ClassExact
  BY DEF CInv, ClassExact
<1> QED
  BY <1>1, ClassInvariant, PTL

(* Until an insert fails, no key that was inserted and not removed is      *)
(* missed, for every choice of hashes and of fingerprints.                 *)
THEOREM NoMissTheorem == ASSUME Size = NiceSize PROVE Spec => []NoFalseNegatives
<1>1. CInv => NoFalseNegatives
  BY MemberFound DEF NoFalseNegatives
<1> QED
  BY <1>1, ClassInvariant, PTL
=============================================================================
