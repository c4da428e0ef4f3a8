---------------------------- MODULE CuckooFilter ----------------------------
(***************************************************************************)
(* The approximate set in front of a table (CuckooFilter.h).  It stores    *)
(* fingerprints: that of a key is in bucket pos1, given by a hash of the   *)
(* key, or in the bucket one gets from pos1 by xor with a hash of the      *)
(* fingerprint, so that a kicked fingerprint can move without its key.     *)
(* lookup, remove and most inserts are one step; an insert into two full   *)
(* buckets goes on, one step per attempt of its loop.                      *)
(*                                                                         *)
(* The client removes only keys it has inserted, as CuckooMap does.        *)
(* members and dropped are not in the code: they say what the client       *)
(* inserted and not yet removed, and how many inserts have failed.         *)
(***************************************************************************)
EXTENDS Integers, FiniteSets

CONSTANTS
  Key, Fingerprint, \* 0 marks an empty slot and is no fingerprint
  NiceSize, Size,   \* _niceSize, a power of two, and _size, the number of buckets
  SlotsPerBucket,
  MaxRounds,        \* _maxRounds
  KeyBits, ShortBits, \* the masked bits of the hash of a key, of a fingerprint
  FpOf,             \* keyToFingerprint
  XorOf,            \* bitwise exclusive or below NiceSize
  Garbage,          \* what the uninitialised _nrUsed may contain
  MaxCopies,        \* bound on how often a key is inserted
  MaxDropped        \* bound on the failed inserts

Bits   == 0 .. NiceSize - 1
Bucket == 0 .. Size - 1
Slot   == 0 .. SlotsPerBucket - 1
Cell   == Bucket \X Slot

ASSUME FilterAssumption ==
  /\ NiceSize \in Nat \ {0} /\ Size \in 1 .. NiceSize /\ NiceSize <= 2 * Size
  /\ SlotsPerBucket \in Nat \ {0} /\ MaxRounds \in Nat \ {0} /\ MaxCopies \in Nat
  /\ MaxDropped \in Nat \ {0}
  /\ 0 \notin Fingerprint
  /\ KeyBits \in [Key -> Bits] /\ ShortBits \in [Fingerprint -> Bits]
  /\ FpOf \in [Key -> Fingerprint]
  /\ XorOf \in [Bits \X Bits -> Bits]
  /\ \A a, b \in Bits : XorOf[<<XorOf[<<a, b>>], b>>] = a
  /\ Garbage \subseteq Int

VARIABLES
  slot,     \* the fingerprints
  nrUsed,   \* _nrUsed
  pc, at, fp, attempt, \* "kick": in the loop of insert, pos1, fingerprint
  ret,      \* whether the last insert or remove answered true
  members, dropped

vars == <<slot, nrUsed, pc, at, fp, attempt, ret, members, dropped>>

(* hashToPos, and the two buckets of a fingerprint                         *)
HashToPos(bits) == IF bits < Size THEN bits ELSE bits - Size
Pos(k)          == HashToPos(KeyBits[k])
Mut_Other_Plus(b, f) == HashToPos((b + ShortBits[f]) % NiceSize)   \* + for xor

Other(b, f)     == HashToPos(XorOf[<<b, ShortBits[f]>>])
Pair(b, f)      == {b, Other(b, f)}

Full(b) == \A i \in Slot : slot[<<b, i>>] # 0

Mut_FirstIn_FirstSlot(b, x, i) == i = 0   \* the slot is not looked at

FirstIn(b, x, i) == /\ i \in Slot /\ slot[<<b, i>>] = x
                    /\ \A j \in Slot : j < i => slot[<<b, j>>] # x

(* The slot that the scan of the first bucket, then of the second, finds.  *)
FirstOf(k, x, c) ==
  LET b == Pos(k) d == Other(Pos(k), FpOf[k])
  IN \E i \in Slot :
       \/ FirstIn(b, x, i) /\ c = <<b, i>>
       \/ (\A j \in Slot : slot[<<b, j>>] # x) /\ FirstIn(d, x, i) /\ c = <<d, i>>

Lookup(k) == \E c \in Pair(Pos(k), FpOf[k]) \X Slot : slot[c] = FpOf[k]

Init == /\ slot = [c \in Cell |-> 0]
        /\ nrUsed \in Garbage
        /\ pc = "idle" /\ at = 0 /\ fp = 0 /\ attempt = 0
        /\ ret = TRUE
        /\ members = [k \in Key |-> 0]
        /\ dropped = 0

-----------------------------------------------------------------------------
Calls(k) == /\ pc = "idle" /\ members[k] < MaxCopies /\ dropped < MaxDropped
            /\ members' = [members EXCEPT ![k] = @ + 1]

Mut_InsertFits_NotCounted(k) ==   \* ++_nrUsed is missing
  /\ Calls(k)
  /\ \E c \in Cell : FirstOf(k, 0, c) /\ slot' = [slot EXCEPT ![c] = FpOf[k]]
  /\ ret' = TRUE
  /\ UNCHANGED <<nrUsed, pc, at, fp, attempt, dropped>>

InsertFits(k) ==
  /\ Calls(k)
  /\ \E c \in Cell : FirstOf(k, 0, c) /\ slot' = [slot EXCEPT ![c] = FpOf[k]]
  /\ nrUsed' = nrUsed + 1
  /\ ret' = TRUE
  /\ UNCHANGED <<pc, at, fp, attempt, dropped>>

(* Both buckets are full; the first to kick from is drawn.                 *)
Mut_InsertCrowded_CountsDown(k) ==   \* attempt starts at _maxRounds
  /\ Calls(k)
  /\ \A b \in Pair(Pos(k), FpOf[k]) : Full(b)
  /\ at' \in Pair(Pos(k), FpOf[k])
  /\ pc' = "kick" /\ fp' = FpOf[k] /\ attempt' = MaxRounds
  /\ UNCHANGED <<slot, nrUsed, ret, dropped>>

InsertCrowded(k) ==
  /\ Calls(k)
  /\ \A b \in Pair(Pos(k), FpOf[k]) : Full(b)
  /\ at' \in Pair(Pos(k), FpOf[k])
  /\ pc' = "kick" /\ fp' = FpOf[k] /\ attempt' = 0
  /\ UNCHANGED <<slot, nrUsed, ret, dropped>>

(* One attempt: the fingerprint takes a slot of bucket at, and the one it  *)
(* displaces goes to its other bucket if there is room; else that one is   *)
(* the next to kick, until the attempts are used up and it is dropped.     *)
Displaced(i) == slot[<<at, i>>]
Goes(i)      == Other(at, Displaced(i))
Kicked(i)    == [slot EXCEPT ![<<at, i>>] = fp]

KickFits(i) ==
  /\ \E j \in Slot : /\ FirstIn(Goes(i), 0, j)
                    /\ slot' = [Kicked(i) EXCEPT ![<<Goes(i), j>>] = Displaced(i)]
  /\ nrUsed' = nrUsed + 1
  /\ pc' = "idle" /\ ret' = TRUE
  /\ UNCHANGED <<at, fp, attempt, dropped>>

Mut_KickOn_Endless(i) ==   \* attempt is not counted
  /\ Full(Goes(i)) /\ attempt + 1 < MaxRounds
  /\ slot' = Kicked(i)
  /\ at' = Goes(i) /\ fp' = Displaced(i)
  /\ UNCHANGED <<nrUsed, pc, ret, attempt, dropped>>

KickOn(i) ==
  /\ Full(Goes(i)) /\ attempt + 1 < MaxRounds
  /\ slot' = Kicked(i)
  /\ at' = Goes(i) /\ fp' = Displaced(i) /\ attempt' = attempt + 1
  /\ UNCHANGED <<nrUsed, pc, ret, dropped>>

GiveUp(i) ==
  /\ Full(Goes(i)) /\ attempt + 1 >= MaxRounds
  /\ slot' = Kicked(i)
  /\ pc' = "idle" /\ ret' = FALSE /\ dropped' = dropped + 1
  /\ UNCHANGED <<nrUsed, at, fp, attempt>>

Kick(i) == /\ pc = "kick"
           /\ KickFits(i) \/ KickOn(i) \/ GiveUp(i)
           /\ UNCHANGED members

Remove(k) ==
  /\ pc = "idle" /\ members[k] > 0
  /\ members' = [members EXCEPT ![k] = @ - 1]
  /\ \/ /\ \E c \in Cell : FirstOf(k, FpOf[k], c) /\ slot' = [slot EXCEPT ![c] = 0]
        /\ nrUsed' = nrUsed - 1
        /\ ret' = TRUE
     \/ /\ ~Lookup(k)
        /\ ret' = FALSE
        /\ UNCHANGED <<slot, nrUsed>>
  /\ UNCHANGED <<pc, at, fp, attempt, dropped>>

AnyKick == \E i \in Slot : Kick(i)

Next == \/ \E k \in Key : InsertFits(k) \/ InsertCrowded(k) \/ Remove(k)
        \/ AnyKick

Spec == Init /\ [][Next]_vars

(* The loop of insert runs on.                                             *)
FairSpec == Spec /\ WF_vars(AnyKick)

-----------------------------------------------------------------------------
TypeOK == /\ slot \in [Cell -> Fingerprint \cup {0}]
          /\ nrUsed \in Int
          /\ pc \in {"idle", "kick"} /\ at \in Bucket
          /\ fp \in Fingerprint \cup {0} /\ attempt \in 0 .. MaxRounds - 1
          /\ ret \in BOOLEAN
          /\ members \in [Key -> 0 .. MaxCopies] /\ dropped \in Nat

(* A key that was inserted is found, unless an insert has failed (lines    *)
(* 144-145 and 172-173; CuckooMap::innerLookup does not look into a table  *)
(* whose filter says no).                                                  *)
NoFalseNegatives ==
  pc = "idle" /\ dropped = 0 => \A k \in Key : members[k] > 0 => Lookup(k)

(* What CuckooMap takes a filter for: two keys with the same fingerprint   *)
(* and pair of buckets are one class, and the filter holds as many         *)
(* fingerprints of a class as there are members in it, the one in flight   *)
(* included.                                                               *)
HeldIn(b, f) == Cardinality({c \in Pair(b, f) \X Slot : slot[c] = f})
                + IF pc = "kick" /\ fp = f /\ at \in Pair(b, f) THEN 1 ELSE 0

Copies(b, f) == {c \in Key \X (1 .. MaxCopies) :
                   FpOf[c[1]] = f /\ Pos(c[1]) \in Pair(b, f) /\ c[2] <= members[c[1]]}

ClassExact ==
  dropped = 0 => \A b \in Bucket, f \in Fingerprint :
                   HeldIn(b, f) = Cardinality(Copies(b, f))

Used == {c \in Cell : slot[c] # 0}

(* nrUsed moves with the number of used slots, wherever it started.        *)
CountMoves ==
  [][nrUsed' - nrUsed = Cardinality(Used') - Cardinality(Used)]_vars

(* An insert ends, by success or by giving up.                             *)
InsertReturns == pc = "kick" ~> pc = "idle"
=============================================================================
