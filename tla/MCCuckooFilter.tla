--------------------------- MODULE MCCuckooFilter ---------------------------
(***************************************************************************)
(* Four keys, two fingerprints and up to four buckets of one slot.  k1 and *)
(* k2 are one class (the buckets of either are those of the other), k3 has *)
(* their fingerprint in other buckets, k4 a fingerprint of its own.        *)
(***************************************************************************)
EXTENDS CuckooFilter, Bitwise, TLC

CONSTANTS k1, k2, k3, k4

MCXorOf     == [ab \in Bits \X Bits |-> ab[1] ^^ ab[2]]
MCKeyBits   == k1 :> 1 @@ k2 :> 3 @@ k3 :> 0 @@ k4 :> 1
MCFpOf      == k1 :> 1 @@ k2 :> 1 @@ k3 :> 1 @@ k4 :> 2
MCShortBits == 1 :> 2 @@ 2 :> 3
=============================================================================
