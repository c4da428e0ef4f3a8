--------------------------- MODULE MCAssocUnique ---------------------------
(***************************************************************************)
(* Two buckets (three were asked for).  The second can get four elements,  *)
(* one more than fits its array of four positions.  Elements wrap around   *)
(* its end, and around that of the array of nine.  The first has one.      *)
(***************************************************************************)
EXTENDS AssocUnique, TLC

CONSTANTS k1, k2, k3, k4, k5, v1, v2

(* The odd hashes, of bucket 1, are at positions 3, 3, 3 and 1 of four, and *)
(* at 3, 8, 8 and 0 of nine; the even one is at 0, where the reverse       *)
(* iteration does not come to.                                             *)
MCHash    == k1 :> 3 @@ k2 :> 35 @@ k3 :> 71 @@ k4 :> 9 @@ k5 :> 8
MCElement == [key : {k1, k2, k3, k4, k5}, value : {v1}] \cup {[key |-> k1, value |-> v2]}
=============================================================================
