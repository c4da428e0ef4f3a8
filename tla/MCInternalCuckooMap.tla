------------------------ MODULE MCInternalCuckooMap ------------------------
(***************************************************************************)
(* A small table: two buckets of two slots.  Two keys have both homes in   *)
(* the first bucket (the two hash functions may agree), the others have    *)
(* one home in each, scanned in either order: three keys can fill the      *)
(* first bucket and one of them is kicked back and forth.                  *)
(***************************************************************************)
EXTENDS InternalCuckooMap, TLC

CONSTANTS k1, k2, k3, k4

MCBucket == 1 .. 2
MCHome1  == k1 :> 1 @@ k2 :> 1 @@ k3 :> 1 @@ k4 :> 2
MCHome2  == k1 :> 1 @@ k2 :> 1 @@ k3 :> 2 @@ k4 :> 1
=============================================================================
