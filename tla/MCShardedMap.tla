---------------------------- MODULE MCShardedMap ----------------------------
(***************************************************************************)
(* Four shards (three were asked for), of which the clients use three: one *)
(* is only inserted into, the others are used in every way.  Two keys      *)
(* share a shard; an emptied slot has a key of the last one.               *)
(***************************************************************************)
EXTENDS ShardedMap, TLC

CONSTANTS k1, k2, k3, k4

MCFold      == k1 :> 2 @@ k2 :> 3 @@ k3 :> 4 @@ k4 :> 8 @@ EmptyKey :> 7
MCFoldAgain == k1 :> 1 @@ k2 :> 5 @@ k3 :> 6 @@ k4 :> 0 @@ EmptyKey :> 2

AllOps == WithGuard \cup WithFinding
MCOps  == 0 :> {"insert"} @@ 1 :> AllOps @@ 2 :> AllOps @@ 3 :> {}
=============================================================================
