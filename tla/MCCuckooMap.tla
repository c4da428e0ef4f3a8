---------------------------- MODULE MCCuckooMap ----------------------------
(***************************************************************************)
(* Three layers of buckets with one slot.  In the first layer all keys     *)
(* share two buckets, in the second they share one, and in the third every *)
(* key has a bucket of its own, so that a third layer always suffices.     *)
(***************************************************************************)
EXTENDS CuckooMap, TLC

CONSTANTS k1, k2, k3

MCHome1 == [l \in 0 .. 2 |->
  CASE l = 0 -> (k1 :> <<0, 0>> @@ k2 :> <<0, 1>> @@ k3 :> <<0, 0>>)
    [] l = 1 -> [k \in Key |-> <<1, 0>>]
    [] l = 2 -> (k1 :> <<2, 0>> @@ k2 :> <<2, 1>> @@ k3 :> <<2, 2>>)]
MCHome2 == [MCHome1 EXCEPT ![0] = k1 :> <<0, 1>> @@ k2 :> <<0, 0>> @@ k3 :> <<0, 1>>]

MCBucket  == {<<0, 0>>, <<0, 1>>, <<1, 0>>} \cup ({2} \X (0 .. 2))
MCLayerOf == [b \in MCBucket |-> b[1]]

(* The two fingerprint classes: k1 and k2 are told apart in layer 1 only.  *)
MCClass   == 1 .. 2
MCClassOf == [l \in 0 .. 2 |->
  IF l = 1 THEN k1 :> 1 @@ k2 :> 2 @@ k3 :> 1 ELSE k1 :> 1 @@ k2 :> 1 @@ k3 :> 2]

(* As in the code, 16 buckets of four slots and four times as many in each *)
(* further layer: three keys never overfill a table ...                    *)
MCRoomy == [l \in 0 .. 2 |-> 64 * 4 ^ l]
(* ... or about the modelled slots: a table is overfull when all are used, *)
(* the third one when one is left, and of that one expungeRandom reaches a *)
(* single bucket.                                                          *)
MCTight   == 0 :> 2 @@ 1 :> 1 @@ 2 :> 2
MCExpunge == MCBucket \ {<<2, 0>>, <<2, 1>>}
=============================================================================
