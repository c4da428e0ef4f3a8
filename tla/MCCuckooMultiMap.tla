------------------------- MODULE MCCuckooMultiMap --------------------------
(***************************************************************************)
(* Two keys, two values and up to four pairs, in three slots of the first  *)
(* table and two behind it.                                                *)
(***************************************************************************)
EXTENDS CuckooMultiMap, TLC

CONSTANTS k1, k2, v1, v2, f1, f2, f3, b1, b2

MCKey   == {k1, k2}
MCValue == {v1, v2}
MCFront == {f1, f2, f3}
MCBack  == {b1, b2}

Alike == Permutations(MCKey) \cup Permutations(MCValue)
           \cup Permutations(MCFront) \cup Permutations(MCBack)
=============================================================================
