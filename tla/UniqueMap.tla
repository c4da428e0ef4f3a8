----------------------------- MODULE UniqueMap -----------------------------
(***************************************************************************)
(* What the tables promise: a map in which a key has at most one value     *)
(* (README.md: a map with "unique keys"; CuckooMap.h and                   *)
(* InternalCuckooMap.h, comments on lookup, insert and remove).            *)
(*   dict  the value of each key, NoValue where the key has no pair        *)
(*   ret   the answer of the last call that ended                          *)
(***************************************************************************)
CONSTANTS Key, Value, NoValue

VARIABLES dict, ret

umVars == <<dict, ret>>

Answer(op, k, out) == [op |-> op, key |-> k, out |-> out]

Init == /\ dict = [k \in Key |-> NoValue]
        /\ ret = Answer("init", NoValue, NoValue)

(* lookup finds a pair exactly when there is one, and its value.           *)
Lookup(k) == /\ ret' = Answer("lookup", k, dict[k])
             /\ UNCHANGED dict

(* insert takes place exactly when the key had no pair.                    *)
InsertNew(k, v) == /\ ret' = Answer("insert", k, TRUE)
                   /\ dict[k] = NoValue
                   /\ dict' = [dict EXCEPT ![k] = v]

InsertRefused(k) == /\ ret' = Answer("insert", k, FALSE)
                    /\ dict[k] # NoValue
                    /\ UNCHANGED dict

(* remove answers whether there was a pair; the key has none afterwards.   *)
Remove(k) == /\ ret' = Answer("remove", k, dict[k] # NoValue)
             /\ dict' = [dict EXCEPT ![k] = NoValue]

(* A remove that names the value as well takes exactly that pair.          *)
RemoveThis(k, v) == /\ ret' = Answer("removeThis", k, dict[k] = v)
                    /\ dict' = IF dict[k] = v THEN [dict EXCEPT ![k] = NoValue] ELSE dict

(* A client writes the value of a present key through the pointer it got.  *)
Write(k, v) == /\ UNCHANGED ret
               /\ dict[k] # NoValue
               /\ dict' = [dict EXCEPT ![k] = v]

(* The start of an iteration, which reads only.                            *)
Iterate == /\ ret' = Answer("iterate", NoValue, NoValue)
           /\ UNCHANGED dict

Next == \E k \in Key : \/ Lookup(k) \/ Iterate
                       \/ InsertRefused(k)
                       \/ Remove(k)
                       \/ \E v \in Value : InsertNew(k, v) \/ Write(k, v) \/ RemoveThis(k, v)

Spec == Init /\ [][Next]_umVars
=============================================================================
