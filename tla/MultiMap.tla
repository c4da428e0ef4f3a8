------------------------------ MODULE MultiMap ------------------------------
(***************************************************************************)
(* What CuckooMultiMap promises: a map in which a key may have several     *)
(* values, equal ones too (README.md: "multimap"; CuckooMultiMap.h,        *)
(* comments on Finding, lookup and insert).                                *)
(*   bag  the values of each key                                           *)
(*   cur  the key and the value that the client's Finding shows            *)
(*   ret  the answer of the last call that ended                           *)
(***************************************************************************)
EXTENDS Bags

CONSTANTS Key, Value, NoValue

VARIABLES bag, cur, ret

mmVars == <<bag, cur, ret>>

NoPair == <<NoValue, NoValue>>

(* found() is a number; of the bools, true is 1.                           *)
Answer(op, k, out) == [op |-> op, key |-> k, out |-> out]

Init == /\ bag = [k \in Key |-> EmptyBag]
        /\ cur = NoPair
        /\ ret = Answer("init", NoValue, NoValue)

(* found() of a lookup is the number of pairs with the key, one of which   *)
(* is shown.                                                               *)
ShowsSome(k) == \/ cur' = NoPair /\ bag'[k] = EmptyBag
                \/ \E v \in BagToSet(bag'[k]) : cur' = <<k, v>>

Lookup(k) == /\ ret' = Answer("lookup", k, BagCardinality(bag[k]))
             /\ UNCHANGED bag
             /\ ShowsSome(k)

(* next and get show a value of the key, or there is none to show.         *)
Show(k, out) == /\ ret' = Answer("show", k, out)
                /\ UNCHANGED bag
                /\ IF out = NoValue THEN cur' \in {cur, NoPair}
                   ELSE BagIn(out, bag[k]) /\ cur' = <<k, out>>

(* An insert always takes place.                                           *)
Insert(k, v) == /\ ret' = Answer("insert", k, 1)
                /\ bag' = [bag EXCEPT ![k] = @ (+) SetToBag({v})]
                /\ cur' = NoPair

(* remove(k) takes all pairs with the key and answers whether there were   *)
(* some; remove(f) takes one pair with the value that f shows.             *)
Remove(k) == /\ ret' = Answer("remove", k, IF bag[k] = EmptyBag THEN 0 ELSE 1)
             /\ bag' = [bag EXCEPT ![k] = EmptyBag]
             /\ UNCHANGED cur

RemoveOne(k, v) == /\ ret' = Answer("removeOne", k, 1)
                   /\ cur = <<k, v>>
                   /\ bag' = [bag EXCEPT ![k] = @ (-) SetToBag({v})]
                   /\ cur' = NoPair \/ ShowsSome(k)

RemoveNone(k) == /\ ret' = Answer("removeOne", k, 0)
                 /\ cur = NoPair
                 /\ UNCHANGED <<bag, cur>>

(* The client writes a value through the Finding, or gives it up.          *)
Write(k, v, w) == /\ UNCHANGED ret
                  /\ cur = <<k, v>> /\ cur' = <<k, w>>
                  /\ bag' = [bag EXCEPT ![k] = (@ (-) SetToBag({v})) (+) SetToBag({w})]

Drop == cur' = NoPair /\ UNCHANGED <<bag, ret>>

Next == \/ Drop
        \/ \E k \in Key :
          \/ Lookup(k) \/ Remove(k) \/ RemoveNone(k)
          \/ \E v \in Value : Insert(k, v) \/ RemoveOne(k, v)
          \/ \E v \in Value \cup {NoValue} : Show(k, v)
          \/ \E v, w \in Value : Write(k, v, w)

Spec == Init /\ [][Next]_mmVars
=============================================================================
