--------------------------- MODULE CuckooMultiMap ---------------------------
(***************************************************************************)
(* The map with several pairs per key (CuckooMultiMap.h), over a CuckooMap *)
(* whose keys are pairs of a key and a number.  The pairs of a key are     *)
(* numbered 0, 1, 2 ...  seq of an inner key is the number, but for the    *)
(* first pair, where it is how many pairs there are, negated.              *)
(*                                                                         *)
(* The CuckooMap is what module CuckooMap shows it to be: a map whose      *)
(* lookup may move pairs, all but those in the first table (Front), and    *)
(* whose Finding follows the pair.  Its slots matter here, because remove  *)
(* keeps a pointer into one.                                               *)
(*                                                                         *)
(* One client uses the map.  remove(k) is a step per turn of its loop      *)
(* (pc = "remove"), with its counter in turn; the rest is one step.        *)
(* f.seen and f.walk are not in the code: the numbers of the pairs that    *)
(* lookup and next have answered, and whether next came to the end.        *)
(*                                                                         *)
(* Careful says that the client does none of what README.md lists under    *)
(* "How a multimap must be used".                                          *)
(***************************************************************************)
EXTENDS Integers, FiniteSets, Bags

CONSTANTS
  Key, Value, NoValue,
  Front, Back,      \* slots of the first table and of the others
  Empty, NoSlot,
  MaxPairs,         \* bound on the pairs of this model
  Careful

Slot == Front \cup Back

ASSUME MultiMapAssumption ==
  /\ IsFiniteSet(Slot) /\ Front \cap Back = {} /\ NoSlot \notin Slot
  /\ Empty \notin [key : Key, value : Value, seq : Int]
  /\ MaxPairs \in Nat /\ MaxPairs < Cardinality(Slot)
  /\ NoValue \notin Value
  /\ Careful \in BOOLEAN

VARIABLES
  mem,    \* the slots of _innerMap
  f,      \* the client's Finding
  pc, turn,
  ret     \* the answer of the last call

vars == <<mem, f, pc, turn, ret>>

(* found() is a number; of the bools, true is 1.                           *)
Answer(op, k, out) == [op |-> op, key |-> k, out |-> out]

(* Finding: alive, _innerKey (key, seq), _innerFinding (at), _count        *)
NoFinding == [alive |-> FALSE, key |-> NoValue, seq |-> 0, at |-> NoSlot, count |-> 0,
              seen |-> {}, walk |-> "none"]

Init == /\ mem = [c \in Slot |-> Empty]
        /\ f = NoFinding
        /\ pc = "idle" /\ turn = 0
        /\ ret = Answer("init", NoValue, NoValue)

-----------------------------------------------------------------------------
(* InnerCompKey and the two hashes take a negative number for 0.           *)
Num(seq) == IF seq > 0 THEN seq ELSE 0

SlotsOf(k) == {c \in Slot : mem[c] # Empty /\ mem[c].key = k}

(* _innerMap.lookup(<<k, n>>, f): the slots afterwards, and the slot of    *)
(* the pair.  A pair that is not in the first table may be moved to        *)
(* another slot d, whose pair then goes to the slot left or an empty one.  *)
Moved(M, c, d, e) == [[M EXCEPT ![c] = Empty] EXCEPT ![e] = M[d], ![d] = M[c]]

Looked(M, k, n) ==
  LET C == {c \in Slot : M[c] # Empty /\ M[c].key = k /\ Num(M[c].seq) = n}
      Vacant == {c \in Slot : M[c] = Empty}
  IN IF C = {} THEN {[slots |-> M, at |-> NoSlot]}
     ELSE {[slots |-> M, at |-> c] : c \in C}
          \cup UNION {{[slots |-> Moved(M, c, d, e), at |-> d] :
                         d \in Slot \ {c}, e \in Vacant \cup {c}} : c \in C \cap Back}

(* _innerMap.insert and _innerMap.remove(f)                                *)
Inserted(M, p) ==
  LET Vacant  == {c \in Slot : M[c] = Empty}
      Present == \E c \in Slot : M[c] # Empty /\ M[c].key = p.key /\ Num(M[c].seq) = Num(p.seq)
  IN {[M EXCEPT ![e] = M[d], ![d] = p] : d \in Slot, e \in Vacant}
       \cup (IF Present THEN {M} ELSE {})

Removed(M, c) == IF c = NoSlot THEN M ELSE [M EXCEPT ![c] = Empty]

(* A Finding that has looked for pair 0 of k, and found() of it            *)
Points(F, k, r) ==
  [F EXCEPT !.alive = TRUE, !.key = k, !.seq = 0, !.at = r.at,
            !.count = IF r.at = NoSlot THEN 0 ELSE -r.slots[r.at].seq]

FoundCount(F) == IF F.at = NoSlot THEN 0 ELSE F.count

-----------------------------------------------------------------------------
(* lookup(k) makes a Finding, lookup(k, f) uses the client's.              *)
LookupInto(k) ==
  \E r \in Looked(mem, k, 0) :
    /\ mem' = r.slots
    /\ f' = [Points(f, k, r) EXCEPT !.seen = IF r.at = NoSlot THEN {} ELSE {0},
                                    !.walk = "on"]
    /\ ret' = Answer("lookup", k, FoundCount(f'))
    /\ UNCHANGED <<pc, turn>>

Lookup(k)  == pc = "idle" /\ ~f.alive /\ LookupInto(k)
LookupF(k) == pc = "idle" /\ f.alive /\ LookupInto(k)

(* innerInsert: the first pair of a key gets -1, another one the number    *)
(* after the last, and the count of the first pair is raised.              *)
Mut_FirstSeq_Zero == 0
FirstSeq == -1

InnerInsert(M, F, v) ==
  LET first  == FoundCount(F) = 0
      number == IF first THEN FirstSeq ELSE -M[F.at].seq
      M1     == IF first THEN M ELSE [M EXCEPT ![F.at].seq = @ - 1]
  IN /\ mem' \in Inserted(M1, [key |-> F.key, seq |-> number, value |-> v])
     /\ f' = IF f.alive
             THEN [F EXCEPT !.seq = number, !.at = NoSlot, !.seen = {}, !.walk = "none"]
             ELSE NoFinding
     /\ ret' = Answer("insert", F.key, 1)

Room == Cardinality({c \in Slot : mem[c] # Empty}) < MaxPairs

Insert(k, v) ==
  /\ pc = "idle" /\ ~f.alive /\ Room
  /\ \E r \in Looked(mem, k, 0) : InnerInsert(r.slots, Points(f, k, r), v)
  /\ UNCHANGED <<pc, turn>>

(* insert(k, v, f) looks the key up, but leaves _count as it was.          *)
InsertF(k, v) ==
  /\ pc = "idle" /\ f.alive /\ Room
  /\ Careful => f.count > 0 \/ SlotsOf(k) = {}
  /\ \E r \in Looked(mem, k, 0) :
       InnerInsert(r.slots, [Points(f, k, r) EXCEPT !.count = f.count], v)
  /\ UNCHANGED <<pc, turn>>

(* next() and get(pos) of the Finding                                      *)
Mut_Next_OffByOne == f.seq + 2 < f.count
MoreToCome == f.seq + 1 < f.count

Mut_Shows_SeqStays(n, r) ==          \* without ++_innerKey.seq
  /\ mem' = r.slots
  /\ f' = [f EXCEPT !.at = r.at]
  /\ ret' = Answer("show", f.key, IF r.at = NoSlot THEN NoValue ELSE r.slots[r.at].value)

Shows(n, r) ==
  /\ mem' = r.slots
  /\ f' = [f EXCEPT !.seq = n, !.at = r.at,
                    !.seen = IF r.at = NoSlot THEN @ ELSE @ \cup {Num(r.slots[r.at].seq)}]
  /\ ret' = Answer("show", f.key, IF r.at = NoSlot THEN NoValue ELSE r.slots[r.at].value)

NextPair ==
  /\ pc = "idle" /\ f.alive
  /\ MoreToCome
  /\ \E r \in Looked(mem, f.key, f.seq + 1) : Shows(f.seq + 1, r)
  /\ UNCHANGED <<pc, turn>>

NextEnds ==
  /\ pc = "idle" /\ f.alive
  /\ ~MoreToCome
  /\ f' = [f EXCEPT !.walk = IF @ = "on" THEN "ended" ELSE @]
  /\ ret' = Answer("show", f.key, NoValue)
  /\ UNCHANGED <<mem, pc, turn>>

Get(pos) ==
  /\ pc = "idle" /\ f.alive
  /\ IF pos \in 0 .. f.count - 1
     THEN \E r \in Looked(mem, f.key, pos) :
            /\ mem' = r.slots
            /\ f' = [f EXCEPT !.seq = pos, !.at = r.at, !.seen = {}, !.walk = "none"]
            /\ ret' = Answer("show", f.key,
                             IF r.at = NoSlot THEN NoValue ELSE r.slots[r.at].value)
     ELSE ret' = Answer("show", f.key, NoValue) /\ UNCHANGED <<mem, f>>
  /\ UNCHANGED <<pc, turn>>

(* The client writes the value through the Finding, or gives it up.        *)
Write(v) ==
  /\ pc = "idle" /\ f.at # NoSlot
  /\ mem' = [mem EXCEPT ![f.at].value = v]
  /\ UNCHANGED <<f, pc, turn, ret>>

Drop ==
  /\ pc = "idle" /\ f.alive
  /\ f' = NoFinding
  /\ UNCHANGED <<mem, pc, turn, ret>>

-----------------------------------------------------------------------------
(* remove(k) takes the pairs from the last one down to pair 0.             *)
RemoveStart(k) ==
  /\ pc = "idle" /\ ~f.alive
  /\ \E r \in Looked(mem, k, 0) :
       LET F == Points(f, k, r)
       IN /\ mem' = r.slots
          /\ ret' = Answer("remove", k, IF F.count = 0 THEN 0 ELSE 1)
          /\ IF F.count = 0
             THEN UNCHANGED <<f, pc, turn>>
             ELSE f' = F /\ pc' = "remove" /\ turn' = F.count - 1

Mut_LastTurn_One == 1                \* pair 0 stays
LastTurn == 0

RemoveTurn ==
  /\ pc = "remove"
  /\ \E r \in Looked(mem, f.key, turn) : mem' = Removed(r.slots, r.at)
  /\ IF turn = LastTurn
     THEN pc' = "idle" /\ turn' = 0 /\ f' = NoFinding
     ELSE turn' = turn - 1 /\ UNCHANGED <<pc, f>>
  /\ UNCHANGED ret

(* remove(f) of the pair that f points to: the value of the last pair is   *)
(* written over it, and the last pair is removed.  The slot to write to is *)
(* remembered across the lookup of the last pair.                          *)
Mut_Copied_Not(M, from, to) == M
Copied(M, from, to) == IF M[to] = Empty \/ from = NoSlot THEN M
                       ELSE [M EXCEPT ![to].value = M[from].value]

Mut_Lowered_Not(M, c) == M
Lowered(M, c) == IF c = NoSlot THEN M ELSE [M EXCEPT ![c].seq = @ + 1]

FrontOnly == \A c \in Slot : mem[c] # Empty => c \in Front

RemoveF ==
  LET pos  == f.seq
      last == f.count - 1
  IN /\ pc = "idle" /\ f.at # NoSlot
     /\ Careful => /\ f.count = Cardinality(SlotsOf(f.key))
                   /\ pos = last \/ (pos > 0 /\ FrontOnly)
     /\ \E r \in IF pos < last THEN Looked(mem, f.key, last)
                 ELSE {[slots |-> mem, at |-> f.at]} :
          LET M == Removed(IF pos < last THEN Copied(r.slots, r.at, f.at) ELSE mem, r.at)
          IN IF pos > 0
             THEN \E s \in Looked(M, f.key, 0) :
                    /\ mem' = Lowered(s.slots, s.at)
                    /\ f' = [f EXCEPT !.seq = 0, !.at = s.at, !.seen = {}, !.walk = "none"]
             ELSE /\ mem' = M
                  /\ f' = [f EXCEPT !.seq = last, !.at = NoSlot, !.seen = {}, !.walk = "none"]
     /\ ret' = Answer("removeOne", f.key, 1)
     /\ UNCHANGED <<pc, turn>>

RemoveFMiss ==
  /\ pc = "idle" /\ f.alive /\ f.at = NoSlot
  /\ ret' = Answer("removeOne", f.key, 0)
  /\ UNCHANGED <<mem, f, pc, turn>>

-----------------------------------------------------------------------------
Next == \/ \E k \in Key : \/ Lookup(k) \/ LookupF(k) \/ RemoveStart(k)
                          \/ \E v \in Value : Insert(k, v) \/ InsertF(k, v)
        \/ \E v \in Value : Write(v)
        \/ \E pos \in -1 .. MaxPairs : Get(pos)
        \/ NextPair \/ NextEnds \/ Drop
        \/ RemoveTurn \/ RemoveF \/ RemoveFMiss

Spec == Init /\ [][Next]_vars

-----------------------------------------------------------------------------
(* No pair that is stored has the number 0 in its key, which is what marks *)
(* a slot as empty (line 37).                                              *)
TypeOK ==
  /\ mem \in [Slot -> [key : Key, value : Value,
                       seq : (-MaxPairs .. MaxPairs) \ {0}] \cup {Empty}]
  /\ f \in [alive : BOOLEAN, key : Key \cup {NoValue}, seq : -1 .. MaxPairs,
            at : Slot \cup {NoSlot}, count : 0 .. MaxPairs,
            seen : SUBSET (0 .. MaxPairs), walk : {"none", "on", "ended"}]
  /\ pc \in {"idle", "remove"} /\ turn \in 0 .. MaxPairs
  /\ ret \in [op : {"init", "lookup", "show", "insert", "remove", "removeOne"},
              key : Key \cup {NoValue},
              out : 0 .. MaxPairs \cup Value \cup {NoValue}]

(* The pairs of a key are numbered from 0 on without a gap, each number    *)
(* once, and the first one knows how many there are; remove(k) takes them  *)
(* from the end.  insert and remove(f) rely on it to find the last pair.   *)
Removing(k) == pc = "remove" /\ f.key = k

Numbering ==
  \A k \in Key :
    LET C == SlotsOf(k)
        n == IF Removing(k) THEN turn + 1 ELSE Cardinality(C)
    IN /\ Cardinality(C) = n
       /\ {Num(mem[c].seq) : c \in C} = 0 .. n - 1
       /\ \A c \in C : mem[c].seq <= 0 => mem[c].seq = IF Removing(k) THEN -f.count ELSE -n

(* The Finding points to the pair whose key and number it carries, which   *)
(* remove(f) assumes (lines 213-214), wherever lookups have moved it.      *)
FindingPoints ==
  pc = "idle" /\ f.at # NoSlot =>
                   /\ mem[f.at] # Empty
                   /\ mem[f.at].key = f.key
                   /\ Num(mem[f.at].seq) = f.seq

(* The loop of the usage example (lines 162-164) sees every pair of the    *)
(* key: when next answers false, lookup and next have shown all of them.   *)
IterationComplete ==
  f.walk = "ended" => f.seen = 0 .. Cardinality(SlotsOf(f.key)) - 1

(* The map is a multimap.  remove(k) has taken place when its loop starts. *)
Abstract == INSTANCE MultiMap WITH
  bag <- [k \in Key |->
            IF Removing(k) THEN EmptyBag
            ELSE [v \in {mem[c].value : c \in SlotsOf(k)} |->
                    Cardinality({c \in SlotsOf(k) : mem[c].value = v})]],
  cur <- IF pc = "remove" \/ f.at = NoSlot THEN <<NoValue, NoValue>>
         ELSE <<f.key, mem[f.at].value>>

ImplementsMultiMap == Abstract!Spec
=============================================================================
