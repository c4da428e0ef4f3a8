---------------------------- MODULE AssocUnique ----------------------------
(***************************************************************************)
(* The open-addressing array (AssocUnique.h) that the performance test     *)
(* compares the CuckooMap with.  An element is stored at the first free    *)
(* position from its hash on, around the end of its bucket's array; a      *)
(* removal closes the gap it makes; a bucket that is two thirds full gets  *)
(* a larger array.                                                         *)
(*                                                                         *)
(* Searching is one step.  The loops that move elements are one step per   *)
(* turn:                                                                   *)
(*   "grow"   the loop of resizeInternal, for an insert                    *)
(*   "heal"   the loop of healHole                                         *)
(*   "visit"  one of the invokeOnAllElements, calling its callback         *)
(* todo and complete of walk are not in the code: the keys an iteration    *)
(* has not yet answered, and whether it said that there are no more.       *)
(***************************************************************************)
EXTENDS Integers, FiniteSets

CONSTANTS
  Element,       \* records with a key and a value
  Hash,          \* _hashKey and _hashElement, by key
  AskedBuckets,  \* numberBuckets of the constructor
  InitialSize,   \* initialSize()
  Sizes,         \* the table of primes that are sizes of arrays
  Empty, NoValue,
  AllocMayFail

Key   == {e.key : e \in Element}
Value == {e.value : e \in Element}

ASSUME AssocAssumption ==
  /\ Element \subseteq [key : Key, value : Value] /\ Element # {}
  /\ Hash \in [Key -> Nat]
  /\ AskedBuckets \in Nat
  /\ Sizes \subseteq Nat /\ IsFiniteSet(Sizes)
  /\ InitialSize \in Sizes /\ InitialSize > 3
  /\ Empty \notin Element /\ NoValue \notin Value
  /\ AllocMayFail \in BOOLEAN

(* The largest power of two that is not above what was asked for, or one.  *)
PowerOfTwo(n) == \E i \in 0 .. AskedBuckets : n = 2 ^ i
Powers        == {1} \cup {n \in 1 .. AskedBuckets : PowerOfTwo(n)}
NrBuckets     == CHOOSE n \in Powers : \A m \in Powers : m <= n
BucketId  == 0 .. NrBuckets - 1

NearPrime(v) == IF \E p \in Sizes : p >= v
                THEN CHOOSE p \in Sizes : p >= v /\ \A q \in Sizes : q >= v => p <= q
                ELSE v

VARIABLES
  bucket,  \* _buckets
  pc, loc, \* the loop a call is in, and its local variables
  walk,    \* an iteration: its kind and position
  ret      \* the answer of the last call that ended

vars == <<bucket, pc, loc, walk, ret>>

Answer(op, k, out) == [op |-> op, key |-> k, out |-> out]

NewTable(n) == [i \in 0 .. n - 1 |-> Empty]
NewBucket   == [alloc |-> InitialSize, used |-> 0, table |-> NewTable(InitialSize)]

NoLoc    == [b |-> 0, i |-> 0, k |-> 0, elem |-> Empty, old |-> <<>>]
NewStart == <<-1, 0>>            \* bucketId SIZE_MAX
Restart  == <<-2, 0>>            \* bucketId SIZE_MAX - 1
End      == <<NrBuckets, 0>>
NoWalk   == [dir |-> "none", at |-> NewStart, todo |-> {}, complete |-> FALSE]

Init == /\ bucket = [b \in BucketId |-> NewBucket]
        /\ pc = "idle" /\ loc = NoLoc
        /\ walk = NoWalk
        /\ ret = Answer("init", NoValue, NoValue)

-----------------------------------------------------------------------------
(* The two loops of a search: from position h to the end, then from the    *)
(* start.  They stop at the first position that is empty or in M, or at h  *)
(* if there is none.                                                       *)
Home(k, n)    == Hash[k] % n
Dist(n, h, i) == IF h <= i THEN i - h ELSE i + n - h

Stops(T, M) == {i \in DOMAIN T : T[i] = Empty} \cup M

StopsAt(T, n, h, M, i) ==
  LET S == Stops(T, M)
  IN IF S = {} THEN i = h
     ELSE i \in S /\ \A j \in S : Dist(n, h, i) <= Dist(n, h, j)

SameKey(T, k)     == {i \in DOMAIN T : T[i] # Empty /\ T[i].key = k}
SameElement(T, e) == {i \in DOMAIN T : T[i] = e}

BucketOf(k) == Hash[k] % NrBuckets
TableOf(k)  == bucket[BucketOf(k)].table

(* Where find, findByKey and removeByKey stop for a key, and remove for an *)
(* element.                                                                *)
KeyStopsAt(k, i) ==
  LET b == bucket[BucketOf(k)]
  IN StopsAt(b.table, b.alloc, Home(k, b.alloc), SameKey(b.table, k), i)

ElementStopsAt(e, i) ==
  LET b == bucket[BucketOf(e.key)]
  IN StopsAt(b.table, b.alloc, Home(e.key, b.alloc), SameElement(b.table, e), i)

(* No call is in a loop.  Another call gives up the position of a walk.    *)
Idle == pc = "idle"

(* find, findByKey and findByKeyRef                                        *)
Looked(k, i) ==
  /\ KeyStopsAt(k, i)
  /\ ret' = Answer("lookup", k, IF TableOf(k)[i] = Empty THEN NoValue
                                ELSE TableOf(k)[i].value)

Find(k) ==
  /\ Idle
  /\ \E i \in DOMAIN TableOf(k) : Looked(k, i)
  /\ pc' = "idle" /\ walk' = NoWalk
  /\ UNCHANGED <<bucket, loc>>

(* The client writes the value through the pointer of findByKeyRef.        *)
WriteValue(e) ==
  /\ Idle
  /\ \E i \in DOMAIN TableOf(e.key) :
       /\ KeyStopsAt(e.key, i) /\ TableOf(e.key)[i] # Empty
       /\ bucket' = [bucket EXCEPT ![BucketOf(e.key)].table[i] = e]
  /\ pc' = "idle" /\ walk' = NoWalk
  /\ UNCHANGED <<loc, ret>>

-----------------------------------------------------------------------------
(* checkResize asks for a larger array when two thirds are used ...        *)
Crowded(b) == 2 * b.alloc < 3 * b.used

(* ... and doInsert looks for the key, then stores the element.            *)
DoInsert(e) ==
  LET b == BucketOf(e.key) T == TableOf(e.key)
  IN \E i \in DOMAIN T :
       /\ KeyStopsAt(e.key, i)
       /\ IF T[i] = Empty
          THEN /\ bucket' = [bucket EXCEPT ![b].table[i] = e, ![b].used = @ + 1]
               /\ ret' = Answer("insert", e.key, TRUE)
          ELSE /\ ret' = Answer("insert", e.key, FALSE)
               /\ UNCHANGED bucket

Insert(e) ==
  /\ Idle
  /\ ~Crowded(bucket[BucketOf(e.key)])
  /\ DoInsert(e)
  /\ pc' = "idle" /\ walk' = NoWalk
  /\ UNCHANGED loc

InsertGrows(e) ==
  LET b == BucketOf(e.key)
      n == NearPrime(2 * bucket[b].alloc + 1)
  IN /\ Idle
     /\ Crowded(bucket[b])
     /\ bucket' = [bucket EXCEPT ![b].alloc = n, ![b].table = NewTable(n)]
     /\ loc' = [NoLoc EXCEPT !.b = b, !.elem = e, !.old = bucket[b].table]
     /\ pc' = "grow" /\ walk' = NoWalk
     /\ UNCHANGED ret

(* insert turns a failed allocation into bad_alloc and changes nothing.    *)
InsertThrows(e) ==
  /\ Idle
  /\ AllocMayFail
  /\ Crowded(bucket[BucketOf(e.key)])
  /\ pc' = "idle" /\ walk' = NoWalk
  /\ UNCHANGED <<bucket, loc, ret>>

(* One turn of the loop over the old array.                                *)
Rehash ==
  /\ pc = "grow" /\ loc.i \in DOMAIN loc.old
  /\ LET e == loc.old[loc.i] b == bucket[loc.b]
     IN IF e = Empty THEN UNCHANGED bucket
        ELSE \E i \in DOMAIN b.table :
               /\ StopsAt(b.table, b.alloc, Home(e.key, b.alloc), {}, i)
               /\ bucket' = [bucket EXCEPT ![loc.b].table[i] = e]
  /\ loc' = [loc EXCEPT !.i = @ + 1]
  /\ UNCHANGED <<pc, walk, ret>>

Grown ==
  /\ pc = "grow" /\ loc.i \notin DOMAIN loc.old
  /\ DoInsert(loc.elem)
  /\ pc' = "idle" /\ loc' = NoLoc
  /\ UNCHANGED walk

-----------------------------------------------------------------------------
IncMod(i, n) == IF i + 1 < n THEN i + 1 ELSE i + 1 - n

(* healHole takes out the element at position i of bucket b.               *)
Mut_TakeOut_NotCounted(b, i) ==
  /\ bucket' = [bucket EXCEPT ![b].table[i] = Empty]
  /\ loc' = [NoLoc EXCEPT !.b = b, !.i = i, !.k = IncMod(i, bucket[b].alloc)]
  /\ pc' = "heal"

TakeOut(b, i) ==
  /\ bucket' = [bucket EXCEPT ![b].table[i] = Empty, ![b].used = @ - 1]
  /\ loc' = [NoLoc EXCEPT !.b = b, !.i = i, !.k = IncMod(i, bucket[b].alloc)]
  /\ pc' = "heal"

RemoveByKey(k) ==
  /\ Idle
  /\ \E i \in DOMAIN TableOf(k) :
       /\ KeyStopsAt(k, i)
       /\ ret' = Answer("remove", k, TableOf(k)[i] # Empty)
       /\ IF TableOf(k)[i] = Empty
          THEN pc' = "idle" /\ UNCHANGED <<bucket, loc>>
          ELSE TakeOut(BucketOf(k), i)
  /\ walk' = NoWalk

(* remove of an element, which must be equal to the one stored.            *)
TakeElement(e) ==
  \E i \in DOMAIN TableOf(e.key) :
    /\ ElementStopsAt(e, i)
    /\ ret' = Answer("removeThis", e.key, TableOf(e.key)[i] # Empty)
    /\ IF TableOf(e.key)[i] = Empty
       THEN pc' = "idle" /\ UNCHANGED <<bucket, loc>>
       ELSE TakeOut(BucketOf(e.key), i)

Remove(e) == Idle /\ TakeElement(e) /\ walk' = NoWalk

(* May the element at k, which hashes to j, fill the hole at i?            *)
Mut_Fills_NoWrap(i, j, k) == ~(i < j /\ j <= k)     \* does not look whether k is behind i
Fills(i, j, k) == \/ i < k /\ ~(i < j /\ j <= k)
                  \/ k < i /\ ~(i < j \/ j <= k)

Mut_HealTurn_Stays ==       \* k is not moved on after an element was moved
  LET b == bucket[loc.b]
      e == b.table[loc.k]
  IN /\ pc = "heal" /\ e # Empty
     /\ IF Fills(loc.i, Home(e.key, b.alloc), loc.k)
        THEN /\ bucket' = [bucket EXCEPT ![loc.b].table[loc.i] = e,
                                         ![loc.b].table[loc.k] = Empty]
             /\ loc' = [loc EXCEPT !.i = loc.k]
        ELSE /\ loc' = [loc EXCEPT !.k = IncMod(@, b.alloc)]
             /\ UNCHANGED bucket
     /\ UNCHANGED <<pc, walk, ret>>

Mut_HealTurn_StepInIf ==    \* k is moved on only after an element was moved
  LET b == bucket[loc.b]
      e == b.table[loc.k]
  IN /\ pc = "heal" /\ e # Empty
     /\ IF Fills(loc.i, Home(e.key, b.alloc), loc.k)
        THEN /\ bucket' = [bucket EXCEPT ![loc.b].table[loc.i] = e,
                                         ![loc.b].table[loc.k] = Empty]
             /\ loc' = [loc EXCEPT !.i = loc.k, !.k = IncMod(@, b.alloc)]
        ELSE UNCHANGED <<bucket, loc>>
     /\ UNCHANGED <<pc, walk, ret>>

HealTurn ==
  LET b == bucket[loc.b]
      e == b.table[loc.k]
      n == b.alloc
  IN /\ pc = "heal" /\ e # Empty
     /\ IF Fills(loc.i, Home(e.key, n), loc.k)
        THEN /\ bucket' = [bucket EXCEPT ![loc.b].table[loc.i] = e,
                                         ![loc.b].table[loc.k] = Empty]
             /\ loc' = [loc EXCEPT !.i = loc.k, !.k = IncMod(@, n)]
        ELSE /\ loc' = [loc EXCEPT !.k = IncMod(@, n)]
             /\ UNCHANGED bucket
     /\ UNCHANGED <<pc, walk, ret>>

Visiting == walk.dir = "removal" /\ ~walk.complete

(* A gap is reached.  An array that is empty now is replaced by one of the *)
(* initial size; remove does not catch the exception of that allocation.   *)
(* invokeOnAllElementsForRemoval goes on where it was, or with the next    *)
(* bucket.                                                                 *)
Healed ==
  /\ pc = "heal" /\ bucket[loc.b].table[loc.k] = Empty
  /\ bucket' = IF bucket[loc.b].used = 0 THEN [bucket EXCEPT ![loc.b] = NewBucket]
               ELSE bucket
  /\ walk' = IF Visiting /\ bucket[loc.b].used = 0
             THEN [walk EXCEPT !.at = <<loc.b + 1, 0>>] ELSE walk
  /\ pc' \in IF Visiting THEN {"visit", "idle"} ELSE {"idle"}
  /\ loc' = NoLoc
  /\ UNCHANGED ret

RemoveThrows ==
  /\ AllocMayFail
  /\ pc = "heal" /\ bucket[loc.b].table[loc.k] = Empty
  /\ bucket[loc.b].used = 0
  /\ pc' = "idle" /\ loc' = NoLoc /\ walk' = NoWalk
  /\ UNCHANGED <<bucket, ret>>

-----------------------------------------------------------------------------
(* Iterations.  Positions are ordered by bucket, then by array index.      *)
Before(c, d) == c[1] < d[1] \/ (c[1] = d[1] /\ c[2] < d[2])

Used == UNION {{<<b, i>> : i \in {j \in DOMAIN bucket[b].table : bucket[b].table[j] # Empty}}
               : b \in BucketId}
At(c) == bucket[c[1]].table[c[2]]
Keys  == {At(c).key : c \in Used}

FirstFrom(c, d) == d \in Used /\ ~Before(d, c) /\ \A x \in Used : ~Before(x, c) => ~Before(x, d)
LastFrom(C, c, d) == d \in C /\ ~Before(c, d) /\ \A x \in C : ~Before(c, x) => ~Before(d, x)

Mut_After_SameBucket(c) ==     \* the bucket is not moved on
  IF c[2] + 1 = bucket[c[1]].alloc THEN <<c[1], 0>> ELSE <<c[1], c[2] + 1>>

After(c) == IF c[2] + 1 = bucket[c[1]].alloc THEN <<c[1] + 1, 0>> ELSE <<c[1], c[2] + 1>>
Mut_Ahead_PastEnd(c) ==        \* one behind the end of the bucket before
  IF c[2] > 0 THEN <<c[1], c[2] - 1>> ELSE <<c[1] - 1, bucket[c[1] - 1].alloc>>

Ahead(c) == IF c[2] > 0 THEN <<c[1], c[2] - 1>> ELSE <<c[1] - 1, bucket[c[1] - 1].alloc - 1>>

Answered(c, at) == walk' = [walk EXCEPT !.at = at, !.todo = @ \ {At(c).key}]
NoMore(at)      == walk' = [walk EXCEPT !.at = at, !.complete = TRUE]

(* invokeOnAllElements and invokeOnAllElementsForRemoval                   *)
StartVisit(d) ==
  /\ Idle
  /\ ret' = Answer("iterate", NoValue, NoValue)
  /\ walk' = [dir |-> d, at |-> <<0, 0>>, todo |-> Keys, complete |-> FALSE]
  /\ pc' = "visit"
  /\ UNCHANGED <<bucket, loc>>

(* The callback leaves the element alone: go on, or stop if it says so.    *)
VisitKeeps ==
  /\ pc = "visit"
  /\ \E c \in Used : FirstFrom(walk.at, c) /\ Answered(c, After(c))
  /\ pc' \in {"visit", "idle"}
  /\ UNCHANGED <<bucket, loc, ret>>

Mut_VisitRemoves_GoesOn ==   \* the position moves on in any case
  /\ pc = "visit" /\ walk.dir = "removal"
  /\ \E c \in Used : /\ FirstFrom(walk.at, c)
                     /\ Answered(c, After(c))
                     /\ TakeElement(At(c))

(* It removes the element, and another one may take its place.             *)
VisitRemoves ==
  /\ pc = "visit" /\ walk.dir = "removal"
  /\ \E c \in Used : /\ FirstFrom(walk.at, c)
                     /\ Answered(c, c)
                     /\ TakeElement(At(c))

VisitEnds ==
  /\ pc = "visit"
  /\ \A c \in Used : Before(c, walk.at)
  /\ NoMore(End)
  /\ pc' = "idle"
  /\ UNCHANGED <<bucket, loc, ret>>

(* findSequential and findSequentialReverse, with a new position or with   *)
(* one that was reset                                                      *)
StartSequence(d, at) ==
  /\ Idle
  /\ ret' = Answer("iterate", NoValue, NoValue)
  /\ walk' = [dir |-> d, at |-> at, todo |-> Keys, complete |-> FALSE]
  /\ pc' = "idle"
  /\ UNCHANGED <<bucket, loc>>

(* ... or with the position that findByKey gives back, of an element or of *)
(* the free place it stopped at                                            *)
FindPosition(d, k) ==
  /\ Idle
  /\ \E i \in DOMAIN TableOf(k) :
       LET c == <<BucketOf(k), i>>
           Rest == {x \in Used : IF d = "forward" THEN ~Before(x, c) ELSE ~Before(c, x)}
       IN /\ Looked(k, i)
          /\ walk' = [dir |-> d, at |-> c, todo |-> {At(x).key : x \in Rest},
                      complete |-> FALSE]
  /\ pc' = "idle"
  /\ UNCHANGED <<bucket, loc>>

Anew == walk.at \in {NewStart, Restart}

FindSequential ==
  LET from == IF Anew THEN <<0, 0>> ELSE walk.at
  IN /\ Idle /\ walk.dir = "forward" /\ ~walk.complete
     /\ IF \A c \in Used : Before(c, from)
        THEN NoMore(IF walk.at = NewStart THEN NewStart ELSE End)
        ELSE \E c \in Used : FirstFrom(from, c) /\ Answered(c, After(c))
     /\ pc' = "idle"
     /\ UNCHANGED <<bucket, loc, ret>>

(* The first position of the first bucket ends the search, used or not.    *)
FindSequentialReverse ==
  LET last == NrBuckets - 1
      from == IF Anew THEN <<last, bucket[last].alloc - 1>> ELSE walk.at
      Rest == Used \ {<<0, 0>>}
  IN /\ Idle /\ walk.dir = "backward" /\ ~walk.complete
     /\ IF \A c \in Rest : Before(from, c)
        THEN NoMore(IF walk.at = NewStart /\ Used = {} THEN NewStart ELSE End)
        ELSE \E c \in Rest : LastFrom(Rest, from, c) /\ Answered(c, Ahead(c))
     /\ pc' = "idle"
     /\ UNCHANGED <<bucket, loc, ret>>

-----------------------------------------------------------------------------
Loop == \/ Rehash \/ Grown
        \/ HealTurn \/ Healed \/ RemoveThrows
        \/ VisitKeeps \/ VisitRemoves \/ VisitEnds

Next == \/ \E k \in Key : Find(k) \/ RemoveByKey(k)
        \/ \E e \in Element : \/ Insert(e) \/ InsertGrows(e) \/ InsertThrows(e)
                              \/ Remove(e) \/ WriteValue(e)
        \/ \E d \in {"each", "removal"} : StartVisit(d)
        \/ \E d \in {"forward", "backward"} :
             \/ \E at \in {NewStart, Restart} : StartSequence(d, at)
             \/ \E k \in Key : FindPosition(d, k)
        \/ FindSequential \/ FindSequentialReverse
        \/ Loop

Spec == Init /\ [][Next]_vars

(* A call that is in a loop goes on, and so does its callback.             *)
FairSpec == Spec /\ WF_vars(Loop)

-----------------------------------------------------------------------------
TypeOK ==
  /\ DOMAIN bucket = BucketId
  /\ \A b \in BucketId :
       /\ bucket[b].alloc \in Nat \ {0} /\ bucket[b].used \in Nat
       /\ bucket[b].table \in [0 .. bucket[b].alloc - 1 -> Element \cup {Empty}]
  /\ pc \in {"idle", "grow", "heal", "visit"}
  /\ loc.b \in BucketId /\ loc.elem \in Element \cup {Empty}
  /\ {loc.i, loc.k} \subseteq Nat
  /\ walk.dir \in {"none", "each", "removal", "forward", "backward"}
  /\ walk.at \in {NewStart, Restart, End}
                \cup UNION {{b} \X DOMAIN bucket[b].table : b \in BucketId}
  /\ walk.todo \subseteq Key /\ walk.complete \in BOOLEAN
  /\ ret \in [op : {"init", "insert", "lookup", "remove", "removeThis", "iterate"},
              key : Key \cup {NoValue}, out : BOOLEAN \cup Value \cup {NoValue}]

(* Searches work.  Every array has a free position, which ends the search  *)
(* for a key that is not there and the walk of healHole.  From the         *)
(* position of its hash to an element there is no gap, but the hole that   *)
(* is being healed (lines 576-579).                                        *)
Hole(b) == IF pc = "heal" /\ loc.b = b THEN {loc.i} ELSE {}

Searchable ==
  \A b \in BucketId : LET T == bucket[b].table n == bucket[b].alloc IN
    /\ \E i \in DOMAIN T : T[i] = Empty
    /\ \A i \in DOMAIN T : T[i] # Empty =>
         \A j \in DOMAIN T \ Hole(b) :
           Dist(n, Home(T[i].key, n), j) < Dist(n, Home(T[i].key, n), i) => T[j] # Empty

(* _nrUsed, which decides when an array grows and when it is thrown away,  *)
(* counts the elements, those still in the old array included.             *)
OldLeft(b) == IF pc = "grow" /\ loc.b = b
              THEN {i \in DOMAIN loc.old : i >= loc.i /\ loc.old[i] # Empty} ELSE {}

UsedCount == \A b \in BucketId :
  bucket[b].used = Cardinality({c \in Used : c[1] = b}) + Cardinality(OldLeft(b))

(* An iteration that says there are no more elements has answered each one *)
(* that was there when it began, from its position on, also when the       *)
(* callback removed elements and others took their places ("Returns        *)
(* nullptr if all documents have been returned", line 729).                *)
IterationComplete == walk.complete /\ walk.dir # "backward" => walk.todo = {}

(* The same of findSequentialReverse: "a method to iterate over all        *)
(* elements in the index in reversed sequential order.  Returns nullptr if *)
(* all documents have been returned" (lines 793-795).                      *)
ReverseComplete == walk.complete /\ walk.dir = "backward" => walk.todo = {}

(* No element is answered twice, unless the callback removes elements: one *)
(* from the start of the array may then move to the end.                   *)
EachOnce ==
  [][/\ FindSequential \/ FindSequentialReverse \/ (VisitKeeps /\ walk.dir = "each")
     /\ ~walk'.complete
     => walk'.todo # walk.todo]_vars

(* A call returns: gaps close, arrays are filled anew and visits end.      *)
OperationsReturn == ~Idle ~> Idle

(* The array is a unique map: an insert that throws has changed nothing, a *)
(* remove that throws has removed its element.                             *)
Stored == {At(c) : c \in Used}
            \cup UNION {{loc.old[i] : i \in OldLeft(b)} : b \in BucketId}

Contents == LET S == Stored
            IN [k \in Key |-> IF \E e \in S : e.key = k
                              THEN (CHOOSE e \in S : e.key = k).value ELSE NoValue]

Abstract == INSTANCE UniqueMap WITH dict <- Contents

ImplementsMap == Abstract!Spec
=============================================================================
