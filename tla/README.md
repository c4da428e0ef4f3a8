# CuckooMap in TLA+

This directory is a verification development of the CuckooMap repository: TLA+
modules translated from the headers in `src/include/cuckoomap/`, TLC
configurations that check them on small instances, and proofs that TLAPS
checks for every instance. `PROJECT.json` lists the runs, which lines each
definition stands for, the mutants that show that every property can fail, the
hazards and the findings.

## The system

| part | state | operations | hard because |
|---|---|---|---|
| `InternalCuckooMap` | buckets of four slots, `_nrUsed`, two random states | `lookup`, `insert` (answers 0, -1 or 1), `remove` (2), `expungeRandom` | an insert that answers 1 hands its caller another pair than it brought; the caller has to go on with it |
| `CuckooFilter` | buckets of four fingerprints, `_nrUsed` | `lookup`, `insert`, `remove` | fingerprints are moved without their keys; kicks give up after `_maxRounds` |
| `CuckooMap` | tables of growing size with a filter each, `_nrUsed`, a mutex | `lookup` (2), `insert` (2), `remove` (2), `Finding` | `lookup` changes the tables; `innerInsert` moves pairs between tables, grows, expunges and can fail half-way |
| `Finding` | pointers into a slot, a layer, the map whose mutex it is meant to hold | destructor, `key`, `value` | it outlives the call that made it, and lookups on other maps hand it over |
| `CuckooMultiMap` | a `CuckooMap` whose keys carry a sequence number | as `CuckooMap`, `next`, `get` | the number of pairs of a key is kept, negated, in the key of the first, and once more in the `Finding` |
| `ShardedMap` | one map per shard | forwards each call to a shard | a `Finding` can go from shard to shard, and other threads may write to the slot it points to |
| `AssocUnique` | buckets with an open-addressing array each | find (4), insert, remove (2), iterations (4) | gaps must be closed after a removal, around the end of the array; callbacks may remove while an iteration runs |
| `CuckooHelpers` | - | `MyMutexGuard`, `fasthash64`, `remove_directory` | the guard |

`CuckooMap` calls `InternalCuckooMap` and `CuckooFilter` under its mutex;
`CuckooMultiMap` calls the public operations of a `CuckooMap`; `ShardedMap`
those of one of its maps. Nothing is persistent: with `mmap` the tables live in
temporary files that are removed by the destructor, so there is no crash
recovery. Threads meet only at the mutex of a map, and nothing is asynchronous.

What makes each part correct:

* a table is a map with unique keys: no pair is lost, doubled or put where
  lookup does not look, whatever is kicked around, and its counter is exact;
* the cascade is a map with unique keys, with the pair in exactly one layer and
  every filter in step with its table; the `Finding` of a lookup leads to the
  pair of the key that was looked up; `innerInsert` ends;
* a filter has no false negatives for the keys it was given;
* the mutex keeps threads apart, and nobody waits for ever;
* a multimap numbers the pairs of a key without gaps, and a client that goes
  through them with `next` sees all of them, wherever lookups move the pairs;
* a `Finding` belongs to the shard of the key it leads to, from which `remove(f)` computes
  the shard anew;
* an open-addressing array leaves no gap before an element and has a free
  position; an iteration answers every element, and once.

## Modules

| module | models | extends |
|---|---|---|
| `CuckooTable` | slots, home buckets and the two scans, as operators on a table | - |
| `UniqueMap` | the promise: a map with unique keys, and the answers of its calls | - |
| `InternalCuckooMap` | one table and its caller | `CuckooTable` |
| `CuckooMap` | the cascade, one step per round of `innerInsert` | `CuckooTable` |
| `CuckooMapThreads` | who holds the mutex of which map, for many threads and maps | - |
| `CuckooFilter` | one filter, one step per attempt of its kick loop | - |
| `MultiMap` | the promise of a multimap: a bag of values for each key | - |
| `CuckooMultiMap` | the multimap over the slots of a `CuckooMap` | - |
| `ShardedMap` | the choice of a shard, and `Finding`s that go between shards, for many threads | `CuckooMapThreads` |
| `AssocUnique` | the open-addressing array, one step per turn of its loops | - |
| `MC...` | the instances for TLC | the module they instantiate |
| `CuckooTableTheorems` | lemmas on the scans and on counting slots | `CuckooTable` |
| `InternalCuckooMapProofs` | theorems on one table | `InternalCuckooMap` |
| `CuckooMapProofs` | theorems on the cascade, most of them while no table is overfull | `CuckooMap` |
| `CuckooMapThreadsProofs` | theorems on the locking | `CuckooMapThreads` |
| `CuckooFilterProofs` | theorems on one filter | `CuckooFilter` |
| `CuckooMultiMapProofs` | theorems on the multimap | `CuckooMultiMap` |
| `ShardedMapProofs` | theorems on the shards | `ShardedMap`, `CuckooMapThreadsProofs` |
| `AssocUniqueProofs` | theorems on the open-addressing array | `AssocUnique` |

`UniqueMap` is the abstract specification of a table, of the cascade and of the
open-addressing array: `ImplementsMap` in each is `UniqueMap!Spec` under the
mapping that takes the value of a key from its slot or, while a call moves
pairs, from the hand that holds it.

**A table.** `cell` is the memory, a function from bucket and slot to a pair or
`Empty`. Home buckets are functions of the key (`Home1`, `Home2`), which stands
for the two hash functions and `hashToPos`; nothing is assumed about them, so
they may agree. The random choice of a slot is a nondeterministic choice.
`hand` is the pair that `insert` returned through `k` and `*v`, `ptr` the slot
that `kOut` or `*kPtr` points to. The caller is part of the module, since the
class leaves two things to it: whether it looks a key up before it inserts it
(`Checked`) and whether it calls `expungeRandom` the way `CuckooMap` does
(`Expunging`).

**The cascade.** All tables share one `cell`; `LayerOf` gives the table of a
bucket. The local variables of `innerInsert` are the record `ins`, its control
point is `pc`. The move to the front in `innerLookup` is `LookupMove` followed
by the same steps. `Capacity` is separate from the modelled slots: a real first
table has 64 slots of which the keys of a small instance reach only a few, so
`overfull` is decided by the real size (`MCRoomy`) or, to see it happen, by the
modelled slots (`MCTight`). A filter is the number of fingerprints it holds of
each class; that this is what a filter does is `ClassExact` of `CuckooFilter`.
`throw` without an exception calls `std::terminate`: the state `"aborted"`.
When an exception passes through a call its `Finding` is dropped.

**Threads.** A call is reduced to when it locks and unlocks. Unlocking a
mutex one does not own is undefined in C++; the model lets it become free,
which is what the mutex of the platform does.

**A filter.** Slots hold fingerprints, the xor of a position with the hash of a
fingerprint is a constant `XorOf` with the one law it needs. `members` and
`dropped` are history variables: what the client inserted, how many inserts
answered false.

**The multimap.** `CuckooMultiMap` stands on what the cascade is shown to be: a
map with unique keys whose `lookup` may move the pair it finds, and others with
it, and whose `Finding` follows its pair. So the slots are `Front` (the first
table, whose pairs are not moved) and `Back`; which pair moves where is a
nondeterministic choice, made by `Looked` and `Inserted`. A key of the inner map
is a key and a number; a negative number means 0 to the hash and the comparison
(`Num`). `f` is the one `Finding` the client has. `remove(k)` is a step per turn;
its `Finding` is a local one. `seen` and `walk` record what `lookup` and `next`
have shown. The abstract `MultiMap` has the bag of values of each key and what the
`Finding` shows (`cur`), for `remove(f)` is to take the value that is shown.

**The shards.** `ShardedMap` composes the maps of `CuckooMapThreads`, one for each
shard, with what picks the shard: the key of a call (`arg`) and, for `remove(f)`,
the key in the slot that the `Finding` of the thread points to (`key`). Each
action is one of `CuckooMapThreads` with these two added; which shard a key goes to is
computed from the hash folded to 16 or 8 bits, two functions of the key. Since
a `Finding` does not keep other threads out, `Overwritten` lets a thread that is
inside the same shard put another pair of that shard into the slot or, in a
lookup that moves a pair or a remove, leave it empty. The pairs in a shard are not
repeated here: that a shard is a map with unique keys is the result for `CuckooMap`,
under the conditions it has there (a client that looks first, no overfull table),
and a call touches no shard but that of its key.

**The open-addressing array.** Where a search stops is one step (`StopsAt`: the
nearest position, going round, that is empty or has the key). The loops that
move elements are a step per turn, since `healHole` reads what it has written and
the callback of an iteration may remove: `pc` says which loop, `loc` has its
variables. A position of an iteration is a pair of a bucket and an index.

### How a multimap must be used

The constant `Careful` of `CuckooMultiMap` says that the client keeps to this.
Without it TLC finds `Numbering` violated in a few steps. No comment of the
header states these rules.

* `insert(k, v, f)` goes by the count that `f` has from its last `lookup` (line 193
  looks the key up and leaves `_count` as it is). It may be used when that lookup
  found something, or when `k` has no pair; otherwise `k` gets a second pair 0,
  which no `next` shows.
* `remove(f)` needs the exact count. An `insert` or `remove` with `f` leaves the
  count as it was: look the key up again first.
* `remove(f)` of the first pair of several removes the last one, after copying its
  value over, but lowers the count only `if (pos > 0)` (line 223).
* `remove(f)` of a pair in the middle writes through a value pointer that it took
  before another lookup (lines 217-220), which may move that pair. The last pair can
  always be removed; one in the middle only while all pairs are in the first table.

## Runs

| run | shows |
|---|---|
| `table_checked` | a table is a unique map for a caller that looks keys up first; pairs stay in their homes |
| `table_any_caller` | counter, pointers and pairs survive any caller, `expungeRandom` included |
| `map_checked` | the cascade with filters is a unique map for such a client; filters and both counters are exact; findings point to their pair, pairs are in their homes |
| `map_overfull` | with any client, tables that overfill and `new` that throws, calls still end (or end the process) |
| `filter_nice` | no false negatives, an exact multiset of fingerprint classes, and inserts that end |
| `multi_map` | a multimap, numbered without gaps, whose iterations are complete, for a careful client |
| `sharded` | threads that use the shards in every way, as `CuckooMapThreads` says: no call waits for ever; a shard that is only inserted into is exclusive; a `Finding` is with the shard of its key |
| `assoc` | the array is a unique map, through growth, healed gaps and `bad_alloc`; iterations are complete and loops end |
| `map_overfull_loses`, `threads_shared`, `filter_odd_size`, `assoc_reverse_misses` | the code does not do what a comment, the README or a test says (next section) |

*Bounds.* The table has four keys, of which three can fill the two slots of a
bucket, so one is always displaced; the kicks go back and forth between two
buckets without a bound. The cascade has three keys and three layers of 2, 1
and 3 buckets with one slot: in layer 0 every insert of a third key kicks, in
layer 1 every second one does, and layer 2 has room for all, so every path
through `innerInsert` is taken: a settled pair, rounds used up, the next layer,
a new table. `Rounds` is 3 instead of 128 and `MoveRounds` 2 instead of 4: only
whether they are used up matters. `MaxCount` bounds the counters in `Insert`
and `LookupMove`, and is reached only when the client inserts keys twice or
expunging has doubled a pair. The filter has four buckets of one slot and four
keys, two of them of one class; `MaxCopies` and `MaxDropped` bound the client.
Two threads and three shards in use are enough for two threads to hand their
findings over in opposite directions while a third shard is only inserted into. The
shards are four, since three are asked for; two of the four keys share one, and the key
of an emptied slot belongs to the other that is used in every way, so `remove(f)` of an
emptied slot does go to another shard.
The multimap has two keys, up to four pairs and five slots, so that a key can
have a first, a last and two pairs between them, and one slot stays free to move
to. The array has two
buckets; one can get four elements, one more than its four positions take
before it grows to nine, and elements wrap around the end in both sizes.

*Deadlock* is checked where the system cannot stop. `map_*` runs with
`CHECK_DEADLOCK FALSE` stop in `"aborted"` or, when `MaxLayers` is used up and
`new` does not fail, in `"grow"`; `filter_*` stop at the bounds of the client.

*Fairness.* `InnerInsert` is weakly fair: a thread that is in a call goes on.
No choice inside a step is fair: `OperationsReturn` holds although the kicks
may be as unlucky as they like. In `CuckooMapThreads` a thread in a call goes
on (weak), a thread that waits for a mutex is not overtaken for ever, and a
`Finding` lives in a scope that ends (strong, for both can be disabled
in between); `ShardedFairSpec` says the same of the shards. The strong fairness of `Lock` is what schedulers give in practice,
not a promise of `std::mutex`. In `AssocUnique` a call that is in a loop
goes on (weak), its callback included; the callback may ask for the end at any
time, but nothing says it will, so a visit ends because it comes to the end.

## Findings

* **An overfull last table loses a pair.** `expungeRandom` leaves `res` at 0, and
  the loop that should fill the new table is skipped; `insert` answers true
  (`map_overfull_loses`). The repository's own `CuckooMapTest` fails at its
  assertion for this reason. `expungeRandom` is handed the pair that was just
  stored, so what it leaves in the slot is a second copy of that pair.
* **Findings do not hold the mutex.** `guard.release()` unlocks; `lookup` returns an
  unprotected `Finding`, whose end unlocks the mutex once more, and `remove(k)`
  removes after it unlocked (`threads_shared`).
* **Filters whose size is not a power of two have false negatives**
  (`filter_odd_size`): `hashToPos` (line 282 of `CuckooFilter.h`) folds positions in a
  way that the xor to the other bucket does not survive, so two keys with the same
  fingerprint can share one home bucket and not the other. `remove` of one then takes the
  fingerprint of the other out of the bucket they share, and `lookup` denies a key that
  was inserted and not removed. The comment on `remove` (line 237) says that it removes an
  element with its own key. With a size that is a power of two, keys that share a
  fingerprint and a bucket share both buckets, and it does not matter which is taken.
* **A reverse iteration misses an element.** `findSequentialReverse` of `AssocUnique`
  never returns an element at the very first position: lines 820-824 leave with
  an empty answer when they reach it, before they look whether it has an element. The
  comment at 793-795 says that it iterates over all elements
  (`assoc_reverse_misses`). Nothing else is missed (`ReverseTheorem`).

Seen in the model or in the code, without a run of their own:

* `InternalCuckooMap::insert` takes the first empty slot although a later slot may
  hold the key, and `CuckooMap` inserts into the last layer without a look at the
  others: keys are unique only if the client looks first, as `CuckooMultiMap` does.
  That is the constant `Checked`. The comments promise false for a present key.
* Once a key is there twice, the move of `lookup` can end with -1 in a later round
  and leave `f->_key` at a slot that by then holds another key.
* `healHole` allocates a new array after the last removal: `bad_alloc` leaves
  `remove` although the element is gone (`RemoveThrows`). It takes the array from
  `new` before it gives up the old one, so the array stays usable.
* The comment of `CuckooMultiMap::insert` (lines 182-184) says that it returns false if
  the pair is already there; it adds a second one and returns true, and the
  repository's test asserts that. The model does as the code and the test.
* `remove(f)` of a sharded map reads the key in the slot to find the shard. If another
  thread has emptied the slot, which the `Finding` does not prevent, the call goes to
  the shard of the empty key and clears a slot of another shard without its mutex.
* The client can break a multimap (see "How a multimap must be used"). If `insert`
  throws `bad_alloc`, the count of the key is one too high (line 243).
* `CuckooMultiMap::lookup(k, f)` and `remove(f)` and the `nrUsed` of `CuckooMap` and of
  what is built on it do not compile when they are used: they hand on `f` instead of `f._innerFinding` (line
  173), name a member `innerFinding` (line 210), and lock the mutex of a `const`
  object. The model has the first two as they are evidently meant.

## Proofs

Every theorem holds for all values of the constants that satisfy the named
assumptions of the modules (`TableAssumption`, `CascadeAssumption`, ...): any
finite number of buckets, any number of slots, any keys, home buckets and
filter classes, any number of rounds, threads and maps.

**One table** (`InternalCuckooMapProofs`). The inductive invariant is
`TypeOK /\ PointerValid`: the step that removes through a pointer or writes a
value needs that the pointer leads to a pair. From it follow, in this order:

| theorem | assumption |
|---|---|
| `TypeTheorem`, `PointerTheorem`, `UsedCountTheorem` | any caller |
| `KeysKeptTheorem` | any caller |
| `PlacementTheorem` | the caller does not expunge |
| `UniqueKeysTheorem`, `MapTheorem` (`ImplementsMap`) | and looks a key up first |

`UniqueKeys` is inductive only together with `Placement`: `insert` is allowed
when `lookup` found nothing, and that says something of the whole table only if
every pair is where the scan goes (`NotFound`). `MapTheorem` is the refinement:
initial states map to initial states, and each action maps to a call of
`UniqueMap` or to a stutter.

**The cascade** (`CuckooMapProofs`). `TypeTheorem` is
for every client, overfull tables and failed allocations included. Its
inductive invariant `TInv` adds to the types what the variables mean at each
control point: a `Finding` leads to a used slot of a table that exists, and
`innerInsert` has a pair and a table in use. The other theorems are about
behaviours that satisfy `[]Roomy`: a table that has just taken a pair is not
overfull. This is an assumption the code does not enforce; without it the
theorems are false (`map_overfull_loses`). It holds in the run `map_checked`,
whose tables have the size of real ones.

| theorem | further assumption |
|---|---|
| `PlacementTheorem`, `MapCountTheorem`, `KeysKeptTheorem` | any client, with or without filters, `new` may throw |
| `UniqueKeysTheorem`, `FindingTheorem`, `SubCountTheorem`, `FilterTheorem`, `LookupTheorem` | `Checked` |
| `MapTheorem` (`ImplementsMap`) | `Checked`, and `new` does not throw |

The argument: `RInv` is `TInv`, `Placement` and `LastOne` (a pair that is out
is stored by `Grow`, since `res` is 1) and is inductive. `StepEffect` shows that every action
is of one of seven kinds (nothing moves, a pair comes in, a slot is cleared, an
empty slot is filled, two pairs are swapped, a value is written, the pair in
hand is given up), and each property is then a matter of seven cases. `Placement`
is needed even for the counter and for `KeysKept`: `Grow` overwrites a slot
without a look, which loses nothing because no pair is in a layer that does not
exist (`NewLayerEmpty`).

For a client that looks a key up first, `CheckedInv` adds what depends on each
other: `UniqueKeys`; `FindingPoints` and `Pointing`, for the states inside a
call (the pair that is looked up is in hand or where the `Finding` points); and
`Books`, that the counter of each table and the fingerprints in each filter are
those of the pairs in it, but for the one pair that a call has taken out of a
table and not yet out of the filter, or the other way round (`Pending`). None of
these is inductive alone. A lookup passes over a layer whose filter says no, so
that a key is not inserted twice needs exact filters; a filter stays exact
because the fingerprint that is removed is there, which needs the counts of the
table; and that the pair in hand is not in a table as well needs unique keys.
`MapTheorem` follows: the value of a key is that of its slot or of the hand, and
the pair that `lookup` moves is found again under the same value. It excludes a failed
allocation: `GrowFails` gives up the pair in hand, which after a kick is one that
was stored before.

**One filter** (`CuckooFilterProofs`).

| theorem | assumption |
|---|---|
| `TypeTheorem`, `CountTheorem` (`CountMoves`) | any size |
| `ClassTheorem` (`ClassExact`), `NoMissTheorem` (`NoFalseNegatives`) | `Size = NiceSize`: the size is a power of two |

`KInv` adds to the types that a kick has a fingerprint in hand for a bucket that
is full; it is what the counter needs, for any size. `CInv` adds `ClassExact` (and that
the sets it counts are finite), which is inductive: a kick takes a fingerprint out of a
slot and puts another one there, and each stays in its class, that is, in one of the
same two buckets. The heart is that the other bucket of the other bucket is the
first one again (`OtherBack`, `SameClass`), from the law of xor. For sizes that
are not a power of two this fails, and so does `NoFalseNegatives`: that is the run
`filter_odd_size`.

**The multimap** (`CuckooMultiMapProofs`). For a `Careful` client, any keys,
values and slots: `MultiMapTypeTheorem` (`TypeOK`), `NumberingTheorem`,
`FindingPointsTheorem` and `IterationTheorem` (`IterationComplete`). They come from one
invariant `IInv` (`MultiMapInvariant`). Its part `Orderly` says that the keys of the inner map are unique and
that the pairs of a key are numbered 0, -1 .. up to one less than the count the
first one carries; `Known`, that what the client has looked up is still so: the count of its `Finding` is that of the key, what
it has seen is what `next` has gone through; `Removal`, which pair each turn of
`remove(k)` takes next, since the numbering has no gap only before the last
number that is left. `Numbering` is not inductive without `Known`, for an insert writes the
new count from the one that the `Finding` has, nor without `Removal`. Lookups
may move pairs between slots, as the inner map does; the proof uses only
that such a move is a permutation that keeps every pair (`Shuffle`), so it holds
for whatever the inner map does inside a lookup.

**Threads** (`CuckooMapThreadsProofs`). `ExclusionTheorem`: a map whose clients
only insert is used by one thread at a time, whatever the threads do to other
maps. The strengthening says that a thread inside an insert owns the mutex of
the map, and that no thread has a `Finding` of such a map, which could unlock it.

**Shards** (`ShardedMapProofs`). For any number of threads and of shards asked for,
and any hash function: `ShardTypeTheorem` (`ShardedTypeOK`), `FindingTheorem`
(`FindingShard`) and `ShardsExclude`, the exclusion above for the shards. Every
step of the shards is one of `CuckooMapThreads` or leaves its variables alone
(`StepIsThreads`), so its invariant carries over. `FindingShard` alone is not
inductive: `ShardInv` adds that a thread inside a lookup works on the shard
of the key it looks for, and that the slot its `Finding` points to by then holds a
key of that shard or is empty. That other threads write to the slot does not
disturb it, because they write keys of the shard they are in. `NrShardsPositive`
is what the arithmetic needs: the `CHOOSE` of `NrShards` has a value.

**The open-addressing array** (`AssocUniqueProofs`). For any hash function, number of
buckets and finite table of sizes (`AssocAssumption`: `initialSize()` is one of
them and above 3; the code's is 251), with or without failing allocations:
`TypeTheorem`, `SearchableTheorem`, `UsedCountTheorem`, `IterationTheorem`
(`IterationComplete`: a forward iteration, `findElementSequential` with a callback
or one that removes has answered everything), `EachOnceTheorem` (`EachOnce`) and
`MapTheorem` (`ImplementsMap`). That is every safety property the run `assoc`
checks. `ReverseTheorem` is about the reverse iteration, for which `ReverseComplete`
fails: the only element it leaves out is the one at the very first position.

`AInv` (`ArrayInvariant`) is inductive by itself. Each bucket is `Good`: `used` counts
its elements and what is left in the old array; the array is at most two thirds
full, but for the one element that brings it there; a key is there once, in the bucket
of its hash; and from the home of an element to the element there is no gap. In
the loop of `healHole` the bucket may have one gap, the hole, and `Walked` says
what the loop knows: every position between the hole and `loc.k` is used, by an
element whose search does not pass the hole. So when `loc.k` meets a free position the hole is
harmless, because no search gets past that position (`HealedFacts`). In
the loop of `resizeInternal`, what is left in the old array has no key that is in
the new one, so nothing need be compared there. That the bucket is never full is
what makes every search end; it needs that `checkResize` is asked before each
insert and that the new size is more than double the old one (`NearPrimeGrows`).

`WInv` (`WalkInvariant`) says that what an iteration has still to answer is what is
stored from its position on. It is hard for the callback that removes: `healHole` may
bring any later element to the position, even one from the start of the array
that the iteration has answered. It is still true that nothing unanswered goes
behind the position, for the hole moves forward from the position, and
`healHole` stops before it comes round to it: an array that is at most two thirds
full has a second free position (`Around`). `MapTheorem` takes the elements in the
arrays and those still in the old one as the contents of the map. Growth, a turn of
`resizeInternal`, and a turn of `healHole` change nothing of that; every other action
is one call of `UniqueMap`.

Out of the prover's reach and left to TLC: liveness (`OperationsReturn`,
`CallsReturn`, `InsertReturns`), and what depends on `ENABLED`.

## Not modelled, and next

Only model-checked, on the instances above: the refinement of `MultiMap` by
`CuckooMultiMap`, and the liveness properties. The one proof that is left to do is
`ImplementsMultiMap`: the values of a key as a bag, under moves of its pairs.

Not modelled: `mmap` and the files behind it and `remove_directory` (file I/O),
the hash function (arithmetic; a constant of the models), the tests and
performance programs, `nrUsed` of the maps and of the shards (it changes nothing
and does not compile), `findElementSequentialBucketsRandom` of `AssocUnique`
(never called), moving a `Finding` (lines 126-153 of `CuckooMap.h`; results are
built in place), the pairs in the shards of a `ShardedMap` (see above), exceptions
under a multimap or the shards, shards that are multimaps (the calls are
forwarded in the same way), and a second allocation of lines 365-379 of `CuckooMap.h` that fails after the first (see the
hazards in `PROJECT.json`).

`expungeRandom` is said to expunge a pair, and also stores the pair it is handed
in the freed slot. `CuckooFilter` never initialises `_nrUsed`, so `nrUsed()` is
the number of members only up to a constant, which is why `CountMoves` is about
its changes.
