----------------------------- MODULE ShardedMap -----------------------------
(***************************************************************************)
(* A map made of several maps (ShardedMap.h), used by several threads.  A  *)
(* call goes to the shard of its key, and there to the call of the same    *)
(* name, which locks and unlocks as in module CuckooMapThreads.  Added to  *)
(* that is what decides the shard: the keys of the calls and, for          *)
(* remove(f), the key in the slot that the Finding points to.              *)
(*                                                                         *)
(* A Finding does not keep other threads out of its shard, so they may     *)
(* write to that slot: their calls kick and move pairs, within the shard,  *)
(* and empty slots.  What else is in the shards, and what their calls      *)
(* answer, is the subject of CuckooMap.                                    *)
(***************************************************************************)
EXTENDS CuckooMapThreads, Integers

CONSTANTS
  Key,
  AskedShards,      \* nrShards of the constructor
  Fold, FoldAgain,  \* the folded hash of a key, without and with its last fold
  EmptyKey,         \* Key(), which an empty slot holds
  NoKey             \* the null pointer

(* The least power of two that is at least what was asked for, up to 2^16. *)
Powers == {1, 2, 4, 8, 16, 32, 64, 128, 256, 512, 1024, 2048, 4096, 8192, 16384,
           32768, 65536}

NrShards == CHOOSE n \in Powers : /\ n >= AskedShards \/ n = 65536
                                  /\ \A m \in Powers : m < n => m < AskedShards

Shard == 0 .. NrShards - 1

ASSUME ShardedAssumption ==
  /\ AskedShards \in Nat
  /\ EmptyKey \notin Key /\ NoKey \notin Key \cup {EmptyKey}
  /\ Fold \in [Key \cup {EmptyKey} -> Nat]
  /\ FoldAgain \in [Key \cup {EmptyKey} -> Nat]
  /\ Map = Shard

VARIABLES
  arg,   \* the key of the call each thread is in
  key    \* the content of the slot that _key of its Finding points to

shardedVars == <<owner, pc, op, on, found, arg, key>>

ShardedInit == /\ Init
               /\ arg = [t \in Thread |-> NoKey]
               /\ key = [t \in Thread |-> NoKey]

-----------------------------------------------------------------------------
FindShard(k) == (IF NrShards <= 256 THEN FoldAgain[k] ELSE Fold[k]) % NrShards

SetKey(t, k) == key' = [key EXCEPT ![t] = k]

(* lookup(k), insert(k, v), remove(k)                                      *)
ShardGuarded(t, o, k) ==
  /\ CallGuarded(t, o, FindShard(k))
  /\ arg' = [arg EXCEPT ![t] = k]
  /\ UNCHANGED key

(* lookup(k, f), which begins with f._key = nullptr, and insert(k, v, f)   *)
ShardWithFinding(t, o, k) ==
  /\ o \in {"lookupF", "insertF"}
  /\ CallWithFinding(t, o, FindShard(k))
  /\ arg' = [arg EXCEPT ![t] = k]
  /\ IF o = "lookupF" THEN SetKey(t, NoKey) ELSE UNCHANGED key

(* remove(f) reads the key through the pointer, which must not be null.    *)
(* Where the slot was emptied the call may go to another shard, and there  *)
(* to a pair that is not its own; only what it locks is modelled.          *)
ShardRemoveFound(t) ==
  /\ key[t] # NoKey
  /\ CallWithFinding(t, "removeF", FindShard(key[t]))
  /\ arg' = [arg EXCEPT ![t] = key[t]]
  /\ UNCHANGED key

ShardLock(t) == Lock(t) /\ UNCHANGED <<arg, key>>

(* innerLookup finds the key, and the Finding points to its slot.          *)
Finds(t) ==
  /\ pc[t] = "inner" /\ op[t] \in {"lookup", "lookupF"}
  /\ key[t] = NoKey
  /\ SetKey(t, arg[t])
  /\ UNCHANGED <<vars, arg>>

(* insert(k, v, f) and innerRemove(f) end with f._key = nullptr.           *)
Mut_Leaves_InsertKeeps(t) == IF op[t] = "removeF" THEN NoKey ELSE key[t]
Leaves(t) == IF op[t] \in {"insertF", "removeF"} THEN NoKey ELSE key[t]

ShardLeave(t) ==
  /\ Leave(t)
  /\ arg' = [arg EXCEPT ![t] = IF pc'[t] = "idle" THEN NoKey ELSE @]
  /\ SetKey(t, Leaves(t))

ShardDrop(t) == DropFinding(t) /\ SetKey(t, NoKey) /\ UNCHANGED arg

(* Another thread writes to the slot: an insert puts another pair there,   *)
(* of the same shard, and a lookup that moves a pair or a remove may also  *)
(* leave the slot empty.                                                   *)
PointsInto(t) == IF pc[t] = "idle" THEN found[t] ELSE on[t]

Writes(u) == \/ pc[u] = "inner" /\ op[u] # "remove"
             \/ pc[u] = "unlocked"

Written(u) == {k \in Key : FindShard(k) = on[u]}
                \cup (IF op[u] \in {"insert", "insertF"} THEN {} ELSE {EmptyKey})

Overwritten(t) ==
  /\ pc[t] = "idle" \/ op[t] \in {"lookup", "lookupF"}
  /\ key[t] # NoKey
  /\ \E u \in Thread \ {t} : /\ Writes(u) /\ on[u] = PointsInto(t)
                             /\ \E k \in Written(u) : SetKey(t, k)
  /\ UNCHANGED <<vars, arg>>

ShardedNext == \E t \in Thread :
  \/ \E k \in Key : \/ \E o \in WithGuard : ShardGuarded(t, o, k)
                    \/ \E o \in WithFinding : ShardWithFinding(t, o, k)
  \/ ShardRemoveFound(t)
  \/ ShardLock(t) \/ Finds(t) \/ ShardLeave(t) \/ ShardDrop(t)
  \/ Overwritten(t)

ShardedSpec == ShardedInit /\ [][ShardedNext]_shardedVars

(* As in CuckooMapThreads                                                  *)
ShardedFairSpec ==
  /\ ShardedSpec
  /\ \A t \in Thread : /\ WF_shardedVars(ShardLeave(t))
                       /\ SF_shardedVars(ShardLock(t))
                       /\ SF_shardedVars(ShardDrop(t))

-----------------------------------------------------------------------------
ShardedTypeOK ==
  /\ TypeOK
  /\ arg \in [Thread -> Key \cup {EmptyKey, NoKey}]
  /\ key \in [Thread -> Key \cup {EmptyKey, NoKey}]

(* Between its calls, the Finding of a thread is one of the shard of the   *)
(* key it leads to, whichever shards it was used with before and whatever  *)
(* other threads write to the slot, unless they empty it.  So remove(f),   *)
(* which computes the shard anew from that key (line 73), stays with the   *)
(* map whose slot it is to clear.                                          *)
FindingShard == \A t \in Thread : pc[t] = "idle" /\ key[t] \in Key
                                    => found[t] = FindShard(key[t])
=============================================================================
