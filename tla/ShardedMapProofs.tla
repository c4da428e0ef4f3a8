-------------------------- MODULE ShardedMapProofs --------------------------
(***************************************************************************)
(* Theorems on the sharded map, for any number of shards, threads, keys    *)
(* and hashes.  A behaviour of the shards is one of CuckooMapThreads, so   *)
(* its invariant Inv is used here.                                         *)
(***************************************************************************)
EXTENDS ShardedMap, CuckooMapThreadsProofs

(* The constructor finds a number of shards, whatever was asked for.       *)
LEMMA NrShardsPositive == NrShards \in Nat \ {0}
<1> DEFINE Good(n) == /\ n >= AskedShards \/ n = 65536
                      /\ \A m \in Powers : m < n => m < AskedShards
<1>1. \E n \in Powers : Good(n)
  <2>1. CASE AskedShards <= 1     BY <2>1, ShardedAssumption, SMT DEF Powers
  <2>2. CASE AskedShards > 1 /\ AskedShards <= 16
    BY <2>2, ShardedAssumption, SMTT(30) DEF Powers
  <2>3. CASE AskedShards > 16 /\ AskedShards <= 512
    BY <2>3, ShardedAssumption, SMTT(30) DEF Powers
  <2>4. CASE AskedShards > 512 /\ AskedShards <= 8192
    BY <2>4, ShardedAssumption, SMTT(30) DEF Powers
  <2>5. CASE AskedShards > 8192
    BY <2>5, ShardedAssumption, SMTT(30) DEF Powers
  <2> QED BY <2>1, <2>2, <2>3, <2>4, <2>5, ShardedAssumption, SMT
<1>2. NrShards = CHOOSE n \in Powers : Good(n)
  BY DEF NrShards
<1>3. NrShards \in Powers
  BY <1>1, <1>2
<1> QED BY <1>3, SMT DEF Powers

(* findShard leads to a shard that exists, for the empty key too.          *)
LEMMA ShardExists ==
  ASSUME NEW k \in Key \cup {EmptyKey}
  PROVE  FindShard(k) \in Map
<1>1. FoldAgain[k] \in Nat /\ Fold[k] \in Nat
  BY ShardedAssumption
<1>2. FindShard(k) \in Shard
  BY <1>1, NrShardsPositive, SMT DEF FindShard, Shard
<1> QED BY <1>2, ShardedAssumption

-----------------------------------------------------------------------------
(* Every step of the shards is one of the locking protocol, or none of it. *)
LEMMA StepIsThreads == ShardedTypeOK /\ [ShardedNext]_shardedVars => [Next]_vars
<1> SUFFICES ASSUME ShardedTypeOK, ShardedNext PROVE [Next]_vars
  BY DEF shardedVars, vars
<1>1. PICK t \in Thread :
        \/ \E k \in Key : \/ \E o \in WithGuard : ShardGuarded(t, o, k)
                          \/ \E o \in WithFinding : ShardWithFinding(t, o, k)
        \/ ShardRemoveFound(t)
        \/ ShardLock(t) \/ Finds(t) \/ ShardLeave(t) \/ ShardDrop(t)
        \/ Overwritten(t)
  BY DEF ShardedNext
<1>2. ASSUME NEW m \in Map, NEW o, CallGuarded(t, o, m) \/ CallWithFinding(t, o, m)
      PROVE  Next
  <2>1. o \in Ops[m] /\ t \in Thread
    BY <1>2 DEF CallGuarded, CallWithFinding
  <2> QED BY <1>2, <2>1 DEF Next
<1>3. ASSUME NEW k \in Key, NEW o,
             ShardGuarded(t, o, k) \/ ShardWithFinding(t, o, k)
      PROVE  Next
  <2>1. CallGuarded(t, o, FindShard(k)) \/ CallWithFinding(t, o, FindShard(k))
    BY <1>3 DEF ShardGuarded, ShardWithFinding
  <2>2. FindShard(k) \in Map
    BY ShardExists
  <2> QED BY <1>2, <2>1, <2>2
<1>4. CASE ShardRemoveFound(t)
  <2>1. key[t] \in Key \cup {EmptyKey} /\ CallWithFinding(t, "removeF", FindShard(key[t]))
    BY <1>4 DEF ShardRemoveFound, ShardedTypeOK
  <2>2. FindShard(key[t]) \in Map
    BY <2>1, ShardExists
  <2> QED BY <1>2, <2>1, <2>2
<1>5. CASE ShardLock(t) \/ ShardLeave(t) \/ ShardDrop(t)
  BY <1>5 DEF ShardLock, ShardLeave, ShardDrop, Next
<1>6. CASE Finds(t) \/ Overwritten(t)
  BY <1>6 DEF Finds, Overwritten
<1> QED BY <1>1, <1>3, <1>4, <1>5, <1>6

-----------------------------------------------------------------------------
(* Between calls: without a map the Finding has no key, and a key of it is *)
(* one of its shard.  In a lookup, which may have found a key already: the *)
(* shard is that of its argument.  Guarded calls have no Finding to go by, *)
(* the others have moved it to the shard they work on.                     *)
Lookups == {"lookup", "lookupF"}

AtRest(t) == pc[t] = "idle" => /\ found[t] = NoMap => key[t] = NoKey
                               /\ key[t] \in Key => found[t] = FindShard(key[t])

Looking(t) == pc[t] # "idle" /\ op[t] \in Lookups =>
                /\ arg[t] \in Key /\ on[t] = FindShard(arg[t])
                /\ key[t] \in Key => on[t] = FindShard(key[t])

Moved(t) == pc[t] # "idle" =>
              /\ op[t] \in {"insert", "remove"} => key[t] = NoKey
              /\ op[t] \in WithFinding => found[t] = on[t]

KeyInv(t) == AtRest(t) /\ Looking(t) /\ Moved(t)

ShardInv == Inv /\ ShardedTypeOK /\ \A t \in Thread : KeyInv(t)

LEMMA InitShardInv == ShardedInit => ShardInv
<1> SUFFICES ASSUME ShardedInit PROVE ShardInv
  OBVIOUS
<1>1. Inv
  BY InitInv DEF ShardedInit
<1>2. ShardedTypeOK
  BY <1>1 DEF Inv, ShardedInit, ShardedTypeOK
<1>3. \A t \in Thread : pc[t] = "idle" /\ key[t] = NoKey
  BY DEF ShardedInit, Init
<1>4. \A t \in Thread : KeyInv(t)
  BY <1>3, ShardedAssumption DEF KeyInv, AtRest, Looking, Moved
<1> QED BY <1>1, <1>2, <1>4 DEF ShardInv

(* A step of one thread leaves what the other threads know as it is.       *)
OthersKeep(t) == \A u \in Thread \ {t} :
  /\ pc'[u] = pc[u] /\ op'[u] = op[u] /\ on'[u] = on[u] /\ found'[u] = found[u]
  /\ arg'[u] = arg[u] /\ key'[u] = key[u]

LEMMA OnlyOne ==
  ASSUME ShardInv, NEW t \in Thread, OthersKeep(t), KeyInv(t)'
  PROVE  \A u \in Thread : KeyInv(u)'
<1> SUFFICES ASSUME NEW u \in Thread PROVE KeyInv(u)'
  OBVIOUS
<1>1. CASE u = t
  BY <1>1
<1>2. CASE u # t
  <2>1. KeyInv(u)
    BY DEF ShardInv
  <2> QED BY <1>2, <2>1 DEF OthersKeep, KeyInv, AtRest, Looking, Moved, FindShard
<1> QED BY <1>1, <1>2

LEMMA NextShardInv == ShardInv /\ [ShardedNext]_shardedVars => ShardInv'
<1> SUFFICES ASSUME ShardInv, [ShardedNext]_shardedVars PROVE ShardInv'
  OBVIOUS
<1>1. Inv'
  BY StepIsThreads, NextInv DEF ShardInv
<1>2. TypeOK /\ ShardedTypeOK /\ TypeOK'
  BY <1>1 DEF ShardInv, Inv
<1>3. /\ \A k : FindShard(k)' = FindShard(k)
      /\ NoKey \notin Key /\ EmptyKey \notin Key /\ NoKey # EmptyKey /\ NoMap \notin Map
  BY ShardedAssumption, ThreadsAssumption DEF FindShard
<1> DEFINE Kept(t) == ShardedTypeOK' /\ OthersKeep(t) /\ KeyInv(t)'
<1> USE DEF ShardInv
<1>4. ASSUME NEW t \in Thread, NEW k \in Key, NEW o \in WithGuard, ShardGuarded(t, o, k)
      PROVE  Kept(t)
  <2>1. FindShard(k) \in Map
    BY ShardExists
  <2>2. key[t] = NoKey
    BY <1>4 DEF ShardGuarded, CallGuarded, KeyInv, AtRest
  <2>3. OthersKeep(t) /\ ShardedTypeOK'
    BY <1>2, <1>4 DEF ShardGuarded, CallGuarded, OthersKeep, ShardedTypeOK, TypeOK
  <2>4. /\ pc'[t] = "lock" /\ op'[t] = o /\ on'[t] = FindShard(k)
        /\ arg'[t] = k /\ key'[t] = NoKey
    BY <1>2, <1>4, <2>2 DEF ShardGuarded, CallGuarded, ShardedTypeOK, TypeOK
  <2>5. KeyInv(t)'
    BY <1>3, <2>4 DEF KeyInv, AtRest, Looking, Moved, WithGuard, WithFinding
  <2> QED BY <2>3, <2>5
<1>5. ASSUME NEW t \in Thread, NEW k \in Key, NEW o \in WithFinding, ShardWithFinding(t, o, k)
      PROVE  Kept(t)
  <2>1. FindShard(k) \in Map
    BY ShardExists
  <2>2. OthersKeep(t) /\ ShardedTypeOK'
    BY <1>2, <1>5
    DEF ShardWithFinding, CallWithFinding, SetKey, OthersKeep, ShardedTypeOK, TypeOK
  <2>3. /\ pc'[t] # "idle" /\ op'[t] = o /\ on'[t] = FindShard(k)
        /\ found'[t] = FindShard(k) /\ arg'[t] = k
        /\ o = "lookupF" => key'[t] = NoKey
    BY <1>2, <1>5 DEF ShardWithFinding, CallWithFinding, SetKey, ShardedTypeOK, TypeOK
  <2>4. KeyInv(t)'
    BY <1>3, <2>3 DEF KeyInv, AtRest, Looking, Moved, WithFinding, Lookups
  <2> QED BY <2>2, <2>4
<1>6. ASSUME NEW t \in Thread, ShardRemoveFound(t) PROVE Kept(t)
  <2>1. OthersKeep(t) /\ ShardedTypeOK'
    BY <1>2, <1>6 DEF ShardRemoveFound, CallWithFinding, OthersKeep, ShardedTypeOK, TypeOK
  <2>2. /\ pc'[t] # "idle" /\ op'[t] = "removeF"
        /\ found'[t] = on'[t]
    BY <1>2, <1>6 DEF ShardRemoveFound, CallWithFinding, ShardedTypeOK, TypeOK
  <2>3. KeyInv(t)'
    BY <2>2 DEF KeyInv, AtRest, Looking, Moved, Lookups
  <2> QED BY <2>1, <2>3
<1>7. ASSUME NEW t \in Thread, ShardLock(t) PROVE Kept(t)
  <2>1. OthersKeep(t) /\ ShardedTypeOK'
    BY <1>2, <1>7 DEF ShardLock, Lock, OthersKeep, ShardedTypeOK, TypeOK
  <2>2. /\ pc[t] # "idle" /\ pc'[t] # "idle"
        /\ UNCHANGED <<op, on, found, arg, key>>
    BY <1>2, <1>7 DEF ShardLock, Lock, TypeOK
  <2>3. KeyInv(t)
    OBVIOUS
  <2>4. KeyInv(t)'
    BY <1>3, <2>2, <2>3 DEF KeyInv, AtRest, Looking, Moved
  <2> QED BY <2>1, <2>4
<1>8. ASSUME NEW t \in Thread, Finds(t) PROVE Kept(t)
  <2>1. KeyInv(t) /\ UNCHANGED vars /\ UNCHANGED arg /\ SetKey(t, arg[t])
    BY <1>8 DEF Finds
  <2>2. OthersKeep(t) /\ ShardedTypeOK' /\ key'[t] = arg[t]
    BY <1>2, <2>1 DEF SetKey, vars, OthersKeep, ShardedTypeOK, TypeOK
  <2>3. pc[t] = "inner" /\ op[t] \in Lookups
    BY <1>8 DEF Finds, Lookups
  <2>4. arg[t] \in Key /\ on[t] = FindShard(arg[t])
    BY <2>1, <2>3 DEF KeyInv, Looking
  <2>5. KeyInv(t)'
    BY <1>3, <2>1, <2>2, <2>3, <2>4
    DEF KeyInv, AtRest, Looking, Moved, vars, Lookups, WithFinding
  <2> QED BY <2>2, <2>5
<1>9. ASSUME NEW t \in Thread, ShardLeave(t) PROVE Kept(t)
  <2>1. KeyInv(t) /\ Leave(t) /\ SetKey(t, Leaves(t)) /\ InCall(t) /\ Removes(t)
    BY <1>9 DEF ShardLeave, Inv
  <2>2. Leaves(t) \in {NoKey, key[t]}
    BY DEF Leaves
  <2>3. key' = [key EXCEPT ![t] = Leaves(t)] /\ key'[t] = Leaves(t)
    BY <1>2, <2>1 DEF SetKey, ShardedTypeOK
  <2>4. UNCHANGED <<op, on>>
    BY <2>1 DEF Leave, LeaveInsert, LeaveLookup, LeaveWithFinding, ReleaseRemove, LeaveRemove
  <2>5. OthersKeep(t)
    BY <1>2, <1>9, <2>3 DEF ShardLeave, Leave, LeaveInsert, LeaveLookup, LeaveWithFinding,
       ReleaseRemove, LeaveRemove, OthersKeep, ShardedTypeOK, TypeOK
  <2>6. ShardedTypeOK'
    BY <1>2, <1>9, <2>2, <2>3 DEF ShardLeave, ShardedTypeOK
  <2>7. KeyInv(t)'
    <3>1. CASE LeaveInsert(t) \/ LeaveRemove(t)
      <4>1. pc[t] # "idle" /\ pc'[t] = "idle" /\ op[t] \in {"insert", "remove"}
        BY <1>2, <2>1, <3>1 DEF LeaveInsert, LeaveRemove, Removes, TypeOK
      <4>2. key'[t] = NoKey
        BY <2>1, <2>2, <2>3, <4>1 DEF KeyInv, Moved
      <4> QED BY <1>3, <4>1, <4>2 DEF KeyInv, AtRest, Looking, Moved
    <3>2. CASE LeaveLookup(t)
      <4>1. /\ pc[t] # "idle" /\ pc'[t] = "idle" /\ op[t] \in Lookups
            /\ found'[t] = on[t] /\ on[t] \in Map /\ key'[t] = key[t]
        BY <1>2, <2>1, <2>3, <3>2 DEF LeaveLookup, InCall, TypeOK, Leaves, Lookups
      <4> QED BY <1>3, <2>1, <4>1 DEF KeyInv, AtRest, Looking, Moved
    <3>3. CASE LeaveWithFinding(t)
      <4>1. /\ pc[t] # "idle" /\ pc'[t] = "idle" /\ op[t] \in WithFinding
            /\ found'[t] = found[t] /\ on[t] \in Map
        BY <1>2, <2>1, <3>3 DEF LeaveWithFinding, InCall, TypeOK
      <4>2. found[t] = on[t]
        BY <2>1, <4>1 DEF KeyInv, Moved
      <4>3. op[t] \in Lookups \/ key'[t] = NoKey
        BY <2>3, <4>1 DEF WithFinding, Lookups, Leaves
      <4> QED BY <1>3, <2>1, <2>2, <2>3, <4>1, <4>2, <4>3
              DEF KeyInv, AtRest, Looking, Moved
    <3>4. CASE ReleaseRemove(t)
      <4>1. pc[t] # "idle" /\ pc'[t] # "idle" /\ op[t] = "remove" /\ op'[t] = "remove"
        BY <1>2, <2>4, <3>4 DEF ReleaseRemove, TypeOK
      <4>2. key'[t] = NoKey
        BY <2>1, <2>2, <2>3, <4>1 DEF KeyInv, Moved
      <4> QED BY <1>3, <4>1, <4>2
              DEF KeyInv, AtRest, Looking, Moved, Lookups, WithFinding
    <3> QED BY <2>1, <3>1, <3>2, <3>3, <3>4 DEF Leave
  <2> QED BY <2>5, <2>6, <2>7
<1>10. ASSUME NEW t \in Thread, ShardDrop(t) PROVE Kept(t)
  <2>1. OthersKeep(t) /\ ShardedTypeOK' /\ key'[t] = NoKey /\ pc'[t] = "idle"
    BY <1>2, <1>10 DEF ShardDrop, DropFinding, SetKey, OthersKeep, ShardedTypeOK, TypeOK
  <2>2. KeyInv(t)'
    BY <1>3, <2>1 DEF KeyInv, AtRest, Looking, Moved
  <2> QED BY <2>1, <2>2
<1>11. ASSUME NEW t \in Thread, Overwritten(t) PROVE Kept(t)
  <2>1. PICK u \in Thread \ {t} : /\ on[u] = PointsInto(t)
                                 /\ \E k \in Written(u) : SetKey(t, k)
    BY <1>11 DEF Overwritten
  <2>2. PICK k \in Written(u) : SetKey(t, k)
    BY <2>1
  <2>3. /\ KeyInv(t) /\ UNCHANGED vars /\ UNCHANGED arg /\ key[t] # NoKey
        /\ pc[t] = "idle" \/ op[t] \in Lookups
    BY <1>11 DEF Overwritten, Lookups
  <2>4. k = EmptyKey \/ (k \in Key /\ FindShard(k) = PointsInto(t))
    BY <2>1, <2>2 DEF Written
  <2>5. OthersKeep(t) /\ ShardedTypeOK' /\ key'[t] = k
    BY <1>2, <2>2, <2>3, <2>4 DEF SetKey, vars, OthersKeep, ShardedTypeOK, TypeOK
  <2>6. KeyInv(t)'
    BY <1>3, <2>3, <2>4, <2>5
    DEF KeyInv, AtRest, Looking, Moved, vars, PointsInto, Lookups, WithFinding
  <2> QED BY <2>5, <2>6
<1>12. CASE UNCHANGED shardedVars
  BY <1>1, <1>2, <1>3, <1>12
  DEF shardedVars, ShardedTypeOK, KeyInv, AtRest, Looking, Moved
<1>13. ASSUME NEW t \in Thread, Kept(t) PROVE ShardInv'
  BY <1>1, <1>13, OnlyOne
<1> QED
  BY <1>4, <1>5, <1>6, <1>7, <1>8, <1>9, <1>10, <1>11, <1>12, <1>13 DEF ShardedNext

THEOREM ShardInvariance == ShardedSpec => []ShardInv
BY InitShardInv, NextShardInv, PTL DEF ShardedSpec

(* The variables of the shards keep their types, for every number of       *)
(* shards asked for: a call always goes to a shard that exists.            *)
THEOREM ShardTypeTheorem == ShardedSpec => []ShardedTypeOK
<1>1. ShardInv => ShardedTypeOK
  BY DEF ShardInv
<1> QED BY ShardInvariance, <1>1, PTL

(* The Finding of a thread belongs to the shard of the key it leads to,    *)
(* whatever the other threads do to the slots but empty this one.          *)
THEOREM FindingTheorem == ShardedSpec => []FindingShard
<1>1. ShardInv => FindingShard
  BY DEF ShardInv, KeyInv, AtRest, FindingShard
<1> QED BY ShardInvariance, <1>1, PTL

(* The shards use their mutexes as the maps do alone, so a shard that is   *)
(* only inserted into is used by one thread at a time.                     *)
THEOREM ShardsExclude == ShardedSpec => Spec /\ []InsertsExclude
<1>1. ShardedInit => Init
  BY DEF ShardedInit
<1>2. ShardInv /\ [ShardedNext]_shardedVars => [Next]_vars
  BY StepIsThreads DEF ShardInv
<1>3. ShardedSpec => Spec
  BY <1>1, <1>2, ShardInvariance, PTL DEF ShardedSpec, Spec
<1> QED BY <1>3, ExclusionTheorem, PTL
=============================================================================
