-------------------------- MODULE CuckooMapThreads --------------------------
(***************************************************************************)
(* Who may touch the tables of a CuckooMap when several threads use it     *)
(* (CuckooMap.h, the public operations; MyMutexGuard in CuckooHelpers.h).  *)
(* Every map, and so every shard of a ShardedMap, has one mutex.  A call   *)
(* takes it through a guard or relies on a Finding that is meant to hold   *)
(* it.  What the calls do to the tables is the subject of CuckooMap; here  *)
(* a call is the time between its lock and its unlock.                     *)
(*                                                                         *)
(* std::mutex::unlock by a thread that does not own the mutex is undefined *)
(* by the standard; the mutex of the platform the code is built for simply *)
(* becomes free, which is what Unlock does.                                *)
(***************************************************************************)
CONSTANTS Thread, Map,
          Ops,       \* the operations the clients use, by map
          NoThread, NoMap

WithGuard   == {"lookup", "insert", "remove"}
WithFinding == {"lookupF", "insertF", "removeF"}

ASSUME ThreadsAssumption ==
  /\ Ops \in [Map -> SUBSET (WithGuard \cup WithFinding)]
  /\ NoThread \notin Thread
  /\ NoMap \notin Map

VARIABLES
  owner,  \* who locked the mutex of each map last, NoThread when it is free
  pc,     \* "idle", "lock": waiting, "inner": in innerLookup, innerInsert or
          \* innerRemove, "unlocked": in the innerRemove of remove(k)
  op,     \* the operation each thread is in
  on,     \* the map it works on
  found   \* _map of the thread's Finding

vars == <<owner, pc, op, on, found>>

Init == /\ owner = [m \in Map |-> NoThread]
        /\ pc = [t \in Thread |-> "idle"]
        /\ op = [t \in Thread |-> "none"]
        /\ on = [t \in Thread |-> NoMap]
        /\ found = [t \in Thread |-> NoMap]

Mut_Unlock_Null(m) == owner' = [owner EXCEPT ![m] = NoMap]

Unlock(m) == owner' = [owner EXCEPT ![m] = NoThread]

(* lookup(k), insert(k, v), remove(k).  A thread with a Finding does not   *)
(* call these: by the documentation it would wait for itself.              *)
CallGuarded(t, o, m) ==
  /\ pc[t] = "idle" /\ found[t] = NoMap
  /\ o \in WithGuard \cap Ops[m]
  /\ pc' = [pc EXCEPT ![t] = "lock"]
  /\ op' = [op EXCEPT ![t] = o]
  /\ on' = [on EXCEPT ![t] = m]
  /\ UNCHANGED <<owner, found>>

(* lookup(k, f), insert(k, v, f), remove(f): if f belongs to another map,  *)
(* unlock that one, then lock this one; else go ahead.                     *)
Mut_CallWithFinding_KeepsLock(t, o, m) ==   \* the other map stays locked
  /\ pc[t] = "idle" /\ found[t] # NoMap
  /\ o \in WithFinding \cap Ops[m]
  /\ op' = [op EXCEPT ![t] = o]
  /\ on' = [on EXCEPT ![t] = m]
  /\ IF found[t] = m
     THEN /\ pc' = [pc EXCEPT ![t] = "inner"]
          /\ UNCHANGED owner
     ELSE /\ pc' = [pc EXCEPT ![t] = "lock"]
          /\ UNCHANGED owner
  /\ found' = [found EXCEPT ![t] = m]

CallWithFinding(t, o, m) ==
  /\ pc[t] = "idle" /\ found[t] # NoMap
  /\ o \in WithFinding \cap Ops[m]
  /\ op' = [op EXCEPT ![t] = o]
  /\ on' = [on EXCEPT ![t] = m]
  /\ IF found[t] = m
     THEN /\ pc' = [pc EXCEPT ![t] = "inner"]
          /\ UNCHANGED owner
     ELSE /\ pc' = [pc EXCEPT ![t] = "lock"]
          /\ Unlock(found[t])
  /\ found' = [found EXCEPT ![t] = m]

Mut_Lock_NoWait(t) ==   \* the guard does not wait
  /\ pc[t] = "lock"
  /\ owner' = [owner EXCEPT ![on[t]] = t]
  /\ pc' = [pc EXCEPT ![t] = "inner"]
  /\ UNCHANGED <<op, on, found>>

Lock(t) ==
  /\ pc[t] = "lock" /\ owner[on[t]] = NoThread
  /\ owner' = [owner EXCEPT ![on[t]] = t]
  /\ pc' = [pc EXCEPT ![t] = "inner"]
  /\ UNCHANGED <<op, on, found>>

(* The inner operation is over.  Each of the guarded calls unlocks here:   *)
(* lookup before it returns its Finding, remove before its innerRemove,    *)
(* insert at the end.                                                      *)
LeaveInsert(t) ==
  /\ pc[t] = "inner" /\ op[t] = "insert"
  /\ Unlock(on[t])
  /\ pc' = [pc EXCEPT ![t] = "idle"]
  /\ UNCHANGED <<op, on, found>>

LeaveLookup(t) ==
  /\ pc[t] = "inner" /\ op[t] = "lookup"
  /\ Unlock(on[t])
  /\ pc' = [pc EXCEPT ![t] = "idle"]
  /\ found' = [found EXCEPT ![t] = on[t]]
  /\ UNCHANGED <<op, on>>

LeaveWithFinding(t) ==
  /\ pc[t] = "inner" /\ op[t] \in WithFinding
  /\ pc' = [pc EXCEPT ![t] = "idle"]
  /\ UNCHANGED <<owner, op, on, found>>

ReleaseRemove(t) ==
  /\ pc[t] = "inner" /\ op[t] = "remove"
  /\ Unlock(on[t])
  /\ pc' = [pc EXCEPT ![t] = "unlocked"]
  /\ UNCHANGED <<op, on, found>>

(* innerRemove, if there was a pair, and the end of remove's own Finding,  *)
(* which unlocks once more.                                                *)
LeaveRemove(t) ==
  /\ pc[t] = "unlocked"
  /\ Unlock(on[t])
  /\ pc' = [pc EXCEPT ![t] = "idle"]
  /\ UNCHANGED <<op, on, found>>

(* ~Finding() unlocks the map it refers to.                                *)
DropFinding(t) ==
  /\ pc[t] = "idle" /\ found[t] # NoMap
  /\ Unlock(found[t])
  /\ found' = [found EXCEPT ![t] = NoMap]
  /\ UNCHANGED <<pc, op, on>>

Leave(t) == \/ LeaveInsert(t) \/ LeaveLookup(t) \/ LeaveWithFinding(t)
            \/ ReleaseRemove(t) \/ LeaveRemove(t)

Next == \E t \in Thread :
          \/ \E m \in Map : \E o \in Ops[m] : CallGuarded(t, o, m) \/ CallWithFinding(t, o, m)
          \/ Lock(t)
          \/ Leave(t)
          \/ DropFinding(t)

Spec == Init /\ [][Next]_vars

(* A thread in a call keeps running; a waiting thread is not overtaken for *)
(* ever; a Finding lives in a scope that ends.                             *)
FairSpec == /\ Spec
            /\ \A t \in Thread : /\ WF_vars(Leave(t))
                                 /\ SF_vars(Lock(t))
                                 /\ SF_vars(DropFinding(t))

-----------------------------------------------------------------------------
TypeOK == /\ owner \in [Map -> Thread \cup {NoThread}]
          /\ pc \in [Thread -> {"idle", "lock", "inner", "unlocked"}]
          /\ op \in [Thread -> WithGuard \cup WithFinding \cup {"none"}]
          /\ on \in [Thread -> Map \cup {NoMap}]
          /\ found \in [Thread -> Map \cup {NoMap}]

(* A thread is in the tables of a map during a call, and between its calls *)
(* while it has a Finding, whose key and value it may read and write.      *)
Touches(t, m) == \/ pc[t] \in {"inner", "unlocked"} /\ on[t] = m
                 \/ pc[t] = "idle" /\ found[t] = m

Excludes(m) == \A t, u \in Thread : Touches(t, m) /\ Touches(u, m) => t = u

(* A map whose clients only insert is used by one thread at a time, even   *)
(* if the same threads take, pass on and drop Findings of other maps.      *)
InsertsExclude == \A m \in Map : Ops[m] \subseteq {"insert"} => Excludes(m)

(* The map is thread safe (line 29), and "all accesses to the table are    *)
(* blocked as long as the resulting object stays alive" (lines 173-174):   *)
(* no two threads use a map at a time.                                     *)
MutualExclusion == \A m \in Map : Excludes(m)

(* A thread that waits for a map gets it and its call returns, also when   *)
(* threads hand their Findings from map to map in opposite directions.     *)
CallsReturn == \A t \in Thread : pc[t] # "idle" ~> pc[t] = "idle"
=============================================================================
