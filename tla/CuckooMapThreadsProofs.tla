----------------------- MODULE CuckooMapThreadsProofs -----------------------
(***************************************************************************)
(* Theorems on CuckooMapThreads, for any number of threads and maps.       *)
(***************************************************************************)
EXTENDS CuckooMapThreads, TLAPS

InsertOnly(m) == Ops[m] \subseteq {"insert"}

(* A thread in a call works on a map whose clients use that operation, a   *)
(* Finding is one of a map that is not only inserted into, and in a map    *)
(* that is, the mutex belongs to the thread that is inside.                *)
InCall(t) == pc[t] # "idle" => on[t] \in Map /\ op[t] \in Ops[on[t]]

Removes(t) == pc[t] = "unlocked" => op[t] = "remove"

Findings(t) == found[t] # NoMap => ~InsertOnly(found[t])

Owns(t) == pc[t] = "inner" /\ InsertOnly(on[t]) => owner[on[t]] = t

Inv == /\ TypeOK
       /\ \A t \in Thread : InCall(t) /\ Removes(t) /\ Findings(t) /\ Owns(t)

LEMMA InitInv == Init => Inv
BY ThreadsAssumption DEF Init, Inv, TypeOK, InCall, Removes, Findings, Owns

LEMMA NextInv == Inv /\ [Next]_vars => Inv'
<1> SUFFICES ASSUME Inv, [Next]_vars PROVE Inv'
  OBVIOUS
<1> USE ThreadsAssumption DEF WithGuard, WithFinding
<1>1. ASSUME NEW t \in Thread, NEW m \in Map, NEW o \in Ops[m], CallGuarded(t, o, m)
      PROVE Inv'
  <2>1. TypeOK'
    BY <1>1 DEF Inv, TypeOK, CallGuarded
  <2>2. ASSUME NEW u \in Thread PROVE (InCall(u) /\ Removes(u) /\ Findings(u) /\ Owns(u))'
    BY <1>1, <2>1 DEF Inv, TypeOK, CallGuarded, InCall, Removes, Findings, Owns, InsertOnly
  <2> QED BY <2>1, <2>2 DEF Inv
<1>2. ASSUME NEW t \in Thread, NEW m \in Map, NEW o \in Ops[m], CallWithFinding(t, o, m)
      PROVE Inv'
  <2>1. TypeOK'
    BY <1>2 DEF Inv, TypeOK, CallWithFinding, Unlock
  <2>2. ~InsertOnly(m)
    BY <1>2 DEF CallWithFinding, InsertOnly
  <2>3. found[t] \in Map /\ ~InsertOnly(found[t])
    BY <1>2 DEF Inv, TypeOK, Findings, CallWithFinding
  <2>4. ASSUME NEW u \in Thread PROVE (InCall(u) /\ Removes(u) /\ Findings(u) /\ Owns(u))'
    <3>1. CASE u = t
      BY <1>2, <2>1, <2>2, <3>1
      DEF Inv, TypeOK, CallWithFinding, InCall, Removes, Findings, Owns, InsertOnly
    <3>2. CASE u # t
      BY <1>2, <2>1, <2>3, <3>2
      DEF Inv, TypeOK, CallWithFinding, Unlock, InCall, Removes, Findings, Owns, InsertOnly
    <3> QED BY <3>1, <3>2
  <2> QED BY <2>1, <2>4 DEF Inv
<1>3. ASSUME NEW t \in Thread, Lock(t) PROVE Inv'
  <2>1. TypeOK' /\ on[t] \in Map
    BY <1>3 DEF Inv, TypeOK, Lock, InCall
  <2>2. ASSUME NEW u \in Thread PROVE (InCall(u) /\ Removes(u) /\ Findings(u) /\ Owns(u))'
    BY <1>3, <2>1 DEF Inv, TypeOK, Lock, InCall, Removes, Findings, Owns, InsertOnly
  <2> QED BY <2>1, <2>2 DEF Inv
<1>4. ASSUME NEW t \in Thread, LeaveInsert(t) PROVE Inv'
  <2>1. TypeOK' /\ on[t] \in Map
    BY <1>4 DEF Inv, TypeOK, LeaveInsert, Unlock, InCall
  <2>2. ASSUME NEW u \in Thread PROVE (InCall(u) /\ Removes(u) /\ Findings(u) /\ Owns(u))'
    BY <1>4, <2>1
    DEF Inv, TypeOK, LeaveInsert, Unlock, InCall, Removes, Findings, Owns, InsertOnly
  <2> QED BY <2>1, <2>2 DEF Inv
<1>5. ASSUME NEW t \in Thread, LeaveLookup(t) \/ ReleaseRemove(t) \/ LeaveRemove(t)
      PROVE Inv'
  <2>1. TypeOK' /\ on[t] \in Map
    BY <1>5 DEF Inv, TypeOK, LeaveLookup, ReleaseRemove, LeaveRemove, Unlock, InCall
  <2>2. ~InsertOnly(on[t])
    BY <1>5 DEF Inv, LeaveLookup, ReleaseRemove, LeaveRemove, InCall, Removes, InsertOnly
  <2>3. ASSUME NEW u \in Thread PROVE (InCall(u) /\ Removes(u) /\ Findings(u) /\ Owns(u))'
    BY <1>5, <2>1, <2>2
    DEF Inv, TypeOK, LeaveLookup, ReleaseRemove, LeaveRemove, Unlock,
        InCall, Removes, Findings, Owns, InsertOnly
  <2> QED BY <2>1, <2>3 DEF Inv
<1>6. ASSUME NEW t \in Thread, LeaveWithFinding(t) PROVE Inv'
  BY <1>6 DEF Inv, TypeOK, LeaveWithFinding, InCall, Removes, Findings, Owns, InsertOnly
<1>7. ASSUME NEW t \in Thread, DropFinding(t) PROVE Inv'
  <2>1. TypeOK' /\ found[t] \in Map /\ ~InsertOnly(found[t])
    BY <1>7 DEF Inv, TypeOK, DropFinding, Unlock, Findings
  <2>2. ASSUME NEW u \in Thread PROVE (InCall(u) /\ Removes(u) /\ Findings(u) /\ Owns(u))'
    BY <1>7, <2>1
    DEF Inv, TypeOK, DropFinding, Unlock, InCall, Removes, Findings, Owns, InsertOnly
  <2> QED BY <2>1, <2>2 DEF Inv
<1>8. CASE UNCHANGED vars
  BY <1>8 DEF Inv, TypeOK, vars, InCall, Removes, Findings, Owns, InsertOnly
<1> QED
  BY <1>1, <1>2, <1>3, <1>4, <1>5, <1>6, <1>7, <1>8 DEF Next, Leave

LEMMA InvExcludes == Inv => InsertsExclude
<1> SUFFICES ASSUME Inv, NEW m \in Map, InsertOnly(m),
                    NEW t \in Thread, NEW u \in Thread, Touches(t, m), Touches(u, m)
             PROVE t = u
  BY DEF InsertsExclude, Excludes, InsertOnly
<1>1. ASSUME NEW w \in Thread, Touches(w, m) PROVE owner[m] = w
  BY <1>1, ThreadsAssumption
  DEF Inv, Touches, InCall, Removes, Findings, Owns, InsertOnly
<1> QED
  BY <1>1

THEOREM Invariance == Spec => []Inv
BY InitInv, NextInv, PTL DEF Spec

(* The variables of the protocol keep their types: a mutex is free or      *)
(* locked by a thread, a call is in one of its phases.                     *)
THEOREM TypeTheorem == Spec => []TypeOK
<1>1. Inv => TypeOK
  BY DEF Inv
<1> QED
  BY <1>1, Invariance, PTL

(* A map whose clients only insert is used by one thread at a time: no     *)
(* early or second unlock of another map's Finding or remove reaches its   *)
(* mutex.                                                                  *)
THEOREM ExclusionTheorem == Spec => []InsertsExclude
BY Invariance, InvExcludes, PTL
=============================================================================
