---------------------------- MODULE LocksProofs ----------------------------
(***************************************************************************)
(* Proofs about Locks (include/lock.h:32-216, 302-423), for any threads    *)
(* and any finite set of guards, and about the deadlines of its timed      *)
(* calls.                                                                  *)
(***************************************************************************)
EXTENDS TimedWait, FiniteSetTheorems, TLAPS

OwnerInv == owner = NULL <=> count = 0

LocksInv == TypeOK /\ OwnerInv /\ GuardsMatchLock

-----------------------------------------------------------------------------
(* How a step changes the number of a thread's guards.                     *)

LEMMA GuardSetsAreFinite ==
  /\ IsFiniteSet(Reading) /\ Cardinality(Reading) \in Nat
  /\ \A t : IsFiniteSet(Armed(t)) /\ Cardinality(Armed(t)) \in Nat
<1>1. Reading \subseteq Guards /\ \A t : Armed(t) \subseteq Guards
  BY DEF Reading, Armed
<1>2. \A S : S \subseteq Guards => IsFiniteSet(S) /\ Cardinality(S) \in Nat
  BY LocksAssumption, FS_Subset, FS_CardinalityType
<1>3. QED
  BY <1>1, <1>2

LEMMA OneMore ==
  ASSUME NEW S, NEW T, NEW x, IsFiniteSet(S), x \notin S, T = S \cup {x}
  PROVE  Cardinality(T) = Cardinality(S) + 1
  BY FS_AddElement

LEMMA OneLess ==
  ASSUME NEW S, NEW T, NEW x, IsFiniteSet(S), x \in S, T = S \ {x}
  PROVE  Cardinality(T) = Cardinality(S) - 1
  BY FS_RemoveElement

LEMMA InitLocksInv == Init => LocksInv
<1> SUFFICES ASSUME Init PROVE LocksInv
  OBVIOUS
<1>1. Reading = {} /\ \A t \in Threads : Armed(t) = {}
  BY DEF Init, Reading, Armed
<1>2. Cardinality({}) = 0
  BY FS_EmptySet
<1>3. TypeOK /\ OwnerInv
  BY LocksAssumption DEF Init, TypeOK, OwnerInv, MutexGuards, RWGuards
<1>4. GuardsMatchLock
  BY <1>1, <1>2, LocksAssumption DEF Init, GuardsMatchLock, Holds, Lent
<1>5. QED
  BY <1>3, <1>4 DEF LocksInv

\* The steps of the mutex and of its condition leave all guards alone.
LEMMA MutexSteps ==
  ASSUME LocksInv, NEW t \in Threads, UNCHANGED <<rdlocks, guardVars>>,
         \/ LockBare(t) \/ UnlockBare(t) \/ IsOwner(t) \/ (Wait(t) /\ pc[t] = "run")
         \/ Woken(t) \/ \E sleepers \in SUBSET Asleep : Waken(sleepers)
  PROVE  LocksInv'
<1> USE DEF LocksInv, TypeOK, OwnerInv, guardVars, mutexVars, bareVars
<1>1. Reading' = Reading /\ \A u : Armed(u)' = Armed(u)
  BY DEF Reading, Armed
<1>2. \A u : Cardinality(Armed(u)) \in Nat
  BY GuardSetsAreFinite
<1>3. CASE LockBare(t)
  <2>1. TypeOK' /\ OwnerInv'
    BY <1>3, LocksAssumption DEF LockBare, Lock
  <2>2. QED
    BY <1>1, <1>2, <1>3, <2>1, LocksAssumption
       DEF LockBare, Lock, GuardsMatchLock, Holds, Lent
<1>4. CASE UnlockBare(t)
  <2>1. TypeOK' /\ OwnerInv'
    BY <1>4, LocksAssumption DEF UnlockBare, Unlock
  <2>2. /\ owner = t /\ count \in Nat \ {0} /\ count' = count - 1
        /\ owner' = (IF count = 1 THEN NULL ELSE t)
        /\ bare' = [bare EXCEPT ![t] = @ - 1]
        /\ UNCHANGED <<rdlocks, thread, armed, leaked, pc>>
    BY <1>4, LocksAssumption DEF UnlockBare, Unlock
  <2>3. Holds(t)' + Lent(t)' = bare'[t] + leaked[t] + Cardinality(Armed(t))
    <3>1. Holds(t) + Lent(t) = bare[t] + leaked[t] + Cardinality(Armed(t))
      BY DEF GuardsMatchLock
    <3>2. Holds(t)' = Holds(t) - 1 /\ Lent(t)' = Lent(t) /\ bare'[t] = bare[t] - 1
      BY <2>2, LocksAssumption DEF Holds, Lent
    <3>3. Holds(t) \in Nat /\ Lent(t) \in Nat /\ bare[t] \in Nat /\ leaked[t] \in Nat
      BY DEF Holds, Lent
    <3>4. QED
      BY ONLY <1>2, <3>1, <3>2, <3>3
  <2>4. ASSUME NEW u \in Threads \ {t}
        PROVE  Holds(u)' + Lent(u)' = bare'[u] + leaked[u] + Cardinality(Armed(u))
    <3>1. Holds(u)' = Holds(u) /\ Lent(u)' = Lent(u) /\ bare'[u] = bare[u]
      BY <2>2, LocksAssumption DEF Holds, Lent
    <3>2. QED
      BY <3>1 DEF GuardsMatchLock
  <2>5. \A u \in Threads : Holds(u)' + Lent(u)' = bare'[u] + leaked[u] + Cardinality(Armed(u))
    BY <2>3, <2>4
  <2>6. QED
    BY <1>1, <2>1, <2>2, <2>5 DEF GuardsMatchLock
<1>5. CASE IsOwner(t)
  <2>1. TypeOK' /\ OwnerInv'
    BY <1>5, LocksAssumption DEF IsOwner, Lock
  <2>2. QED
    BY <1>1, <1>2, <1>5, <2>1, LocksAssumption
       DEF IsOwner, Lock, GuardsMatchLock, Holds, Lent
<1>6. CASE Wait(t) /\ pc[t] = "run"
  <2>1. TypeOK' /\ OwnerInv'
    BY <1>6, LocksAssumption DEF Wait, Unlock
  <2>2. QED
    <3>1. /\ owner = t /\ count \in Nat \ {0} /\ pc'[t] = "asleep"
          /\ owner' = (IF count = 1 THEN NULL ELSE t) /\ count' = count - 1
          /\ UNCHANGED <<rdlocks, thread, armed, bareVars>>
      BY <1>6, LocksAssumption DEF Wait, Unlock
    <3>2. Holds(t)' + Lent(t)' = Holds(t) + Lent(t)
      BY <1>6, <3>1, LocksAssumption DEF Holds, Lent
    <3>3. \A u \in Threads \ {t} : Holds(u)' = Holds(u) /\ Lent(u)' = Lent(u)
      BY <1>6, <3>1, LocksAssumption DEF Wait, Holds, Lent
    <3>4. QED
      BY <1>1, <2>1, <3>1, <3>2, <3>3 DEF GuardsMatchLock
<1>7. CASE Woken(t)
  <2>1. TypeOK' /\ OwnerInv'
    BY <1>7, LocksAssumption DEF Woken, Lock
  <2>2. QED
    BY <1>1, <1>2, <1>7, <2>1, LocksAssumption
       DEF Woken, Lock, GuardsMatchLock, Holds, Lent
<1>8. CASE \E sleepers \in SUBSET Asleep : Waken(sleepers)
  <2>1. TypeOK' /\ OwnerInv'
    BY <1>8 DEF Waken, Asleep
  <2>2. QED
    BY <1>1, <1>2, <1>8, <2>1 DEF Waken, Asleep, GuardsMatchLock, Holds, Lent
<1>9. QED
  BY <1>3, <1>4, <1>5, <1>6, <1>7, <1>8

\* A new guard: a hold that its thread took for it, or had without a guard.
LEMMA ConstructStep ==
  ASSUME LocksInv, NEW t \in Threads, NEW g \in Guards,
         NEW k \in MutexGuards \cup RWGuards, Construct(g, t, k)
  PROVE  LocksInv'
<1> USE DEF LocksInv, TypeOK, OwnerInv, mutexVars
<1>1. TypeOK' /\ OwnerInv'
  BY LocksAssumption DEF Construct, Lock, ReadLock, WriteLock
<1>2. /\ thread[g] = NULL /\ ~armed[g] /\ thread'[g] = t /\ class'[g] = k /\ armed'[g]
      /\ \A h \in Guards \ {g} :
           thread'[h] = thread[h] /\ class'[h] = class[h] /\ armed'[h] = armed[h]
      /\ UNCHANGED <<leaked, pc>>
  BY DEF Construct, GuardsMatchLock
<1>3. \A u : Cardinality(Armed(u)) \in Nat
  BY GuardSetsAreFinite
<1>4. CASE k \in MutexGuards
  <2>1. /\ Reading' = Reading /\ Armed(t)' = Armed(t) \cup {g} /\ g \notin Armed(t)
        /\ \A u \in Threads \ {t} : Armed(u)' = Armed(u)
    BY <1>2, <1>4 DEF Reading, Armed, MutexGuards, RWGuards
  <2>2. Cardinality(Armed(t)') = Cardinality(Armed(t)) + 1
    BY <2>1, GuardSetsAreFinite, OneMore
  <2>3. \/ Lock(t) /\ bare' = bare
        \/ bare[t] > 0 /\ bare' = [bare EXCEPT ![t] = @ - 1] /\ UNCHANGED <<owner, count>>
    BY <1>4 DEF Construct, MutexGuards
  <2>4. rdlocks' = rdlocks /\ \A h \in Guards : armed'[h] => thread'[h] # NULL
    BY <1>2, <1>4, LocksAssumption DEF Construct, MutexGuards, GuardsMatchLock
  <2>5. Holds(t)' + Lent(t)' = bare'[t] + leaked[t] + Cardinality(Armed(t)')
    <3>1. Holds(t) + Lent(t) = bare[t] + leaked[t] + Cardinality(Armed(t)) /\ Lent(t)' = Lent(t)
      BY <1>2 DEF GuardsMatchLock, Lent
    <3>2. \/ Holds(t)' = Holds(t) + 1 /\ bare'[t] = bare[t]
          \/ Holds(t)' = Holds(t) /\ bare'[t] = bare[t] - 1
      BY <2>3, LocksAssumption DEF Lock, Holds
    <3>3. Holds(t) \in Nat /\ Lent(t) \in Nat /\ bare[t] \in Nat /\ leaked[t] \in Nat
      BY LocksAssumption DEF Holds, Lent
    <3>4. QED
      BY ONLY <1>3, <2>2, <3>1, <3>2, <3>3
  <2>6. \A u \in Threads \ {t} :
          Holds(u)' + Lent(u)' = bare'[u] + leaked[u] + Cardinality(Armed(u)')
    <3>1. \A u \in Threads \ {t} : Holds(u)' = Holds(u) /\ bare'[u] = bare[u]
      BY <2>3, LocksAssumption DEF Lock, Holds
    <3>2. \A u \in Threads : Lent(u)' = Lent(u)
      BY <1>2 DEF Lent
    <3>3. QED
      BY <2>1, <3>1, <3>2 DEF GuardsMatchLock
  <2>7. \A u \in Threads : Holds(u)' + Lent(u)' = bare'[u] + leaked[u] + Cardinality(Armed(u)')
    BY <2>5, <2>6
  <2>8. QED
    BY <1>1, <1>2, <2>1, <2>4, <2>7 DEF GuardsMatchLock
<1>5. CASE k \in RWGuards
  <2>1. /\ \A u \in Threads : Armed(u)' = Armed(u)
        /\ Reading' = Reading \cup {g} /\ g \notin Reading
    BY <1>2, <1>5 DEF Reading, Armed, MutexGuards, RWGuards
  <2>2. Cardinality(Reading') = Cardinality(Reading) + 1
    BY <2>1, GuardSetsAreFinite, OneMore
  <2>3. rdlocks' = rdlocks + 1 /\ UNCHANGED <<owner, count, bare>>
    BY <1>5 DEF Construct, ReadLock, WriteLock, RWGuards
  <2>4. \A h \in Guards : armed'[h] => thread'[h] # NULL
    BY <1>2, LocksAssumption DEF GuardsMatchLock
  <2>5. QED
    <3>1. \A u \in Threads : Holds(u)' = Holds(u) /\ Lent(u)' = Lent(u)
      BY <1>2, <2>3 DEF Holds, Lent
    <3>2. QED
      BY <1>1, <1>2, <2>1, <2>2, <2>3, <2>4, <3>1 DEF GuardsMatchLock
<1>6. QED
  BY <1>4, <1>5

\* A guard that is unlocked or destructed while its pointer is set.
LEMMA ReleaseStep ==
  ASSUME LocksInv, NEW g \in Guards, armed[g], GiveBack(g),
         NEW t \in Threads, thread[g] = t,
         armed' = [armed EXCEPT ![g] = FALSE], UNCHANGED <<class, bareVars, pc>>,
         \/ UNCHANGED thread \/ thread' = [thread EXCEPT ![g] = NULL]
  PROVE  LocksInv'
<1> USE DEF LocksInv, TypeOK, OwnerInv, mutexVars, bareVars
<1>1. thread[g] = t /\ class \in [Guards -> MutexGuards \cup RWGuards]
  OBVIOUS
<1>2. \A u : Cardinality(Armed(u)) \in Nat
  BY GuardSetsAreFinite
<1>3. \A h \in Guards : armed'[h] => armed[h] /\ h # g /\ thread'[h] = thread[h]
  OBVIOUS
<1>4. \A h \in Guards \ {g} : armed'[h] = armed[h] /\ thread'[h] = thread[h]
  OBVIOUS
<1>5. CASE class[g] \in MutexGuards
  <2>1. /\ Reading' = Reading /\ Armed(t)' = Armed(t) \ {g} /\ g \in Armed(t)
        /\ \A u \in Threads \ {t} : Armed(u)' = Armed(u)
    BY <1>1, <1>3, <1>4, <1>5 DEF Reading, Armed, MutexGuards, RWGuards
  <2>2. Cardinality(Armed(t)') = Cardinality(Armed(t)) - 1
    BY <2>1, GuardSetsAreFinite, OneLess
  <2>3. Unlock(t) /\ rdlocks' = rdlocks
    BY <1>5 DEF GiveBack
  <2>4. TypeOK' /\ OwnerInv'
    BY <1>1, <2>3, LocksAssumption DEF Unlock
  <2>5. QED
    <3>1. /\ owner = t /\ count \in Nat \ {0} /\ count' = count - 1
          /\ owner' = (IF count = 1 THEN NULL ELSE t)
      BY <1>1, <2>3, LocksAssumption DEF Unlock
    <3>2. Holds(t)' = Holds(t) - 1 /\ Lent(t)' = Lent(t)
      BY <1>1, <3>1, LocksAssumption DEF Holds, Lent
    <3>3. \A u \in Threads \ {t} : Holds(u)' = Holds(u) /\ Lent(u)' = Lent(u)
      BY <1>1, <3>1, LocksAssumption DEF Holds, Lent
    <3>4. Holds(t) + Lent(t) = bare[t] + leaked[t] + Cardinality(Armed(t)) /\ Holds(t) \in Nat
      BY <1>1 DEF GuardsMatchLock, Holds
    <3>5. \A u \in Threads :
            Holds(u)' + Lent(u)' = bare'[u] + leaked[u] + Cardinality(Armed(u)')
      <4>1. Holds(t)' + Lent(t)' = bare[t] + leaked[t] + Cardinality(Armed(t)')
        BY <1>1, <1>2, <2>2, <3>2, <3>4 DEF Lent
      <4>2. \A u \in Threads \ {t} :
              Holds(u)' + Lent(u)' = bare[u] + leaked[u] + Cardinality(Armed(u)')
        BY <2>1, <3>3 DEF GuardsMatchLock
      <4>3. QED
        BY <4>1, <4>2
    <3>6. QED
      BY <1>3, <2>1, <2>3, <2>4, <3>5 DEF GuardsMatchLock
<1>6. CASE class[g] \in RWGuards
  <2>1. /\ \A u \in Threads : Armed(u)' = Armed(u)
        /\ Reading' = Reading \ {g} /\ g \in Reading
    BY <1>3, <1>4, <1>6 DEF Reading, Armed, MutexGuards, RWGuards
  <2>2. Cardinality(Reading') = Cardinality(Reading) - 1 /\ Cardinality(Reading') \in Nat
    BY <2>1, GuardSetsAreFinite, OneLess, FS_RemoveElement, FS_CardinalityType
  <2>3. rdlocks' = rdlocks - 1 /\ UNCHANGED <<owner, count>>
    BY <1>6 DEF GiveBack, RWUnlock, MutexGuards, RWGuards
  <2>4. TypeOK' /\ OwnerInv'
    BY <2>2, <2>3 DEF GuardsMatchLock
  <2>5. \A u \in Threads : Holds(u)' = Holds(u) /\ Lent(u)' = Lent(u)
    BY <2>3 DEF Holds, Lent
  <2>6. QED
    BY <1>3, <2>1, <2>2, <2>3, <2>4, <2>5 DEF GuardsMatchLock
<1>7. QED
  BY <1>5, <1>6

LEMMA NextLocksInv == LocksInv /\ [Next]_vars => LocksInv'
<1> SUFFICES ASSUME LocksInv, [Next]_vars PROVE LocksInv'
  OBVIOUS
<1>1. ASSUME NEW t \in Threads, LockBare(t) \/ UnlockBare(t) \/ IsOwner(t) \/ Woken(t)
      PROVE  LocksInv'
  <2>1. UNCHANGED <<rdlocks, guardVars>>
    BY <1>1 DEF LockBare, UnlockBare, IsOwner, Woken
  <2>2. QED
    BY <1>1, <2>1, MutexSteps
<1>2. ASSUME NEW t \in Threads, pc[t] = "run", Wait(t) PROVE LocksInv'
  <2>1. UNCHANGED <<rdlocks, guardVars>>
    BY <1>2 DEF Wait
  <2>2. QED
    BY <1>2, <2>1, MutexSteps
<1>3. ASSUME NEW t \in Threads, Signal \/ Broadcast \/ Expire(t) PROVE LocksInv'
  <2>1. PICK sleepers \in SUBSET Asleep : Waken(sleepers)
    BY <1>3 DEF Signal, Broadcast, Expire, Asleep
  <2>2. UNCHANGED <<rdlocks, guardVars>>
    BY <2>1 DEF Waken
  <2>3. QED
    BY <2>1, <2>2, MutexSteps
<1>4. ASSUME NEW t \in Threads, NEW g \in Guards,
             NEW k \in MutexGuards \cup RWGuards, Construct(g, t, k) PROVE LocksInv'
  BY <1>4, ConstructStep
<1>5. ASSUME NEW g \in Guards, UnlockEarly(g) PROVE LocksInv'
  <2>1. armed[g] /\ thread[g] \in Threads
    BY <1>5 DEF UnlockEarly, LocksInv, TypeOK, GuardsMatchLock
  <2>2. QED
    BY <1>5, <2>1, ReleaseStep DEF UnlockEarly
<1>6. ASSUME NEW g \in Guards, Destruct(g) PROVE LocksInv'
  <2>1. CASE armed[g]
    <3>1. thread[g] \in Threads
      BY <2>1 DEF LocksInv, TypeOK, GuardsMatchLock
    <3>2. QED
      BY <1>6, <2>1, <3>1, ReleaseStep DEF Destruct
  <2>2. CASE ~armed[g]
    <3>1. /\ UNCHANGED <<owner, count, rdlocks, armed, class, bareVars, pc>>
          /\ thread' = [thread EXCEPT ![g] = NULL]
      BY <1>6, <2>2 DEF Destruct, mutexVars, LocksInv, TypeOK
    <3>2. \A h \in Guards : armed[h] => thread'[h] = thread[h]
      BY <2>2, <3>1 DEF LocksInv, TypeOK
    <3>3. Reading' = Reading /\ \A u \in Threads : Armed(u)' = Armed(u)
      BY <3>1, <3>2, <2>2, LocksAssumption DEF Reading, Armed, LocksInv, TypeOK
    <3>4. QED
      BY <3>1, <3>2, <3>3
         DEF LocksInv, TypeOK, OwnerInv, GuardsMatchLock, Holds, Lent, bareVars
  <2>3. QED
    BY <2>1, <2>2
<1>7. CASE UNCHANGED vars
  <2>1. Reading' = Reading /\ \A u : Armed(u)' = Armed(u)
    BY <1>7 DEF vars, guardVars, Reading, Armed
  <2>2. QED
    BY <1>7, <2>1 DEF vars, mutexVars, guardVars, bareVars, LocksInv, TypeOK, OwnerInv,
                      GuardsMatchLock, Holds, Lent
<1>8. QED
  BY <1>1, <1>2, <1>3, <1>4, <1>5, <1>6, <1>7 DEF Next, Act

(***************************************************************************)
(* Every guard gives back exactly what it took, whatever is nested,        *)
(* adopted or waited in: the mutex is held once per guard, bare hold and   *)
(* call of IsOwner, less the one that a Wait lends out                     *)
(* (include/lock.h:32-153, 187-201, 331-416).                              *)
(***************************************************************************)
THEOREM GuardsAlwaysMatchLock == Spec => [](TypeOK /\ GuardsMatchLock)
<1>1. LocksInv => TypeOK /\ GuardsMatchLock
  BY DEF LocksInv
<1>2. QED
  BY <1>1, InitLocksInv, NextLocksInv, PTL DEF Spec

LEMMA LocksInvHolds == Spec => []LocksInv
  BY InitLocksInv, NextLocksInv, PTL DEF Spec

\* The mutex is held by whoever has a guard or a hold of his own.
LEMMA InsideOwns ==
  ASSUME LocksInv, NEW t \in Inside
  PROVE  owner = t /\ count = bare[t] + leaked[t] + Cardinality(Armed(t)) /\ count > 0
<1>1. /\ t \in Threads /\ Lent(t) = 0
      /\ bare[t] \in Nat /\ leaked[t] \in Nat /\ Cardinality(Armed(t)) \in Nat
  BY GuardSetsAreFinite DEF Inside, Lent, LocksInv, TypeOK
<1>2. bare[t] > 0 \/ Cardinality(Armed(t)) # 0
  BY GuardSetsAreFinite, FS_EmptySet DEF Inside, InScope
<1>3. Holds(t) = bare[t] + leaked[t] + Cardinality(Armed(t))
  BY <1>1 DEF LocksInv, GuardsMatchLock, TypeOK, Holds
<1>4. QED
  BY <1>1, <1>2, <1>3 DEF Holds

(***************************************************************************)
(* Two threads are never inside of a scope of the mutex at once            *)
(* (include/lock.h:32-153, 187-216).                                       *)
(***************************************************************************)
THEOREM ScopesAlwaysExclude == Spec => []ScopesExclude
<1>1. LocksInv => ScopesExclude
  BY InsideOwns DEF ScopesExclude
<1>2. QED
  BY <1>1, LocksInvHolds, PTL

(***************************************************************************)
(* No guard unlocks what its thread does not have: a running thread with   *)
(* an armed AutoLock or AutoUnlock, or a hold of its own, owns the mutex,  *)
(* and the rwlock is locked at least once per armed AutoReadLock or        *)
(* AutoWriteLock (include/lock.h:32-153, 331-416).                         *)
(***************************************************************************)
THEOREM UnlocksAreLegal ==
  Spec => [](/\ \A t \in Inside : owner = t /\ count > 0
             /\ Reading # {} => rdlocks > 0)
<1>1. LocksInv => (\A t \in Inside : owner = t /\ count > 0)
  BY InsideOwns
<1>2. LocksInv => (Reading # {} => rdlocks > 0)
  BY GuardSetsAreFinite, FS_EmptySet DEF LocksInv, GuardsMatchLock
<1>3. QED
  BY <1>1, <1>2, LocksInvHolds, PTL

(***************************************************************************)
(* The mutex stays with a thread outside of a scope exactly if IsOwner     *)
(* left it a hold, and with a thread in Wait exactly if it had more than   *)
(* one: then nobody who takes the lock to signal it gets in                *)
(* (include/lock.h:104-153, 187-201).                                      *)
(***************************************************************************)
THEOREM OnlyLeaksAndNestedWaitsKeepTheMutex == Spec => []OutsideOwners
<1>1. LocksInv => OutsideOwners
  <2> SUFFICES ASSUME LocksInv, NEW t \in Threads \ Inside
               PROVE  owner = t <=> IF pc[t] = "run"
                                      THEN leaked[t] > 0
                                      ELSE bare[t] + leaked[t] + Cardinality(Armed(t)) > 1
    BY DEF OutsideOwners
  <2>1. /\ Holds(t) + Lent(t) = bare[t] + leaked[t] + Cardinality(Armed(t))
        /\ bare[t] \in Nat /\ leaked[t] \in Nat
    BY DEF LocksInv, GuardsMatchLock, TypeOK
  <2>2. Holds(t) \in Nat /\ (Holds(t) > 0 <=> owner = t)
    BY LocksAssumption DEF LocksInv, TypeOK, OwnerInv, Holds
  <2>3. CASE pc[t] = "run"
    <3>1. bare[t] = 0 /\ Armed(t) = {}
      BY <2>1, <2>3 DEF Inside, InScope
    <3>2. Cardinality(Armed(t)) = 0
      BY <3>1, FS_EmptySet
    <3>3. Lent(t) = 0
      BY <2>3 DEF Lent
    <3>4. QED
      BY ONLY <2>1, <2>2, <2>3, <3>1, <3>2, <3>3
  <2>4. CASE pc[t] # "run"
    <3>1. Lent(t) = 1
      BY <2>4 DEF Lent
    <3>2. Cardinality(Armed(t)) \in Nat
      BY GuardSetsAreFinite
    <3>3. QED
      BY ONLY <2>1, <2>2, <2>4, <3>1, <3>2
  <2>5. QED
    BY <2>3, <2>4
<1>2. QED
  BY <1>1, LocksInvHolds, PTL

-----------------------------------------------------------------------------
(* The calls with a time limit.                                            *)

\* The hold that a thread has lent out in a Wait with or without a limit.
LentOut(t) == IF pc[t] \in {"asleep", "woken"} THEN 1 ELSE 0

TimedInv ==
  /\ owner \in Threads \cup {NULL} /\ count \in Nat
  /\ bare \in [Threads -> Nat]
  /\ pc \in [Threads -> {"run", "asleep", "woken", "locking"}]
  /\ OwnerInv
  /\ \A t \in Threads : bare[t] = Holds(t) + LentOut(t)

LEMMA InitTimedInv == TInit => TimedInv
  BY LocksAssumption DEF TInit, Init, TimedInv, OwnerInv, Holds, LentOut

LEMMA NextTimedInv ==
  TimedInv /\ [TNext]_<<vars, monotonic, deadline>> => TimedInv'
<1> SUFFICES ASSUME TimedInv, [TNext]_<<vars, monotonic, deadline>> PROVE TimedInv'
  OBVIOUS
<1> USE LocksAssumption DEF TimedInv, OwnerInv, Holds, LentOut, vars, mutexVars, bareVars
<1>1. CASE Tick
  BY <1>1 DEF Tick
<1>2. ASSUME NEW t \in Threads, TimedWait(t) PROVE TimedInv'
  <2>1. /\ pc[t] = "run" /\ owner = t /\ count \in Nat \ {0} /\ pc' = [pc EXCEPT ![t] = "asleep"]
        /\ owner' = (IF count = 1 THEN NULL ELSE t) /\ count' = count - 1
        /\ bare' = bare
    BY <1>2 DEF TimedWait, Wait, Unlock
  <2>2. QED
    BY <2>1
<1>3. ASSUME NEW sleepers \in SUBSET Asleep, Waken(sleepers) PROVE TimedInv'
  BY <1>3 DEF Waken, Asleep
<1>4. ASSUME NEW t \in Threads, TimedLock(t) \/ LockTimeout(t) PROVE TimedInv'
  BY <1>4 DEF TimedLock, LockTimeout
<1>5. ASSUME NEW t \in Threads, Locked(t) PROVE TimedInv'
  BY <1>5 DEF Locked, Lock
<1>6. ASSUME NEW t \in Threads, pc[t] = "run", LockBare(t) PROVE TimedInv'
  BY <1>6 DEF LockBare, Lock
<1>7. ASSUME NEW t \in Threads, pc[t] = "run", UnlockBare(t) PROVE TimedInv'
  BY <1>7 DEF UnlockBare, Unlock
<1>8. ASSUME NEW t \in Threads, Woken(t) PROVE TimedInv'
  BY <1>8 DEF Woken, Lock
<1>9. CASE UNCHANGED <<vars, monotonic, deadline>>
  BY <1>9
<1>10. \A t : /\ Signal \/ Broadcast => \E sleepers \in SUBSET Asleep : Waken(sleepers)
              /\ t \in Threads /\ WaitTimeout(t) => \E sleepers \in SUBSET Asleep : Waken(sleepers)
  BY DEF Signal, Broadcast, WaitTimeout, Expire, Asleep
<1>11. QED
  BY ONLY [TNext]_<<vars, monotonic, deadline>>, <1>1, <1>2, <1>3, <1>4, <1>5, <1>6,
     <1>7, <1>8, <1>9, <1>10 DEF TNext, Untimed

(***************************************************************************)
(* However a call with a limit ends, its caller has the mutex exactly as   *)
(* often as it believes: not once more after a Lock that timed out, and    *)
(* again after a Wait that did; so that two threads never both have it,    *)
(* early as the deadlines may come (include/lock.h:134-141, 194-201).      *)
(***************************************************************************)
THEOREM TimeoutsKeepTheBooks ==
  TSpec => [](/\ \A t \in Threads : bare[t] = Holds(t) + LentOut(t)
              /\ \A t, u \in Threads :
                   LentOut(t) = 0 /\ bare[t] > 0 /\ LentOut(u) = 0 /\ bare[u] > 0 => t = u)
<1>1. TimedInv => /\ \A t \in Threads : bare[t] = Holds(t) + LentOut(t)
                  /\ \A t, u \in Threads :
                       LentOut(t) = 0 /\ bare[t] > 0 /\ LentOut(u) = 0 /\ bare[u] > 0 => t = u
  BY DEF TimedInv, Holds, LentOut
<1>2. QED
  BY <1>1, InitTimedInv, NextTimedInv, PTL DEF TSpec

-----------------------------------------------------------------------------
(* Proofs about the deadlines of Clocks (include/util.h:175-202), for any  *)
(* reading of a clock and any number of milliseconds.                      *)

Nanoseconds(timespec) == timespec.tv_sec * NsecPerSec + timespec.tv_nsec

LEMMA Division ==
  ASSUME NEW n \in Nat, NEW d \in Nat \ {0}
  PROVE  /\ n \div d \in Nat /\ n % d \in Nat /\ n % d < d
         /\ n = d * (n \div d) + (n % d)
  BY SMT

LEMMA Carry ==
  ASSUME NEW sec \in Nat, NEW nsec \in Nat, NEW m \in Nat, NEW r \in Nat,
         NEW carry \in Nat, NEW rest \in Nat,
         nsec + r * NsecPerMsec = NsecPerSec * carry + rest
  PROVE  sec * NsecPerSec + nsec + (1000 * m + r) * NsecPerMsec
           = (sec + m + carry) * NsecPerSec + rest
  BY SMT DEF NsecPerSec, NsecPerMsec

(***************************************************************************)
(* A deadline is a legal timespec, "Max value for nsec is 999,999,999",    *)
(* and it is exactly msec after the reading: the carry loses nothing       *)
(* (include/util.h:181-202).                                               *)
(***************************************************************************)
THEOREM DeadlinesAreExact ==
  ASSUME NEW clock \in TimeSpecs, NEW msec \in Nat
  PROVE  /\ GetTimeSpec(clock, msec) \in TimeSpecs
         /\ Nanoseconds(GetTimeSpec(clock, msec)) = Nanoseconds(clock) + msec * NsecPerMsec
<1> DEFINE nsec == clock.tv_nsec + (msec % 1000) * NsecPerMsec
           carry == nsec \div NsecPerSec
           rest == nsec % NsecPerSec
<1>1. clock.tv_sec \in Nat /\ clock.tv_nsec \in Nat
  BY SMT DEF TimeSpecs
<1>2. NsecPerSec \in Nat \ {0} /\ NsecPerMsec \in Nat
  BY SMT DEF NsecPerSec, NsecPerMsec
<1>3. /\ msec \div 1000 \in Nat /\ msec % 1000 \in Nat
      /\ msec = 1000 * (msec \div 1000) + (msec % 1000)
  BY SMT, Division
<1>4. nsec \in Nat
  BY SMT, <1>1, <1>3 DEF NsecPerMsec
<1> HIDE DEF nsec
<1>5. /\ carry \in Nat /\ rest \in Nat /\ rest < NsecPerSec
      /\ nsec = NsecPerSec * carry + rest
  BY SMT, <1>2, <1>4, Division
<1>6. GetTimeSpec(clock, msec) =
        [tv_sec |-> clock.tv_sec + msec \div 1000 + carry, tv_nsec |-> rest]
  BY DEF GetTimeSpec, nsec
<1> HIDE DEF carry, rest
<1>7. GetTimeSpec(clock, msec) \in TimeSpecs
  BY <1>1, <1>3, <1>5, <1>6 DEF TimeSpecs
<1>8. Nanoseconds(GetTimeSpec(clock, msec)) =
        (clock.tv_sec + msec \div 1000 + carry) * NsecPerSec + rest
  BY <1>6 DEF Nanoseconds
<1>9. clock.tv_sec * NsecPerSec + clock.tv_nsec + msec * NsecPerMsec =
        (clock.tv_sec + msec \div 1000 + carry) * NsecPerSec + rest
  BY <1>1, <1>3, <1>5, Carry DEF nsec
<1>10. QED
  BY <1>7, <1>8, <1>9 DEF Nanoseconds

(***************************************************************************)
(* pthreads' comparison of timespecs field by field is the comparison of   *)
(* times, because GetTimeSpec normalises them (include/util.h:192-199).    *)
(***************************************************************************)
THEOREM ReachedIsLater ==
  ASSUME NEW clock \in TimeSpecs, NEW later \in TimeSpecs
  PROVE  Reached(later, clock) <=> Nanoseconds(later) >= Nanoseconds(clock)
  BY SMT DEF Reached, Nanoseconds, TimeSpecs, NsecPerSec

(***************************************************************************)
(* A call with a limit is not due before its time on the clock that its    *)
(* deadline was computed from: it is the other clock that makes it end     *)
(* early (include/util.h:181-202, include/lock.h:137-138, 196-197).        *)
(***************************************************************************)
THEOREM NotDueOnItsOwnClock ==
  ASSUME NEW clock \in TimeSpecs, NEW later \in TimeSpecs, NEW msec \in Nat,
         Reached(later, GetTimeSpec(clock, msec))
  PROVE  Nanoseconds(later) - Nanoseconds(clock) >= msec * NsecPerMsec
<1>1. /\ GetTimeSpec(clock, msec) \in TimeSpecs
      /\ Nanoseconds(GetTimeSpec(clock, msec)) = Nanoseconds(clock) + msec * NsecPerMsec
  BY DeadlinesAreExact
<1>2. Nanoseconds(later) >= Nanoseconds(clock) + msec * NsecPerMsec
  BY <1>1, ReachedIsLater
<1>3. Nanoseconds(later) \in Nat /\ Nanoseconds(clock) \in Nat /\ msec * NsecPerMsec \in Nat
  BY SMT DEF Nanoseconds, TimeSpecs, NsecPerSec, NsecPerMsec
<1>4. QED
  BY <1>2, <1>3

=============================================================================
