--------------------------- MODULE SpinMutexProofs ---------------------------
(***************************************************************************)
(* Proofs about SpinMutex (include/lock.h:224-298), for any set of         *)
(* threads.  Exclusion and the ASSERTs do not depend on what owner_ holds  *)
(* before the first Lock.  What IsOwner answers and whom the INVARIANT of  *)
(* Lock aborts does: there owner_ must hold no thread (OwnerCleared),      *)
(* which the constructor does not see to.                                  *)
(***************************************************************************)
EXTENDS SpinMutex, TLAPS

OwnerCleared == InitialOwners \subseteq {NoThread}

\* The threads between a successful swap and the swap of their Unlock.
Having ==
  holding \cup {t \in Threads : pc[t] \in {"write", "unlock.clear", "unlock.swap"}}

MutexInv ==
  /\ \A t, u \in Having : t = u
  /\ mutex_ = "CLOSED" <=> Having # {}

OwnerInv ==
  \A t \in Threads :
    /\ t \in holding \/ pc[t] = "unlock.clear" => owner_ = t
    /\ t \in holding => pc[t] \notin {"spin", "write", "unlock.clear", "unlock.swap"}

\* owner_ names nobody but the thread that has the lock, too.
NobodyElse ==
  \A t \in Threads :
    /\ owner_ = t => t \in holding \/ pc[t] = "unlock.clear"
    /\ pc[t] = "aborted" => t \in holding

\* The call a thread is in and what it knows of its outcome, told from pc.
CallsAt(label) ==
  IF label = "idle" THEN {"none"}
  ELSE IF label \in {"lock.open", "lock.closed", "lock.owner", "spin", "aborted"} THEN {"Lock"}
  ELSE IF label = "try" THEN {"TryLock"}
  ELSE IF label = "write" THEN {"Lock", "TryLock"}
  ELSE IF label \in {"unlock.clear", "unlock.swap"} THEN {"Unlock"}
  ELSE IF label \in {"owner.closed", "owner.read"} THEN {"IsOwner"}
  ELSE Operations

RetsAt(label) ==
  IF label \in {"write", "return"} THEN {"yes", "no"}
  ELSE IF label = "aborted" THEN {"aborted"}
  ELSE {"pending"}

CallInv == \A t \in Threads : call[t] \in CallsAt(pc[t]) /\ ret[t] \in RetsAt(pc[t])

LockInv == TypeOK /\ MutexInv /\ OwnerInv

-----------------------------------------------------------------------------
LEMMA InitLockInv == Init => LockInv
  BY LockAssumption
     DEF Init, LockInv, TypeOK, MutexInv, OwnerInv, Having, Labels, Operations

LEMMA InitNobodyElse == OwnerCleared /\ Init => NobodyElse
  BY LockAssumption DEF OwnerCleared, Init, NobodyElse

LEMMA NextLockInv == LockInv /\ [Next]_vars => LockInv'
<1> SUFFICES ASSUME LockInv, [Next]_vars PROVE LockInv'
  OBVIOUS
<1> USE LockAssumption DEF LockInv, TypeOK, MutexInv, OwnerInv, Having, Labels, Operations
<1>1. ASSUME NEW t \in Threads, Call(t) PROVE LockInv'
  <2>1. PICK c \in Operations :
          /\ c = "Unlock" => t \in holding
          /\ Step(t, "idle", FirstStep(c))
          /\ call' = [call EXCEPT ![t] = c]
          /\ holding' = IF c = "Unlock" THEN holding \ {t} ELSE holding
    BY <1>1 DEF Call
  <2>2. UNCHANGED <<mutex_, owner_, ret>>
    BY <1>1 DEF Call
  <2>3. CASE c = "Unlock"
    <3>1. pc[t] = "idle" /\ pc' = [pc EXCEPT ![t] = "unlock.clear"]
      BY <2>1, <2>3 DEF Step, FirstStep
    <3>2. t \in holding /\ holding' = holding \ {t} /\ Having' = Having
      BY <2>1, <2>3, <3>1
    <3>3. QED
      BY <2>1, <2>2, <2>3, <3>1, <3>2
  <2>4. CASE c # "Unlock"
    <3>1. pc[t] = "idle" /\ \E l \in {"lock.open", "try", "owner.closed"} :
                              pc' = [pc EXCEPT ![t] = l]
      BY <2>1, <2>4 DEF Step, FirstStep
    <3>2. holding' = holding /\ Having' = Having
      BY <2>1, <2>4, <3>1
    <3>3. QED
      BY <2>1, <2>2, <2>4, <3>1, <3>2
  <2>5. QED
    BY <2>3, <2>4
<1>2. ASSUME NEW t \in Threads, Return(t) PROVE LockInv'
  BY <1>2 DEF Return, Step, Decide
<1>3. ASSUME NEW t \in Threads, LockIsOpen(t) \/ LockIsClosed(t) PROVE LockInv'
  BY <1>3 DEF LockIsOpen, LockIsClosed, Step
<1>4. ASSUME NEW t \in Threads, LockIsOwner(t) PROVE LockInv'
  BY <1>4 DEF LockIsOwner, Step, Decide
<1>5. ASSUME NEW t \in Threads, SpinSwap(t) \/ TrySwap(t) PROVE LockInv'
  BY <1>5 DEF SpinSwap, TrySwap, Swap, Step, Decide
<1>6. ASSUME NEW t \in Threads, TryFails(t) PROVE LockInv'
  BY <1>6 DEF TryFails, Step, Decide
<1>7. ASSUME NEW t \in Threads, WriteOwner(t) PROVE LockInv'
  BY <1>7 DEF WriteOwner, Step
<1>8. ASSUME NEW t \in Threads, ClearOwner(t) PROVE LockInv'
  BY <1>8 DEF ClearOwner, Step
<1>9. ASSUME NEW t \in Threads, Release(t) PROVE LockInv'
  BY <1>9 DEF Release, Step, Decide
<1>10. ASSUME NEW t \in Threads, OwnerIsClosed(t) \/ OwnerRead(t) PROVE LockInv'
  BY <1>10 DEF OwnerIsClosed, OwnerRead, Step, Decide
<1>11. CASE UNCHANGED vars
  BY <1>11 DEF vars
<1>12. QED
  BY <1>1, <1>2, <1>3, <1>4, <1>5, <1>6, <1>7, <1>8, <1>9, <1>10, <1>11
     DEF Next, Run

LEMMA NextNobodyElse == LockInv /\ NobodyElse /\ [Next]_vars => NobodyElse'
<1> SUFFICES ASSUME LockInv, NobodyElse, [Next]_vars PROVE NobodyElse'
  OBVIOUS
<1> USE LockAssumption DEF LockInv, TypeOK, MutexInv, OwnerInv, NobodyElse, Having, Labels
<1>1. ASSUME NEW t \in Threads, Call(t) PROVE NobodyElse'
  <2>1. PICK c \in Operations :
          /\ c = "Unlock" => t \in holding
          /\ Step(t, "idle", FirstStep(c))
          /\ holding' = IF c = "Unlock" THEN holding \ {t} ELSE holding
          /\ UNCHANGED owner_
    BY <1>1 DEF Call
  <2>2. CASE c = "Unlock"
    BY <2>1, <2>2 DEF Step, FirstStep
  <2>3. CASE c # "Unlock"
    BY <2>1, <2>3 DEF Step, FirstStep, Operations
  <2>4. QED
    BY <2>2, <2>3
<1>2. ASSUME NEW t \in Threads, Return(t) PROVE NobodyElse'
  BY <1>2 DEF Return, Step
<1>3. ASSUME NEW t \in Threads, LockIsOpen(t) \/ LockIsClosed(t) PROVE NobodyElse'
  BY <1>3 DEF LockIsOpen, LockIsClosed, Step
<1>4. ASSUME NEW t \in Threads, LockIsOwner(t) PROVE NobodyElse'
  BY <1>4 DEF LockIsOwner, Step
<1>5. ASSUME NEW t \in Threads, SpinSwap(t) \/ TrySwap(t) PROVE NobodyElse'
  BY <1>5 DEF SpinSwap, TrySwap, Swap, Step
<1>6. ASSUME NEW t \in Threads, TryFails(t) PROVE NobodyElse'
  BY <1>6 DEF TryFails, Step
<1>7. ASSUME NEW t \in Threads, WriteOwner(t) PROVE NobodyElse'
  BY <1>7 DEF WriteOwner, Step
<1>8. ASSUME NEW t \in Threads, ClearOwner(t) PROVE NobodyElse'
  BY <1>8 DEF ClearOwner, Step
<1>9. ASSUME NEW t \in Threads, Release(t) PROVE NobodyElse'
  BY <1>9 DEF Release, Step
<1>10. ASSUME NEW t \in Threads, OwnerIsClosed(t) \/ OwnerRead(t) PROVE NobodyElse'
  BY <1>10 DEF OwnerIsClosed, OwnerRead, Step
<1>11. CASE UNCHANGED vars
  BY <1>11 DEF vars
<1>12. QED
  BY <1>1, <1>2, <1>3, <1>4, <1>5, <1>6, <1>7, <1>8, <1>9, <1>10, <1>11
     DEF Next, Run

LEMMA LockInvHolds == Spec => []LockInv
  BY InitLockInv, NextLockInv, PTL DEF Spec

(***************************************************************************)
(* Every variable keeps its type and no ASSERT fires: Unlock finds the     *)
(* lock closed and its caller the owner, whatever owner_ held at the start *)
(* (include/lock.h:252, 274, 278).                                         *)
(***************************************************************************)
THEOREM AssertsPass == Spec => [](TypeOK /\ AssertsHold)
<1>1. LockInv => TypeOK /\ AssertsHold
  BY DEF LockInv, MutexInv, OwnerInv, Having, AssertsHold
<1>2. QED
  BY <1>1, LockInvHolds, PTL

(***************************************************************************)
(* Never do two threads have the lock, from a successful swap to the one   *)
(* of the Unlock: the writes of owner_ between them are not needed for     *)
(* exclusion, nor is its first value (include/lock.h:247-282).             *)
(***************************************************************************)
THEOREM OneThreadHasIt == Spec => [](\A t, u \in Having : t = u)
<1>1. LockInv => \A t, u \in Having : t = u
  BY DEF LockInv, MutexInv
<1>2. QED
  BY <1>1, LockInvHolds, PTL

(***************************************************************************)
(* A thread that has the lock never gets past the INVARIANT of Lock to     *)
(* spin for itself, whatever owner_ held at the start                      *)
(* (include/lock.h:263-267).                                               *)
(***************************************************************************)
THEOREM NobodySpinsForItself == Spec => []RelockIsCaught
<1>1. LockInv => RelockIsCaught
  BY DEF LockInv, OwnerInv, RelockIsCaught
<1>2. QED
  BY <1>1, LockInvHolds, PTL

(***************************************************************************)
(* With owner_ cleared at the start, the INVARIANT of Lock ends the        *)
(* process only for a thread that has the lock (include/lock.h:263).       *)
(***************************************************************************)
THEOREM OnlyRelocksAbort ==
  ASSUME OwnerCleared
  PROVE  Spec => []OnlyRelockAborts
<1>1. Init => NobodyElse
  BY InitNobodyElse
<1>2. LockInv /\ NobodyElse /\ [Next]_vars => NobodyElse'
  BY NextNobodyElse
<1>3. NobodyElse => OnlyRelockAborts
  BY DEF NobodyElse, OnlyRelockAborts
<1>4. QED
  BY <1>1, <1>2, <1>3, LockInvHolds, PTL DEF Spec

-----------------------------------------------------------------------------
LEMMA InitCallInv == Init => CallInv
  BY DEF Init, CallInv, CallsAt, RetsAt

LEMMA NextCallInv == LockInv /\ CallInv /\ [Next]_vars => CallInv'
<1> SUFFICES ASSUME LockInv, CallInv, [Next]_vars PROVE CallInv'
  OBVIOUS
<1> USE DEF LockInv, TypeOK, CallInv, CallsAt, RetsAt, Labels, Operations, Step, Decide
<1>1. ASSUME NEW t \in Threads, Call(t) PROVE CallInv'
  BY <1>1 DEF Call, FirstStep
<1>2. ASSUME NEW t \in Threads, Return(t) PROVE CallInv'
  BY <1>2 DEF Return
<1>3. ASSUME NEW t \in Threads, LockIsOpen(t) \/ LockIsClosed(t) \/ LockIsOwner(t)
      PROVE  CallInv'
  BY <1>3 DEF LockIsOpen, LockIsClosed, LockIsOwner
<1>4. ASSUME NEW t \in Threads,
             SpinSwap(t) \/ TrySwap(t) \/ TryFails(t) \/ WriteOwner(t)
      PROVE  CallInv'
  BY <1>4 DEF SpinSwap, TrySwap, Swap, TryFails, WriteOwner
<1>5. ASSUME NEW t \in Threads, ClearOwner(t) \/ Release(t) PROVE CallInv'
  BY <1>5 DEF ClearOwner, Release
<1>6. ASSUME NEW t \in Threads, OwnerIsClosed(t) \/ OwnerRead(t) PROVE CallInv'
  BY <1>6 DEF OwnerIsClosed, OwnerRead
<1>7. CASE UNCHANGED vars
  BY <1>7 DEF vars
<1>8. QED
  BY <1>1, <1>2, <1>3, <1>4, <1>5, <1>6, <1>7 DEF Next, Run

LEMMA LockStep ==
  ASSUME LockInv, NobodyElse, CallInv, [Next]_vars
  PROVE  [Lock!Next]_Lock!lockVars
<1> USE DEF LockInv, TypeOK, MutexInv, OwnerInv, NobodyElse, CallInv, Having, Labels,
            CallsAt, RetsAt, Step, Decide, Lock!Outcome
<1>1. ASSUME NEW t \in Threads, Call(t)
      PROVE  \E c \in Lock!Operations : Lock!Call(t, c)
  <2>1. PICK c \in Operations :
          /\ c = "Unlock" => t \in holding
          /\ Step(t, "idle", FirstStep(c))
          /\ call' = [call EXCEPT ![t] = c]
          /\ holding' = IF c = "Unlock" THEN holding \ {t} ELSE holding
    BY <1>1 DEF Call
  <2>2. Having' = Having
    <3>1. CASE c = "Unlock"
      BY <2>1, <3>1 DEF FirstStep
    <3>2. CASE c # "Unlock"
      BY <2>1, <3>2 DEF FirstStep, Operations
    <3>3. QED
      BY <3>1, <3>2
  <2>3. Lock!Call(t, c)
    BY <1>1, <2>1, <2>2 DEF Call, Lock!Call
  <2>4. QED
    BY <2>3 DEF Operations, Lock!Operations
<1>2. ASSUME NEW t \in Threads, Return(t) PROVE Lock!Return(t)
  BY <1>2 DEF Return, Lock!Return
<1>3. ASSUME NEW t \in Threads, LockIsOpen(t) \/ LockIsClosed(t)
      PROVE  UNCHANGED Lock!lockVars
  BY <1>3 DEF LockIsOpen, LockIsClosed, Lock!lockVars
<1>4. ASSUME NEW t \in Threads, LockIsOwner(t)
      PROVE  UNCHANGED Lock!lockVars \/ Lock!Abort(t)
  BY <1>4 DEF LockIsOwner, Lock!lockVars, Lock!Abort
<1>5. ASSUME NEW t \in Threads, SpinSwap(t) \/ TrySwap(t) PROVE Lock!Acquire(t)
  BY <1>5 DEF SpinSwap, TrySwap, Swap, Lock!Acquire
<1>6. ASSUME NEW t \in Threads, TryFails(t) PROVE Lock!Refuse(t)
  BY <1>6 DEF TryFails, Lock!Refuse
<1>7. ASSUME NEW t \in Threads, WriteOwner(t) \/ ClearOwner(t)
      PROVE  UNCHANGED Lock!lockVars
  BY <1>7 DEF WriteOwner, ClearOwner, Lock!lockVars
<1>8. ASSUME NEW t \in Threads, Release(t) PROVE Lock!Release(t)
  BY <1>8 DEF Release, Lock!Release
<1>9. ASSUME NEW t \in Threads, OwnerIsClosed(t)
      PROVE  UNCHANGED Lock!lockVars \/ Lock!Answer(t)
  BY <1>9 DEF OwnerIsClosed, Lock!lockVars, Lock!Answer
<1>10. ASSUME NEW t \in Threads, OwnerRead(t) PROVE Lock!Answer(t)
  BY <1>10 DEF OwnerRead, Lock!Answer
<1>11. CASE UNCHANGED vars
  BY <1>11 DEF vars, Lock!lockVars
<1>12. QED
  BY <1>1, <1>2, <1>3, <1>4, <1>5, <1>6, <1>7, <1>8, <1>9, <1>10, <1>11
     DEF Next, Run, Lock!Next

(***************************************************************************)
(* With owner_ cleared at the start SpinMutex is a linearizable lock that  *)
(* knows its owner: Lock and TryLock take effect at their swap, Unlock at  *)
(* its own, IsOwner at the read that decides it (include/lock.h:247-289).  *)
(***************************************************************************)
THEOREM SpinMutexIsLock ==
  ASSUME OwnerCleared
  PROVE  Spec => ImplementsLock
<1>1. Init => LockInv /\ NobodyElse /\ CallInv
  BY InitLockInv, InitNobodyElse, InitCallInv
<1>2. LockInv /\ NobodyElse /\ CallInv /\ [Next]_vars => LockInv' /\ NobodyElse' /\ CallInv'
  BY NextLockInv, NextNobodyElse, NextCallInv
<1>3. Init => Lock!Init
  BY DEF Init, Lock!Init
<1>4. LockInv /\ NobodyElse /\ CallInv /\ [Next]_vars => [Lock!Next]_Lock!lockVars
  BY LockStep
<1>5. QED
  BY <1>1, <1>2, <1>3, <1>4, PTL DEF Spec, ImplementsLock, Lock!Spec

=============================================================================
