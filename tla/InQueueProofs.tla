--------------------------- MODULE InQueueProofs ---------------------------
(***************************************************************************)
(* Proofs about InQueue (include/inlist.hpp:121-243), for any threads, any *)
(* elements, any MaxSpin and any assignment of calls to threads.           *)
(***************************************************************************)
EXTENDS InQueue, FiniteSetTheorems, SequenceTheorems, TLAPS

\* A thread that is on its way to link an element has one in its hands.
HandInv == \A t \in Threads : pc[t] \in {"push.lock", "push.link"} => val[t] # NULL

\* The rounds of TryPop are counted from 0 in every call, up to MaxSpin.
SpinInv ==
  \A t \in Threads :
    /\ pc[t] = "idle" => spin[t] = 0
    /\ pc[t] \in {"try.lock", "try.test", "try.unlock"} => spin[t] < MaxSpin

TypeInv == TypeOK /\ HandInv /\ SpinInv

-----------------------------------------------------------------------------
LEMMA InitTypeInv == Init => TypeInv
  BY QueueAssumption
     DEF Init, TypeInv, TypeOK, HandInv, SpinInv, Labels, Operations

LEMMA TakeOldestType ==
  ASSUME TypeInv, NEW t \in Threads, TakeOldest(t, "pop.unlock")
  PROVE  TypeInv'
<1>1. Head(q_) \in Elements /\ Tail(q_) \in Seq(Elements)
  BY HeadTailProperties DEF TakeOldest, TypeInv, TypeOK
<1>2. QED
  BY <1>1, QueueAssumption
     DEF TakeOldest, Goto, TypeInv, TypeOK, HandInv, SpinInv, Labels

LEMMA ReturnedType ==
  ASSUME TypeInv, NEW t \in Threads, Returned(t),
         pc' = [pc EXCEPT ![t] = "idle"], lock_' \in Threads \cup {NULL},
         UNCHANGED q_
  PROVE  TypeInv'
  BY QueueAssumption
     DEF Returned, TypeInv, TypeOK, HandInv, SpinInv, Labels, Operations

LEMMA NextTypeInv == TypeInv /\ [Next]_vars => TypeInv'
<1> SUFFICES ASSUME TypeInv, [Next]_vars PROVE TypeInv'
  OBVIOUS
<1> USE DEF TypeInv, TypeOK, HandInv, SpinInv, Labels, Operations, At, Goto
<1>1. ASSUME NEW t \in Threads, Call(t) PROVE TypeInv'
  <2>1. PICK o \in Calls[t] :
          /\ op' = [op EXCEPT ![t] = o]
          /\ Goto(t, FirstStep(o))
          /\ IF o = "Push"
               THEN \E e \in Free : val' = [val EXCEPT ![t] = e]
               ELSE val' = val
    BY <1>1 DEF Call
  <2>2. pc[t] = "idle" /\ UNCHANGED <<lock_, q_, spin, sawEmpty>>
    BY <1>1 DEF Call
  <2>3. o \in Operations
    BY QueueAssumption
  <2>4. CASE o = "Push"
    <3>1. PICK e \in Elements : val' = [val EXCEPT ![t] = e]
      BY <2>1, <2>4 DEF Free
    <3>2. e # NULL
      BY QueueAssumption
    <3>3. pc' = [pc EXCEPT ![t] = "push.lock"]
      BY <2>1, <2>4 DEF FirstStep
    <3>4. QED
      BY <2>1, <2>2, <2>4, <3>1, <3>2, <3>3
  <2>5. CASE o # "Push"
    <3>1. \/ pc' = [pc EXCEPT ![t] = "try.lock"] /\ MaxSpin # 0
          \/ pc' = [pc EXCEPT ![t] = "pop.lock"]
          \/ pc' = [pc EXCEPT ![t] = "empty.lock"]
      BY <2>1, <2>3, <2>5 DEF FirstStep
    <3>2. QED
      BY <2>1, <2>2, <2>3, <2>5, <3>1, QueueAssumption
  <2>6. QED
    BY <2>4, <2>5
<1>2. ASSUME NEW t \in Threads, PushLock(t) PROVE TypeInv'
  BY <1>2 DEF PushLock, Acquire, Lock
<1>3. ASSUME NEW t \in Threads, PushLink(t) PROVE TypeInv'
  BY <1>3 DEF PushLink
<1>4. ASSUME NEW t \in Threads, PushUnlock(t) PROVE TypeInv'
  BY <1>4 DEF PushUnlock, Unlock
<1>5. ASSUME NEW t \in Threads, PushSignal(t) PROVE TypeInv'
  <2>1. Returned(t) /\ UNCHANGED <<lock_, q_>>
    BY <1>5 DEF PushSignal
  <2>2. CASE pc' = [pc EXCEPT ![t] = "idle"]
    BY <2>1, <2>2, ReturnedType
  <2>3. ASSUME NEW w \in Asleep,
               pc' = [[pc EXCEPT ![t] = "idle"] EXCEPT ![w] = "woken"]
        PROVE  TypeInv'
    <3>1. w \in Threads /\ w # t
      BY <1>5 DEF Asleep, PushSignal
    <3>2. /\ pc' \in [Threads -> Labels]
          /\ \A u \in Threads :
               pc'[u] = IF u = w THEN "woken" ELSE IF u = t THEN "idle" ELSE pc[u]
      BY <2>3, <3>1
    <3>3. /\ op' \in [Threads -> Operations \cup {"none"}]
          /\ val' \in [Threads -> Elements \cup {NULL}]
          /\ spin' \in [Threads -> 0..MaxSpin]
          /\ sawEmpty' \in [Threads -> BOOLEAN]
      BY <2>1, QueueAssumption DEF Returned
    <3>4. \A u \in Threads :
            /\ u # t => val'[u] = val[u] /\ spin'[u] = spin[u]
            /\ u = t => spin'[u] = 0
      BY <2>1 DEF Returned
    <3>5. QED
      BY <2>1, <3>1, <3>2, <3>3, <3>4
  <2>4. QED
    BY <1>5, <2>2, <2>3 DEF PushSignal, WakeOne
<1>6. ASSUME NEW t \in Threads, TryLock(t) PROVE TypeInv'
  BY <1>6 DEF TryLock, Acquire, Lock
<1>7. ASSUME NEW t \in Threads, TryTest(t) PROVE TypeInv'
  <2>1. CASE TakeOldest(t, "pop.unlock")
    BY <2>1, TakeOldestType
  <2>2. CASE FindEmpty(t) /\ Goto(t, "try.unlock") /\ UNCHANGED lock_
    BY <1>7, <2>2 DEF TryTest, FindEmpty
  <2>3. QED
    BY <1>7, <2>1, <2>2 DEF TryTest
<1>8. ASSUME NEW t \in Threads, TryUnlock(t) PROVE TypeInv'
  BY <1>8, QueueAssumption DEF TryUnlock, Unlock
<1>9. ASSUME NEW t \in Threads, PopLock(t) PROVE TypeInv'
  BY <1>9 DEF PopLock, Acquire, Lock
<1>10. ASSUME NEW t \in Threads, PopLockTimeout(t) PROVE TypeInv'
  BY <1>10 DEF PopLockTimeout
<1>11. ASSUME NEW t \in Threads, PopTest(t) PROVE TypeInv'
  <2>1. CASE TakeOldest(t, "pop.unlock")
    BY <2>1, TakeOldestType
  <2>2. CASE FindEmpty(t) /\ Wait(t)
    BY <2>2 DEF FindEmpty, Wait, Unlock
  <2>3. QED
    BY <1>11, <2>1, <2>2 DEF PopTest
<1>12. ASSUME NEW t \in Threads, PopWoken(t) PROVE TypeInv'
  BY <1>12 DEF PopWoken, Acquire, Lock
<1>13. ASSUME NEW t \in Threads, PopExpire(t) PROVE TypeInv'
  BY <1>13 DEF PopExpire
<1>14. ASSUME NEW t \in Threads, PopGiveUp(t) PROVE TypeInv'
  BY <1>14 DEF PopGiveUp, Acquire, Lock
<1>15. ASSUME NEW t \in Threads, PopReturn(t) PROVE TypeInv'
  BY <1>15, ReturnedType DEF PopReturn, ReleaseAndReturn, Unlock
<1>16. ASSUME NEW t \in Threads, SpuriousWakeup(t) PROVE TypeInv'
  BY <1>16 DEF SpuriousWakeup
<1>17. ASSUME NEW t \in Threads, IsEmptyCall(t) PROVE TypeInv'
  <2>1. CASE EmptyLock(t)
    BY <2>1 DEF EmptyLock, Acquire, Lock
  <2>2. CASE EmptyRead(t)
    BY <2>2 DEF EmptyRead
  <2>3. CASE ReleaseAndReturn(t, "empty.unlock")
    BY <2>3, ReturnedType DEF ReleaseAndReturn, Unlock
  <2>4. QED
    BY <1>17, <2>1, <2>2, <2>3 DEF IsEmptyCall
<1>18. CASE UNCHANGED vars
  BY <1>18 DEF vars
<1>19. QED
  BY <1>1, <1>2, <1>3, <1>4, <1>5, <1>6, <1>7, <1>8, <1>9, <1>10, <1>11,
     <1>12, <1>13, <1>14, <1>15, <1>16, <1>17, <1>18
     DEF Next, Step, Push, Pop

LEMMA TypeInvHolds == Spec => []TypeInv
<1>1. Init => TypeInv
  BY InitTypeInv
<1>2. TypeInv /\ [Next]_vars => TypeInv'
  BY NextTypeInv
<1>3. QED
  BY <1>1, <1>2, PTL DEF Spec

(***************************************************************************)
(* Every variable keeps its type, TryPop never counts past MaxSpin         *)
(* (include/inlist.hpp:222) and Push links an element, never NULL (130).   *)
(***************************************************************************)
THEOREM Typing == Spec => [](TypeOK /\ HandInv /\ SpinInv)
<1>1. TypeInv => TypeOK /\ HandInv /\ SpinInv
  BY DEF TypeInv
<1>2. QED
  BY <1>1, TypeInvHolds, PTL

-----------------------------------------------------------------------------
(* LockDiscipline.  Only Acquire, Unlock and Wait change lock_, each with  *)
(* the label of the same thread.                                           *)

LEMMA NextLockDiscipline ==
  ASSUME TypeInv, LockDiscipline, [Next]_vars
  PROVE  LockDiscipline'
<1> USE DEF TypeInv, TypeOK, LockDiscipline, Holding, At, Goto
<1>1. ASSUME NEW t \in Threads, Call(t) PROVE LockDiscipline'
  <2>1. /\ pc[t] = "idle"
        /\ UNCHANGED lock_
        /\ \E l \in {"push.lock", "try.lock", "pop.lock", "empty.lock"} :
             pc' = [pc EXCEPT ![t] = l]
    BY <1>1 DEF Call, FirstStep
  <2>2. QED
    BY <2>1
<1>2. ASSUME NEW t \in Threads, Push(t) PROVE LockDiscipline'
  <2>1. CASE PushLock(t)
    BY <2>1, QueueAssumption DEF PushLock, Acquire, Lock
  <2>2. CASE PushLink(t)
    BY <2>2 DEF PushLink
  <2>3. CASE PushUnlock(t)
    BY <2>3, QueueAssumption DEF PushUnlock, Unlock
  <2>4. CASE PushSignal(t)
    <3>1. \/ pc' = [pc EXCEPT ![t] = "idle"]
          \/ \E w \in Asleep : pc' = [[pc EXCEPT ![t] = "idle"] EXCEPT ![w] = "woken"]
      BY <2>4 DEF PushSignal, WakeOne
    <3>2. pc[t] = "push.signal" /\ UNCHANGED lock_
      BY <2>4 DEF PushSignal
    <3>3. QED
      BY <3>1, <3>2 DEF Asleep
  <2>5. QED
    BY <1>2, <2>1, <2>2, <2>3, <2>4 DEF Push
<1>3. ASSUME NEW t \in Threads, Pop(t) PROVE LockDiscipline'
  <2>1. CASE TryLock(t) \/ PopLock(t) \/ PopWoken(t) \/ PopGiveUp(t)
    BY <2>1, QueueAssumption
       DEF TryLock, PopLock, PopWoken, PopGiveUp, Acquire, Lock
  <2>2. CASE TryTest(t)
    BY <2>2 DEF TryTest, TakeOldest
  <2>3. CASE TryUnlock(t)
    BY <2>3, QueueAssumption DEF TryUnlock, Unlock
  <2>4. CASE PopLockTimeout(t)
    BY <2>4 DEF PopLockTimeout
  <2>5. CASE PopTest(t)
    BY <2>5, QueueAssumption DEF PopTest, TakeOldest, Wait, Unlock
  <2>6. CASE PopReturn(t)
    BY <2>6, QueueAssumption DEF PopReturn, ReleaseAndReturn, Unlock
  <2>7. QED
    BY <1>3, <2>1, <2>2, <2>3, <2>4, <2>5, <2>6 DEF Pop
<1>4. ASSUME NEW t \in Threads, IsEmptyCall(t) PROVE LockDiscipline'
  <2>1. CASE EmptyLock(t)
    BY <2>1, QueueAssumption DEF EmptyLock, Acquire, Lock
  <2>2. CASE EmptyRead(t)
    BY <2>2 DEF EmptyRead
  <2>3. CASE ReleaseAndReturn(t, "empty.unlock")
    BY <2>3, QueueAssumption DEF ReleaseAndReturn, Unlock
  <2>4. QED
    BY <1>4, <2>1, <2>2, <2>3 DEF IsEmptyCall
<1>5. ASSUME NEW t \in Threads, PopExpire(t) \/ SpuriousWakeup(t)
      PROVE  LockDiscipline'
  BY <1>5 DEF PopExpire, SpuriousWakeup
<1>6. CASE UNCHANGED vars
  BY <1>6 DEF vars
<1>7. QED
  BY <1>1, <1>2, <1>3, <1>4, <1>5, <1>6 DEF Next, Step

(***************************************************************************)
(* No path of any call touches q_ without lock_ or returns with it, so at  *)
(* most one thread is between a Lock and its Unlock                        *)
(* (include/inlist.hpp:131-133, 153-161, 187-199, 223-229).                *)
(***************************************************************************)
THEOREM LockIsDisciplined == Spec => []LockDiscipline
<1>1. Init => LockDiscipline
  BY QueueAssumption DEF Init, LockDiscipline, Holding
<1>2. TypeInv /\ LockDiscipline /\ [Next]_vars => LockDiscipline'
  BY NextLockDiscipline
<1>3. QED
  BY <1>1, <1>2, TypeInvHolds, PTL DEF Spec

-----------------------------------------------------------------------------
(* OnePlace.  Elements move in Call (from nowhere into a pusher's hands),  *)
(* in PushLink (into the list) and in TakeOldest (into a popper's hands).  *)

LEMMA TakeOldestOnePlace ==
  ASSUME TypeInv, OnePlace, NEW t \in Threads, TakeOldest(t, "pop.unlock")
  PROVE  OnePlace'
<1> USE DEF OnePlace
<1>1. /\ q_ \in Seq(Elements)
      /\ q_ # <<>>
      /\ val \in [Threads -> Elements \cup {NULL}]
      /\ q_' = Tail(q_)
      /\ val' = [val EXCEPT ![t] = q_[1]]
  BY DEF TakeOldest, TypeInv, TypeOK
<1>2. \A i \in DOMAIN q_' : i + 1 \in DOMAIN q_ /\ q_'[i] = q_[i + 1]
  BY <1>1
<1>3. 1 \in DOMAIN q_ /\ \A i \in DOMAIN q_' : i + 1 # 1
  BY <1>1
<1>4. ASSUME NEW i \in DOMAIN q_', NEW j \in DOMAIN q_', q_'[i] = q_'[j]
      PROVE  i = j
  <2>1. i \in Nat /\ j \in Nat
    BY <1>1
  <2>2. i + 1 = j + 1
    BY <1>2, <1>4
  <2>3. QED
    BY <2>1, <2>2
<1>5. Range(q_') \subseteq Range(q_)
  BY <1>2 DEF Range
<1>6. q_[1] \in Range(q_) /\ q_[1] \notin Range(q_')
  BY <1>2, <1>3 DEF Range
<1>7. ASSUME NEW u \in Threads, val'[u] # NULL
      PROVE  /\ val'[u] \notin Range(q_')
             /\ \A w \in Threads \ {u} : val'[w] # val'[u]
  <2>1. CASE u = t
    BY <1>1, <1>6, <2>1, QueueAssumption
  <2>2. CASE u # t
    <3>1. val'[u] = val[u] /\ val[u] \notin Range(q_)
      BY <1>1, <1>7, <2>2
    <3>2. val'[t] # val'[u]
      BY <1>1, <1>6, <3>1
    <3>3. \A w \in Threads \ {u, t} : val'[w] # val'[u]
      BY <1>1, <1>7, <2>2
    <3>4. QED
      BY <1>5, <3>1, <3>2, <3>3
  <2>3. QED
    BY <2>1, <2>2
<1>8. QED
  BY <1>4, <1>7

LEMMA PushLinkOnePlace ==
  ASSUME TypeInv, OnePlace, NEW t \in Threads, PushLink(t)
  PROVE  OnePlace'
<1> USE DEF OnePlace
<1>1. /\ q_ \in Seq(Elements)
      /\ val \in [Threads -> Elements \cup {NULL}]
      /\ val[t] # NULL
      /\ q_' = Append(q_, val[t])
      /\ val' = [val EXCEPT ![t] = NULL]
  BY DEF PushLink, At, TypeInv, TypeOK, HandInv
<1>2. val[t] \in Elements
  BY <1>1
<1>3. /\ DOMAIN q_' = DOMAIN q_ \cup {Len(q_) + 1}
      /\ \A i \in DOMAIN q_ : i # Len(q_) + 1 /\ q_'[i] = q_[i]
      /\ q_'[Len(q_) + 1] = val[t]
  BY <1>1, <1>2
<1>4. Range(q_') = Range(q_) \cup {val[t]}
  BY <1>3 DEF Range
<1>5. \A i \in DOMAIN q_ : q_[i] # val[t]
  BY <1>1 DEF Range
<1>6. \A i, j \in DOMAIN q_' : q_'[i] = q_'[j] => i = j
  BY <1>3, <1>5
<1>7. ASSUME NEW u \in Threads, val'[u] # NULL
      PROVE  /\ val'[u] \notin Range(q_')
             /\ \A w \in Threads \ {u} : val'[w] # val'[u]
  <2>1. u # t /\ val'[u] = val[u]
    BY <1>1, <1>7
  <2>2. val[u] # val[t] /\ val[u] \notin Range(q_)
    BY <1>1, <1>7, <2>1
  <2>3. QED
    BY <1>1, <1>4, <1>7, <2>1, <2>2
<1>8. QED
  BY <1>6, <1>7

\* A step that leaves the list alone and drops elements from hands only.
LEMMA DropOnePlace ==
  ASSUME TypeInv, OnePlace, UNCHANGED q_,
         \A t \in Threads : val'[t] = val[t] \/ val'[t] = NULL
  PROVE  OnePlace'
  BY DEF OnePlace

LEMMA NextOnePlace ==
  ASSUME TypeInv, OnePlace, [Next]_vars
  PROVE  OnePlace'
<1> USE DEF TypeInv, TypeOK
<1>1. ASSUME NEW t \in Threads, Call(t) PROVE OnePlace'
  <2>1. UNCHANGED q_
    BY <1>1 DEF Call
  <2>2. val' = val \/ \E e \in Free : val' = [val EXCEPT ![t] = e]
    BY <1>1 DEF Call
  <2>3. CASE val' = val
    BY <2>1, <2>3, DropOnePlace
  <2>4. ASSUME NEW e \in Free, val' = [val EXCEPT ![t] = e] PROVE OnePlace'
    <3>1. e \notin Range(q_) /\ \A u \in Threads : val[u] # e
      BY <2>4 DEF Free, Range
    <3>2. QED
      BY <2>1, <2>4, <3>1 DEF OnePlace
  <2>5. QED
    BY <2>2, <2>3, <2>4
<1>2. ASSUME NEW t \in Threads, Push(t) PROVE OnePlace'
  <2>1. CASE PushLink(t)
    BY <2>1, PushLinkOnePlace
  <2>2. CASE PushLock(t) \/ PushUnlock(t) \/ PushSignal(t)
    BY <2>2, DropOnePlace
       DEF PushLock, PushUnlock, PushSignal, Acquire, Returned
  <2>3. QED
    BY <1>2, <2>1, <2>2 DEF Push
<1>3. ASSUME NEW t \in Threads, Pop(t) PROVE OnePlace'
  <2>1. CASE TakeOldest(t, "pop.unlock")
    BY <2>1, TakeOldestOnePlace
  <2>2. CASE FindEmpty(t)
    BY <2>2, DropOnePlace DEF FindEmpty
  <2>3. CASE \/ TryLock(t) \/ TryUnlock(t) \/ PopLock(t) \/ PopLockTimeout(t)
             \/ PopWoken(t) \/ PopGiveUp(t)
    BY <2>3, DropOnePlace
       DEF TryLock, TryUnlock, PopLock, PopLockTimeout, PopWoken, PopGiveUp, Acquire
  <2>4. CASE PopReturn(t)
    BY <2>4, DropOnePlace DEF PopReturn, ReleaseAndReturn, Returned
  <2>5. QED
    BY <1>3, <2>1, <2>2, <2>3, <2>4 DEF Pop, TryTest, PopTest
<1>4. ASSUME NEW t \in Threads, IsEmptyCall(t) PROVE OnePlace'
  BY <1>4, DropOnePlace
     DEF IsEmptyCall, EmptyLock, EmptyRead, ReleaseAndReturn, Acquire, Returned
<1>5. ASSUME NEW t \in Threads, PopExpire(t) \/ SpuriousWakeup(t) PROVE OnePlace'
  BY <1>5, DropOnePlace DEF PopExpire, SpuriousWakeup
<1>6. CASE UNCHANGED vars
  BY <1>6, DropOnePlace DEF vars
<1>7. QED
  BY <1>1, <1>2, <1>3, <1>4, <1>5, <1>6 DEF Next, Step

(***************************************************************************)
(* No element is lost to two owners: it is linked at most once, or in the  *)
(* hands of one thread, and two Pops never return the same element         *)
(* (include/inlist.hpp:129-199).                                           *)
(***************************************************************************)
THEOREM ElementsStayInOnePlace == Spec => []OnePlace
<1>1. Init => OnePlace
  BY DEF Init, OnePlace
<1>2. TypeInv /\ OnePlace /\ [Next]_vars => OnePlace'
  BY NextOnePlace
<1>3. QED
  BY <1>1, <1>2, TypeInvHolds, PTL DEF Spec

-----------------------------------------------------------------------------
(* NoLostWakeup.  It counts the wakeups under way, so each action is       *)
(* described by what it does to InFlight, to the sleepers and to the list. *)
(* It needs that a wait that times out does not use up a signal.           *)

InFlight == Signalling \cup Waking

InFlightLabels == {"push.unlock", "push.signal", "woken", "pop.test"}

LEMMA InFlightFinite ==
  /\ IsFiniteSet(InFlight) /\ Cardinality(InFlight) \in Nat
  /\ IsFiniteSet(InFlight') /\ Cardinality(InFlight') \in Nat
<1>1. InFlight \subseteq Threads /\ InFlight' \subseteq Threads
  BY DEF InFlight, Signalling, Waking
<1>2. QED
  BY <1>1, FS_Subset, FS_CardinalityType, QueueAssumption

\* No wakeup is used up and nothing is added to the list.
LEMMA KeepWakeups ==
  ASSUME TypeInv, NoLostWakeup, Asleep' \subseteq Asleep,
         InFlight \subseteq InFlight', UNCHANGED q_
  PROVE  NoLostWakeup'
<1>1. Cardinality(InFlight) <= Cardinality(InFlight')
  BY InFlightFinite, FS_Subset
<1>2. Len(q_) \in Nat
  BY DEF TypeInv, TypeOK
<1>3. QED
  BY <1>1, <1>2, InFlightFinite DEF NoLostWakeup, InFlight

LEMMA NextNoLostWakeup ==
  ASSUME TypeInv, NoLostWakeup, [Next]_vars, ~TimeoutTakesSignal
  PROVE  NoLostWakeup'
<1> USE DEF TypeInv, TypeOK, At, Goto
<1>1. /\ InFlight = {t \in Threads : pc[t] \in InFlightLabels}
      /\ InFlight' = {t \in Threads : pc'[t] \in InFlightLabels}
  BY DEF InFlight, InFlightLabels, Signalling, Waking
<1>2. /\ Asleep = {t \in Threads : pc[t] = "asleep"}
      /\ Asleep' = {t \in Threads : pc'[t] = "asleep"}
  BY DEF Asleep
<1>3. Len(q_) \in Nat
  OBVIOUS
\* A thread moves between labels that are neither in flight nor asleep.
<1>4. ASSUME NEW t \in Threads, NEW l \in Labels \ {"asleep"},
             pc[t] \notin InFlightLabels \/ l \in InFlightLabels,
             Goto(t, l), UNCHANGED q_
      PROVE  NoLostWakeup'
  <2>1. InFlight \subseteq InFlight' /\ Asleep' \subseteq Asleep
    BY <1>1, <1>2, <1>4
  <2>2. QED
    BY <1>4, <2>1, KeepWakeups
<1>5. ASSUME NEW t \in Threads, PushLink(t) PROVE NoLostWakeup'
  <2>1. InFlight' = InFlight \cup {t} /\ t \notin InFlight /\ Asleep' = Asleep
    BY <1>1, <1>2, <1>5 DEF PushLink, InFlightLabels
  <2>2. Cardinality(InFlight') = Cardinality(InFlight) + 1
    BY <2>1, InFlightFinite, FS_AddElement
  <2>3. Len(q_') = Len(q_) + 1
    <3>1. val[t] \in Elements
      BY <1>5 DEF PushLink, HandInv
    <3>2. QED
      BY <1>5, <3>1 DEF PushLink
  <2>4. QED
    BY <1>3, <2>1, <2>2, <2>3, InFlightFinite DEF NoLostWakeup, InFlight
<1>6. ASSUME NEW t \in Threads, PushSignal(t) PROVE NoLostWakeup'
  <2>1. pc[t] = "push.signal" /\ UNCHANGED q_
    BY <1>6 DEF PushSignal
  <2>2. CASE Asleep = {}
    <3>1. pc' = [pc EXCEPT ![t] = "idle"]
      BY <1>2, <1>6, <2>1, <2>2 DEF PushSignal, WakeOne, Asleep
    <3>2. Asleep' = {}
      BY <1>2, <2>2, <3>1
    <3>3. QED
      BY <3>2 DEF NoLostWakeup
  <2>3. CASE Asleep # {}
    <3>1. PICK w \in Asleep : pc' = [[pc EXCEPT ![t] = "idle"] EXCEPT ![w] = "woken"]
      BY <1>6, <2>3 DEF PushSignal, WakeOne
    <3>2. w \in Threads /\ pc[w] = "asleep" /\ w # t
      BY <1>2, <2>1
    <3>3. /\ t \in InFlight /\ w \notin InFlight
          /\ InFlight' = (InFlight \ {t}) \cup {w}
      BY <1>1, <2>1, <3>1, <3>2 DEF InFlightLabels
    <3>4. /\ IsFiniteSet(InFlight \ {t})
          /\ Cardinality(InFlight \ {t}) = Cardinality(InFlight) - 1
      BY <3>3, InFlightFinite, FS_RemoveElement
    <3>5. Cardinality((InFlight \ {t}) \cup {w}) = Cardinality(InFlight \ {t}) + 1
      <4>1. w \notin InFlight \ {t}
        BY <3>3
      <4>2. QED
        BY <3>4, <4>1, FS_AddElement
    <3>6. Cardinality(InFlight') = Cardinality(InFlight)
      BY <3>3, <3>4, <3>5, InFlightFinite
    <3>7. QED
      BY <2>1, <2>3, <3>6 DEF NoLostWakeup, InFlight
  <2>4. QED
    BY <2>2, <2>3
<1>7. ASSUME NEW t \in Threads, TryTest(t) PROVE NoLostWakeup'
  <2>1. InFlight' = InFlight /\ Asleep' = Asleep
    BY <1>1, <1>2, <1>7 DEF TryTest, TakeOldest, InFlightLabels
  <2>2. Len(q_') <= Len(q_) /\ Len(q_') \in Nat
    BY <1>7 DEF TryTest, TakeOldest, FindEmpty
  <2>3. Cardinality(InFlight') = Cardinality(InFlight)
    BY <2>1
  <2>4. QED
    BY <1>3, <2>1, <2>2, <2>3, InFlightFinite DEF NoLostWakeup, InFlight
<1>8. ASSUME NEW t \in Threads, PopTest(t) PROVE NoLostWakeup'
  <2>1. CASE TakeOldest(t, "pop.unlock")
    <3>1. t \in InFlight /\ InFlight' = InFlight \ {t} /\ Asleep' = Asleep
      BY <1>1, <1>2, <1>8, <2>1 DEF PopTest, TakeOldest, InFlightLabels
    <3>2. Cardinality(InFlight') = Cardinality(InFlight) - 1
      BY <3>1, InFlightFinite, FS_RemoveElement
    <3>3. Len(q_') = Len(q_) - 1
      BY <2>1 DEF TakeOldest
    <3>4. QED
      BY <1>3, <3>1, <3>2, <3>3, InFlightFinite DEF NoLostWakeup, InFlight
  <2>2. CASE FindEmpty(t)
    <3>1. Len(q_') = 0
      BY <2>2 DEF FindEmpty
    <3>2. QED
      BY <3>1, InFlightFinite DEF NoLostWakeup, InFlight
  <2>3. QED
    BY <1>8, <2>1, <2>2 DEF PopTest
<1>9. ASSUME NEW t \in Threads, Call(t) PROVE NoLostWakeup'
  <2>1. /\ pc[t] = "idle" /\ UNCHANGED q_
        /\ \E l \in {"push.lock", "try.lock", "pop.lock", "empty.lock"} : Goto(t, l)
    BY <1>9 DEF Call, FirstStep
  <2>2. QED
    BY <1>4, <2>1 DEF InFlightLabels, Labels
<1>10. ASSUME NEW t \in Threads, PushLock(t) \/ PushUnlock(t) PROVE NoLostWakeup'
  BY <1>4, <1>10 DEF PushLock, PushUnlock, Acquire, InFlightLabels, Labels
<1>11. ASSUME NEW t \in Threads,
              \/ TryLock(t) \/ TryUnlock(t) \/ PopLock(t) \/ PopLockTimeout(t)
              \/ PopWoken(t) \/ PopGiveUp(t)
       PROVE  NoLostWakeup'
  BY <1>4, <1>11 DEF TryLock, TryUnlock, PopLock, PopLockTimeout, PopWoken,
                     PopGiveUp, Acquire, InFlightLabels, Labels
<1>12. ASSUME NEW t \in Threads, PopReturn(t) \/ IsEmptyCall(t)
       PROVE  NoLostWakeup'
  BY <1>4, <1>12 DEF PopReturn, ReleaseAndReturn, IsEmptyCall, EmptyLock,
                     EmptyRead, Acquire, InFlightLabels, Labels
<1>13. ASSUME NEW t \in Threads, PopExpire(t) \/ SpuriousWakeup(t)
       PROVE  NoLostWakeup'
  BY <1>4, <1>13 DEF PopExpire, SpuriousWakeup, InFlightLabels, Labels
<1>14. CASE UNCHANGED vars
  BY <1>1, <1>2, <1>14, KeepWakeups DEF vars
<1>15. QED
  BY <1>5, <1>6, <1>7, <1>8, <1>9, <1>10, <1>11, <1>12, <1>13, <1>14
     DEF Next, Step, Push, Pop

(***************************************************************************)
(* While a popper sleeps every queued element has its own wakeup under     *)
(* way, although Push signals after its unlock and spinning poppers take   *)
(* elements a woken one was meant for                                      *)
(* (include/inlist.hpp:129-136, 153-161, 187-199).                         *)
(***************************************************************************)
THEOREM NoWakeupIsLost ==
  ASSUME ~TimeoutTakesSignal
  PROVE  Spec => []NoLostWakeup
<1>1. Init => NoLostWakeup
  BY DEF Init, NoLostWakeup, Asleep, At
<1>2. TypeInv /\ NoLostWakeup /\ [Next]_vars => NoLostWakeup'
  BY NextNoLostWakeup
<1>3. QED
  BY <1>1, <1>2, TypeInvHolds, PTL DEF Spec

=============================================================================
