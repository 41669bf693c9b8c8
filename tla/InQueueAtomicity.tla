-------------------------- MODULE InQueueAtomicity --------------------------
(***************************************************************************)
(* InQueue (include/inlist.hpp:121-243) implements AtomicQueue: every      *)
(* Init of the one is an Init of the other, and every step is one step of  *)
(* AtomicQueue or leaves its variables alone.                              *)
(***************************************************************************)
EXTENDS InQueueProofs, Queue

Poppers == {"Pop", "PopMs"}

\* The call a thread is in, told from where it is in the code.
CallsAt(label) ==
  IF label = "idle" THEN {"none"}
  ELSE IF label \in {"push.lock", "push.link", "push.unlock", "push.signal"} THEN {"Push"}
  ELSE IF label \in {"empty.lock", "empty.read", "empty.unlock"} THEN {"IsEmpty"}
  ELSE IF label \in {"expired", "return"} THEN {"PopMs"}
  ELSE Poppers

\* Where a Pop has been through all of TryPop without an element.  A timed
\* one has seen the queue empty there, because MaxSpin > 0.
Spun == {"try.unlock", "pop.lock", "pop.test", "asleep", "woken", "expired", "return"}

PhaseInv ==
  \A t \in Threads :
    /\ op[t] \in CallsAt(pc[t])
    /\ op[t] = "PopMs" /\ pc[t] \in Spun => sawEmpty[t]
    /\ pc[t] \in {"empty.lock", "empty.read"} => ~sawEmpty[t]
    /\ pc[t] = "idle" => ~sawEmpty[t]

LEMMA InitPhaseInv == Init => PhaseInv
  BY DEF Init, PhaseInv, CallsAt, Spun

\* A thread moves within its call and leaves what PhaseInv speaks of alone.
LEMMA MovePhaseInv ==
  ASSUME TypeInv, PhaseInv, NEW t \in Threads, NEW l \in Labels,
         Goto(t, l), UNCHANGED <<op, sawEmpty>>,
         op[t] \in CallsAt(l),
         op[t] = "PopMs" /\ l \in Spun => sawEmpty[t],
         l \in {"empty.lock", "empty.read", "idle"} => ~sawEmpty[t]
  PROVE  PhaseInv'
  BY DEF TypeInv, TypeOK, PhaseInv, Goto

LEMMA ReturnedPhaseInv ==
  ASSUME TypeInv, PhaseInv, NEW t \in Threads, Goto(t, "idle"), Returned(t)
  PROVE  PhaseInv'
  BY DEF TypeInv, TypeOK, PhaseInv, Goto, Returned, CallsAt, Spun

LEMMA NextPhaseInv ==
  ASSUME TypeInv, PhaseInv, [Next]_vars
  PROVE  PhaseInv'
<1> USE DEF At
<1>1. ASSUME NEW t \in Threads, Call(t) PROVE PhaseInv'
  <2>1. PICK o \in Calls[t] : op' = [op EXCEPT ![t] = o] /\ Goto(t, FirstStep(o))
    BY <1>1 DEF Call
  <2>2. pc[t] = "idle" /\ UNCHANGED sawEmpty /\ o \in Operations
    BY <1>1, QueueAssumption DEF Call
  <2>3. /\ FirstStep(o) \in {"push.lock", "empty.lock", "try.lock", "pop.lock"}
        /\ o \in CallsAt(FirstStep(o))
        /\ o = "PopMs" => FirstStep(o) = "try.lock"
    BY <2>1, <2>2, QueueAssumption DEF FirstStep, CallsAt, Operations, Poppers
  <2>4. QED
    BY <2>1, <2>2, <2>3 DEF TypeInv, TypeOK, PhaseInv, Goto, Spun
<1>2. ASSUME NEW t \in Threads, Push(t) PROVE PhaseInv'
  <2>1. CASE PushLock(t) \/ PushLink(t) \/ PushUnlock(t)
    BY <2>1, MovePhaseInv
       DEF PushLock, PushLink, PushUnlock, Acquire, PhaseInv, CallsAt, Spun, Labels
  <2>2. CASE PushSignal(t)
    <3>1. Returned(t) /\ pc[t] = "push.signal"
      BY <2>2 DEF PushSignal
    <3>2. CASE pc' = [pc EXCEPT ![t] = "idle"]
      BY <3>1, <3>2, ReturnedPhaseInv DEF Goto
    <3>3. ASSUME NEW w \in Asleep,
                 pc' = [[pc EXCEPT ![t] = "idle"] EXCEPT ![w] = "woken"]
          PROVE  PhaseInv'
      <4>1. w \in Threads /\ w # t /\ pc[w] = "asleep"
        BY <3>1 DEF Asleep
      <4>2. /\ \A u \in Threads :
                 pc'[u] = IF u = w THEN "woken" ELSE IF u = t THEN "idle" ELSE pc[u]
            /\ \A u \in Threads \ {t} : op'[u] = op[u] /\ sawEmpty'[u] = sawEmpty[u]
            /\ op'[t] = "none" /\ ~sawEmpty'[t]
        BY <3>1, <3>3, <4>1 DEF Returned, TypeInv, TypeOK
      <4>3. QED
        BY <4>1, <4>2 DEF PhaseInv, CallsAt, Spun
    <3>4. QED
      BY <2>2, <3>2, <3>3 DEF PushSignal, WakeOne
  <2>3. QED
    BY <1>2, <2>1, <2>2 DEF Push
<1>3. ASSUME NEW t \in Threads, Pop(t) PROVE PhaseInv'
  <2>1. CASE \/ TryLock(t) \/ TryUnlock(t) \/ PopLock(t) \/ PopLockTimeout(t)
             \/ PopWoken(t) \/ PopGiveUp(t)
    BY <2>1, MovePhaseInv
       DEF TryLock, TryUnlock, PopLock, PopLockTimeout, PopWoken, PopGiveUp,
           Acquire, PhaseInv, CallsAt, Spun, Poppers, Labels
  <2>2. CASE TryTest(t) \/ PopTest(t)
    <3>1. op[t] \in Poppers
      BY <2>2 DEF TryTest, PopTest, PhaseInv, CallsAt
    <3>2. CASE TakeOldest(t, "pop.unlock")
      BY <3>1, <3>2, MovePhaseInv DEF TakeOldest, CallsAt, Spun, Labels
    <3>3. CASE FindEmpty(t) /\ (Goto(t, "try.unlock") \/ Goto(t, "asleep"))
      BY <3>1, <3>3
         DEF FindEmpty, Goto, TypeInv, TypeOK, PhaseInv, CallsAt, Spun
    <3>4. QED
      BY <2>2, <3>2, <3>3 DEF TryTest, PopTest, Wait
  <2>3. CASE PopReturn(t)
    BY <2>3, ReturnedPhaseInv DEF PopReturn, ReleaseAndReturn
  <2>4. QED
    BY <1>3, <2>1, <2>2, <2>3 DEF Pop
<1>4. ASSUME NEW t \in Threads, IsEmptyCall(t) PROVE PhaseInv'
  <2>1. CASE EmptyLock(t)
    BY <2>1, MovePhaseInv
       DEF EmptyLock, Acquire, PhaseInv, CallsAt, Spun, Labels
  <2>2. CASE EmptyRead(t)
    BY <2>2 DEF EmptyRead, Goto, TypeInv, TypeOK, PhaseInv, CallsAt, Spun
  <2>3. CASE ReleaseAndReturn(t, "empty.unlock")
    BY <2>3, ReturnedPhaseInv DEF ReleaseAndReturn
  <2>4. QED
    BY <1>4, <2>1, <2>2, <2>3 DEF IsEmptyCall
<1>5. ASSUME NEW t \in Threads, PopExpire(t) \/ SpuriousWakeup(t) PROVE PhaseInv'
  BY <1>5, MovePhaseInv
     DEF PopExpire, SpuriousWakeup, PhaseInv, CallsAt, Spun, Poppers, Labels
<1>6. CASE UNCHANGED vars
  BY <1>6 DEF vars, PhaseInv
<1>7. QED
  BY <1>1, <1>2, <1>3, <1>4, <1>5, <1>6 DEF Next, Step

LEMMA PhasesMatch == Spec => []PhaseInv
<1>1. TypeInv /\ PhaseInv /\ [Next]_vars => PhaseInv'
  BY NextPhaseInv
<1>2. QED
  BY <1>1, InitPhaseInv, TypeInvHolds, PTL DEF Spec

-----------------------------------------------------------------------------
(* The steps of AtomicQueue, under the refinement mapping.                 *)

EffectiveLabels ==
  {"push.unlock", "push.signal", "pop.unlock", "return", "empty.unlock"}

Effective == {t \in Threads : pc[t] \in EffectiveLabels}

\* The step t takes does not show in AtomicQueue.
LEMMA HiddenStep ==
  ASSUME NEW t \in Threads, NEW l \in Labels, TypeInv,
         Goto(t, l), UNCHANGED <<q_, op, val, sawEmpty>>,
         l \in EffectiveLabels <=> pc[t] \in EffectiveLabels
  PROVE  UNCHANGED Atomic!queueVars
<1>1. Effective' = Effective
  BY DEF Effective, Goto, TypeInv, TypeOK
<1>2. QED
  BY <1>1 DEF Atomic!queueVars, Effective, EffectiveLabels

LEMMA ReturnStep ==
  ASSUME NEW t \in Threads, Returned(t), UNCHANGED q_,
         t \in Effective, Effective' = Effective \ {t}
  PROVE  Atomic!Return(t)
  BY DEF Atomic!Return, Returned, Effective, EffectiveLabels

LEMMA TakeStep ==
  ASSUME NEW t \in Threads, TypeInv, PhaseInv,
         TryTest(t) \/ PopTest(t), TakeOldest(t, "pop.unlock")
  PROVE  Atomic!PopTakesEffect(t)
<1>1. op[t] \in Poppers /\ t \notin Effective
  BY DEF TryTest, PopTest, At, PhaseInv, CallsAt, Effective, EffectiveLabels
<1>2. Effective' = Effective \cup {t}
  BY DEF TakeOldest, Goto, TypeInv, TypeOK, Effective, EffectiveLabels
<1>3. QED
  BY <1>1, <1>2 DEF TakeOldest, Poppers, Atomic!PopTakesEffect, Atomic!Pending,
                    Effective, EffectiveLabels

LEMMA EmptyStep ==
  ASSUME NEW t \in Threads, TypeInv, PhaseInv,
         TryTest(t) \/ PopTest(t), FindEmpty(t)
  PROVE  Atomic!SeeEmpty(t)
<1>1. op[t] \in Poppers /\ t \notin Effective
  BY DEF TryTest, PopTest, At, PhaseInv, CallsAt, Effective, EffectiveLabels
<1>2. Goto(t, "try.unlock") \/ Goto(t, "asleep")
  BY DEF TryTest, PopTest, Wait, TakeOldest, FindEmpty
<1>3. Effective' = Effective
  BY <1>1, <1>2 DEF Goto, TypeInv, TypeOK, Effective, EffectiveLabels
<1>4. QED
  BY <1>1, <1>3 DEF FindEmpty, Poppers, Atomic!SeeEmpty, Effective, EffectiveLabels

LEMMA GiveUpStep ==
  ASSUME NEW t \in Threads, TypeInv, PhaseInv, PopLockTimeout(t) \/ PopGiveUp(t)
  PROVE  Atomic!GiveUp(t)
<1>1. op[t] = "PopMs" /\ sawEmpty[t] /\ t \notin Effective
  BY DEF PopLockTimeout, PopGiveUp, Acquire, At, PhaseInv, CallsAt, Spun,
         Effective, EffectiveLabels
<1>2. Effective' = Effective \cup {t}
  BY DEF PopLockTimeout, PopGiveUp, Acquire, Goto, TypeInv, TypeOK,
         Effective, EffectiveLabels
<1>3. QED
  BY <1>1, <1>2 DEF PopLockTimeout, PopGiveUp, Acquire, Atomic!GiveUp,
                    Atomic!Pending, Effective, EffectiveLabels

LEMMA AtomicStep ==
  ASSUME TypeInv, PhaseInv, [Next]_vars
  PROVE  [Atomic!Next]_Atomic!queueVars
<1> USE DEF At
<1>1. ASSUME NEW t \in Threads, Call(t)
      PROVE  \E o \in Atomic!Operations : Atomic!Call(t, o)
  <2>1. PICK o \in Calls[t] :
          /\ op' = [op EXCEPT ![t] = o]
          /\ Goto(t, FirstStep(o))
          /\ IF o = "Push"
               THEN \E e \in Free : val' = [val EXCEPT ![t] = e]
               ELSE val' = val
    BY <1>1 DEF Call
  <2>2. o \in Atomic!Operations
    BY QueueAssumption DEF Operations, Atomic!Operations
  <2>3. op[t] = "none"
    BY <1>1 DEF Call, PhaseInv, CallsAt
  <2>4. FirstStep(o) \in {"push.lock", "empty.lock", "try.lock", "pop.lock"}
    BY <2>2 DEF FirstStep, Atomic!Operations
  <2>5. Effective' = Effective
    BY <1>1, <2>1, <2>4
       DEF Call, Goto, TypeInv, TypeOK, Effective, EffectiveLabels
  <2>6. Atomic!Free = Free
    BY DEF Atomic!Free, Free, Atomic!Range, Range
  <2>7. Atomic!Call(t, o)
    BY <1>1, <2>1, <2>3, <2>5, <2>6
       DEF Call, Atomic!Call, Effective, EffectiveLabels
  <2>8. QED
    BY <2>2, <2>7
<1>2. ASSUME NEW t \in Threads, Push(t)
      PROVE  UNCHANGED Atomic!queueVars \/ Atomic!PushTakesEffect(t) \/ Atomic!Return(t)
  <2>1. CASE PushLock(t) \/ PushUnlock(t)
    BY <2>1, HiddenStep DEF PushLock, PushUnlock, Acquire, EffectiveLabels, Labels
  <2>2. CASE PushLink(t)
    <3>1. op[t] = "Push" /\ t \notin Effective
      BY <2>2 DEF PushLink, PhaseInv, CallsAt, Effective, EffectiveLabels
    <3>2. Effective' = Effective \cup {t}
      BY <2>2 DEF PushLink, Goto, TypeInv, TypeOK, Effective, EffectiveLabels
    <3>3. QED
      BY <2>2, <3>1, <3>2
         DEF PushLink, Atomic!PushTakesEffect, Atomic!Pending, Effective, EffectiveLabels
  <2>3. CASE PushSignal(t)
    <3>1. t \in Effective
      BY <2>3 DEF PushSignal, Effective, EffectiveLabels
    <3>2. \/ pc' = [pc EXCEPT ![t] = "idle"]
          \/ \E w \in Asleep : pc' = [[pc EXCEPT ![t] = "idle"] EXCEPT ![w] = "woken"]
      BY <2>3 DEF PushSignal, WakeOne
    <3>3. Effective' = Effective \ {t}
      BY <2>3, <3>2
         DEF PushSignal, TypeInv, TypeOK, Asleep, Effective, EffectiveLabels
    <3>4. QED
      BY <2>3, <3>1, <3>3, ReturnStep DEF PushSignal
  <2>4. QED
    BY <1>2, <2>1, <2>2, <2>3 DEF Push
<1>3. ASSUME NEW t \in Threads, Pop(t)
      PROVE  \/ UNCHANGED Atomic!queueVars
             \/ Atomic!PopTakesEffect(t) \/ Atomic!SeeEmpty(t)
             \/ Atomic!GiveUp(t) \/ Atomic!Return(t)
  <2>1. CASE TryLock(t) \/ TryUnlock(t) \/ PopLock(t) \/ PopWoken(t)
    BY <2>1, HiddenStep
       DEF TryLock, TryUnlock, PopLock, PopWoken, Acquire, EffectiveLabels, Labels
  <2>2. CASE TryTest(t) \/ PopTest(t)
    BY <2>2, TakeStep, EmptyStep DEF TryTest, PopTest
  <2>3. CASE PopLockTimeout(t) \/ PopGiveUp(t)
    BY <2>3, GiveUpStep
  <2>4. CASE PopReturn(t)
    <3>1. Returned(t) /\ UNCHANGED q_ /\ Goto(t, "idle") /\ t \in Effective
      BY <2>4 DEF PopReturn, ReleaseAndReturn, Effective, EffectiveLabels
    <3>2. Effective' = Effective \ {t}
      BY <3>1 DEF Goto, TypeInv, TypeOK, Effective, EffectiveLabels
    <3>3. QED
      BY <3>1, <3>2, ReturnStep
  <2>5. QED
    BY <1>3, <2>1, <2>2, <2>3, <2>4 DEF Pop
<1>4. ASSUME NEW t \in Threads, IsEmptyCall(t)
      PROVE  \/ UNCHANGED Atomic!queueVars
             \/ Atomic!SeeEmpty(t) \/ Atomic!SeeNonEmpty(t) \/ Atomic!Return(t)
  <2>1. CASE EmptyLock(t)
    BY <2>1, HiddenStep DEF EmptyLock, Acquire, EffectiveLabels, Labels
  <2>2. CASE EmptyRead(t)
    <3>1. op[t] = "IsEmpty" /\ ~sawEmpty[t] /\ t \notin Effective
      BY <2>2 DEF EmptyRead, PhaseInv, CallsAt, Effective, EffectiveLabels
    <3>2. Effective' = Effective \cup {t}
      BY <2>2 DEF EmptyRead, Goto, TypeInv, TypeOK, Effective, EffectiveLabels
    <3>3. CASE q_ = <<>>
      BY <2>2, <3>1, <3>2, <3>3
         DEF EmptyRead, Atomic!SeeEmpty, Effective, EffectiveLabels
    <3>4. CASE q_ # <<>>
      <4>1. sawEmpty' = sawEmpty
        BY <2>2, <3>1, <3>4 DEF EmptyRead, TypeInv, TypeOK
      <4>2. QED
        BY <2>2, <3>1, <3>2, <3>4, <4>1
           DEF EmptyRead, Atomic!SeeNonEmpty, Atomic!Pending, Effective, EffectiveLabels
    <3>5. QED
      BY <3>3, <3>4
  <2>3. CASE ReleaseAndReturn(t, "empty.unlock")
    <3>1. Returned(t) /\ UNCHANGED q_ /\ Goto(t, "idle") /\ t \in Effective
      BY <2>3 DEF ReleaseAndReturn, Effective, EffectiveLabels
    <3>2. Effective' = Effective \ {t}
      BY <3>1 DEF Goto, TypeInv, TypeOK, Effective, EffectiveLabels
    <3>3. QED
      BY <3>1, <3>2, ReturnStep
  <2>4. QED
    BY <1>4, <2>1, <2>2, <2>3 DEF IsEmptyCall
<1>5. ASSUME NEW t \in Threads, PopExpire(t) \/ SpuriousWakeup(t)
      PROVE  UNCHANGED Atomic!queueVars
  BY <1>5, HiddenStep DEF PopExpire, SpuriousWakeup, EffectiveLabels, Labels
<1>6. CASE UNCHANGED vars
  BY <1>6 DEF vars, Atomic!queueVars
<1>7. QED
  BY <1>1, <1>2, <1>3, <1>4, <1>5, <1>6 DEF Next, Step, Atomic!Next

(***************************************************************************)
(* InQueue is linearizable: PushLink, TakeOldest, FindEmpty, EmptyRead and *)
(* the two give-ups are the instants at which the calls take effect        *)
(* (include/inlist.hpp:129-211).                                           *)
(***************************************************************************)
THEOREM QueueIsAtomic == Spec => ImplementsAtomicQueue
<1>1. Init => Atomic!Init
  BY DEF Init, Atomic!Init
<1>2. TypeInv /\ PhaseInv /\ [Next]_vars => [Atomic!Next]_Atomic!queueVars
  BY AtomicStep
<1>3. QED
  BY <1>1, <1>2, TypeInvHolds, PhasesMatch, PTL
     DEF Spec, ImplementsAtomicQueue, Atomic!Spec

(***************************************************************************)
(* Queue, which does not spin, is linearizable too, loses no wakeup and    *)
(* holds lock_ wherever it touches q_: each of its steps is one of InQueue *)
(* (include/inlist.hpp:261-292).                                           *)
(***************************************************************************)
THEOREM QueueWithoutSpinning ==
  ASSUME ~TimeoutTakesSignal
  PROVE  QueueSpec => ImplementsAtomicQueue /\ [](LockDiscipline /\ OnePlace /\ NoLostWakeup)
<1>1. QueueInit => Init
  BY DEF QueueInit
<1>2. [QueueNext]_vars => [Next]_vars
  BY DEF QueueNext, QueuePop, Next, Step, Pop
<1>3. Spec => []NoLostWakeup
  BY NoWakeupIsLost
<1>4. QED
  BY <1>1, <1>2, <1>3, QueueIsAtomic, LockIsDisciplined, ElementsStayInOnePlace, PTL
     DEF QueueSpec, Spec

=============================================================================
