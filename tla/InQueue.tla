------------------------------ MODULE InQueue ------------------------------
(***************************************************************************)
(* InQueue<T>, include/inlist.hpp:121-243: the blocking queue over an      *)
(* InList, with a PThreadMutex lock_ and a WaitCondition conditionEmpty_.  *)
(*                                                                         *)
(* A thread's position in a call is pc[t]; one action is one step between  *)
(* two accesses to shared state.  q_ is the list that InList implements    *)
(* (FifoList), oldest element first.  The threads blocked in               *)
(* conditionEmpty_ are those at "asleep".                                  *)
(***************************************************************************)
EXTENDS Naturals, Sequences, SequencesExt, FiniteSets

CONSTANTS Threads, Elements, NULL,
          Calls,                \* Calls[t]: the operations thread t may call
          MaxSpin,              \* maxSpin_; 0 in Queue, which does not spin
          SpuriousWakeups,      \* whose pthread_cond_wait may return unsignalled
          TimeoutTakesSignal    \* may a wait that times out use up a signal?

Operations == {"Push", "Pop", "PopMs", "IsEmpty"}

ASSUME QueueAssumption ==
  /\ IsFiniteSet(Threads)
  /\ NULL \notin Threads \cup Elements
  /\ Calls \in [Threads -> SUBSET Operations]
  /\ MaxSpin \in Nat
  /\ MaxSpin = 0 => \A t \in Threads : "PopMs" \notin Calls[t]
  /\ SpuriousWakeups \subseteq Threads
  /\ TimeoutTakesSignal \in BOOLEAN

VARIABLES lock_,     \* the thread that holds lock_, or NULL
          q_,        \* the linked elements
          pc,        \* where each thread is
          op,        \* the call each thread is in, "none" outside of one
          val,       \* the element each thread is to push, or has popped
          spin,      \* i of TryPop: the rounds it has spun
          sawEmpty   \* the call found q_ empty (ret of IsEmpty; history for Pop)

vars == <<lock_, q_, pc, op, val, spin, sawEmpty>>

At(t, label) == pc[t] = label
Goto(t, label) == pc' = [pc EXCEPT ![t] = label]

Free == Elements \ (Range(q_) \cup Range(val))

Init ==
  /\ lock_ = NULL
  /\ q_ = <<>>
  /\ pc = [t \in Threads |-> "idle"]
  /\ op = [t \in Threads |-> "none"]
  /\ val = [t \in Threads |-> NULL]
  /\ spin = [t \in Threads |-> 0]
  /\ sawEmpty = [t \in Threads |-> FALSE]

-----------------------------------------------------------------------------
(* PThreadMutex and WaitCondition.  lock_ is never taken twice by one      *)
(* thread here, so its recursion count plays no part.                      *)

Lock(t) == lock_ = NULL /\ lock_' = t
Unlock(t) == lock_ = t /\ lock_' = NULL

Acquire(t, from, to) ==
  /\ At(t, from)
  /\ Lock(t)
  /\ Goto(t, to)
  /\ UNCHANGED <<q_, op, val, spin, sawEmpty>>

Asleep == {t \in Threads : At(t, "asleep")}

\* Timed waiters whose time is up and who have not re-acquired the lock yet.
Expired == {t \in Threads : At(t, "expired")}

\* Mutant: the signal is forgotten.
MWakeOneNever(state) == {state}

\* One sleeper is woken, if there is one.  POSIX lets a wait that is timing
\* out use up the signal.
WakeOne(state) ==
  IF Asleep = {} THEN {state}
  ELSE {[state EXCEPT ![w] = "woken"] : w \in Asleep}
         \cup (IF TimeoutTakesSignal /\ Expired # {} THEN {state} ELSE {})

\* Mutant: the wait keeps the lock.
MWaitHolding(t) == UNCHANGED lock_ /\ Goto(t, "asleep")

\* conditionEmpty_.Wait(&lock_): give the lock up and sleep, at once.
Wait(t) == Unlock(t) /\ Goto(t, "asleep")

-----------------------------------------------------------------------------
(* Invocation and return.                                                  *)

FirstStep(o) ==
  CASE o = "Push" -> "push.lock"
    [] o = "IsEmpty" -> "empty.lock"
    [] OTHER -> IF MaxSpin = 0 THEN "pop.lock" ELSE "try.lock"

Call(t) ==
  /\ At(t, "idle")
  /\ \E o \in Calls[t] :
       /\ op' = [op EXCEPT ![t] = o]
       /\ Goto(t, FirstStep(o))
       /\ IF o = "Push"
            THEN \E e \in Free : val' = [val EXCEPT ![t] = e]
            ELSE val' = val
  /\ UNCHANGED <<lock_, q_, spin, sawEmpty>>

\* Mutant: the spin counter is not reset between calls.
MReturnedSpinning(t) ==
  /\ op' = [op EXCEPT ![t] = "none"]
  /\ val' = [val EXCEPT ![t] = NULL]
  /\ sawEmpty' = [sawEmpty EXCEPT ![t] = FALSE]
  /\ UNCHANGED spin

Returned(t) ==
  /\ op' = [op EXCEPT ![t] = "none"]
  /\ val' = [val EXCEPT ![t] = NULL]
  /\ spin' = [spin EXCEPT ![t] = 0]
  /\ sawEmpty' = [sawEmpty EXCEPT ![t] = FALSE]

-----------------------------------------------------------------------------
(* Push                                                                    *)

PushLock(t) == Acquire(t, "push.lock", "push.link")

PushLink(t) ==
  /\ At(t, "push.link")
  /\ q_' = Append(q_, val[t])
  /\ val' = [val EXCEPT ![t] = NULL]
  /\ Goto(t, "push.unlock")
  /\ UNCHANGED <<lock_, op, spin, sawEmpty>>

PushUnlock(t) ==
  /\ At(t, "push.unlock")
  /\ Unlock(t)
  /\ Goto(t, "push.signal")
  /\ UNCHANGED <<q_, op, val, spin, sawEmpty>>

\* Mutant: signal only when the queue was empty before the Push.
MPushSignalFirst(t) ==
  /\ At(t, "push.signal")
  /\ IF Len(q_) > 1
       THEN Goto(t, "idle")
       ELSE pc' \in WakeOne([pc EXCEPT ![t] = "idle"])
  /\ Returned(t)
  /\ UNCHANGED <<lock_, q_>>

PushSignal(t) ==
  /\ At(t, "push.signal")
  /\ pc' \in WakeOne([pc EXCEPT ![t] = "idle"])
  /\ Returned(t)
  /\ UNCHANGED <<lock_, q_>>

Push(t) == PushLock(t) \/ PushLink(t) \/ PushUnlock(t) \/ PushSignal(t)

-----------------------------------------------------------------------------
(* q_.IsEmpty() and q_.Pop() under the lock, in TryPop and in both Pops.   *)

\* Mutants: the element stays linked; the newest element is taken.
MTakeAndKeep(t, to) ==
  /\ q_ # <<>>
  /\ val' = [val EXCEPT ![t] = Head(q_)]
  /\ Goto(t, to)
  /\ UNCHANGED <<lock_, q_, op, spin, sawEmpty>>

MTakeNewest(t, to) ==
  /\ q_ # <<>>
  /\ val' = [val EXCEPT ![t] = Last(q_)]
  /\ q_' = Front(q_)
  /\ Goto(t, to)
  /\ UNCHANGED <<lock_, op, spin, sawEmpty>>

TakeOldest(t, to) ==
  /\ q_ # <<>>
  /\ val' = [val EXCEPT ![t] = Head(q_)]
  /\ q_' = Tail(q_)
  /\ Goto(t, to)
  /\ UNCHANGED <<lock_, op, spin, sawEmpty>>

FindEmpty(t) ==
  /\ q_ = <<>>
  /\ sawEmpty' = [sawEmpty EXCEPT ![t] = TRUE]
  /\ UNCHANGED <<q_, op, val, spin>>

ReleaseAndReturn(t, from) ==
  /\ At(t, from)
  /\ Unlock(t)
  /\ Goto(t, "idle")
  /\ Returned(t)
  /\ UNCHANGED q_

(* TryPop: at most MaxSpin rounds of lock, test, unlock, yield.            *)

TryLock(t) == Acquire(t, "try.lock", "try.test")

TryTest(t) ==
  /\ At(t, "try.test")
  /\ \/ TakeOldest(t, "pop.unlock")
     \/ FindEmpty(t) /\ Goto(t, "try.unlock") /\ UNCHANGED lock_

TryUnlock(t) ==
  /\ At(t, "try.unlock")
  /\ Unlock(t)
  /\ spin' = [spin EXCEPT ![t] = @ + 1]
  /\ Goto(t, IF spin[t] + 1 < MaxSpin THEN "try.lock" ELSE "pop.lock")
  /\ UNCHANGED <<q_, op, val, sawEmpty>>

(* Pop and Pop(ms) after TryPop.                                           *)

PopLock(t) == Acquire(t, "pop.lock", "pop.test")

\* lock_.Lock(ms) of a timed Pop fails: somebody holds the lock too long.
PopLockTimeout(t) ==
  /\ At(t, "pop.lock")
  /\ op[t] = "PopMs"
  /\ lock_ # NULL
  /\ Goto(t, "return")
  /\ UNCHANGED <<lock_, q_, op, val, spin, sawEmpty>>

PopTest(t) ==
  /\ At(t, "pop.test")
  /\ \/ TakeOldest(t, "pop.unlock")
     \/ FindEmpty(t) /\ Wait(t)

PopWoken(t) == Acquire(t, "woken", "pop.test")

PopExpire(t) ==
  /\ At(t, "asleep")
  /\ op[t] = "PopMs"
  /\ Goto(t, "expired")
  /\ UNCHANGED <<lock_, q_, op, val, spin, sawEmpty>>

\* Mutants: the lock is kept on the way out; the wait is simply repeated.
MPopGiveUpLocked(t) == Acquire(t, "expired", "return")
MPopGiveUpNever(t) == Acquire(t, "expired", "pop.test")

\* Wait(ms) returns false: the call gives up without another look at q_.
PopGiveUp(t) == Acquire(t, "expired", "pop.unlock")

PopReturn(t) ==
  \/ ReleaseAndReturn(t, "pop.unlock")
  \/ /\ At(t, "return")
     /\ Goto(t, "idle")
     /\ Returned(t)
     /\ UNCHANGED <<lock_, q_>>

SpuriousWakeup(t) ==
  /\ t \in SpuriousWakeups
  /\ At(t, "asleep")
  /\ Goto(t, "woken")
  /\ UNCHANGED <<lock_, q_, op, val, spin, sawEmpty>>

Pop(t) ==
  \/ TryLock(t) \/ TryTest(t) \/ TryUnlock(t)
  \/ PopLock(t) \/ PopLockTimeout(t) \/ PopTest(t) \/ PopWoken(t)
  \/ PopGiveUp(t) \/ PopReturn(t)

-----------------------------------------------------------------------------
(* IsEmpty                                                                 *)

EmptyLock(t) == Acquire(t, "empty.lock", "empty.read")

EmptyRead(t) ==
  /\ At(t, "empty.read")
  /\ sawEmpty' = [sawEmpty EXCEPT ![t] = q_ = <<>>]
  /\ Goto(t, "empty.unlock")
  /\ UNCHANGED <<lock_, q_, op, val, spin>>

IsEmptyCall(t) ==
  EmptyLock(t) \/ EmptyRead(t) \/ ReleaseAndReturn(t, "empty.unlock")

-----------------------------------------------------------------------------
Step(t) == Push(t) \/ Pop(t) \/ IsEmptyCall(t)

Next == \E t \in Threads :
          Call(t) \/ Step(t) \/ PopExpire(t) \/ SpuriousWakeup(t)

Spec == Init /\ [][Next]_vars

\* The operating system runs every thread and fires every timer; lock_ does
\* not starve a thread that keeps asking for it.  Nobody has to make a call.
Fairness ==
  \A t \in Threads :
    /\ WF_vars(Step(t))
    /\ WF_vars(PopExpire(t))
    /\ SF_vars(/\ lock_' = t
               /\ PushLock(t) \/ TryLock(t) \/ PopLock(t) \/ PopWoken(t)
                    \/ PopGiveUp(t) \/ EmptyLock(t))

FairSpec == Spec /\ Fairness

-----------------------------------------------------------------------------
Labels == {"idle", "push.lock", "push.link", "push.unlock", "push.signal",
           "try.lock", "try.test", "try.unlock", "pop.lock", "pop.test",
           "asleep", "woken", "expired", "pop.unlock", "return",
           "empty.lock", "empty.read", "empty.unlock"}

TypeOK ==
  /\ lock_ \in Threads \cup {NULL}
  /\ q_ \in Seq(Elements)
  /\ pc \in [Threads -> Labels]
  /\ op \in [Threads -> Operations \cup {"none"}]
  /\ val \in [Threads -> Elements \cup {NULL}]
  /\ spin \in [Threads -> 0..MaxSpin]
  /\ sawEmpty \in [Threads -> BOOLEAN]

\* The labels at which a thread holds lock_, and those at which it looks at
\* or changes q_.
Holding == {"push.link", "push.unlock", "try.test", "try.unlock",
            "pop.test", "pop.unlock", "empty.read", "empty.unlock"}

(***************************************************************************)
(* A thread is between a Lock and its Unlock exactly while it holds lock_, *)
(* on every path out of the call: no path returns with the lock, and none  *)
(* touches q_ without it (include/inlist.hpp:131-133, 153-161, 187-199,    *)
(* 223-229).                                                               *)
(***************************************************************************)
LockDiscipline == \A t \in Threads : pc[t] \in Holding <=> lock_ = t

(***************************************************************************)
(* An element is in one place: linked once, or in the hands of one thread  *)
(* (about to be pushed, or popped and about to be returned).  Two Pops     *)
(* never return the same element (include/inlist.hpp:129-199).             *)
(***************************************************************************)
OnePlace ==
  /\ \A i, j \in DOMAIN q_ : q_[i] = q_[j] => i = j
  /\ \A t \in Threads : val[t] # NULL =>
       /\ val[t] \notin Range(q_)
       /\ \A u \in Threads \ {t} : val[u] # val[t]

\* Threads that are going to signal, and threads that are going to look at q_.
Signalling == {t \in Threads : pc[t] \in {"push.unlock", "push.signal"}}
Waking == {t \in Threads : pc[t] \in {"woken", "pop.test"}}

(***************************************************************************)
(* While a popper sleeps, every queued element has its own wakeup under    *)
(* way: a pusher that has yet to signal, or a woken thread that has yet to *)
(* look.  Push signals after the unlock, once per element and only one     *)
(* sleeper, and a woken thread may find its element taken by a spinning    *)
(* one; no element is ever left behind for a sleeper                       *)
(* (include/inlist.hpp:129-136, 153-161, 187-199).  It holds with          *)
(* TimeoutTakesSignal = FALSE only: a wait that is timing out and uses up  *)
(* a signal leaves its element without a wakeup.                           *)
(***************************************************************************)
NoLostWakeup ==
  Asleep # {} => Len(q_) <= Cardinality(Signalling \cup Waking)

-----------------------------------------------------------------------------
Atomic == INSTANCE AtomicQueue WITH
  queue <- q_,
  effective <- {t \in Threads : pc[t] \in {"push.unlock", "push.signal",
                                 "pop.unlock", "return", "empty.unlock"}}

(***************************************************************************)
(* The queue is linearizable: each call takes effect at one instant, Pops  *)
(* return the elements in the order of the Pushes, and a timed Pop returns *)
(* NULL only if the queue was empty at some instant of its call            *)
(* (include/inlist.hpp:121-243).                                           *)
(***************************************************************************)
ImplementsAtomicQueue == Atomic!Spec

(***************************************************************************)
(* A Pop that is under way while the queue is not empty returns, unless    *)
(* other threads empty the queue first (include/inlist.hpp:138-202).       *)
(* Like NoLostWakeup it needs TimeoutTakesSignal = FALSE.                  *)
(***************************************************************************)
PopProgress ==
  \A t \in Threads :
    op[t] \in {"Pop", "PopMs"} /\ q_ # <<>> ~> op[t] = "none" \/ q_ = <<>>

(***************************************************************************)
(* A Pop(ms) that is not woken spuriously returns even if nobody ever      *)
(* pushes (include/inlist.hpp:181-195).  It says nothing of the time it    *)
(* takes, nor of one that is woken for elements others take (187).         *)
(***************************************************************************)
TimedPopReturns ==
  \A t \in Threads : op[t] = "PopMs" ~> op[t] = "none" \/ q_ # <<>>

(***************************************************************************)
(* Push and IsEmpty never block for good: nobody keeps lock_ while asleep  *)
(* (include/inlist.hpp:129-136, 204-211).                                  *)
(***************************************************************************)
CallsReturn ==
  \A t \in Threads : op[t] \in {"Push", "IsEmpty"} ~> op[t] = "none"

=============================================================================
