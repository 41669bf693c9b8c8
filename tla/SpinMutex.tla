------------------------------ MODULE SpinMutex ------------------------------
(***************************************************************************)
(* SpinMutex, include/lock.h:224-298: a lock in the word mutex_, taken by  *)
(* compare-and-swap, with the thread that has it in owner_.  One action is *)
(* one access to mutex_ (an atomic instruction with a full barrier) or to  *)
(* owner_ (a plain, aligned word).                                         *)
(*                                                                         *)
(* Threads call Lock, TryLock and IsOwner at any time, Unlock only with    *)
(* the lock.  A failed INVARIANT ends the process.                         *)
(***************************************************************************)
CONSTANTS Threads,
          NoThread,      \* a pthread_t that is no thread's: 0
          InitialOwners  \* what owner_ may hold before the first Lock

ASSUME LockAssumption ==
  /\ NoThread \notin Threads
  /\ InitialOwners \subseteq Threads \cup {NoThread}

Operations == {"Lock", "TryLock", "Unlock", "IsOwner"}

VARIABLES mutex_, owner_,
          pc,       \* the access each thread is about to make
          call,     \* the call each thread is in, "none" outside of one
          ret,      \* its outcome, "pending" before it is decided
          holding   \* the threads that took the lock and did not call Unlock

vars == <<mutex_, owner_, pc, call, ret, holding>>

\* The constructor (234-240) sets mutex_ and leaves owner_ alone.
Init ==
  /\ mutex_ = "OPEN"
  /\ owner_ \in InitialOwners
  /\ pc = [t \in Threads |-> "idle"]
  /\ call = [t \in Threads |-> "none"]
  /\ ret = [t \in Threads |-> "pending"]
  /\ holding = {}

Step(t, from, to) ==
  /\ pc[t] = from
  /\ pc' = [pc EXCEPT ![t] = to]

Decide(t, r) == ret' = [ret EXCEPT ![t] = r]

-----------------------------------------------------------------------------
FirstStep(c) ==
  CASE c = "Lock" -> "lock.open"
    [] c = "TryLock" -> "try"
    [] c = "Unlock" -> "unlock.clear"
    [] c = "IsOwner" -> "owner.closed"

Call(t) ==
  \E c \in Operations :
    /\ c = "Unlock" => t \in holding
    /\ Step(t, "idle", FirstStep(c))
    /\ call' = [call EXCEPT ![t] = c]
    /\ holding' = IF c = "Unlock" THEN holding \ {t} ELSE holding
    /\ UNCHANGED <<mutex_, owner_, ret>>

Return(t) ==
  /\ Step(t, "return", "idle")
  /\ call' = [call EXCEPT ![t] = "none"]
  /\ Decide(t, "pending")
  /\ UNCHANGED <<mutex_, owner_, holding>>

(* Lock: INVARIANT(Is(OPEN) || !IsOwner()), then spin on TryLock.          *)

\* Mutant: the INVARIANT is compiled out.
MLockUnchecked(t) ==
  /\ Step(t, "lock.open", "spin")
  /\ UNCHANGED <<mutex_, owner_, call, ret, holding>>

LockIsOpen(t) ==
  /\ Step(t, "lock.open", IF mutex_ = "OPEN" THEN "spin" ELSE "lock.closed")
  /\ UNCHANGED <<mutex_, owner_, call, ret, holding>>

LockIsClosed(t) ==
  /\ Step(t, "lock.closed", IF mutex_ = "CLOSED" THEN "lock.owner" ELSE "spin")
  /\ UNCHANGED <<mutex_, owner_, call, ret, holding>>

LockIsOwner(t) ==
  /\ IF owner_ = t
       THEN Step(t, "lock.owner", "aborted") /\ Decide(t, "aborted")
       ELSE Step(t, "lock.owner", "spin") /\ UNCHANGED ret
  /\ UNCHANGED <<mutex_, owner_, call, holding>>

(* TryLock, of its own or in a round of Lock.                              *)

\* Mutant: mutex_ is set without a comparison.
MSwapBlind(t, from) ==
  /\ mutex_' = "CLOSED"
  /\ Step(t, from, "write")
  /\ Decide(t, "yes")
  /\ UNCHANGED <<owner_, call, holding>>

\* The compare-and-swap of OPEN by CLOSED succeeds.
Swap(t, from) ==
  /\ mutex_ = "OPEN"
  /\ mutex_' = "CLOSED"
  /\ Step(t, from, "write")
  /\ Decide(t, "yes")
  /\ UNCHANGED <<owner_, call, holding>>

\* Mutant: the swap is of CLOSED by OPEN.
MSpinSwapReversed(t) ==
  /\ mutex_ = "CLOSED"
  /\ mutex_' = "OPEN"
  /\ Step(t, "spin", "write")
  /\ Decide(t, "yes")
  /\ UNCHANGED <<owner_, call, holding>>

SpinSwap(t) == Swap(t, "spin")

TrySwap(t) == Swap(t, "try")

TryFails(t) ==
  /\ mutex_ # "OPEN"
  /\ Step(t, "try", "return")
  /\ Decide(t, "no")
  /\ UNCHANGED <<mutex_, owner_, call, holding>>

WriteOwner(t) ==
  /\ Step(t, "write", "return")
  /\ owner_' = t
  /\ holding' = holding \cup {t}
  /\ UNCHANGED <<mutex_, call, ret>>

(* Unlock                                                                  *)

\* Mutant: owner_ is not cleared.
MKeepOwner(t) ==
  /\ Step(t, "unlock.clear", "unlock.swap")
  /\ UNCHANGED <<mutex_, owner_, call, ret, holding>>

ClearOwner(t) ==
  /\ Step(t, "unlock.clear", "unlock.swap")
  /\ owner_' = NoThread
  /\ UNCHANGED <<mutex_, call, ret, holding>>

\* Mutant: the word becomes 0, which is not OPEN.
MReleaseZero(t) ==
  /\ Step(t, "unlock.swap", "return")
  /\ mutex_' = "ZERO"
  /\ Decide(t, "yes")
  /\ UNCHANGED <<owner_, call, holding>>

Release(t) ==
  /\ Step(t, "unlock.swap", "return")
  /\ mutex_' = IF mutex_ = "CLOSED" THEN "OPEN" ELSE mutex_
  /\ Decide(t, "yes")
  /\ UNCHANGED <<owner_, call, holding>>

(* IsOwner: Is(CLOSED) && owner_ is the caller.                            *)

OwnerIsClosed(t) ==
  /\ IF mutex_ = "CLOSED"
       THEN Step(t, "owner.closed", "owner.read") /\ UNCHANGED ret
       ELSE Step(t, "owner.closed", "return") /\ Decide(t, "no")
  /\ UNCHANGED <<mutex_, owner_, call, holding>>

OwnerRead(t) ==
  /\ Step(t, "owner.read", "return")
  /\ Decide(t, IF owner_ = t THEN "yes" ELSE "no")
  /\ UNCHANGED <<mutex_, owner_, call, holding>>

-----------------------------------------------------------------------------
Run(t) ==
  \/ Return(t)
  \/ LockIsOpen(t) \/ LockIsClosed(t) \/ LockIsOwner(t)
  \/ SpinSwap(t) \/ TrySwap(t) \/ TryFails(t) \/ WriteOwner(t)
  \/ ClearOwner(t) \/ Release(t)
  \/ OwnerIsClosed(t) \/ OwnerRead(t)

Aborted == \E t \in Threads : pc[t] = "aborted"

Next == ~Aborted /\ \E t \in Threads : Call(t) \/ Run(t)

Spec == Init /\ [][Next]_vars

\* Threads are scheduled, and a thread with the lock calls Unlock some day.
\* Nothing keeps a spinning thread from being overtaken for ever.
Fairness ==
  \A t \in Threads :
    /\ WF_vars(~Aborted /\ Run(t))
    /\ SF_vars(~Aborted /\ Call(t) /\ call'[t] = "Unlock")

FairSpec == Spec /\ Fairness

-----------------------------------------------------------------------------
Labels == {"idle", "lock.open", "lock.closed", "lock.owner", "spin", "try",
           "write", "unlock.clear", "unlock.swap", "owner.closed",
           "owner.read", "return", "aborted"}

TypeOK ==
  /\ mutex_ \in {"OPEN", "CLOSED"}
  /\ owner_ \in Threads \cup {NoThread}
  /\ pc \in [Threads -> Labels]
  /\ call \in [Threads -> Operations \cup {"none"}]
  /\ ret \in [Threads -> {"pending", "yes", "no", "aborted"}]
  /\ holding \subseteq Threads

(***************************************************************************)
(* No ASSERT of a debug build fires: the lock is closed after a successful *)
(* swap (252), Unlock finds its caller to be the owner (274) and the lock  *)
(* closed (278).                                                           *)
(***************************************************************************)
AssertsHold ==
  \A t \in Threads :
    /\ pc[t] \in {"write", "unlock.clear", "unlock.swap"} => mutex_ = "CLOSED"
    /\ pc[t] = "unlock.clear" => owner_ = t

(***************************************************************************)
(* The INVARIANT at the entry of Lock ends the process only for a thread   *)
(* that has the lock already (include/lock.h:263).                         *)
(***************************************************************************)
OnlyRelockAborts == \A t \in Threads : pc[t] = "aborted" => t \in holding

(***************************************************************************)
(* That INVARIANT misses no thread that has the lock: none ends up         *)
(* spinning for itself (include/lock.h:263-267).                           *)
(***************************************************************************)
RelockIsCaught == \A t \in Threads : pc[t] = "spin" => t \notin holding

-----------------------------------------------------------------------------
Lock == INSTANCE AbstractLock WITH
  holders <- holding \cup
             {t \in Threads : pc[t] \in {"write", "unlock.clear", "unlock.swap"}}

(***************************************************************************)
(* SpinMutex is a linearizable lock that knows its owner: at most one      *)
(* thread has it, TryLock fails only while somebody has it, and IsOwner    *)
(* never mistakes one thread for another, although mutex_ and owner_ are   *)
(* written one after the other (include/lock.h:247-289).                   *)
(***************************************************************************)
ImplementsLock == Lock!Spec

(***************************************************************************)
(* A free lock does not stay free while a thread spins for it              *)
(* (include/lock.h:267).                                                   *)
(***************************************************************************)
SpinnerGetsIn ==
  (mutex_ = "OPEN" /\ \E t \in Threads : pc[t] = "spin")
    ~> mutex_ = "CLOSED" \/ Aborted

=============================================================================
