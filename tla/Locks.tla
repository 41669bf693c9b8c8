------------------------------- MODULE Locks -------------------------------
(***************************************************************************)
(* The POSIX locks of include/lock.h and the guards that hold them:        *)
(* PThreadMutex (recursive) with AutoLock and AutoUnlock, WaitCondition,   *)
(* PThreadRWLock with AutoReadLock and AutoWriteLock.                      *)
(*                                                                         *)
(* A guard takes its lock when it is constructed (an AutoUnlock adopts a   *)
(* hold that its thread has) and gives it back when it is destructed,      *)
(* unless Unlock did so before and reset the pointer.  Guards live on the  *)
(* stack of their thread and may be nested; a thread may lock the mutex    *)
(* without a guard, too.                                                   *)
(***************************************************************************)
EXTENDS Naturals, FiniteSets

CONSTANTS Threads, Guards, NULL,
          MaxBare,     \* bound: the holds a thread has without a guard
          MaxAsked     \* bound: how often a thread calls IsOwner

ASSUME LocksAssumption ==
  IsFiniteSet(Guards) /\ NULL \notin Threads /\ MaxBare \in Nat /\ MaxAsked \in Nat

MutexGuards == {"AutoLock", "AutoUnlock"}
RWGuards == {"AutoReadLock", "AutoWriteLock"}

VARIABLES owner, count,   \* pthread_mutex_t: who holds it, and how often
          rdlocks,        \* pthread_rwlock_t: how often it is locked for reading
          thread,         \* thread[g]: whose guard g is, NULL if it does not exist
          class,          \* class[g]: its class
          armed,          \* armed[g]: its pointer mutex_ or rwlock_ is set
          bare,           \* bare[t]: the holds on the mutex that t has without a guard
          leaked,         \* leaked[t]: those that IsOwner took for t, unknown to it
          pc              \* pc[t]: "run", or "asleep" or "woken" inside of Wait

mutexVars == <<owner, count>>
guardVars == <<thread, class, armed>>
bareVars == <<bare, leaked>>
vars == <<mutexVars, rdlocks, guardVars, bareVars, pc>>

Init ==
  /\ owner = NULL /\ count = 0 /\ rdlocks = 0
  /\ thread = [g \in Guards |-> NULL]
  /\ class = [g \in Guards |-> "AutoLock"]
  /\ armed = [g \in Guards |-> FALSE]
  /\ bare = [t \in Threads |-> 0]
  /\ leaked = [t \in Threads |-> 0]
  /\ pc = [t \in Threads |-> "run"]

-----------------------------------------------------------------------------
(* PThreadMutex                                                            *)

Lock(t) ==
  /\ owner \in {NULL, t}
  /\ owner' = t
  /\ count' = count + 1

Unlock(t) ==
  /\ owner = t
  /\ owner' = IF count = 1 THEN NULL ELSE t
  /\ count' = count - 1

\* Lock, TryLock and Lock(ms) when they succeed.
LockBare(t) ==
  /\ bare[t] < MaxBare
  /\ Lock(t)
  /\ bare' = [bare EXCEPT ![t] = @ + 1]
  /\ UNCHANGED <<rdlocks, guardVars, leaked, pc>>

UnlockBare(t) ==
  /\ bare[t] > 0
  /\ Unlock(t)
  /\ bare' = [bare EXCEPT ![t] = @ - 1]
  /\ UNCHANGED <<rdlocks, guardVars, leaked, pc>>

\* A recursive pthread_mutex_lock never returns EDEADLK: IsOwner locks the
\* mutex, answers no, to its owner too, and its caller does not know of the hold.
IsOwner(t) ==
  /\ leaked[t] < MaxAsked
  /\ Lock(t)
  /\ leaked' = [leaked EXCEPT ![t] = @ + 1]
  /\ UNCHANGED <<rdlocks, guardVars, bare, pc>>

-----------------------------------------------------------------------------
(* PThreadRWLock.  Both locks call pthread_rwlock_rdlock, which waits for  *)
(* a writer only; nothing here locks for writing, so it never waits.       *)

ReadLock == rdlocks' = rdlocks + 1
WriteLock == rdlocks' = rdlocks + 1
RWUnlock == rdlocks' = rdlocks - 1

-----------------------------------------------------------------------------
(* The guards                                                              *)

Construct(g, t, k) ==
  /\ thread[g] = NULL
  /\ \/ k = "AutoLock" /\ Lock(t) /\ UNCHANGED <<rdlocks, bare>>
     \/ /\ k = "AutoUnlock" /\ bare[t] > 0
        /\ bare' = [bare EXCEPT ![t] = @ - 1]
        /\ UNCHANGED <<mutexVars, rdlocks>>
     \/ k = "AutoReadLock" /\ ReadLock /\ UNCHANGED <<mutexVars, bare>>
     \/ k = "AutoWriteLock" /\ WriteLock /\ UNCHANGED <<mutexVars, bare>>
  /\ thread' = [thread EXCEPT ![g] = t]
  /\ class' = [class EXCEPT ![g] = k]
  /\ armed' = [armed EXCEPT ![g] = TRUE]
  /\ UNCHANGED <<leaked, pc>>

GiveBack(g) ==
  IF class[g] \in MutexGuards
    THEN Unlock(thread[g]) /\ UNCHANGED rdlocks
    ELSE RWUnlock /\ UNCHANGED mutexVars

\* Mutant: the pointer stays set.
MUnlockEarlyArmed(g) ==
  /\ armed[g] /\ GiveBack(g)
  /\ UNCHANGED <<guardVars, bareVars, pc>>

UnlockEarly(g) ==
  /\ armed[g] /\ GiveBack(g)
  /\ armed' = [armed EXCEPT ![g] = FALSE]
  /\ UNCHANGED <<thread, class, bareVars, pc>>

\* Mutant: the destructor does not look at the pointer.
MDestructAlways(g) ==
  /\ thread[g] # NULL /\ GiveBack(g)
  /\ thread' = [thread EXCEPT ![g] = NULL]
  /\ armed' = [armed EXCEPT ![g] = FALSE]
  /\ UNCHANGED <<class, bareVars, pc>>

Destruct(g) ==
  /\ thread[g] # NULL
  /\ IF armed[g] THEN GiveBack(g) ELSE UNCHANGED <<mutexVars, rdlocks>>
  /\ thread' = [thread EXCEPT ![g] = NULL]
  /\ armed' = [armed EXCEPT ![g] = FALSE]
  /\ UNCHANGED <<class, bareVars, pc>>

-----------------------------------------------------------------------------
(* WaitCondition                                                           *)

Armed(t) == {g \in Guards : armed[g] /\ thread[g] = t /\ class[g] \in MutexGuards}

\* Whether t knows of a hold on the mutex.
InScope(t) == bare[t] > 0 \/ Armed(t) # {}

\* Mutant: Wait gives up every hold.
MWaitAll(t) ==
  /\ InScope(t)
  /\ owner = t /\ owner' = NULL /\ count' = 0
  /\ pc' = [pc EXCEPT ![t] = "asleep"]
  /\ UNCHANGED <<rdlocks, guardVars, bareVars>>

\* pthread_cond_wait gives up one hold: the mutex stays locked under a second.
Wait(t) ==
  /\ InScope(t)
  /\ Unlock(t)
  /\ pc' = [pc EXCEPT ![t] = "asleep"]
  /\ UNCHANGED <<rdlocks, guardVars, bareVars>>

Waken(sleepers) ==
  /\ pc' = [t \in Threads |-> IF t \in sleepers THEN "woken" ELSE pc[t]]
  /\ UNCHANGED <<mutexVars, rdlocks, guardVars, bareVars>>

Asleep == {t \in Threads : pc[t] = "asleep"}

Signal == \E t \in Asleep : Waken({t})
Broadcast == Asleep # {} /\ Waken(Asleep)

\* A timed Wait is over, or pthread_cond_wait returns unsignalled.
Expire(t) == pc[t] = "asleep" /\ Waken({t})

Woken(t) ==
  /\ pc[t] = "woken"
  /\ Lock(t)
  /\ pc' = [pc EXCEPT ![t] = "run"]
  /\ UNCHANGED <<rdlocks, guardVars, bareVars>>

-----------------------------------------------------------------------------
\* What a thread does while it is not in Wait.
Act(t) ==
  \/ LockBare(t) \/ UnlockBare(t) \/ IsOwner(t) \/ Wait(t) \/ Signal \/ Broadcast
  \/ \E g \in Guards, k \in MutexGuards \cup RWGuards : Construct(g, t, k)
  \/ \E g \in Guards : thread[g] = t /\ (UnlockEarly(g) \/ Destruct(g))

Next == \E t \in Threads : (pc[t] = "run" /\ Act(t)) \/ Expire(t) \/ Woken(t)

Spec == Init /\ [][Next]_vars

-----------------------------------------------------------------------------
TypeOK ==
  /\ owner \in Threads \cup {NULL} /\ count \in Nat /\ rdlocks \in Nat
  /\ thread \in [Guards -> Threads \cup {NULL}]
  /\ class \in [Guards -> MutexGuards \cup RWGuards]
  /\ armed \in [Guards -> BOOLEAN]
  /\ bare \in [Threads -> 0..MaxBare]
  /\ leaked \in [Threads -> 0..MaxAsked]
  /\ pc \in [Threads -> {"run", "asleep", "woken"}]

Reading == {g \in Guards : armed[g] /\ class[g] \in RWGuards}

Holds(t) == IF owner = t THEN count ELSE 0
Lent(t) == IF pc[t] = "run" THEN 0 ELSE 1

(***************************************************************************)
(* Every guard gives back what it took exactly once, by Unlock or by its   *)
(* destructor, and never a hold of another guard, however guards nest,     *)
(* adopt and wait.  A thread in Wait has lent out one hold, not all, and   *)
(* what IsOwner took stays (include/lock.h:32-153, 187-201, 331-416).      *)
(***************************************************************************)
GuardsMatchLock ==
  /\ \A t \in Threads : Holds(t) + Lent(t) = bare[t] + leaked[t] + Cardinality(Armed(t))
  /\ rdlocks = Cardinality(Reading)
  /\ \A g \in Guards : armed[g] => thread[g] # NULL

\* The threads in a scope that the mutex protects.
Inside == {t \in Threads : pc[t] = "run" /\ InScope(t)}

(***************************************************************************)
(* At most one thread is inside: also when guards nest, when a thread adds *)
(* holds of its own, and when it comes back from a Wait                    *)
(* (include/lock.h:32-153, 187-216).                                       *)
(***************************************************************************)
ScopesExclude == \A t, u \in Inside : t = u

(***************************************************************************)
(* The mutex is kept from the others by a thread that is not inside in two *)
(* cases only: IsOwner left it a hold, or it went into Wait with more than *)
(* one, so that nobody who takes the lock to signal it gets in.  In both   *)
(* cases it is kept indeed (include/lock.h:104-153, 187-201).              *)
(***************************************************************************)
OutsideOwners ==
  \A t \in Threads \ Inside :
    owner = t <=> IF pc[t] = "run" THEN leaked[t] > 0
                                   ELSE bare[t] + leaked[t] + Cardinality(Armed(t)) > 1

(***************************************************************************)
(* A writer has the lock for itself (include/lock.h:306-307, 393).         *)
(***************************************************************************)
WritersExclude ==
  \A g, h \in Reading : class[g] = "AutoWriteLock" => g = h

=============================================================================
