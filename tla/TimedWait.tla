----------------------------- MODULE TimedWait -----------------------------
(***************************************************************************)
(* The calls with a time limit of include/lock.h, PThreadMutex::Lock(ms)   *)
(* and WaitCondition::Wait(lock, ms), over Locks and the two clocks.       *)
(*                                                                         *)
(* GetTimeSpec reads CLOCK_MONOTONIC, which starts with the machine.  The  *)
(* mutex and the condition have default attributes: pthreads waits until   *)
(* CLOCK_REALTIME reaches the deadline.                                    *)
(***************************************************************************)
EXTENDS Locks, Clocks

CONSTANTS BootTime,     \* CLOCK_REALTIME less CLOCK_MONOTONIC, in seconds
          Limits,       \* bound: the values of ms
          LastSecond    \* bound: the seconds the machine runs

VARIABLES monotonic,    \* CLOCK_MONOTONIC
          deadline      \* deadline[t]: of t's last call with a limit

realtime == [monotonic EXCEPT !.tv_sec = @ + BootTime]

TInit ==
  /\ Init
  /\ monotonic = [tv_sec |-> 0, tv_nsec |-> 0]
  /\ deadline = [t \in Threads |-> monotonic]

Tick ==
  /\ monotonic.tv_sec < LastSecond
  /\ monotonic' = GetTimeSpec(monotonic, 400)
  /\ UNCHANGED <<vars, deadline>>

SetDeadline(t) ==
  /\ \E ms \in Limits : deadline' = [deadline EXCEPT ![t] = GetTimeSpec(monotonic, ms)]
  /\ UNCHANGED monotonic

Due(t) == Reached(realtime, deadline[t])

TimedWait(t) == pc[t] = "run" /\ Wait(t) /\ SetDeadline(t)

\* pthread_cond_timedwait returns ETIMEDOUT, with the mutex (Woken of Locks).
WaitTimeout(t) == Due(t) /\ Expire(t) /\ UNCHANGED <<monotonic, deadline>>

TimedLock(t) ==
  /\ pc[t] = "run" /\ owner \notin {NULL, t}
  /\ SetDeadline(t)
  /\ pc' = [pc EXCEPT ![t] = "locking"]
  /\ UNCHANGED <<mutexVars, rdlocks, guardVars, bareVars>>

LockTimeout(t) ==
  /\ pc[t] = "locking" /\ Due(t)
  /\ pc' = [pc EXCEPT ![t] = "run"]
  /\ UNCHANGED <<mutexVars, rdlocks, guardVars, bareVars, monotonic, deadline>>

Locked(t) ==
  /\ pc[t] = "locking"
  /\ Lock(t)
  /\ bare' = [bare EXCEPT ![t] = @ + 1]
  /\ pc' = [pc EXCEPT ![t] = "run"]
  /\ UNCHANGED <<rdlocks, guardVars, leaked, monotonic, deadline>>

Untimed(t) ==
  /\ \/ pc[t] = "run" /\ (LockBare(t) \/ UnlockBare(t) \/ Signal \/ Broadcast)
     \/ Woken(t)
  /\ UNCHANGED <<monotonic, deadline>>

TNext ==
  \/ Tick
  \/ \E t \in Threads : TimedWait(t) \/ WaitTimeout(t) \/ TimedLock(t)
                          \/ LockTimeout(t) \/ Locked(t) \/ Untimed(t)

TSpec == TInit /\ [][TNext]_<<vars, monotonic, deadline>>

(***************************************************************************)
(* A call that is about to time out has waited its ms, so that its         *)
(* deadline is a "timespec for time msec from now" (include/util.h:176,    *)
(* include/lock.h:134-141, 194-201).                                       *)
(***************************************************************************)
TimeoutsAreDue ==
  \A t \in Threads :
    pc[t] \in {"asleep", "locking"} /\ Due(t) => Reached(monotonic, deadline[t])

=============================================================================
