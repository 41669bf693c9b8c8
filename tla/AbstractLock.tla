---------------------------- MODULE AbstractLock ----------------------------
(***************************************************************************)
(* What a lock that knows its owner (Mutex, include/lock.h:18-28) promises *)
(* to the threads that share it: every call takes effect at one instant.   *)
(* Lock takes the lock when nobody has it, TryLock fails only if somebody  *)
(* has it, IsOwner tells whether the caller has it, and a Lock by the      *)
(* thread that has it already ends the process.                            *)
(***************************************************************************)
CONSTANT Threads

Operations == {"Lock", "TryLock", "Unlock", "IsOwner"}

VARIABLES holders,  \* the threads that have the lock
          call,     \* the call each thread is in, "none" outside of one
          ret       \* its outcome, "pending" before it takes effect

lockVars == <<holders, call, ret>>

Init ==
  /\ holders = {}
  /\ call = [t \in Threads |-> "none"]
  /\ ret = [t \in Threads |-> "pending"]

Call(t, c) ==
  /\ call[t] = "none"
  /\ c = "Unlock" => t \in holders
  /\ call' = [call EXCEPT ![t] = c]
  /\ UNCHANGED <<holders, ret>>

Outcome(t, c, r) ==
  /\ call[t] = c
  /\ ret[t] = "pending"
  /\ ret' = [ret EXCEPT ![t] = r]
  /\ UNCHANGED call

Acquire(t) ==
  /\ holders = {}
  /\ holders' = {t}
  /\ Outcome(t, "Lock", "yes") \/ Outcome(t, "TryLock", "yes")

Refuse(t) ==
  /\ holders # {}
  /\ Outcome(t, "TryLock", "no")
  /\ UNCHANGED holders

Release(t) ==
  /\ holders = {t}
  /\ holders' = {}
  /\ Outcome(t, "Unlock", "yes")

Answer(t) ==
  /\ Outcome(t, "IsOwner", IF t \in holders THEN "yes" ELSE "no")
  /\ UNCHANGED holders

Abort(t) ==
  /\ t \in holders
  /\ Outcome(t, "Lock", "aborted")
  /\ UNCHANGED holders

Return(t) ==
  /\ ret[t] \in {"yes", "no"}
  /\ call' = [call EXCEPT ![t] = "none"]
  /\ ret' = [ret EXCEPT ![t] = "pending"]
  /\ UNCHANGED holders

Next ==
  \E t \in Threads :
    \/ \E c \in Operations : Call(t, c)
    \/ Acquire(t) \/ Refuse(t) \/ Release(t) \/ Answer(t) \/ Abort(t)
    \/ Return(t)

Spec == Init /\ [][Next]_lockVars

=============================================================================
