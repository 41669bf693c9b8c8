---------------------------- MODULE CancelledPop ----------------------------
(***************************************************************************)
(* Thread::Cancel (include/thread.h:53-57) of threads that use a Queue.    *)
(* Cancellation is deferred: of all its steps, only the wait in            *)
(* conditionEmpty_ acts on it, and pthread_cond_wait takes lock_ again     *)
(* before the thread ends.  No cleanup handler gives it back.  InQueue's   *)
(* wait (include/inlist.hpp:156) is the same.                              *)
(***************************************************************************)
EXTENDS Queue

\* The threads of the instance push and pop.
PushAndPop == [t \in Threads |-> {"Push", "Pop"}]

VARIABLE cancelled   \* the threads that Cancel was called for

CInit == QueueInit /\ cancelled = {}

Cancel(t) ==
  /\ cancelled' = cancelled \cup {t}
  /\ UNCHANGED vars

\* A cancelled sleeper leaves the wait.  It does not use up a signal.
ActOnCancel(t) ==
  /\ At(t, "asleep")
  /\ t \in cancelled
  /\ Goto(t, "dying")
  /\ UNCHANGED <<lock_, q_, op, val, spin, sawEmpty>>

Die(t) == Acquire(t, "dying", "dead")

CNext ==
  \/ (QueueNext \/ \E t \in Threads : ActOnCancel(t) \/ Die(t)) /\ UNCHANGED cancelled
  \/ \E t \in Threads \ cancelled : Cancel(t)

\* The fairness of InQueue, for the steps of a thread that ends too.
CSpec ==
  /\ CInit /\ [][CNext]_<<vars, cancelled>>
  /\ Fairness
  /\ \A t \in Threads : WF_vars(ActOnCancel(t)) /\ SF_vars(Die(t))

(***************************************************************************)
(* A thread that is cancelled while it sleeps in Pop ends, or its Pop      *)
(* returns first, so that a Join of it returns                             *)
(* (test/thread-test.cc:65-71, include/inlist.hpp:273-275).                *)
(***************************************************************************)
CancelledPopsEnd ==
  \A t \in Threads :
    t \in cancelled /\ At(t, "asleep") ~> pc[t] \in {"dead", "idle"}

=============================================================================
