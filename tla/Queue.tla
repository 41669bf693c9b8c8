------------------------------- MODULE Queue -------------------------------
(***************************************************************************)
(* Queue<T>, include/inlist.hpp:251-301: Push and IsEmpty are those of     *)
(* InQueue line by line; Pop blocks at once, without TryPop, and there is  *)
(* no timed Pop.  Its q_ holds copies, which are told apart here.          *)
(***************************************************************************)
EXTENDS InQueue

QueuePop(t) == PopLock(t) \/ PopTest(t) \/ PopWoken(t) \/ PopReturn(t)

QueueNext ==
  \E t \in Threads :
    Call(t) \/ Push(t) \/ QueuePop(t) \/ IsEmptyCall(t) \/ SpuriousWakeup(t)

QueueInit == MaxSpin = 0 /\ Init

QueueSpec == QueueInit /\ [][QueueNext]_vars

=============================================================================
