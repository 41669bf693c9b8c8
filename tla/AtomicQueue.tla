----------------------------- MODULE AtomicQueue -----------------------------
(***************************************************************************)
(* What the thread-safe queues of include/inlist.hpp promise their         *)
(* callers: every call takes effect at one instant between its invocation  *)
(* and its return.  A Pop takes the oldest element and returns only with   *)
(* one; a timed Pop may return without an element, but only if the queue   *)
(* was empty at some instant of the call; IsEmpty answers for one instant  *)
(* of its call.                                                            *)
(***************************************************************************)
EXTENDS Naturals, Sequences, SequencesExt

CONSTANTS Threads, Elements, NULL

Operations == {"Push", "Pop", "PopMs", "IsEmpty"}

VARIABLES queue,     \* the queued elements, oldest first
          op,        \* op[t]: the call thread t is in, "none" outside of one
          val,       \* val[t]: the element t is to push, or has popped
          sawEmpty,  \* sawEmpty[t]: t's call has met an empty queue; the answer of IsEmpty
          effective  \* the threads whose call has taken effect

queueVars == <<queue, op, val, sawEmpty, effective>>

\* The elements no thread holds and no queue links: free to be pushed.
Free == Elements \ (Range(queue) \cup Range(val))

Init ==
  /\ queue = <<>>
  /\ op = [t \in Threads |-> "none"]
  /\ val = [t \in Threads |-> NULL]
  /\ sawEmpty = [t \in Threads |-> FALSE]
  /\ effective = {}

Pending(t, o) == op[t] = o /\ t \notin effective

Call(t, o) ==
  /\ op[t] = "none"
  /\ op' = [op EXCEPT ![t] = o]
  /\ IF o = "Push"
       THEN \E e \in Free : val' = [val EXCEPT ![t] = e]
       ELSE val' = val
  /\ UNCHANGED <<queue, sawEmpty, effective>>

PushTakesEffect(t) ==
  /\ Pending(t, "Push")
  /\ queue' = Append(queue, val[t])
  /\ val' = [val EXCEPT ![t] = NULL]
  /\ effective' = effective \cup {t}
  /\ UNCHANGED <<op, sawEmpty>>

PopTakesEffect(t) ==
  /\ Pending(t, "Pop") \/ Pending(t, "PopMs")
  /\ queue # <<>>
  /\ val' = [val EXCEPT ![t] = Head(queue)]
  /\ queue' = Tail(queue)
  /\ effective' = effective \cup {t}
  /\ UNCHANGED <<op, sawEmpty>>

SeeEmpty(t) ==
  /\ op[t] \in {"Pop", "PopMs", "IsEmpty"} /\ t \notin effective
  /\ queue = <<>>
  /\ sawEmpty' = [sawEmpty EXCEPT ![t] = TRUE]
  /\ effective' = IF op[t] = "IsEmpty" THEN effective \cup {t} ELSE effective
  /\ UNCHANGED <<queue, op, val>>

SeeNonEmpty(t) ==
  /\ Pending(t, "IsEmpty")
  /\ queue # <<>>
  /\ effective' = effective \cup {t}
  /\ UNCHANGED <<queue, op, val, sawEmpty>>

GiveUp(t) ==
  /\ Pending(t, "PopMs")
  /\ sawEmpty[t]
  /\ effective' = effective \cup {t}
  /\ UNCHANGED <<queue, op, val, sawEmpty>>

Return(t) ==
  /\ t \in effective
  /\ op' = [op EXCEPT ![t] = "none"]
  /\ val' = [val EXCEPT ![t] = NULL]
  /\ sawEmpty' = [sawEmpty EXCEPT ![t] = FALSE]
  /\ effective' = effective \ {t}
  /\ UNCHANGED queue

Next ==
  \E t \in Threads :
    \/ \E o \in Operations : Call(t, o)
    \/ PushTakesEffect(t) \/ PopTakesEffect(t)
    \/ SeeEmpty(t) \/ SeeNonEmpty(t) \/ GiveUp(t)
    \/ Return(t)

Spec == Init /\ [][Next]_queueVars

=============================================================================
