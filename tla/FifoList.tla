------------------------------ MODULE FifoList ------------------------------
(***************************************************************************)
(* What an InList<T> promises its client (the comment at                   *)
(* include/inlist.hpp:26-33): a first-in first-out list of elements the    *)
(* client owns, from which any element can also be taken out of the        *)
(* middle.  The list is the sequence of its elements, oldest first.        *)
(***************************************************************************)
EXTENDS Naturals, Sequences, SequencesExt

CONSTANTS Elements, \* the client's objects; the list links them, never copies
          NULL      \* the null pointer

VARIABLES list,   \* the linked elements, oldest first
          popped  \* what the last Pop returned, NULL before the first one

listVars == <<list, popped>>

TypeOK ==
  /\ list \in Seq(Elements)
  /\ popped \in Elements \cup {NULL}

Init ==
  /\ list = <<>>
  /\ popped = NULL

\* The client's obligation: an element is in at most one list at a time.
Push(t) ==
  /\ t \notin Range(list)
  /\ list' = Append(list, t)
  /\ UNCHANGED popped

Pop ==
  /\ list # <<>>
  /\ popped' = Head(list)
  /\ list' = Tail(list)

Unlink(t) ==
  /\ \E i \in DOMAIN list : list[i] = t /\ list' = RemoveAt(list, i)
  /\ UNCHANGED popped

Next ==
  \/ \E t \in Elements : Push(t) \/ Unlink(t)
  \/ Pop

Spec == Init /\ [][Next]_listVars

=============================================================================
