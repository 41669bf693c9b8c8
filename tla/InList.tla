------------------------------- MODULE InList -------------------------------
(***************************************************************************)
(* InList<T>, include/inlist.hpp:16-110: an intrusive doubly linked list.  *)
(* The links are fields of the elements themselves (InListElement<T>), so  *)
(* next_ and prev_ are functions on Elements.  Push links at head_, Pop    *)
(* unlinks at tail_; next_ leads towards tail_, prev_ towards head_.       *)
(*                                                                         *)
(* list is a history variable: it changes with the calls, never with the   *)
(* pointers, and no pointer is computed from it.  The pointers have to     *)
(* agree with it.                                                          *)
(***************************************************************************)
EXTENDS Naturals, Sequences, SequencesExt

CONSTANTS Elements, NULL

ASSUME ElementsAssumption == NULL \notin Elements

VARIABLES head_, tail_,  \* the InList object
          next_, prev_,  \* the fields of the elements
          popped,        \* what the last Pop returned
          list           \* history: the linked elements, oldest first

vars == <<head_, tail_, next_, prev_, popped, list>>

Pointer == Elements \cup {NULL}

Linked == Range(list)

Abstract == INSTANCE FifoList

\* Mutant: an element is born with whatever its memory held.
MInit ==
  /\ head_ = NULL
  /\ tail_ = NULL
  /\ next_ = [t \in Elements |-> NULL]
  /\ prev_ \in [Elements -> {NULL, "garbage"}]
  /\ popped = NULL
  /\ list = <<>>

Init ==
  /\ head_ = NULL
  /\ tail_ = NULL
  /\ next_ = [t \in Elements |-> NULL]
  /\ prev_ = [t \in Elements |-> NULL]
  /\ popped = NULL
  /\ list = <<>>

\* "if (p) p->field = v"
SetIfNotNull(field, p, v) == IF p = NULL THEN field ELSE [field EXCEPT ![p] = v]

-----------------------------------------------------------------------------
(* The ASSERTs at the entry of each operation.                             *)

PushAsserts(t) ==
  /\ head_ = NULL <=> tail_ = NULL
  /\ head_ # NULL => prev_[head_] = NULL
  /\ tail_ # NULL => next_[tail_] = NULL
  /\ next_[t] = NULL
  /\ prev_[t] = NULL

\* Mutant: only an empty list is noticed.
MUnlinkAsserts(t) == head_ # NULL /\ tail_ # NULL

UnlinkAsserts(t) ==
  /\ head_ # NULL /\ tail_ # NULL
  /\ prev_[t] # NULL \/ head_ = t
  /\ next_[t] # NULL \/ tail_ = t

PopAsserts ==
  /\ head_ # NULL /\ tail_ # NULL
  /\ next_[tail_] = NULL
  /\ prev_[head_] = NULL
  /\ tail_ = head_ => prev_[tail_] = NULL

-----------------------------------------------------------------------------
(* The operations, on calls that respect the client's obligation.          *)

Push(t) ==
  /\ t \notin Linked
  /\ next_' = [next_ EXCEPT ![t] = head_]
  /\ prev_' = SetIfNotNull(prev_, head_, t)
  /\ head_' = t
  /\ tail_' = IF tail_ = NULL THEN t ELSE tail_
  /\ list' = Append(list, t)
  /\ UNCHANGED popped

\* Mutant: the element keeps its own links.
MUnlinkStale(t) ==
  /\ t \in Linked
  /\ next_' = SetIfNotNull(next_, prev_[t], next_[t])
  /\ prev_' = SetIfNotNull(prev_, next_[t], prev_[t])
  /\ tail_' = IF tail_ = t THEN prev_[t] ELSE tail_
  /\ head_' = IF head_ = t THEN next_[t] ELSE head_
  /\ \E i \in DOMAIN list : list[i] = t /\ list' = RemoveAt(list, i)
  /\ UNCHANGED popped

Unlink(t) ==
  /\ t \in Linked
  /\ next_' = [SetIfNotNull(next_, prev_[t], next_[t]) EXCEPT ![t] = NULL]
  /\ prev_' = [SetIfNotNull(prev_, next_[t], prev_[t]) EXCEPT ![t] = NULL]
  /\ tail_' = IF tail_ = t THEN prev_[t] ELSE tail_
  /\ head_' = IF head_ = t THEN next_[t] ELSE head_
  /\ \E i \in DOMAIN list : list[i] = t /\ list' = RemoveAt(list, i)
  /\ UNCHANGED popped

\* Mutants: the new tail keeps its link to the popped element; tail_ moves
\* before the element to return is read.
MPopDangling ==
  /\ list # <<>>
  /\ popped' = tail_
  /\ tail_' = prev_[tail_]
  /\ head_' = IF tail_ = head_ THEN NULL ELSE head_
  /\ next_' = [next_ EXCEPT ![tail_] = NULL]
  /\ prev_' = [prev_ EXCEPT ![tail_] = NULL]
  /\ list' = Tail(list)

MPopLate ==
  /\ list # <<>>
  /\ popped' = prev_[tail_]
  /\ tail_' = prev_[tail_]
  /\ head_' = IF tail_ = head_ THEN NULL ELSE head_
  /\ next_' = [SetIfNotNull(next_, prev_[tail_], NULL) EXCEPT ![tail_] = NULL]
  /\ prev_' = [prev_ EXCEPT ![tail_] = NULL]
  /\ list' = Tail(list)

Pop ==
  /\ list # <<>>
  /\ popped' = tail_
  /\ tail_' = prev_[tail_]
  /\ head_' = IF tail_ = head_ THEN NULL ELSE head_
  /\ next_' = [SetIfNotNull(next_, prev_[tail_], NULL) EXCEPT ![tail_] = NULL]
  /\ prev_' = [prev_ EXCEPT ![tail_] = NULL]
  /\ list' = Tail(list)

IsEmpty == head_ = NULL /\ tail_ = NULL

Next ==
  \/ \E t \in Elements : Push(t) \/ Unlink(t)
  \/ Pop

Spec == Init /\ [][Next]_vars

-----------------------------------------------------------------------------
TypeOK ==
  /\ head_ \in Pointer
  /\ tail_ \in Pointer
  /\ next_ \in [Elements -> Pointer]
  /\ prev_ \in [Elements -> Pointer]
  /\ popped \in Pointer
  /\ list \in Seq(Elements)

NoDuplicates == \A i, j \in DOMAIN list : list[i] = list[j] => i = j

EndsMatch ==
  /\ tail_ = IF list = <<>> THEN NULL ELSE list[1]
  /\ head_ = IF list = <<>> THEN NULL ELSE list[Len(list)]

LinksMatch ==
  \A i \in DOMAIN list :
    /\ next_[list[i]] = IF i = 1 THEN NULL ELSE list[i - 1]
    /\ prev_[list[i]] = IF i = Len(list) THEN NULL ELSE list[i + 1]

FreeUnlinked == \A t \in Elements \ Linked : next_[t] = NULL /\ prev_[t] = NULL

(***************************************************************************)
(* After any sequence of calls the two ends and both directions of the     *)
(* links spell the very elements pushed and not yet taken out, in order;   *)
(* and an element that was taken out (by Pop or from the middle by Unlink) *)
(* holds no stale link, so that it can be pushed again                     *)
(* (include/inlist.hpp:47-99).                                             *)
(***************************************************************************)
Represents == NoDuplicates /\ EndsMatch /\ LinksMatch /\ FreeUnlinked

(***************************************************************************)
(* No ASSERT of a debug build fires on a call the client is entitled to    *)
(* make, and IsEmpty() answers for the list                                *)
(* (include/inlist.hpp:49-55, 66-69, 82-84, 92, 101-104).                  *)
(***************************************************************************)
AssertsHold ==
  /\ \A t \in Elements \ Linked : PushAsserts(t)
  /\ \A t \in Linked : UnlinkAsserts(t)
  /\ list # <<>> => PopAsserts
  /\ IsEmpty <=> list = <<>>

(***************************************************************************)
(* How far the ASSERTs of a debug build protect the links: unlinking an    *)
(* element that is not linked always fires one, and so does pushing an     *)
(* element that is already linked, unless it is the only one in the list,  *)
(* whose two links are null (include/inlist.hpp:53-55, 66-69).             *)
(***************************************************************************)
AssertsDetectMisuse ==
  /\ \A t \in Elements \ Linked : ~UnlinkAsserts(t)
  /\ Len(list) > 1 => \A t \in Linked : ~PushAsserts(t)

(***************************************************************************)
(* The pointers implement the first-in first-out list: Pop returns the     *)
(* oldest element that was not unlinked (include/inlist.hpp:80-99).        *)
(***************************************************************************)
ImplementsFifoList == Abstract!Spec

=============================================================================
