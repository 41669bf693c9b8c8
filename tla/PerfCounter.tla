---------------------------- MODULE PerfCounter ----------------------------
(***************************************************************************)
(* PerfCounter, include/perfcounter.h:31-166: counters that any number of  *)
(* threads Update without a lock (ThreadCtx::statGC_ by every thread that  *)
(* collects garbage) and that a printer reads one atomic load at a time.   *)
(* One action is one access to an atomic; all of them are sequentially     *)
(* consistent.                                                             *)
(***************************************************************************)
EXTENDS Naturals, Sequences, SequencesExt, FiniteSets, FiniteSetsExt, Functions

CONSTANTS Updaters,    \* the threads that call Update
          Values,      \* the values they pass
          Top,         \* UINT32_MAX
          NBuckets,    \* 32: the bits of Top
          MaxUpdates   \* bound: how often Update is called

ASSUME UpdatersAssumption == IsFiniteSet(Updaters)
ASSUME ValuesAssumption == Top \in Nat /\ Values \subseteq 0..Top
ASSUME BucketsAssumption == NBuckets \in Nat \ {0} /\ Top = 2^NBuckets - 1

VARIABLES val_, count_, min_, max_, bucket_,
          pc, arg,     \* where each updater is and the value it passed
          seen,        \* minCount, maxCount: what it loaded last
          done,        \* history: how often Update returned, per value
          fields, last, \* the field that the printer read last, and what it read
          before       \* history: done, when the printer began

counters == <<val_, count_, min_, max_, bucket_>>
printer == <<fields, last, before>>
vars == <<counters, pc, arg, seen, done, printer>>

Buckets == 0..NBuckets - 1

\* The sum of weight[v] over a number of updates that is given per value.
Weigh(times, weight) == MapThenSumSet(LAMBDA v : times[v] * weight[v], Values)
One == [v \in Values |-> 1]

Init ==
  /\ val_ = 0 /\ count_ = 0 /\ min_ = Top /\ max_ = 0
  /\ bucket_ = [i \in Buckets |-> 0]
  /\ pc = [u \in Updaters |-> "idle"]
  /\ arg = [u \in Updaters |-> 0]
  /\ seen = [u \in Updaters |-> 0]
  /\ done = [v \in Values |-> 0]
  /\ fields = 0 /\ last = 0 /\ before = done

-----------------------------------------------------------------------------
(* Update                                                                  *)

Goto(u, from, to) == pc[u] = from /\ pc' = [pc EXCEPT ![u] = to]

Busy == {u \in Updaters : pc[u] # "idle"}
Calls == Weigh(done, One) + Cardinality(Busy)

Begin(u) ==
  /\ Calls < MaxUpdates
  /\ Goto(u, "idle", "val")
  /\ \E v \in Values : arg' = [arg EXCEPT ![u] = v]
  /\ UNCHANGED <<counters, seen, done, printer>>

AddVal(u) ==
  /\ Goto(u, "val", "count")
  /\ val_' = val_ + arg[u]
  /\ UNCHANGED <<count_, min_, max_, bucket_, arg, seen, done, printer>>

AddCount(u) ==
  /\ Goto(u, "count", "min.load")
  /\ count_' = count_ + 1
  /\ UNCHANGED <<val_, min_, max_, bucket_, arg, seen, done, printer>>

\* Mutant: a value that equals the minimum goes round the loop too.
MLoadMinAgain(u) ==
  /\ Goto(u, "min.load", IF arg[u] <= min_ THEN "min.swap" ELSE "max.load")
  /\ seen' = [seen EXCEPT ![u] = min_]
  /\ UNCHANGED <<counters, arg, done, printer>>

\* minCount = min_.load(), and the test of the loop.
LoadMin(u) ==
  /\ Goto(u, "min.load", IF arg[u] < min_ THEN "min.swap" ELSE "max.load")
  /\ seen' = [seen EXCEPT ![u] = min_]
  /\ UNCHANGED <<counters, arg, done, printer>>

\* Mutant: the swap does not compare.
MSwapMinBlind(u) ==
  /\ Goto(u, "min.swap", "min.load")
  /\ min_' = arg[u]
  /\ UNCHANGED <<val_, count_, max_, bucket_, arg, seen, done, printer>>

\* min_.compare_exchange_strong(minCount, val)
SwapMin(u) ==
  /\ Goto(u, "min.swap", "min.load")
  /\ min_' = IF min_ = seen[u] THEN arg[u] ELSE min_
  /\ UNCHANGED <<val_, count_, max_, bucket_, arg, seen, done, printer>>

LoadMax(u) ==
  /\ Goto(u, "max.load", IF arg[u] > max_ THEN "max.swap" ELSE "bucket")
  /\ seen' = [seen EXCEPT ![u] = max_]
  /\ UNCHANGED <<counters, arg, done, printer>>

SwapMax(u) ==
  /\ Goto(u, "max.swap", "max.load")
  /\ max_' = IF max_ = seen[u] THEN arg[u] ELSE max_
  /\ UNCHANGED <<val_, count_, min_, bucket_, arg, seen, done, printer>>

\* The shifts by one bit that leave the value above zero.
Shifts[v \in 0..Top] == IF v \div 2 = 0 THEN 0 ELSE 1 + Shifts[v \div 2]

\* Mutant: the bits of the value are counted instead.
MBucketOf(v) == IF v = 0 THEN 0 ELSE 1 + Shifts[v]

BucketOf(v) == Shifts[v]

UpdateBucket(u) ==
  /\ Goto(u, "bucket", "idle")
  /\ bucket_' = [bucket_ EXCEPT ![BucketOf(arg[u])] = @ + 1]
  /\ done' = [done EXCEPT ![arg[u]] = @ + 1]
  /\ arg' = [arg EXCEPT ![u] = 0] /\ seen' = [seen EXCEPT ![u] = 0]
  /\ UNCHANGED <<val_, count_, min_, max_, printer>>

Update(u) ==
  \/ AddVal(u) \/ AddCount(u) \/ LoadMin(u) \/ SwapMin(u)
  \/ LoadMax(u) \/ SwapMax(u) \/ UpdateBucket(u)

-----------------------------------------------------------------------------
(* operator<< of a counter of type BYTES, as statGC_ is (the other types    *)
(* leave out the two loads of the rates): the test of count_, the          *)
(* aggregates, Avg (which tests count_ again before it divides), the       *)
(* rates, the test before the buckets; of each bucket a test, and a second *)
(* load that is printed.                                                   *)

Aggregates == <<"count", "val", "count", "max", "min", "count", "val", "count",
                "val", "count", "count">>
Fields == [k \in 1..11 |-> [name |-> Aggregates[k]]]
            \o [k \in 1..2 * NBuckets |->
                  [name |-> IF k % 2 = 1 THEN "test" ELSE "bucket", index |-> (k - 1) \div 2]]

Load(f) ==
  CASE f.name = "val" -> val_ [] f.name = "count" -> count_
    [] f.name = "min" -> min_ [] f.name = "max" -> max_
    [] OTHER -> bucket_[f.index]

\* Without an update nothing more is read, and a bucket that tests as 0 is skipped.
Empty == fields = 1 /\ last = 0
Skip == fields > 0 /\ Fields[fields].name = "test" /\ last = 0
NextField == IF Skip THEN fields + 2 ELSE fields + 1

PrintNext ==
  /\ NextField <= Len(Fields) /\ ~Empty
  /\ fields' = NextField
  /\ last' = Load(Fields[fields'])
  /\ before' = IF fields = 0 THEN done ELSE before
  /\ UNCHANGED <<counters, pc, arg, seen, done>>

PrintReturns ==
  /\ NextField > Len(Fields) \/ Empty
  /\ fields' = 0 /\ last' = 0 /\ before' = [v \in Values |-> 0]
  /\ UNCHANGED <<counters, pc, arg, seen, done>>

-----------------------------------------------------------------------------
Next == (\E u \in Updaters : Begin(u) \/ Update(u)) \/ PrintNext \/ PrintReturns

Spec == Init /\ [][Next]_vars

\* Every thread inside an Update runs; nobody has to call Update or to print.
FairSpec == Spec /\ \A u \in Updaters : WF_vars(Update(u))

-----------------------------------------------------------------------------
Labels == {"idle", "val", "count", "min.load", "min.swap", "max.load",
           "max.swap", "bucket"}

\* INVARIANT(count < 32) of UpdateBucket is part of it.
TypeOK ==
  /\ {val_, count_} \subseteq Nat
  /\ {min_, max_} \subseteq Values \cup {0, Top}
  /\ bucket_ \in [Buckets -> Nat]
  /\ pc \in [Updaters -> Labels]
  /\ arg \in [Updaters -> Values \cup {0}]
  /\ seen \in [Updaters -> Values \cup {0, Top}]
  /\ done \in [Values -> Nat]
  /\ \A u \in Updaters : BucketOf(arg[u]) \in Buckets

\* The values of the updates that returned, and of all that began.
Recorded == {v \in Values : done[v] > 0}
Begun == {v \in Values : done[v] > 0 \/ \E u \in Busy : arg[u] = v}

(***************************************************************************)
(* Whatever the compare-and-swap loops of other threads do in between, no  *)
(* Update that returned is outside min_ .. max_, and both are values that  *)
(* were passed (or the ones the constructor set)                           *)
(* (include/perfcounter.h:53-63).                                          *)
(***************************************************************************)
Extremes ==
  /\ \A v \in Recorded : min_ <= v /\ v <= max_
  /\ min_ \in Begun \cup {Top} /\ max_ \in Begun \cup {0}

\* What the printer's field f is, for updates that are given by their number
\* per value.  A bucket's range is the one that is printed with it.
InBucket(v, i) == (i = 0 \/ 2^i <= v) /\ v < 2^(i + 1)
InRange(i) == [v \in Values |-> IF InBucket(v, i) THEN 1 ELSE 0]
Itself == [v \in Values |-> v]
Exact(f, times) ==
  LET passed == {v \in Values : times[v] > 0}
  IN CASE f.name = "val"    -> Weigh(times, Itself)
       [] f.name = "count"  -> Weigh(times, One)
       [] f.name = "min"    -> Min(passed \cup {Top})
       [] f.name = "max"    -> Max(passed \cup {0})
       [] f.name \in {"test", "bucket"} -> Weigh(times, InRange(f.index))

AllBegun == [v \in Values |-> done[v] + Cardinality({u \in Busy : arg[u] = v})]

Between(a, b, x) == (a <= x /\ x <= b) \/ (b <= x /\ x <= a)

(***************************************************************************)
(* Each number of a printout lies between its exact value for the updates  *)
(* that had returned when the printout began and the one for all that had  *)
(* begun when it was read.  A printout that overlaps with no update is     *)
(* exact, Avg never divides by 0, and no empty bucket is printed           *)
(* (include/perfcounter.h:66-100, 137-140).  What Avg makes of two numbers *)
(* of different instants is not bounded by it.                             *)
(***************************************************************************)
PrintoutIsBounded ==
  fields > 0 =>
    LET f == Fields[fields]
    IN /\ Between(Exact(f, before), Exact(f, AllBegun), last)
       /\ fields > 1 /\ f.name \in {"count", "bucket"} => last > 0

(***************************************************************************)
(* No interleaving of the compare-and-swap loops makes an extreme forget a *)
(* value: min_ never rises and max_ never falls                            *)
(* (include/perfcounter.h:53-63).                                          *)
(***************************************************************************)
ExtremesOnlyWiden == [][min_' <= min_ /\ max_ <= max_']_vars

(***************************************************************************)
(* An Update ends although others make its compare-and-swap fail          *)
(* (include/perfcounter.h:53-63).                                          *)
(***************************************************************************)
UpdatesEnd == \A u \in Updaters : pc[u] = "val" ~> pc[u] = "idle"

=============================================================================
