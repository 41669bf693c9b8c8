------------------------- MODULE PerfCounterProofs -------------------------
(***************************************************************************)
(* Proofs about PerfCounter (include/perfcounter.h:46-166), for any number *)
(* of threads, values, buckets and calls.                                  *)
(***************************************************************************)
EXTENDS PerfCounter, SumTheorems, SequenceTheorems

LEMMA ValuesAreNumbers ==
  /\ Values \subseteq Nat /\ 0 \in Nat /\ Top \in Nat
  /\ \A v \in Values \cup {0, Top} : v \in 0..Top /\ v <= Top
  BY ValuesAssumption

LEMMA FiniteValues == IsFiniteSet(Values)
<1>1. IsFiniteSet(0..Top)
  BY ValuesAssumption, FS_Interval
<1>2. QED
  BY <1>1, ValuesAssumption, FS_Subset

-----------------------------------------------------------------------------
(* The buckets.                                                            *)

\* One evaluation of the recursive definition of Shifts.
ShiftStep(f, v) == IF v \div 2 = 0 THEN 0 ELSE 1 + f[v \div 2]

LEMMA ShiftsEquation == \A v \in 0..Top : Shifts[v] = ShiftStep(Shifts, v)
<1> DEFINE Good(n, f) == \A v \in 0..Top : v <= n => f[v] = ShiftStep(f, v)
           B == {n \in Nat : \E f \in [0..Top -> Nat] : Good(n, f)}
<1>1. 0 \in B
  <2>1. [v \in 0..Top |-> 0] \in [0..Top -> Nat] /\ Good(0, [v \in 0..Top |-> 0])
    BY ValuesAssumption, Halving DEF ShiftStep
  <2>2. QED
    BY <2>1
<1>2. ASSUME NEW n \in Nat, n \in B PROVE n + 1 \in B
  <2>1. PICK f \in [0..Top -> Nat] : Good(n, f)
    BY <1>2
  <2> DEFINE g == [v \in 0..Top |-> ShiftStep(f, v)]
  <2>2. g \in [0..Top -> Nat]
    BY ValuesAssumption, Halving DEF ShiftStep
  <2>3. Good(n + 1, g)
    <3> SUFFICES ASSUME NEW v \in 0..Top, v <= n + 1, v \div 2 # 0
                 PROVE  f[v \div 2] = g[v \div 2]
      BY ValuesAssumption DEF ShiftStep
    <3>1. v \div 2 \in 0..Top /\ v \div 2 <= n
      BY ValuesAssumption, Halving
    <3>2. QED
      BY <2>1, <3>1
  <2> HIDE DEF g, Good
  <2>4. QED
    BY <2>2, <2>3
<1> HIDE DEF B
<1>3. Top \in B
  BY <1>1, <1>2, ValuesAssumption, NumberInduction
<1>4. PICK f \in [0..Top -> Nat] : \A v \in 0..Top : f[v] = ShiftStep(f, v)
  BY <1>3, ValuesAssumption DEF B
<1>5. f = [v \in 0..Top |-> IF v \div 2 = 0 THEN 0 ELSE 1 + f[v \div 2]]
  BY <1>4 DEF ShiftStep
<1> DEFINE P(it) == it = [v \in 0..Top |-> IF v \div 2 = 0 THEN 0 ELSE 1 + it[v \div 2]]
<1>6. Shifts = (CHOOSE it : P(it))
  BY DEF Shifts
<1>7. P(f)
  BY <1>5
<1> HIDE DEF P
<1>8. P(Shifts)
  BY <1>6, <1>7
<1>9. QED
  BY <1>8 DEF P, ShiftStep

LEMMA ShiftsFindRange ==
  \A v \in 0..Top : BucketOf(v) \in Nat /\ InBucket(v, BucketOf(v))
<1> DEFINE T == {v \in 0..Top : ~ (Shifts[v] \in Nat /\ InBucket(v, Shifts[v]))}
<1> SUFFICES ASSUME T # {} PROVE FALSE
  BY DEF BucketOf
<1> SUFFICES ASSUME NEW v \in T, \A w \in T : v <= w PROVE FALSE
  <2>1. T \in SUBSET Nat
    BY ValuesAssumption
  <2> HIDE DEF T
  <2>2. QED
    BY <2>1, SmallestNumber
<1>1. v \in 0..Top /\ \A w \in 0..Top : w < v => Shifts[w] \in Nat /\ InBucket(w, Shifts[w])
  BY ValuesAssumption
<1>2. CASE v \div 2 = 0
  <2>1. Shifts[v] = 0 /\ v < 2
    BY <1>1, <1>2, ShiftsEquation, Halving, ValuesAssumption DEF ShiftStep
  <2>2. InBucket(v, 0)
    BY <2>1 DEF InBucket
  <2>3. QED
    BY <2>1, <2>2
<1>3. CASE v \div 2 # 0
  <2> DEFINE w == v \div 2
             i == Shifts[w]
  <2>1. w \in 0..Top /\ w < v /\ w > 0 /\ 2 * w <= v /\ v < 2 * w + 2
    BY <1>3, Halving, ValuesAssumption
  <2>2. Shifts[v] = 1 + i
    BY <1>3, ShiftsEquation DEF ShiftStep
  <2>3. i \in Nat /\ InBucket(w, i)
    BY <1>1, <2>1, ValuesAssumption
  <2> HIDE DEF w, i
  <2>4. /\ 2^i \in Nat /\ 2^(i + 1) \in Nat
        /\ 2^(i + 1) = 2^i + 2^i /\ 2^((i + 1) + 1) = 2^(i + 1) + 2^(i + 1)
    BY <2>3, DoubleExp
  <2>5. i = 0 => 2^(i + 1) = 2
    BY SMT
  <2>6. 2^(i + 1) <= v /\ v < 2^((i + 1) + 1)
    BY <2>1, <2>3, <2>4, <2>5, ValuesAssumption DEF InBucket
  <2>7. Shifts[v] = i + 1 /\ i + 1 \in Nat
    BY <2>2, <2>3
  <2>8. QED
    BY <2>6, <2>7 DEF InBucket
<1>4. QED
  BY <1>2, <1>3

(***************************************************************************)
(* Every value that Update can be passed belongs to exactly one of the     *)
(* ranges that operator<< prints, the shift loop finds that one, and the   *)
(* INVARIANT that the loop ends below the number of buckets holds          *)
(* (include/perfcounter.h:88-93, 149-166).                                 *)
(***************************************************************************)
THEOREM EveryValueHasOneBucket ==
  ASSUME NEW v \in 0..Top
  PROVE  /\ BucketOf(v) \in Buckets
         /\ \A i \in Buckets : InBucket(v, i) <=> i = BucketOf(v)
<1> DEFINE b == BucketOf(v)
<1>1. b \in Nat /\ InBucket(v, b)
  BY ShiftsFindRange
<1> HIDE DEF b
<1>2. v \in Nat /\ v < 2^NBuckets /\ NBuckets \in Nat \ {0}
  BY ValuesAssumption, BucketsAssumption, DoubleExp
<1>3. ASSUME NEW i \in Nat, NEW j \in Nat, i < j, InBucket(v, i) PROVE v < 2^j
  <2>1. 2^(i + 1) <= 2^j /\ 2^(i + 1) \in Nat /\ 2^j \in Nat
    BY <1>3, ExpMonotone, DoubleExp
  <2>2. QED
    BY <1>2, <1>3, <2>1 DEF InBucket
<1>4. ASSUME NEW i \in Nat, NEW j \in Nat, i < j, InBucket(v, i) PROVE ~ InBucket(v, j)
  <2>1. v < 2^j /\ 2^j \in Nat
    BY <1>3, <1>4, DoubleExp
  <2>2. QED
    BY <1>2, <1>4, <2>1 DEF InBucket
<1>5. b < NBuckets
  <2> SUFFICES ASSUME b >= NBuckets PROVE FALSE
    BY <1>1, <1>2
  <2>1. 2^NBuckets <= 2^b /\ 2^b \in Nat /\ 2^NBuckets \in Nat
    BY <1>1, <1>2, ExpMonotone, DoubleExp
  <2>2. 2^b <= v
    BY <1>1, <1>2 DEF InBucket
  <2>3. QED
    BY <1>2, <2>1, <2>2
<1>6. b \in Buckets
  BY <1>1, <1>2, <1>5 DEF Buckets
<1>7. ASSUME NEW i \in Buckets, InBucket(v, i) PROVE i = b
  <2>1. i \in Nat
    BY <1>2 DEF Buckets
  <2>2. QED
    BY <1>1, <1>4, <1>7, <2>1
<1>8. QED
  BY <1>1, <1>6, <1>7 DEF b

-----------------------------------------------------------------------------
(* The types.                                                              *)

LEMMA ValuesFitInBuckets == \A v \in Values \cup {0} : BucketOf(v) \in Buckets
  BY EveryValueHasOneBucket, ValuesAssumption

LEMMA OneMore ==
  ASSUME NEW S, NEW f \in [S -> Nat], NEW x
  PROVE  [f EXCEPT ![x] = @ + 1] \in [S -> Nat]
<1>1. CASE x \in S
  BY <1>1
<1>2. CASE x \notin S
  BY <1>2
<1>3. QED
  BY <1>1, <1>2

LEMMA NextType == TypeOK /\ [Next]_vars => TypeOK'
<1> SUFFICES ASSUME TypeOK, [Next]_vars PROVE TypeOK'
  OBVIOUS
<1> USE DEF TypeOK, Labels, Goto, counters, printer
<1>1. \A u \in Updaters : arg[u] \in Nat
  BY ValuesAreNumbers
<1>2. ASSUME NEW u \in Updaters, Begin(u) PROVE TypeOK'
  BY <1>2, ValuesFitInBuckets DEF Begin
<1>3. ASSUME NEW u \in Updaters, AddVal(u) \/ AddCount(u) PROVE TypeOK'
  BY <1>1, <1>3 DEF AddVal, AddCount
<1>4. ASSUME NEW u \in Updaters, LoadMin(u) \/ LoadMax(u) PROVE TypeOK'
  BY <1>4 DEF LoadMin, LoadMax
<1>5. ASSUME NEW u \in Updaters, SwapMin(u) \/ SwapMax(u) PROVE TypeOK'
  BY <1>5 DEF SwapMin, SwapMax
<1>6. ASSUME NEW u \in Updaters, UpdateBucket(u) PROVE TypeOK'
  <2>2. bucket_' \in [Buckets -> Nat] /\ done' \in [Values -> Nat]
    BY <1>6, OneMore DEF UpdateBucket
  <2>3. pc' \in [Updaters -> Labels] /\ arg' \in [Updaters -> Values \cup {0}]
        /\ seen' \in [Updaters -> Values \cup {0, Top}]
    BY <1>6 DEF UpdateBucket
  <2>4. QED
    BY <1>6, <2>2, <2>3, ValuesFitInBuckets DEF UpdateBucket
<1>7. CASE PrintNext \/ PrintReturns
  BY <1>7 DEF PrintNext, PrintReturns
<1>8. CASE UNCHANGED vars
  BY <1>8 DEF vars
<1>9. QED
  BY <1>2, <1>3, <1>4, <1>5, <1>6, <1>7, <1>8 DEF Next, Update

LEMMA InitType == Init => TypeOK
  BY ValuesAssumption, ValuesFitInBuckets DEF Init, TypeOK, Labels

(***************************************************************************)
(* The counters keep their types, and no value is shifted beyond the last  *)
(* bucket (include/perfcounter.h:24-29, 149-166).                          *)
(***************************************************************************)
THEOREM CountersTyped == Spec => []TypeOK
  BY InitType, NextType, PTL DEF Spec

-----------------------------------------------------------------------------
(* The extremes.                                                           *)

UpdaterTypes ==
  /\ min_ \in Nat /\ max_ \in Nat
  /\ pc \in [Updaters -> Labels]
  /\ arg \in [Updaters -> Nat]
  /\ seen \in [Updaters -> Nat]
  /\ done \in [Values -> Nat]
  /\ \A u \in Busy : arg[u] \in Values

\* An updater past a loop has its value within the extreme of that loop; one
\* that is about to swap is to replace a worse extreme by its own value.
LoopInv ==
  \A u \in Updaters :
    /\ pc[u] = "min.swap" => arg[u] < seen[u]
    /\ pc[u] = "max.swap" => arg[u] > seen[u]
    /\ pc[u] \in {"max.load", "max.swap", "bucket"} => min_ <= arg[u]
    /\ pc[u] = "bucket" => arg[u] <= max_

CounterInv == UpdaterTypes /\ LoopInv /\ Extremes

LEMMA InitCounterInv == Init => CounterInv
  BY ValuesAssumption
     DEF Init, CounterInv, UpdaterTypes, LoopInv, Extremes, Recorded, Begun, Busy, Labels

\* What an update does to min_ and max_ if it is not the winner of a swap:
\* nothing; if it is, it moves the extreme outwards to its own value.
LEMMA ExtremesMoveOutwards ==
  ASSUME NEW u \in Updaters, CounterInv, SwapMin(u) \/ SwapMax(u)
  PROVE  /\ min_' <= min_ /\ max_ <= max_'
         /\ min_' \in {min_, arg[u]} /\ max_' \in {max_, arg[u]}
  BY DEF CounterInv, UpdaterTypes, LoopInv, SwapMin, SwapMax, Goto

LEMMA NextCounterInv == CounterInv /\ [Next]_vars => CounterInv'
<1> SUFFICES ASSUME CounterInv, [Next]_vars PROVE CounterInv'
  OBVIOUS
<1> USE ValuesAssumption DEF CounterInv, UpdaterTypes, LoopInv, Extremes, Recorded,
        Begun, Busy, Labels, Goto, counters, printer
<1>1. ASSUME NEW u \in Updaters, Begin(u) PROVE CounterInv'
  BY <1>1 DEF Begin
<1>2. ASSUME NEW u \in Updaters, AddVal(u) \/ AddCount(u) PROVE CounterInv'
  BY <1>2 DEF AddVal, AddCount
<1>3. ASSUME NEW u \in Updaters, LoadMin(u) \/ LoadMax(u) PROVE CounterInv'
  BY <1>3 DEF LoadMin, LoadMax
<1>4. ASSUME NEW u \in Updaters, SwapMin(u) \/ SwapMax(u) PROVE CounterInv'
  BY <1>4, ExtremesMoveOutwards DEF SwapMin, SwapMax
<1>5. ASSUME NEW u \in Updaters, UpdateBucket(u) PROVE CounterInv'
  BY <1>5 DEF UpdateBucket
<1>6. CASE PrintNext \/ PrintReturns
  BY <1>6 DEF PrintNext, PrintReturns
<1>7. CASE UNCHANGED vars
  BY <1>7 DEF vars
<1>8. QED
  BY <1>1, <1>2, <1>3, <1>4, <1>5, <1>6, <1>7 DEF Next, Update

(***************************************************************************)
(* No Update that returned is outside min_ .. max_, and both are values    *)
(* that were passed (include/perfcounter.h:53-63).                         *)
(***************************************************************************)
THEOREM ExtremesHold == Spec => []Extremes
<1>1. CounterInv => Extremes
  BY DEF CounterInv
<1>2. QED
  BY <1>1, InitCounterInv, NextCounterInv, PTL DEF Spec

(***************************************************************************)
(* No interleaving of the compare-and-swap loops makes an extreme forget a *)
(* value: min_ never rises and max_ never falls, which is also why every   *)
(* loop ends (include/perfcounter.h:53-63).                                *)
(***************************************************************************)
THEOREM LoopsOnlyWiden == Spec => ExtremesOnlyWiden
<1>1. CounterInv /\ [Next]_vars => [min_' <= min_ /\ max_ <= max_']_vars
  <2> SUFFICES ASSUME CounterInv, Next PROVE min_' <= min_ /\ max_ <= max_'
    BY DEF vars
  <2>1. ASSUME NEW u \in Updaters, Begin(u) \/ AddVal(u) \/ AddCount(u) \/ LoadMin(u)
                                     \/ LoadMax(u) \/ UpdateBucket(u)
        PROVE  min_' = min_ /\ max_' = max_
    BY <2>1 DEF Begin, AddVal, AddCount, LoadMin, LoadMax, UpdateBucket, counters
  <2>2. CASE PrintNext \/ PrintReturns
    BY <2>2 DEF PrintNext, PrintReturns, counters, CounterInv, UpdaterTypes
  <2>3. QED
    BY <2>1, <2>2, ExtremesMoveOutwards DEF Next, Update, CounterInv, UpdaterTypes
<1>2. QED
  BY <1>1, InitCounterInv, NextCounterInv, PTL DEF Spec, ExtremesOnlyWiden

-----------------------------------------------------------------------------
(* The sums.                                                               *)

\* The sums of the model are those of SumTheorems, over Values.
LEMMA WeighIsTotal == \A times, weight : Weigh(times, weight) = Total(times, weight, Values)
  BY DEF Weigh, Total

LEMMA WeighZero ==
  ASSUME NEW times \in [Values -> Nat], NEW weight \in [Values -> Nat],
         \A v \in Values : times[v] = 0
  PROVE  Weigh(times, weight) = 0
  BY FiniteValues, WeighIsTotal, TotalZero

LEMMA WeighType ==
  ASSUME NEW times \in [Values -> Nat], NEW weight \in [Values -> Nat]
  PROVE  Weigh(times, weight) \in Nat
  BY FiniteValues, WeighIsTotal, TotalType

LEMMA WeighMonotone ==
  ASSUME NEW times \in [Values -> Nat], NEW more \in [Values -> Nat],
         NEW weight \in [Values -> Nat], \A v \in Values : times[v] <= more[v]
  PROVE  Weigh(times, weight) <= Weigh(more, weight)
  BY FiniteValues, WeighIsTotal, TotalMonotone

LEMMA WeighOneMore ==
  ASSUME NEW times \in [Values -> Nat], NEW more \in [Values -> Nat],
         NEW weight \in [Values -> Nat], NEW v \in Values,
         \A w \in Values : more[w] = IF w = v THEN times[w] + 1 ELSE times[w]
  PROVE  Weigh(more, weight) = Weigh(times, weight) + weight[v]
  BY FiniteValues, WeighIsTotal, TotalOneMore

\* The threads whose call passed v and is at one of the labels, and how many
\* calls per value returned or are there.
AtValue(p, a, labels, v) == {u \in Updaters : p[u] \in labels /\ a[u] = v}
TallyOf(d, p, a, labels) == [v \in Values |-> d[v] + Cardinality(AtValue(p, a, labels, v))]

LEMMA AtValueIsFinite ==
  ASSUME NEW p, NEW a, NEW labels, NEW v
  PROVE  /\ IsFiniteSet(AtValue(p, a, labels, v))
         /\ Cardinality(AtValue(p, a, labels, v)) \in Nat
         /\ Cardinality(AtValue(p, a, labels, v)) = 0 <=> AtValue(p, a, labels, v) = {}
<1>1. AtValue(p, a, labels, v) \in SUBSET Updaters
  BY DEF AtValue
<1>2. QED
  BY <1>1, UpdatersAssumption, FS_Subset, FS_CardinalityType, FS_EmptySet

LEMMA TallyType ==
  ASSUME NEW d \in [Values -> Nat], NEW p, NEW a, NEW labels
  PROVE  TallyOf(d, p, a, labels) \in [Values -> Nat]
  BY AtValueIsFinite DEF TallyOf

LEMMA TallyBounds ==
  ASSUME NEW d \in [Values -> Nat], NEW p, NEW a, NEW labels, NEW larger,
         labels \subseteq larger, NEW v \in Values
  PROVE  /\ d[v] <= TallyOf(d, p, a, labels)[v]
         /\ TallyOf(d, p, a, labels)[v] <= TallyOf(d, p, a, larger)[v]
<1>1. AtValue(p, a, labels, v) \in SUBSET AtValue(p, a, larger, v)
  BY DEF AtValue
<1>2. Cardinality(AtValue(p, a, labels, v)) <= Cardinality(AtValue(p, a, larger, v))
  BY <1>1, AtValueIsFinite, FS_Subset
<1>3. QED
  BY <1>2, AtValueIsFinite DEF TallyOf

\* A call of u is not yet within the labels, or no longer, or still.
LEMMA TallyEnters ==
  ASSUME NEW d \in [Values -> Nat], NEW p, NEW q, NEW a, NEW b, NEW labels,
         NEW u \in Updaters, p[u] \notin labels, q[u] \in labels,
         \A w \in Updaters \ {u} : q[w] = p[w] /\ b[w] = a[w], NEW v \in Values
  PROVE  TallyOf(d, q, b, labels)[v] =
           IF v = b[u] THEN TallyOf(d, p, a, labels)[v] + 1 ELSE TallyOf(d, p, a, labels)[v]
<1> DEFINE old == AtValue(p, a, labels, v)
           new == AtValue(q, b, labels, v)
<1>1. u \notin old /\ new = IF v = b[u] THEN old \cup {u} ELSE old
  BY DEF AtValue
<1>2. IsFiniteSet(old) /\ Cardinality(old) \in Nat
  BY AtValueIsFinite
<1>3. TallyOf(d, q, b, labels)[v] = d[v] + Cardinality(new) /\ TallyOf(d, p, a, labels)[v] = d[v] + Cardinality(old)
  BY DEF TallyOf
<1> HIDE DEF old, new
<1>4. Cardinality(new) = IF v = b[u] THEN Cardinality(old) + 1 ELSE Cardinality(old)
  BY <1>1, <1>2, FS_AddElement
<1>5. QED
  BY <1>2, <1>3, <1>4

LEMMA TallyLeaves ==
  ASSUME NEW d \in [Values -> Nat], NEW e \in [Values -> Nat],
         NEW p, NEW q, NEW a, NEW b, NEW labels,
         NEW u \in Updaters, p[u] \in labels, q[u] \notin labels,
         \A w \in Updaters \ {u} : q[w] = p[w] /\ b[w] = a[w],
         \A v \in Values : e[v] = IF v = a[u] THEN d[v] + 1 ELSE d[v]
  PROVE  TallyOf(e, q, b, labels) = TallyOf(d, p, a, labels)
<1> SUFFICES ASSUME NEW v \in Values
             PROVE  d[v] + Cardinality(AtValue(p, a, labels, v))
                      = e[v] + Cardinality(AtValue(q, b, labels, v))
  BY DEF TallyOf
<1> DEFINE old == AtValue(p, a, labels, v)
           new == AtValue(q, b, labels, v)
<1>1. u \notin new /\ old = IF v = a[u] THEN new \cup {u} ELSE new
  BY DEF AtValue
<1>2. IsFiniteSet(new) /\ Cardinality(new) \in Nat
  BY AtValueIsFinite
<1> HIDE DEF old, new
<1>3. Cardinality(old) = IF v = a[u] THEN Cardinality(new) + 1 ELSE Cardinality(new)
  BY <1>1, <1>2, FS_AddElement
<1>4. d[v] + Cardinality(old) = e[v] + Cardinality(new)
  BY <1>2, <1>3
<1>5. QED
  BY <1>4 DEF old, new

LEMMA TallyStays ==
  ASSUME NEW d, NEW p, NEW q, NEW a, NEW b, NEW labels,
         \A w \in Updaters : /\ q[w] \in labels <=> p[w] \in labels
                             /\ q[w] \in labels => b[w] = a[w]
  PROVE  TallyOf(d, q, b, labels) = TallyOf(d, p, a, labels)
<1>1. \A v \in Values : AtValue(q, b, labels, v) = AtValue(p, a, labels, v)
  BY DEF AtValue
<1>2. QED
  BY <1>1 DEF TallyOf

\* Where an Update is that has added to count_, to val_, or has begun.
AfterCount == {"min.load", "min.swap", "max.load", "max.swap", "bucket"}
AfterVal == AfterCount \cup {"count"}
Inside == AfterVal \cup {"val"}
Tally(labels) == TallyOf(done, pc, arg, labels)

\* The counters are sums over the calls that have come past their addition.
SumsInv ==
  /\ val_ = Weigh(Tally(AfterVal), Itself)
  /\ count_ = Weigh(Tally(AfterCount), One)
  /\ \A i \in Buckets : bucket_[i] = Weigh(done, InRange(i))

LEMMA Weights ==
  /\ Itself \in [Values -> Nat] /\ One \in [Values -> Nat]
  /\ \A i : InRange(i) \in [Values -> Nat]
  /\ \A v \in Values : Itself[v] = v /\ One[v] = 1
  /\ \A i, v : v \in Values => InRange(i)[v] = IF InBucket(v, i) THEN 1 ELSE 0
  BY ValuesAssumption DEF Itself, One, InRange

LEMMA InitSums == Init => SumsInv
<1> SUFFICES ASSUME Init PROVE SumsInv
  OBVIOUS
<1>1. \A labels : "idle" \notin labels => Tally(labels) = done
  <2> SUFFICES ASSUME NEW labels, "idle" \notin labels, NEW v \in Values
               PROVE  Cardinality(AtValue(pc, arg, labels, v)) = 0
    BY DEF Tally, TallyOf, Init
  <2>1. AtValue(pc, arg, labels, v) = {}
    BY DEF AtValue, Init
  <2>2. QED
    BY <2>1, FS_EmptySet
<1>2. ASSUME NEW weight \in [Values -> Nat] PROVE Weigh(done, weight) = 0
  BY WeighZero DEF Init
<1>3. QED
  BY <1>1, <1>2, Weights DEF SumsInv, Init, AfterVal, AfterCount

LEMMA NextSums == TypeOK /\ CounterInv /\ SumsInv /\ [Next]_vars => SumsInv'
<1> SUFFICES ASSUME TypeOK, CounterInv, SumsInv, [Next]_vars PROVE SumsInv'
  OBVIOUS
<1>1. /\ done \in [Values -> Nat] /\ pc \in [Updaters -> Labels]
      /\ \A u \in Updaters : arg[u] \in Nat /\ (pc[u] # "idle" => arg[u] \in Values)
  BY DEF TypeOK, CounterInv, UpdaterTypes, Busy
<1>2. done' \in [Values -> Nat]
  BY NextType DEF TypeOK
<1>3. \A labels : Tally(labels) \in [Values -> Nat] /\ Tally(labels)' \in [Values -> Nat]
  BY <1>1, <1>2, TallyType DEF Tally
<1>4. ASSUME NEW u \in Updaters, AddVal(u) PROVE SumsInv'
  <2>1. /\ pc[u] \notin AfterVal /\ pc'[u] \in AfterVal /\ arg' = arg /\ done' = done
        /\ \A w \in Updaters \ {u} : pc'[w] = pc[w]
        /\ \A w \in Updaters : pc'[w] \in AfterCount <=> pc[w] \in AfterCount
        /\ arg[u] \in Values /\ val_' = val_ + arg[u] /\ count_' = count_ /\ bucket_' = bucket_
    BY <1>1, <1>4 DEF AddVal, Goto, AfterVal, AfterCount
  <2>2. Tally(AfterCount)' = Tally(AfterCount)
    BY <2>1, TallyStays DEF Tally
  <2>3. \A v \in Values : Tally(AfterVal)'[v] =
           IF v = arg[u] THEN Tally(AfterVal)[v] + 1 ELSE Tally(AfterVal)[v]
    BY <1>1, <2>1, TallyEnters DEF Tally
  <2>4. Weigh(Tally(AfterVal)', Itself) = Weigh(Tally(AfterVal), Itself) + arg[u]
    BY <1>3, <2>1, <2>3, WeighOneMore, Weights
  <2>5. QED
    BY <2>1, <2>2, <2>4 DEF SumsInv
<1>5. ASSUME NEW u \in Updaters, AddCount(u) PROVE SumsInv'
  <2>1. /\ pc[u] \notin AfterCount /\ pc'[u] \in AfterCount /\ arg' = arg /\ done' = done
        /\ \A w \in Updaters \ {u} : pc'[w] = pc[w]
        /\ \A w \in Updaters : pc'[w] \in AfterVal <=> pc[w] \in AfterVal
        /\ arg[u] \in Values /\ val_' = val_ /\ count_' = count_ + 1 /\ bucket_' = bucket_
    BY <1>1, <1>5 DEF AddCount, Goto, AfterVal, AfterCount
  <2>2. Tally(AfterVal)' = Tally(AfterVal)
    BY <2>1, TallyStays DEF Tally
  <2>3. \A v \in Values : Tally(AfterCount)'[v] =
           IF v = arg[u] THEN Tally(AfterCount)[v] + 1 ELSE Tally(AfterCount)[v]
    BY <1>1, <2>1, TallyEnters DEF Tally
  <2>4. Weigh(Tally(AfterCount)', One) = Weigh(Tally(AfterCount), One) + 1
    <3>1. One \in [Values -> Nat] /\ One[arg[u]] = 1
      BY <2>1, Weights
    <3>2. Weigh(Tally(AfterCount)', One) = Weigh(Tally(AfterCount), One) + One[arg[u]]
      BY <1>3, <2>1, <2>3, <3>1, WeighOneMore
    <3>3. QED
      BY <3>1, <3>2
  <2>5. QED
    BY <2>1, <2>2, <2>4 DEF SumsInv
<1>6. ASSUME NEW u \in Updaters, UpdateBucket(u) PROVE SumsInv'
  <2>1. /\ pc[u] = "bucket" /\ pc'[u] = "idle" /\ arg[u] \in Values
        /\ \A w \in Updaters \ {u} : pc'[w] = pc[w] /\ arg'[w] = arg[w]
        /\ \A v \in Values : done'[v] = IF v = arg[u] THEN done[v] + 1 ELSE done[v]
        /\ val_' = val_ /\ count_' = count_
    BY <1>1, <1>6 DEF UpdateBucket, Goto
  <2>2. Tally(AfterVal)' = Tally(AfterVal) /\ Tally(AfterCount)' = Tally(AfterCount)
    <3>1. pc[u] \in AfterCount /\ pc[u] \in AfterVal /\ pc'[u] \notin AfterCount /\ pc'[u] \notin AfterVal
      BY <2>1 DEF AfterVal, AfterCount
    <3>2. QED
      BY <1>1, <1>2, <2>1, <3>1, TallyLeaves DEF Tally
  <2>3. ASSUME NEW i \in Buckets PROVE bucket_'[i] = Weigh(done', InRange(i))
    <3>1. Weigh(done', InRange(i)) = Weigh(done, InRange(i)) + InRange(i)[arg[u]]
      <4>1. InRange(i) \in [Values -> Nat]
        BY Weights
      <4>2. QED
        BY <1>1, <1>2, <2>1, <4>1, WeighOneMore
    <3>2. InRange(i)[arg[u]] = IF i = BucketOf(arg[u]) THEN 1 ELSE 0
      BY <2>1, Weights, EveryValueHasOneBucket, ValuesAssumption
    <3>3. bucket_'[i] = bucket_[i] + IF i = BucketOf(arg[u]) THEN 1 ELSE 0
      BY <1>6 DEF UpdateBucket, TypeOK
    <3>4. QED
      BY <3>1, <3>2, <3>3 DEF SumsInv
  <2>4. QED
    BY <2>1, <2>2, <2>3 DEF SumsInv
<1>7. ASSUME UNCHANGED <<val_, count_, bucket_, done>>,
             \A u \in Updaters : /\ pc'[u] \in AfterVal <=> pc[u] \in AfterVal
                                 /\ pc'[u] \in AfterCount <=> pc[u] \in AfterCount
                                 /\ pc'[u] \in AfterVal => arg'[u] = arg[u]
      PROVE  SumsInv'
  <2>1. Tally(AfterVal)' = Tally(AfterVal) /\ Tally(AfterCount)' = Tally(AfterCount)
    BY <1>7, TallyStays DEF Tally, AfterVal
  <2>2. QED
    BY <1>7, <2>1 DEF SumsInv
<1>8. ASSUME NEW u \in Updaters, Begin(u) \/ LoadMin(u) \/ LoadMax(u) \/ SwapMin(u) \/ SwapMax(u)
      PROVE  SumsInv'
  <2>1. UNCHANGED <<val_, count_, bucket_, done>>
    BY <1>8 DEF Begin, LoadMin, LoadMax, SwapMin, SwapMax, counters
  <2>2. \A w \in Updaters : /\ pc'[w] \in AfterVal <=> pc[w] \in AfterVal
                            /\ pc'[w] \in AfterCount <=> pc[w] \in AfterCount
                            /\ pc'[w] \in AfterVal => arg'[w] = arg[w]
    BY <1>1, <1>8 DEF Begin, LoadMin, LoadMax, SwapMin, SwapMax, Goto, AfterVal, AfterCount, TypeOK
  <2>3. QED
    BY <1>7, <2>1, <2>2
<1>9. CASE PrintNext \/ PrintReturns \/ UNCHANGED vars
  BY <1>7, <1>9 DEF PrintNext, PrintReturns, vars, counters
<1>10. QED
  BY <1>4, <1>5, <1>6, <1>8, <1>9 DEF Next, Update

-----------------------------------------------------------------------------
(* The printer.                                                            *)

LEMMA LeastOf ==
  ASSUME NEW S \in SUBSET Nat, S # {}
  PROVE  Min(S) \in S /\ \A n \in S : Min(S) <= n
  BY SmallestNumber DEF Min

LEMMA GreatestOf ==
  ASSUME NEW S \in SUBSET (0..Top), S # {}
  PROVE  Max(S) \in S /\ \A n \in S : n <= Max(S)
<1> DEFINE T == {Top - n : n \in S}
<1>1. T \in SUBSET Nat /\ T # {}
  <2>1. ASSUME NEW n \in S PROVE Top - n \in Nat
    BY ValuesAreNumbers
  <2>2. QED
    BY <2>1
<1> HIDE DEF T
<1>2. PICK t \in T : \A m \in T : t <= m
  BY <1>1, SmallestNumber
<1>3. PICK s \in S : t = Top - s
  BY <1>2 DEF T
<1>4. \A n \in S : n <= s
  <2> SUFFICES ASSUME NEW n \in S PROVE n <= s
    OBVIOUS
  <2>1. Top - n \in T
    BY DEF T
  <2>2. Top - s <= Top - n
    BY <1>2, <1>3, <2>1
  <2>3. n \in Nat /\ s \in Nat
    OBVIOUS
  <2>4. QED
    BY <2>2, <2>3, ValuesAreNumbers
<1>5. QED
  BY <1>3, <1>4 DEF Max

\* What a printout consists of.
FieldKinds ==
  [name : {"count", "val", "max", "min"}] \cup [name : {"test", "bucket"}, index : Buckets]

LEMMA FieldFacts ==
  /\ Len(Fields) \in Nat
  /\ \A k \in 1..Len(Fields) :
       /\ Fields[k] \in FieldKinds
       /\ Fields[k].name = "bucket" =>
            /\ k - 1 \in 1..Len(Fields)
            /\ Fields[k - 1].name = "test" /\ Fields[k - 1].index = Fields[k].index
       /\ Fields[k].name = "test" =>
            k + 1 \in 1..Len(Fields) /\ Fields[k + 1].name = "bucket"
  /\ Len(Fields) >= 1 /\ Fields[1].name = "count"
<1> DEFINE a == [k \in 1..11 |-> [name |-> Aggregates[k]]]
           b == [k \in 1..2 * NBuckets |->
                   [name |-> IF k % 2 = 1 THEN "test" ELSE "bucket", index |-> (k - 1) \div 2]]
<1>1. NBuckets \in Nat \ {0}
  BY BucketsAssumption
<1>2. \A k \in 1..11 : Aggregates[k] \in {"count", "val", "max", "min"}
  BY DEF Aggregates
<1>3. a \in Seq(FieldKinds) /\ Len(a) = 11
  BY <1>2 DEF FieldKinds
<1>4. \A k \in 1..2 * NBuckets :
        /\ b[k] \in FieldKinds /\ b[k].name \in {"test", "bucket"}
        /\ b[k].name = "bucket" => /\ k - 1 \in 1..2 * NBuckets
                                   /\ b[k - 1].name = "test" /\ b[k - 1].index = b[k].index
        /\ b[k].name = "test" => k + 1 \in 1..2 * NBuckets /\ b[k + 1].name = "bucket"
  <2> SUFFICES ASSUME NEW k \in 1..2 * NBuckets
               PROVE  /\ b[k] \in FieldKinds /\ b[k].name \in {"test", "bucket"}
                      /\ b[k].name = "bucket" =>
                           /\ k - 1 \in 1..2 * NBuckets
                           /\ b[k - 1].name = "test" /\ b[k - 1].index = b[k].index
                      /\ b[k].name = "test" =>
                           k + 1 \in 1..2 * NBuckets /\ b[k + 1].name = "bucket"
    OBVIOUS
  <2>1. PICK m \in Nat : m < NBuckets /\ (k = 2 * m + 1 \/ k = 2 * m + 2)
    <3>1. /\ (k - 1) \div 2 \in Nat /\ (k - 1) \div 2 < NBuckets
          /\ k = 2 * ((k - 1) \div 2) + 1 \/ k = 2 * ((k - 1) \div 2) + 2
      BY <1>1
    <3>2. QED
      BY <3>1
  <2>2. /\ (2 * m + 1) % 2 = 1 /\ (2 * m) \div 2 = m
        /\ (2 * m + 2) % 2 = 0 /\ (2 * m + 1) \div 2 = m
    BY <2>1
  <2>3. /\ 2 * m + 1 \in 1..2 * NBuckets /\ 2 * m + 2 \in 1..2 * NBuckets
        /\ 2 * m + 1 - 1 = 2 * m /\ 2 * m + 2 - 1 = 2 * m + 1 /\ 2 * m + 1 + 1 = 2 * m + 2
        /\ m \in Buckets
    BY <1>1, <2>1 DEF Buckets
  <2>4. /\ b[2 * m + 1] = [name |-> "test", index |-> m]
        /\ b[2 * m + 2] = [name |-> "bucket", index |-> m]
    BY <2>2, <2>3
  <2> HIDE DEF b
  <2>5. QED
    BY <2>1, <2>3, <2>4 DEF FieldKinds
<1>5. b \in Seq(FieldKinds) /\ Len(b) = 2 * NBuckets
  <2> DEFINE n == 2 * NBuckets
             K == FieldKinds
  <2>1. n \in Nat /\ DOMAIN b = 1..n /\ b = [k \in 1..n |-> b[k]]
    BY <1>1
  <2>2. \A k \in 1..n : b[k] \in K
    BY <1>4
  <2> HIDE DEF b, n, K
  <2>3. b \in Seq(K) /\ Len(b) = n
    BY <2>1, <2>2
  <2>4. QED
    BY <2>3 DEF n, K
<1>6. a[1].name = "count" /\ \A k \in 1..11 : a[k].name \notin {"test", "bucket"}
  BY <1>2 DEF Aggregates
<1>7. Fields = a \o b
  BY DEF Fields
<1> HIDE DEF a, b
<1>8. /\ Len(Fields) = 11 + 2 * NBuckets
      /\ \A k \in 1..Len(Fields) : Fields[k] = IF k <= 11 THEN a[k] ELSE b[k - 11]
  <2> DEFINE K == FieldKinds
  <2> HIDE DEF K
  <2>1. a \in Seq(K) /\ b \in Seq(K)
    BY <1>3, <1>5 DEF K
  <2>2. /\ a \o b \in Seq(K) /\ Len(a \o b) = Len(a) + Len(b)
        /\ \A i \in 1..Len(a) + Len(b) : (a \o b)[i] = IF i <= Len(a) THEN a[i] ELSE b[i - Len(a)]
    BY <2>1, ConcatProperties
  <2>3. QED
    BY <1>3, <1>5, <1>7, <2>2
<1>9. ASSUME NEW k \in 1..Len(Fields)
      PROVE  /\ Fields[k] \in FieldKinds
             /\ Fields[k].name = "bucket" =>
                  /\ k - 1 \in 1..Len(Fields)
                  /\ Fields[k - 1].name = "test" /\ Fields[k - 1].index = Fields[k].index
             /\ Fields[k].name = "test" =>
                  k + 1 \in 1..Len(Fields) /\ Fields[k + 1].name = "bucket"
  <2>1. CASE k <= 11
    <3>1. Fields[k] = a[k] /\ k \in 1..11
      BY <1>1, <1>8, <2>1
    <3>2. Fields[k] \in FieldKinds
      <4> DEFINE K == FieldKinds
      <4> HIDE DEF K
      <4>1. a \in Seq(K) /\ Len(a) = 11
        BY <1>3 DEF K
      <4>2. a[k] \in K
        BY ONLY <3>1, <4>1, ElementOfSeq
      <4>3. QED
        BY <3>1, <4>2 DEF K
    <3>3. Fields[k].name \notin {"test", "bucket"}
      BY <1>6, <3>1
    <3>4. QED
      BY <3>2, <3>3
  <2>2. CASE k > 11
    <3> DEFINE m == k - 11
    <3>1. /\ m \in 1..2 * NBuckets /\ Fields[k] = b[m]
          /\ m - 1 \in 1..2 * NBuckets => k - 1 \in 1..Len(Fields) /\ Fields[k - 1] = b[m - 1]
          /\ m + 1 \in 1..2 * NBuckets => k + 1 \in 1..Len(Fields) /\ Fields[k + 1] = b[m + 1]
      <4>1. m \in 1..2 * NBuckets /\ (k - 1) - 11 = m - 1 /\ (k + 1) - 11 = m + 1
        BY <1>1, <1>8, <2>2
      <4>2. m - 1 \in 1..2 * NBuckets => k - 1 \in 1..Len(Fields) /\ ~(k - 1 <= 11)
        BY <1>1, <1>8, <2>2
      <4>3. m + 1 \in 1..2 * NBuckets => k + 1 \in 1..Len(Fields) /\ ~(k + 1 <= 11)
        BY <1>1, <1>8, <2>2
      <4>4. QED
        BY <1>8, <2>2, <4>1, <4>2, <4>3
    <3> HIDE DEF m
    <3>2. QED
      BY <1>4, <3>1
  <2>3. QED
    BY <2>1, <2>2, <1>1, <1>8
<1>10. Len(Fields) \in Nat /\ Len(Fields) >= 1 /\ Fields[1].name = "count"
  BY <1>1, <1>6, <1>8
<1>11. QED
  BY <1>9, <1>10

\* In which direction a field moves while updates go on.
Precedes(f, x, y) == IF f.name = "min" THEN y <= x ELSE x <= y

LEMMA ExactIs ==
  ASSUME NEW f \in FieldKinds, NEW times
  PROVE  /\ f.name = "val" => Exact(f, times) = Weigh(times, Itself)
         /\ f.name = "count" => Exact(f, times) = Weigh(times, One)
         /\ f.name = "min" => Exact(f, times) = Min({v \in Values : times[v] > 0} \cup {Top})
         /\ f.name = "max" => Exact(f, times) = Max({v \in Values : times[v] > 0} \cup {0})
         /\ f.name \in {"test", "bucket"} =>
              Exact(f, times) = Weigh(times, InRange(f.index)) /\ f.index \in Buckets
         /\ f.name \in {"val", "count", "min", "max", "test", "bucket"}
  BY DEF Exact, FieldKinds

Passed(times) == {v \in Values : times[v] > 0}

LEMMA PassedBounds ==
  ASSUME NEW times
  PROVE  /\ Min(Passed(times) \cup {Top}) \in Passed(times) \cup {Top}
         /\ \A n \in Passed(times) \cup {Top} : Min(Passed(times) \cup {Top}) <= n
         /\ Max(Passed(times) \cup {0}) \in Passed(times) \cup {0}
         /\ \A n \in Passed(times) \cup {0} : n <= Max(Passed(times) \cup {0})
<1> DEFINE A == Passed(times) \cup {Top}
           B == Passed(times) \cup {0}
<1>1. Passed(times) \subseteq Values
  BY DEF Passed
<1>2. A \in SUBSET Nat /\ A # {}
  BY <1>1, ValuesAreNumbers
<1>3. B \in SUBSET (0..Top) /\ B # {}
  BY <1>1, ValuesAreNumbers
<1> HIDE DEF A, B
<1>4. Min(A) \in A /\ (\A n \in A : Min(A) <= n) /\ Max(B) \in B /\ \A n \in B : n <= Max(B)
  BY <1>2, <1>3, LeastOf, GreatestOf
<1>5. QED
  BY <1>4 DEF A, B

LEMMA ExactType ==
  ASSUME NEW f \in FieldKinds, NEW times \in [Values -> Nat]
  PROVE  Exact(f, times) \in Nat
<1>1. Min(Passed(times) \cup {Top}) \in Nat /\ Max(Passed(times) \cup {0}) \in Nat
  BY PassedBounds, ValuesAreNumbers DEF Passed
<1>2. /\ Weigh(times, Itself) \in Nat /\ Weigh(times, One) \in Nat
      /\ \A i : Weigh(times, InRange(i)) \in Nat
  BY WeighType, Weights
<1>3. QED
  BY <1>1, <1>2, ExactIs DEF Passed

LEMMA ExactMonotone ==
  ASSUME NEW f \in FieldKinds, NEW times \in [Values -> Nat], NEW more \in [Values -> Nat],
         \A v \in Values : times[v] <= more[v]
  PROVE  Precedes(f, Exact(f, times), Exact(f, more))
<1>1. Passed(times) \subseteq Passed(more)
  BY DEF Passed
<1>2. CASE f.name = "min"
  <2>1. Min(Passed(more) \cup {Top}) <= Min(Passed(times) \cup {Top})
    BY <1>1, PassedBounds
  <2>2. QED
    BY <1>2, <2>1, ExactIs DEF Passed, Precedes
<1>3. CASE f.name = "max"
  <2>1. Max(Passed(times) \cup {0}) <= Max(Passed(more) \cup {0})
    BY <1>1, PassedBounds
  <2>2. QED
    BY <1>3, <2>1, ExactIs DEF Passed, Precedes
<1>4. /\ Weigh(times, Itself) <= Weigh(more, Itself)
      /\ Weigh(times, One) <= Weigh(more, One)
      /\ \A i : Weigh(times, InRange(i)) <= Weigh(more, InRange(i))
  BY WeighMonotone, Weights
<1>5. QED
  BY <1>2, <1>3, <1>4, ExactIs DEF Precedes

LEMMA AllBegunIs == TypeOK => AllBegun = Tally(Inside)
<1> SUFFICES ASSUME TypeOK PROVE AllBegun = Tally(Inside)
  OBVIOUS
<1>1. \A v \in Values : {u \in Busy : arg[u] = v} = AtValue(pc, arg, Inside, v)
  BY DEF TypeOK, AtValue, Busy, Labels, Inside, AfterVal, AfterCount
<1>2. QED
  BY <1>1 DEF AllBegun, Tally, TallyOf

\* What the printer may read next.
LEMMA LoadIsBounded ==
  ASSUME TypeOK, CounterInv, SumsInv, NEW f \in FieldKinds
  PROVE  /\ Load(f) \in Nat
         /\ Precedes(f, Exact(f, done), Load(f)) /\ Precedes(f, Load(f), Exact(f, AllBegun))
<1>1. /\ done \in [Values -> Nat] /\ pc \in [Updaters -> Labels]
      /\ min_ \in Nat /\ max_ \in Nat /\ val_ \in Nat /\ count_ \in Nat
      /\ bucket_ \in [Buckets -> Nat]
  BY DEF TypeOK, CounterInv, UpdaterTypes
<1>2. /\ AllBegun = Tally(Inside)
      /\ \A labels : Tally(labels) \in [Values -> Nat]
  BY <1>1, AllBegunIs, TallyType DEF Tally
<1>3. \A v \in Values : /\ done[v] <= Tally(AfterVal)[v] /\ Tally(AfterVal)[v] <= AllBegun[v]
                        /\ done[v] <= Tally(AfterCount)[v] /\ Tally(AfterCount)[v] <= AllBegun[v]
                        /\ done[v] <= AllBegun[v]
  <2>1. AfterVal \subseteq Inside /\ AfterCount \subseteq Inside
    BY DEF Inside, AfterVal
  <2>2. QED
    BY <1>1, <1>2, <2>1, TallyBounds DEF Tally
<1>4. CASE f.name = "val"
  <2>1. /\ Weigh(done, Itself) <= Weigh(Tally(AfterVal), Itself)
        /\ Weigh(Tally(AfterVal), Itself) <= Weigh(AllBegun, Itself)
    BY <1>1, <1>2, <1>3, WeighMonotone, Weights
  <2>2. QED
    BY <1>1, <1>4, <2>1, ExactIs DEF SumsInv, Precedes, Load
<1>5. CASE f.name = "count"
  <2>1. /\ Weigh(done, One) <= Weigh(Tally(AfterCount), One)
        /\ Weigh(Tally(AfterCount), One) <= Weigh(AllBegun, One)
    BY <1>1, <1>2, <1>3, WeighMonotone, Weights
  <2>2. QED
    BY <1>1, <1>5, <2>1, ExactIs DEF SumsInv, Precedes, Load
<1>6. CASE f.name \in {"test", "bucket"}
  <2>1. f.index \in Buckets /\ Load(f) = bucket_[f.index]
    BY <1>6, ExactIs DEF Load
  <2>2. InRange(f.index) \in [Values -> Nat]
    BY Weights
  <2>3. Weigh(done, InRange(f.index)) <= Weigh(AllBegun, InRange(f.index))
    BY <1>1, <1>2, <1>3, <2>2, WeighMonotone
  <2>4. bucket_[f.index] = Weigh(done, InRange(f.index))
    BY <2>1 DEF SumsInv
  <2>5. bucket_[f.index] \in Nat
    BY <1>1, <2>1
  <2>6. /\ Exact(f, done) = Weigh(done, InRange(f.index))
        /\ Exact(f, AllBegun) = Weigh(AllBegun, InRange(f.index))
    BY <1>6, ExactIs
  <2>7. QED
    BY <1>6, <2>1, <2>3, <2>4, <2>5, <2>6 DEF Precedes
<1>7. Passed(done) = Recorded /\ Passed(AllBegun) = Begun
  <2>1. Passed(done) = Recorded
    BY DEF Passed, Recorded
  <2>2. ASSUME NEW v \in Values
        PROVE  AllBegun[v] > 0 <=> done[v] > 0 \/ \E u \in Busy : arg[u] = v
    <3>1. AllBegun[v] = done[v] + Cardinality(AtValue(pc, arg, Inside, v)) /\ done[v] \in Nat
      BY <1>1, <1>2 DEF Tally, TallyOf
    <3>2. AtValue(pc, arg, Inside, v) = {} <=> ~ \E u \in Busy : arg[u] = v
      BY <1>1 DEF AtValue, Busy, Inside, AfterVal, AfterCount, Labels
    <3>3. QED
      BY <3>1, <3>2, AtValueIsFinite
  <2>3. QED
    BY <2>1, <2>2 DEF Passed, Begun
<1>8. CASE f.name = "min"
  <2>1. Load(f) = min_
    BY <1>8 DEF Load
  <2>2. min_ <= Min(Passed(done) \cup {Top})
    <3>1. \A v \in Recorded : min_ <= v
      BY DEF CounterInv, Extremes
    <3>2. min_ <= Top
      BY ValuesAreNumbers DEF TypeOK
    <3>3. QED
      BY <1>7, <3>1, <3>2, PassedBounds
  <2>3. Min(Passed(AllBegun) \cup {Top}) <= min_
    BY <1>7, PassedBounds DEF CounterInv, Extremes
  <2>4. QED
    BY <1>1, <1>8, <2>1, <2>2, <2>3, ExactIs DEF Precedes, Passed
<1>9. CASE f.name = "max"
  <2>1. Load(f) = max_
    BY <1>9 DEF Load
  <2>2. Max(Passed(done) \cup {0}) <= max_
    <3>1. \A v \in Recorded : v <= max_
      BY DEF CounterInv, Extremes
    <3>2. 0 <= max_
      BY <1>1
    <3>3. QED
      BY <1>7, <3>1, <3>2, PassedBounds
  <2>3. max_ <= Max(Passed(AllBegun) \cup {0})
    BY <1>7, PassedBounds DEF CounterInv, Extremes
  <2>4. QED
    BY <1>1, <1>9, <2>1, <2>2, <2>3, ExactIs DEF Precedes, Passed
<1>10. QED
  BY <1>4, <1>5, <1>6, <1>8, <1>9, ExactIs

\* What holds of the printer between two of its loads.
PrinterInv ==
  /\ fields \in 0..Len(Fields) /\ last \in Nat /\ before \in [Values -> Nat]
  /\ fields > 0 =>
       /\ \A v \in Values : before[v] <= done[v]
       /\ Precedes(Fields[fields], Exact(Fields[fields], before), last)
       /\ Precedes(Fields[fields], last, Exact(Fields[fields], AllBegun))
  /\ fields > 1 \/ (fields = 1 /\ last > 0) => count_ > 0
  /\ fields > 1 /\ Fields[fields].name \in {"count", "bucket"} => last > 0
  /\ fields > 0 /\ Fields[fields].name = "test" /\ last > 0 => bucket_[Fields[fields].index] > 0

\* An update only adds to what was counted, what returned and what began.
LEMMA UpdatesOnlyAdd ==
  ASSUME TypeOK, CounterInv, NEW u \in Updaters, Begin(u) \/ Update(u)
  PROVE  /\ UNCHANGED printer /\ count_ <= count_'
         /\ \A i \in Buckets : bucket_[i] <= bucket_'[i]
         /\ \A v \in Values : done[v] <= done'[v] /\ Tally(Inside)[v] <= Tally(Inside)'[v]
<1>1. /\ done \in [Values -> Nat] /\ pc \in [Updaters -> Labels] /\ count_ \in Nat
      /\ bucket_ \in [Buckets -> Nat]
      /\ \A w \in Updaters : arg[w] \in Nat /\ (pc[w] # "idle" => arg[w] \in Values)
  BY DEF TypeOK, CounterInv, UpdaterTypes, Busy
<1>2. \A labels : Tally(labels) \in [Values -> Nat]
  BY <1>1, TallyType DEF Tally
<1>3. CASE Begin(u)
  <2>1. /\ UNCHANGED <<count_, bucket_, done, printer>> /\ pc[u] = "idle" /\ pc'[u] = "val"
        /\ \A w \in Updaters \ {u} : pc'[w] = pc[w] /\ arg'[w] = arg[w]
    BY <1>1, <1>3 DEF Begin, Goto, counters, TypeOK
  <2>2. pc[u] \notin Inside /\ pc'[u] \in Inside
    BY <2>1 DEF Inside, AfterVal, AfterCount
  <2>3. \A v \in Values : Tally(Inside)'[v] \in {Tally(Inside)[v], Tally(Inside)[v] + 1}
    BY <1>1, <2>1, <2>2, TallyEnters DEF Tally
  <2>4. QED
    BY <1>1, <1>2, <2>1, <2>3
<1>4. CASE UpdateBucket(u)
  <2>1. /\ UNCHANGED <<count_, printer>> /\ pc[u] = "bucket" /\ pc'[u] = "idle"
        /\ \A w \in Updaters \ {u} : pc'[w] = pc[w] /\ arg'[w] = arg[w]
        /\ \A v \in Values : done'[v] = IF v = arg[u] THEN done[v] + 1 ELSE done[v]
        /\ done' \in [Values -> Nat]
    BY <1>1, <1>4, OneMore DEF UpdateBucket, Goto
  <2>2. pc[u] \in Inside /\ pc'[u] \notin Inside
    BY <2>1 DEF Inside, AfterVal, AfterCount
  <2>3. Tally(Inside)' = Tally(Inside)
    BY <1>1, <2>1, <2>2, TallyLeaves DEF Tally
  <2>4. \A i \in Buckets : bucket_[i] <= bucket_'[i]
    <3>1. bucket_' = [bucket_ EXCEPT ![BucketOf(arg[u])] = @ + 1]
      BY <1>4 DEF UpdateBucket
    <3>2. QED
      BY <1>1, <3>1
  <2>5. QED
    BY <1>1, <1>2, <2>1, <2>3, <2>4
<1>5. CASE AddVal(u) \/ AddCount(u) \/ LoadMin(u) \/ SwapMin(u) \/ LoadMax(u) \/ SwapMax(u)
  <2>1. UNCHANGED <<bucket_, done, arg, printer>> /\ count_' \in {count_, count_ + 1}
    BY <1>5 DEF AddVal, AddCount, LoadMin, SwapMin, LoadMax, SwapMax, counters
  <2>2. \A w \in Updaters : pc'[w] \in Inside <=> pc[w] \in Inside
    BY <1>1, <1>5 DEF AddVal, AddCount, LoadMin, SwapMin, LoadMax, SwapMax, Goto,
                      Inside, AfterVal, AfterCount
  <2>3. Tally(Inside)' = Tally(Inside)
    BY <2>1, <2>2, TallyStays DEF Tally
  <2>4. QED
    BY <1>1, <1>2, <2>1, <2>3
<1>6. QED
  BY <1>3, <1>4, <1>5 DEF Update

LEMMA NextPrinter ==
  TypeOK /\ CounterInv /\ SumsInv /\ PrinterInv /\ [Next]_vars => PrinterInv'
<1> SUFFICES ASSUME TypeOK, CounterInv, SumsInv, PrinterInv, [Next]_vars PROVE PrinterInv'
  OBVIOUS
<1>1. TypeOK' /\ AllBegun = Tally(Inside) /\ AllBegun' = Tally(Inside)'
  <2>1. (TypeOK => AllBegun = Tally(Inside))'
    BY AllBegunIs, PTL
  <2>2. QED
    BY <2>1, NextType, AllBegunIs
<1>2. /\ done \in [Values -> Nat] /\ done' \in [Values -> Nat] /\ count_ \in Nat /\ count_' \in Nat
      /\ AllBegun \in [Values -> Nat] /\ AllBegun' \in [Values -> Nat]
  BY <1>1, TallyType DEF TypeOK, Tally
<1>3. /\ fields > 0 => Fields[fields] \in FieldKinds
      /\ bucket_ \in [Buckets -> Nat] /\ bucket_' \in [Buckets -> Nat]
  BY <1>1, FieldFacts DEF PrinterInv, TypeOK
<1>4. ASSUME NEW u \in Updaters, Begin(u) \/ Update(u) PROVE PrinterInv'
  <2>1. /\ fields' = fields /\ last' = last /\ before' = before /\ count_ <= count_'
        /\ \A v \in Values : done[v] <= done'[v] /\ AllBegun[v] <= AllBegun'[v]
        /\ \A i \in Buckets : bucket_[i] <= bucket_'[i] /\ bucket_[i] \in Nat /\ bucket_'[i] \in Nat
    <3>1. /\ UNCHANGED printer /\ count_ <= count_'
          /\ \A i \in Buckets : bucket_[i] <= bucket_'[i]
          /\ \A v \in Values : done[v] <= done'[v] /\ Tally(Inside)[v] <= Tally(Inside)'[v]
      BY <1>4, UpdatesOnlyAdd
    <3>2. QED
      BY <1>1, <1>3, <3>1 DEF printer
  <2>2. ASSUME fields > 0
        PROVE  /\ \A v \in Values : before[v] <= done'[v]
               /\ Precedes(Fields[fields], last, Exact(Fields[fields], AllBegun'))
    <3> DEFINE f == Fields[fields]
    <3>1. f \in FieldKinds /\ last \in Nat /\ before \in [Values -> Nat]
          /\ \A v \in Values : before[v] <= done[v]
      BY <1>3, <2>2 DEF PrinterInv
    <3>2. Precedes(f, last, Exact(f, AllBegun))
      BY <2>2 DEF PrinterInv
    <3> HIDE DEF f
    <3>3. Precedes(f, Exact(f, AllBegun), Exact(f, AllBegun'))
      BY <1>2, <2>1, <3>1, ExactMonotone
    <3>4. Exact(f, AllBegun) \in Nat /\ Exact(f, AllBegun') \in Nat
      BY <1>2, <3>1, ExactType
    <3>5. Precedes(f, last, Exact(f, AllBegun'))
      BY <3>1, <3>2, <3>3, <3>4 DEF Precedes
    <3>6. QED
      BY <1>2, <2>1, <3>1, <3>5 DEF f
  <2>3. fields > 0 /\ Fields[fields].name = "test" /\ last > 0 =>
          bucket_'[Fields[fields].index] > 0
    <3>1. fields > 0 /\ Fields[fields].name = "test" => Fields[fields].index \in Buckets
      BY <1>3 DEF FieldKinds
    <3>2. QED
      BY <2>1, <3>1 DEF PrinterInv
  <2>4. QED
    BY <1>2, <2>1, <2>2, <2>3 DEF PrinterInv
<1>5. CASE PrintNext
  <2> DEFINE next == NextField
             f == Fields[next]
  <2>1. /\ fields' = next /\ next \in 1..Len(Fields) /\ last' = Load(f)
        /\ fields = 0 <=> next = 1
        /\ before' = (IF fields = 0 THEN done ELSE before) /\ done' = done /\ AllBegun' = AllBegun
        /\ count_' = count_ /\ bucket_' = bucket_
    BY <1>5, FieldFacts DEF PrintNext, NextField, Skip, PrinterInv, counters, AllBegun, Busy
  <2>2. f \in FieldKinds /\ Load(f) \in Nat
        /\ Precedes(f, Exact(f, done), Load(f)) /\ Precedes(f, Load(f), Exact(f, AllBegun))
    BY <2>1, FieldFacts, LoadIsBounded
  <2>3. before' \in [Values -> Nat] /\ \A v \in Values : before'[v] <= done[v]
    BY <1>2, <2>1 DEF PrinterInv
  <2>4. f.name = "count" => Load(f) = count_
    BY DEF Load
  <2>5. fields = 0 => f.name = "count"
    BY <2>1, FieldFacts
  <2>6. fields > 0 => count_ > 0
    BY <1>5 DEF PrintNext, Empty, PrinterInv
  <2>7. f.name = "test" => Load(f) = bucket_[f.index]
    BY DEF Load
  <2>8. f.name = "bucket" => Load(f) > 0
    <3> SUFFICES ASSUME f.name = "bucket" PROVE Load(f) > 0
      OBVIOUS
    <3>1. /\ next - 1 \in 1..Len(Fields)
          /\ Fields[next - 1].name = "test" /\ Fields[next - 1].index = f.index
      BY <2>1, FieldFacts
    <3>2. CASE Skip
      <4>1. /\ fields \in 1..Len(Fields) /\ Fields[fields].name = "test"
            /\ next = fields + 2 /\ next - 1 = fields + 1
        BY <3>2 DEF NextField, Skip, PrinterInv
      <4>2. Fields[fields + 1].name = "bucket"
        BY <4>1, FieldFacts
      <4>3. QED
        BY <3>1, <4>1, <4>2
    <3>3. CASE ~Skip
      <4>1. next - 1 = fields /\ fields > 0
        BY <3>1, <3>3 DEF NextField, PrinterInv
      <4>2. last > 0
        BY <3>1, <3>3, <4>1 DEF Skip, PrinterInv
      <4>3. bucket_[f.index] > 0
        BY <3>1, <4>1, <4>2 DEF PrinterInv
      <4>4. QED
        BY <4>3 DEF Load
    <3>4. QED
      BY <3>2, <3>3
  <2> HIDE DEF f, next
  <2>9. Precedes(f, Exact(f, before'), Exact(f, done))
    BY <1>2, <2>2, <2>3, ExactMonotone
  <2>10. Exact(f, before') \in Nat /\ Exact(f, done) \in Nat
    BY <1>2, <2>2, <2>3, ExactType
  <2>11. Precedes(f, Exact(f, before'), Load(f))
    BY <2>2, <2>9, <2>10 DEF Precedes
  <2>12. Fields[fields'] = f
    BY <2>1 DEF f
  <2>13. QED
    BY <1>2, <2>1, <2>2, <2>3, <2>4, <2>5, <2>6, <2>11, <2>12, <2>7, <2>8 DEF PrinterInv
<1>6. CASE PrintReturns
  BY <1>6, FieldFacts DEF PrintReturns, PrinterInv
<1>7. CASE UNCHANGED vars
  BY <1>7 DEF vars, counters, printer, PrinterInv, AllBegun, Busy
<1>8. QED
  BY <1>4, <1>5, <1>6, <1>7 DEF Next

LEMMA PrinterIsInvariant == Spec => [](TypeOK /\ CounterInv /\ SumsInv /\ PrinterInv)
<1>1. Init => PrinterInv
  BY FieldFacts DEF Init, PrinterInv
<1>2. QED
  BY <1>1, InitType, InitCounterInv, InitSums, NextType, NextCounterInv, NextSums,
     NextPrinter, PTL DEF Spec

(***************************************************************************)
(* Each number of a printout lies between its exact value for the updates  *)
(* that had returned when the printout began and the one for all that had  *)
(* begun when it was read, Avg never divides by 0, and no empty bucket is  *)
(* printed (include/perfcounter.h:66-100, 137-140).                        *)
(***************************************************************************)
THEOREM PrintoutsAreBounded == Spec => []PrintoutIsBounded
<1>1. PrinterInv => PrintoutIsBounded
  <2> SUFFICES ASSUME PrinterInv, fields > 0
               PROVE  LET f == Fields[fields]
                      IN /\ Between(Exact(f, before), Exact(f, AllBegun), last)
                         /\ fields > 1 /\ f.name \in {"count", "bucket"} => last > 0
    BY DEF PrintoutIsBounded
  <2>1. QED
    BY DEF PrinterInv, Precedes, Between
<1>2. QED
  BY <1>1, PrinterIsInvariant, PTL

(***************************************************************************)
(* A printout that no update overlaps with is exact, although it is read   *)
(* one counter at a time (include/perfcounter.h:66-100).                   *)
(***************************************************************************)
THEOREM QuietPrintoutsAreExact ==
  Spec => [](fields > 0 /\ AllBegun = before => last = Exact(Fields[fields], before))
<1>1. TypeOK /\ PrinterInv =>
        (fields > 0 /\ AllBegun = before => last = Exact(Fields[fields], before))
  <2> SUFFICES ASSUME PrinterInv, fields > 0, AllBegun = before
               PROVE  last = Exact(Fields[fields], before)
    OBVIOUS
  <2> DEFINE f == Fields[fields]
             exact == Exact(f, before)
  <2>1. f \in FieldKinds /\ before \in [Values -> Nat] /\ last \in Nat
    BY FieldFacts DEF PrinterInv
  <2>2. Precedes(f, exact, last) /\ Precedes(f, last, exact)
    BY DEF PrinterInv
  <2> HIDE DEF f
  <2>3. exact \in Nat
    BY <2>1, ExactType
  <2> HIDE DEF exact
  <2>4. last = exact
    BY <2>1, <2>2, <2>3 DEF Precedes
  <2>5. QED
    BY <2>4 DEF exact, f
<1>2. QED
  BY <1>1, PrinterIsInvariant, PTL

=============================================================================
