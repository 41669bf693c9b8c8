---------------------------- MODULE SumTheorems ----------------------------
(***************************************************************************)
(* What the proofs about PerfCounter (include/perfcounter.h:149-166) need  *)
(* to know of data: induction, as the absence of a least counterexample,   *)
(* over numbers and over the subsets of a finite set; powers of two; and   *)
(* the sum of weighted numbers over a finite set.                          *)
(***************************************************************************)
EXTENDS Naturals, FiniteSets, FiniteSetsExt, FiniteSetTheorems,
        WellFoundedInduction, TLAPS

LEMMA SmallestSubset ==
  ASSUME NEW S, IsFiniteSet(S), NEW T \in SUBSET SUBSET S, T # {}
  PROVE  \E s \in T : \A t \in T : t \subseteq s => t = s
<1> DEFINE R == StrictSubsetOrdering(S)
<1>1. IsWellFoundedOn(R, SUBSET S)
  BY FS_StrictSubsetOrderingWellFounded, FS_FiniteSubsetsOfFinite
<1> HIDE DEF R
<1>2. \E s \in T : \A t \in T : ~ (<<t, s>> \in R)
  BY <1>1, WFMin
<1>3. QED
  BY <1>2 DEF R, StrictSubsetOrdering

LEMMA SmallestNumber ==
  ASSUME NEW T \in SUBSET Nat, T # {}
  PROVE  \E n \in T : \A m \in T : n <= m
<1> PICK top \in T : TRUE
  OBVIOUS
<1> DEFINE S == 0..top
           F == {0..m : m \in T \cap S}
<1>1. IsFiniteSet(S)
  BY FS_Interval
<1>2. F \in SUBSET SUBSET S
  OBVIOUS
<1>3. S \in F
  OBVIOUS
<1> HIDE DEF F, S
<1>4. PICK s \in F : \A t \in F : t \subseteq s => t = s
  BY <1>1, <1>2, <1>3, SmallestSubset
<1>5. PICK n \in T \cap S : s = 0..n
  BY <1>4 DEF F
<1>6. ASSUME NEW m \in T, m < n PROVE FALSE
  <2>1. 0..m \in F
    BY <1>5, <1>6 DEF F, S
  <2>2. 0..m \subseteq 0..n /\ n \in 0..n /\ n \notin 0..m
    BY <1>5, <1>6
  <2>3. QED
    BY <2>1, <2>2, <1>4, <1>5
<1>7. QED
  BY <1>5, <1>6

LEMMA NumberInduction ==
  ASSUME NEW B, 0 \in B, \A n \in Nat : n \in B => n + 1 \in B
  PROVE  Nat \subseteq B
<1> SUFFICES ASSUME Nat \ B # {} PROVE FALSE
  OBVIOUS
<1>1. PICK n \in Nat \ B : \A m \in Nat \ B : n <= m
  BY SmallestNumber
<1>2. n - 1 \in Nat /\ n - 1 \in B
  BY <1>1
<1>3. QED
  BY <1>1, <1>2

LEMMA SubsetInduction ==
  ASSUME NEW S, IsFiniteSet(S), NEW B, {} \in B,
         \A s \in SUBSET S : (s # {} /\ \A x \in s : s \ {x} \in B) => s \in B
  PROVE  SUBSET S \subseteq B
<1> SUFFICES ASSUME (SUBSET S) \ B # {} PROVE FALSE
  OBVIOUS
<1>1. PICK s \in (SUBSET S) \ B : \A t \in (SUBSET S) \ B : t \subseteq s => t = s
  <2> DEFINE T == (SUBSET S) \ B
  <2>1. T \in SUBSET SUBSET S /\ T # {}
    OBVIOUS
  <2> HIDE DEF T
  <2>2. \E s \in T : \A t \in T : t \subseteq s => t = s
    BY <2>1, SmallestSubset
  <2>3. QED
    BY <2>2 DEF T
<1>2. \A x \in s : s \ {x} \in B
  BY <1>1
<1>3. QED
  BY <1>1, <1>2

LEMMA DoubleExp ==
  ASSUME NEW n \in Nat
  PROVE  2^n \in Nat /\ 2^(n + 1) = 2^n + 2^n
<1> DEFINE S == 1..n
           x == n + 1
           Sx == {s \cup {x} : s \in SUBSET S}
<1>1. IsFiniteSet(S) /\ Cardinality(S) = n /\ x \notin S
  BY FS_Interval
<1>2. IsFiniteSet(S \cup {x}) /\ Cardinality(S \cup {x}) = n + 1
  BY <1>1, FS_AddElement
<1>3. IsFiniteSet(SUBSET S) /\ Cardinality(SUBSET S) = 2^n
  BY <1>1, FS_SUBSET
<1>4. Cardinality(SUBSET (S \cup {x})) = 2^(n + 1)
  BY <1>2, FS_SUBSET
<1> HIDE DEF S, x
<1>5. SUBSET (S \cup {x}) = (SUBSET S) \cup Sx
  <2>1. ASSUME NEW t \in SUBSET (S \cup {x}), x \in t PROVE t \in Sx
    <3>1. t = (t \ {x}) \cup {x} /\ t \ {x} \in SUBSET S
      BY <2>1
    <3>2. QED
      BY <3>1
  <2>2. QED
    BY <2>1
<1>6. IsFiniteSet(Sx) /\ Cardinality(Sx) = Cardinality(SUBSET S)
  <2> DEFINE f == [s \in SUBSET S |-> s \cup {x}]
  <2>1. f \in [SUBSET S -> Sx]
    OBVIOUS
  <2>2. ASSUME NEW a \in SUBSET S, NEW b \in SUBSET S, f[a] = f[b] PROVE a = b
    <3>1. a \cup {x} = b \cup {x} /\ x \notin a /\ x \notin b
      BY <2>2, <1>1
    <3>2. QED
      BY <3>1
  <2>3. \A t \in Sx : \E s \in SUBSET S : f[s] = t
    OBVIOUS
  <2>4. f \in Bijection(SUBSET S, Sx)
    BY <2>1, <2>2, <2>3 DEF Bijection, Injection, Surjection, IsInjective
  <2>5. ExistsBijection(SUBSET S, Sx)
    BY <2>4 DEF ExistsBijection
  <2>6. QED
    BY <2>5, <1>3, FS_Bijection
<1>7. (SUBSET S) \cap Sx = {}
  BY <1>1
<1>8. Cardinality((SUBSET S) \cap Sx) = 0
  BY <1>7, FS_EmptySet
<1>9. Cardinality((SUBSET S) \cup Sx) = Cardinality(SUBSET S) + Cardinality(Sx) - Cardinality((SUBSET S) \cap Sx)
  BY <1>3, <1>6, FS_Union
<1>10. Cardinality(SUBSET S) \in Nat
  BY <1>3, FS_CardinalityType
<1> DEFINE a == 2^n
           b == 2^(n + 1)
<1>11. a = Cardinality(SUBSET S)
  BY <1>3
<1>12. b = Cardinality((SUBSET S) \cup Sx)
  BY <1>4, <1>5, Zenon
<1> HIDE DEF Sx, a, b
<1>13. a \in Nat /\ b = a + a
  BY <1>6, <1>8, <1>9, <1>10, <1>11, <1>12
<1>14. QED
  BY <1>13 DEF a, b

LEMMA ExpMonotone ==
  ASSUME NEW i \in Nat, NEW j \in Nat, i <= j
  PROVE  2^i <= 2^j
<1> DEFINE B == {k \in Nat : 2^i <= 2^(i + k)}
<1>1. 0 \in B
  BY DoubleExp
<1>2. ASSUME NEW k \in Nat, k \in B PROVE k + 1 \in B
  <2>1. 2^(i + k) \in Nat /\ 2^((i + k) + 1) = 2^(i + k) + 2^(i + k) /\ 2^i \in Nat
    BY DoubleExp
  <2>2. i + (k + 1) = (i + k) + 1
    OBVIOUS
  <2>3. QED
    BY <1>2, <2>1, <2>2
<1> HIDE DEF B
<1>3. j - i \in B
  BY <1>1, <1>2, NumberInduction
<1>4. QED
  BY <1>3 DEF B

LEMMA Halving ==
  ASSUME NEW v \in Nat
  PROVE  /\ v \div 2 \in Nat /\ v \div 2 <= v /\ (v > 0 => v \div 2 < v)
         /\ 2 * (v \div 2) <= v /\ v < 2 * (v \div 2) + 2
  BY SMT

\* times[v] of weight[v], for every v in S.
Total(times, weight, S) == MapThenSumSet(LAMBDA v : times[v] * weight[v], S)

\* What the fold adds up, one element after the other.
Pick(s) == CHOOSE v \in s : TRUE
SumStep(times, weight, sum, s) ==
  IF s = {} THEN 0 ELSE times[Pick(s)] * weight[Pick(s)] + sum[s \ {Pick(s)}]
IsSum(times, weight, S, sum) ==
  sum = [s \in SUBSET S |->
           IF s = {} THEN 0 ELSE times[Pick(s)] * weight[Pick(s)] + sum[s \ {Pick(s)}]]
SumOf(times, weight, S) == CHOOSE sum : IsSum(times, weight, S, sum)

LEMMA TotalIsSum ==
  ASSUME NEW S, NEW times, NEW weight
  PROVE  Total(times, weight, S) = SumOf(times, weight, S)[S]
  BY DEF Total, MapThenSumSet, MapThenFoldSet, Pick, IsSum, SumOf

LEMMA PickOne ==
  ASSUME NEW S, IsFiniteSet(S), NEW s \in SUBSET S
  PROVE  /\ Cardinality(s) \in Nat
         /\ Cardinality(s) = 0 => s = {}
         /\ s # {} => /\ Pick(s) \in s /\ Pick(s) \in S
                      /\ s \ {Pick(s)} \in SUBSET S
                      /\ Cardinality(s \ {Pick(s)}) = Cardinality(s) - 1
<1>1. IsFiniteSet(s)
  BY FS_Subset
<1>2. s # {} => Pick(s) \in s
  BY DEF Pick
<1>3. QED
  BY <1>1, <1>2, FS_CardinalityType, FS_EmptySet, FS_RemoveElement

LEMMA Products ==
  ASSUME NEW S,
         NEW times \in [S -> Nat], NEW weight \in [S -> Nat], NEW v \in S
  PROVE  times[v] * weight[v] \in Nat
<1>1. times[v] \in Nat /\ weight[v] \in Nat
  OBVIOUS
<1>2. QED
  BY <1>1, SMT

LEMMA SumExists ==
  ASSUME NEW S, IsFiniteSet(S),
         NEW times \in [S -> Nat], NEW weight \in [S -> Nat]
  PROVE  \E sum : IsSum(times, weight, S, sum)
<1> DEFINE Step(sum, s) == SumStep(times, weight, sum, s)
           Good(n, sum) ==
             \A s \in SUBSET S : Cardinality(s) <= n => sum[s] = Step(sum, s)
           B == {n \in Nat : \E sum \in [SUBSET S -> Nat] : Good(n, sum)}
<1>1. 0 \in B
  <2> DEFINE zero == [s \in SUBSET S |-> 0]
  <2>1. ASSUME NEW s \in SUBSET S, Cardinality(s) <= 0 PROVE zero[s] = Step(zero, s)
    <3>1. Cardinality(s) \in Nat /\ (Cardinality(s) = 0 => s = {})
      BY PickOne
    <3>2. s = {}
      BY <2>1, <3>1
    <3>3. QED
      BY <3>2 DEF SumStep
  <2>2. zero \in [SUBSET S -> Nat]
    OBVIOUS
  <2> HIDE DEF zero, Step
  <2>3. QED
    BY <2>1, <2>2
<1>2. ASSUME NEW n \in Nat, n \in B PROVE n + 1 \in B
  <2>1. PICK sum \in [SUBSET S -> Nat] : Good(n, sum)
    BY <1>2
  <2> DEFINE next == [s \in SUBSET S |-> Step(sum, s)]
  <2>2. next \in [SUBSET S -> Nat]
    <3> SUFFICES ASSUME NEW s \in SUBSET S, s # {} PROVE Step(sum, s) \in Nat
      BY DEF SumStep
    <3>1. Pick(s) \in S /\ s \ {Pick(s)} \in SUBSET S
      BY PickOne
    <3>2. times[Pick(s)] * weight[Pick(s)] \in Nat /\ sum[s \ {Pick(s)}] \in Nat
      BY <3>1, Products
    <3>3. QED
      BY <3>2 DEF SumStep
  <2>3. Good(n + 1, next)
    <3> SUFFICES ASSUME NEW s \in SUBSET S, Cardinality(s) <= n + 1, s # {}
                 PROVE  sum[s \ {Pick(s)}] = next[s \ {Pick(s)}]
      BY DEF SumStep
    <3>1. s \ {Pick(s)} \in SUBSET S /\ Cardinality(s \ {Pick(s)}) <= n
      BY PickOne
    <3>2. sum[s \ {Pick(s)}] = Step(sum, s \ {Pick(s)})
      BY <2>1, <3>1
    <3> HIDE DEF Step
    <3>3. QED
      BY <3>1, <3>2
  <2> HIDE DEF next, Good
  <2>4. QED
    BY <2>2, <2>3
<1> DEFINE m == Cardinality(S)
<1>3. m \in Nat /\ \A s \in SUBSET S : Cardinality(s) <= m
  BY FS_CardinalityType, FS_Subset
<1> HIDE DEF B, m
<1>4. m \in B
  BY <1>1, <1>2, <1>3, NumberInduction
<1>5. PICK sum \in [SUBSET S -> Nat] : \A s \in SUBSET S : sum[s] = Step(sum, s)
  BY <1>3, <1>4 DEF B
<1>6. IsSum(times, weight, S, sum)
  BY <1>5 DEF IsSum, SumStep
<1>7. QED
  BY <1>6

LEMMA SumUnfolds ==
  ASSUME NEW S, IsFiniteSet(S), NEW times \in [S -> Nat], NEW weight \in [S -> Nat]
  PROVE  /\ SumOf(times, weight, S)[{}] = 0
         /\ \A s \in SUBSET S : s # {} =>
              SumOf(times, weight, S)[s] =
                times[Pick(s)] * weight[Pick(s)] + SumOf(times, weight, S)[s \ {Pick(s)}]
<1> DEFINE sum == SumOf(times, weight, S)
<1>1. IsSum(times, weight, S, sum)
  BY SumExists DEF SumOf
<1> HIDE DEF sum
<1>2. \A s \in SUBSET S : sum[s] = SumStep(times, weight, sum, s)
  BY <1>1 DEF IsSum, SumStep
<1>3. sum[{}] = 0
  BY <1>2 DEF SumStep
<1>4. \A s \in SUBSET S : s # {} =>
        sum[s] = times[Pick(s)] * weight[Pick(s)] + sum[s \ {Pick(s)}]
  BY <1>2 DEF SumStep
<1>5. QED
  BY <1>3, <1>4 DEF sum

LEMMA SumType ==
  ASSUME NEW S, IsFiniteSet(S),
         NEW times \in [S -> Nat], NEW weight \in [S -> Nat]
  PROVE  \A s \in SUBSET S : SumOf(times, weight, S)[s] \in Nat
<1> DEFINE B == {s \in SUBSET S : SumOf(times, weight, S)[s] \in Nat}
<1>1. {} \in B
  BY SumUnfolds
<1>2. ASSUME NEW s \in SUBSET S, s # {}, \A x \in s : s \ {x} \in B PROVE s \in B
  <2>1. Pick(s) \in s /\ times[Pick(s)] * weight[Pick(s)] \in Nat
    BY <1>2, PickOne, Products
  <2>2. SumOf(times, weight, S)[s \ {Pick(s)}] \in Nat
    BY <1>2, <2>1
  <2>3. SumOf(times, weight, S)[s] =
          times[Pick(s)] * weight[Pick(s)] + SumOf(times, weight, S)[s \ {Pick(s)}]
    BY <1>2, SumUnfolds
  <2>4. SumOf(times, weight, S)[s] \in Nat
    BY <2>1, <2>2, <2>3
  <2>5. QED
    BY <2>4
<1> HIDE DEF B
<1>3. SUBSET S \subseteq B
  BY <1>1, <1>2, SubsetInduction
<1>4. QED
  BY <1>3 DEF B

LEMMA TotalType ==
  ASSUME NEW S, IsFiniteSet(S),
         NEW times \in [S -> Nat], NEW weight \in [S -> Nat]
  PROVE  Total(times, weight, S) \in Nat
  BY TotalIsSum, SumType

LEMMA TotalMonotone ==
  ASSUME NEW S, IsFiniteSet(S),
         NEW times \in [S -> Nat], NEW more \in [S -> Nat],
         NEW weight \in [S -> Nat], \A v \in S : times[v] <= more[v]
  PROVE  Total(times, weight, S) <= Total(more, weight, S)
<1> DEFINE a == SumOf(times, weight, S)
           b == SumOf(more, weight, S)
           B == {s \in SUBSET S : a[s] <= b[s]}
<1>1. {} \in B
  BY SumUnfolds
<1>2. ASSUME NEW s \in SUBSET S, s # {}, \A x \in s : s \ {x} \in B PROVE s \in B
  <2> DEFINE x == Pick(s)
  <2>1. x \in s /\ x \in S /\ s \ {x} \in SUBSET S
    BY <1>2, PickOne
  <2>2. /\ a[s] = times[x] * weight[x] + a[s \ {x}]
        /\ b[s] = more[x] * weight[x] + b[s \ {x}]
    BY <1>2, SumUnfolds
  <2>3. a[s \ {x}] \in Nat /\ b[s \ {x}] \in Nat
    BY <2>1, SumType
  <2>4. times[x] \in Nat /\ more[x] \in Nat /\ weight[x] \in Nat /\ times[x] <= more[x]
    BY <2>1
  <2> HIDE DEF a, b, x
  <2>5. times[x] * weight[x] <= more[x] * weight[x]
    BY <2>4, SMT
  <2>6. times[x] * weight[x] \in Nat /\ more[x] * weight[x] \in Nat
    BY <2>4, SMT
  <2>7. a[s \ {x}] <= b[s \ {x}]
    BY <1>2, <2>1
  <2>8. a[s] <= b[s]
    BY <2>2, <2>3, <2>5, <2>6, <2>7
  <2>9. QED
    BY <2>8
<1> HIDE DEF B
<1>3. SUBSET S \subseteq B
  BY <1>1, <1>2, SubsetInduction
<1>4. QED
  BY <1>3, TotalIsSum DEF B

LEMMA TotalOneMore ==
  ASSUME NEW S, IsFiniteSet(S),
         NEW times \in [S -> Nat], NEW more \in [S -> Nat],
         NEW weight \in [S -> Nat], NEW v \in S,
         \A w \in S : more[w] = IF w = v THEN times[w] + 1 ELSE times[w]
  PROVE  Total(more, weight, S) = Total(times, weight, S) + weight[v]
<1> DEFINE a == SumOf(times, weight, S)
           b == SumOf(more, weight, S)
           B == {s \in SUBSET S : b[s] = a[s] + IF v \in s THEN weight[v] ELSE 0}
<1>1. {} \in B
  BY SumUnfolds
<1>2. ASSUME NEW s \in SUBSET S, s # {}, \A x \in s : s \ {x} \in B PROVE s \in B
  <2> DEFINE x == Pick(s)
  <2>1. x \in s /\ x \in S /\ s \ {x} \in SUBSET S
    BY <1>2, PickOne
  <2>2. /\ a[s] = times[x] * weight[x] + a[s \ {x}]
        /\ b[s] = more[x] * weight[x] + b[s \ {x}]
    <3>1. a[s] = times[x] * weight[x] + a[s \ {x}]
      BY ONLY <1>2, SumUnfolds, IsFiniteSet(S), times \in [S -> Nat], weight \in [S -> Nat]
    <3>2. b[s] = more[x] * weight[x] + b[s \ {x}]
      BY ONLY <1>2, SumUnfolds, IsFiniteSet(S), more \in [S -> Nat], weight \in [S -> Nat]
    <3>3. QED
      BY <3>1, <3>2
  <2>3. a[s \ {x}] \in Nat /\ b[s \ {x}] \in Nat
    BY <2>1, SumType
  <2>4. times[x] \in Nat /\ weight[x] \in Nat /\ weight[v] \in Nat
    BY <2>1
  <2>5. b[s \ {x}] = a[s \ {x}] + IF v \in s \ {x} THEN weight[v] ELSE 0
    BY <1>2, <2>1
  <2>6. more[x] = IF x = v THEN times[x] + 1 ELSE times[x]
    BY <2>1
  <2> HIDE DEF a, b, x
  <2>7. (times[x] + 1) * weight[x] = times[x] * weight[x] + weight[x]
    BY <2>4, SMT
  <2>8. times[x] * weight[x] \in Nat
    BY <2>4, SMT
  <2>9. b[s] = a[s] + IF v \in s THEN weight[v] ELSE 0
    BY <2>1, <2>2, <2>3, <2>4, <2>5, <2>6, <2>7, <2>8
  <2>10. QED
    BY <2>9
<1> HIDE DEF B
<1>3. SUBSET S \subseteq B
  BY <1>1, <1>2, SubsetInduction
<1>4. QED
  BY <1>3, TotalIsSum DEF B

LEMMA TotalZero ==
  ASSUME NEW S, IsFiniteSet(S),
         NEW times \in [S -> Nat], NEW weight \in [S -> Nat],
         \A v \in S : times[v] = 0
  PROVE  Total(times, weight, S) = 0
<1> DEFINE B == {s \in SUBSET S : SumOf(times, weight, S)[s] = 0}
<1>1. {} \in B
  BY SumUnfolds
<1>2. ASSUME NEW s \in SUBSET S, s # {}, \A x \in s : s \ {x} \in B PROVE s \in B
  <2>1. Pick(s) \in s /\ Pick(s) \in S
    BY <1>2, PickOne
  <2>2. SumOf(times, weight, S)[s \ {Pick(s)}] = 0
    BY <1>2, <2>1
  <2>3. times[Pick(s)] = 0 /\ weight[Pick(s)] \in Nat
    BY <2>1
  <2>4. times[Pick(s)] * weight[Pick(s)] = 0
    BY <2>3, SMT
  <2>5. SumOf(times, weight, S)[s] =
          times[Pick(s)] * weight[Pick(s)] + SumOf(times, weight, S)[s \ {Pick(s)}]
    BY <1>2, SumUnfolds
  <2>6. SumOf(times, weight, S)[s] = 0
    BY <2>2, <2>4, <2>5
  <2>7. QED
    BY <2>6
<1> HIDE DEF B
<1>3. SUBSET S \subseteq B
  BY <1>1, <1>2, SubsetInduction
<1>4. QED
  BY <1>3, TotalIsSum DEF B

=============================================================================
