---------------------------- MODULE InListProofs ----------------------------
(***************************************************************************)
(* Proofs about InList (include/inlist.hpp:16-110), for any set of         *)
(* elements: the pointers spell the list, and so implement FifoList.       *)
(***************************************************************************)
EXTENDS InList, SequenceTheorems, TLAPS

Inv == TypeOK /\ Represents

-----------------------------------------------------------------------------
(* What RemoveAt does to a sequence.                                       *)

LEMMA RemoveAtProperties ==
  ASSUME NEW S, NEW s \in Seq(S), NEW k \in 1..Len(s)
  PROVE  /\ RemoveAt(s, k) \in Seq(S)
         /\ Len(RemoveAt(s, k)) = Len(s) - 1
         /\ \A i \in 1..(Len(s) - 1) :
              RemoveAt(s, k)[i] = IF i < k THEN s[i] ELSE s[i + 1]
<1> DEFINE a == SubSeq(s, 1, k - 1)
           b == SubSeq(s, k + 1, Len(s))
<1>1. Len(s) \in Nat /\ k \in Int /\ 1 <= k /\ k <= Len(s)
  OBVIOUS
<1>2. /\ a \in Seq(S) /\ Len(a) = k - 1
      /\ \A i \in 1..(k - 1) : a[i] = s[i]
  <2>1. \A i \in 1..(k - 1) : s[i] \in S
    BY <1>1
  <2>2. 1 \in Int /\ k - 1 \in Int
    BY <1>1
  <2>3. /\ a \in Seq(S)
        /\ Len(a) = IF 1 <= k - 1 THEN (k - 1) - 1 + 1 ELSE 0
        /\ \A i \in 1..((k - 1) - 1 + 1) : a[i] = s[1 + i - 1]
    BY <2>1, <2>2, SubSeqProperties
  <2>4. QED
    BY <1>1, <2>3
<1>3. /\ b \in Seq(S) /\ Len(b) = Len(s) - k
      /\ \A i \in 1..(Len(s) - k) : b[i] = s[k + i]
  <2>1. \A i \in (k + 1)..Len(s) : s[i] \in S
    BY <1>1
  <2>2. k + 1 \in Int /\ Len(s) \in Int
    BY <1>1
  <2>3. /\ b \in Seq(S)
        /\ Len(b) = IF k + 1 <= Len(s) THEN Len(s) - (k + 1) + 1 ELSE 0
        /\ \A i \in 1..(Len(s) - (k + 1) + 1) : b[i] = s[(k + 1) + i - 1]
    BY <2>1, <2>2, SubSeqProperties
  <2>4. QED
    BY <1>1, <2>3
<1>4. RemoveAt(s, k) = a \o b
  BY DEF RemoveAt
<1>5. /\ a \o b \in Seq(S)
      /\ Len(a \o b) = Len(a) + Len(b)
      /\ \A i \in 1..(Len(a) + Len(b)) :
           (a \o b)[i] = IF i <= Len(a) THEN a[i] ELSE b[i - Len(a)]
  BY <1>2, <1>3, ConcatProperties
<1> HIDE DEF a, b
<1>6. Len(a) + Len(b) = Len(s) - 1
  BY <1>1, <1>2, <1>3
<1>7. ASSUME NEW i \in 1..(Len(s) - 1)
      PROVE  (a \o b)[i] = IF i < k THEN s[i] ELSE s[i + 1]
  <2>1. CASE i < k
    BY <1>1, <1>2, <1>5, <1>6, <2>1
  <2>2. CASE i >= k
    <3>1. (a \o b)[i] = b[i - (k - 1)]
      BY <1>1, <1>2, <1>5, <1>6, <2>2
    <3>2. i - (k - 1) \in 1..(Len(s) - k) /\ k + (i - (k - 1)) = i + 1
      BY <1>1, <2>2
    <3>3. QED
      BY <1>1, <1>3, <2>2, <3>1, <3>2
  <2>3. i < k \/ i >= k
    BY <1>1
  <2>4. QED
    BY <2>1, <2>2, <2>3
<1>8. QED
  BY <1>4, <1>5, <1>6, <1>7

-----------------------------------------------------------------------------
LEMMA InitInv == Init => Inv
  BY DEF Init, Inv, TypeOK, Pointer, Represents, NoDuplicates, EndsMatch,
         LinksMatch, FreeUnlinked

LEMMA PushInv ==
  ASSUME Inv, NEW t \in Elements, Push(t)
  PROVE  Inv'
<1> DEFINE n == Len(list)
<1> USE DEF Inv, Represents
<1>1. /\ list \in Seq(Elements) /\ n \in Nat /\ DOMAIN list = 1..n
      /\ next_ \in [Elements -> Pointer] /\ prev_ \in [Elements -> Pointer]
      /\ \A i \in 1..n : list[i] \in Elements /\ list[i] # t /\ list[i] # NULL
      /\ t # NULL
  BY ElementsAssumption DEF TypeOK, Push, Linked, Range
<1>2. /\ list' \in Seq(Elements) /\ Len(list') = n + 1 /\ DOMAIN list' = 1..(n + 1)
      /\ \A i \in 1..n : list'[i] = list[i]
      /\ list'[n + 1] = t
  BY <1>1, AppendProperties DEF Push
<1>3. head_ = IF n = 0 THEN NULL ELSE list[n]
  BY <1>1 DEF EndsMatch
<1>4. next_[t] = NULL /\ prev_[t] = NULL
  BY DEF FreeUnlinked, Push
<1>5. /\ next_' \in [Elements -> Pointer] /\ prev_' \in [Elements -> Pointer]
      /\ \A e \in Elements : next_'[e] = IF e = t THEN head_ ELSE next_[e]
      /\ \A e \in Elements :
           prev_'[e] = IF e = head_ /\ n > 0 THEN t ELSE prev_[e]
  BY <1>1, <1>3 DEF Push, SetIfNotNull, Pointer, TypeOK
<1>6. TypeOK'
  BY <1>2, <1>5 DEF TypeOK, Push, Pointer
<1>7. NoDuplicates'
  BY <1>1, <1>2 DEF NoDuplicates
<1>8. EndsMatch'
  <2>1. CASE n = 0
    BY <1>1, <1>2, <2>1 DEF EndsMatch, Push
  <2>2. CASE n > 0
    BY <1>1, <1>2, <2>2 DEF EndsMatch, Push
  <2>3. QED
    BY <1>1, <2>1, <2>2
<1>9. ASSUME NEW i \in 1..(n + 1)
      PROVE  /\ next_'[list'[i]] = IF i = 1 THEN NULL ELSE list'[i - 1]
             /\ prev_'[list'[i]] = IF i = n + 1 THEN NULL ELSE list'[i + 1]
  <2>1. CASE i = n + 1
    <3>1. list'[i] = t /\ head_ # t
      BY <1>1, <1>2, <1>3, <2>1
    <3>2. next_'[t] = head_ /\ prev_'[t] = NULL
      BY <1>4, <1>5, <3>1
    <3>3. QED
      BY <1>1, <1>2, <1>3, <2>1, <3>1, <3>2
  <2>2. CASE i <= n
    <3>1. list'[i] = list[i] /\ i \in 1..n
      BY <1>1, <1>2, <2>2
    <3>2. next_'[list[i]] = IF i = 1 THEN NULL ELSE list[i - 1]
      BY <1>1, <1>5, <3>1 DEF LinksMatch
    <3>3. CASE i = n
      <4>1. list[i] = head_ /\ n > 0 /\ list'[i + 1] = t
        BY <1>1, <1>2, <1>3, <2>2, <3>1, <3>3
      <4>2. prev_'[list[i]] = t
        BY <1>1, <1>5, <3>1, <4>1
      <4>3. i = 1 \/ i - 1 \in 1..n
        BY <1>1, <3>1
      <4>4. QED
        BY <1>1, <1>2, <3>1, <3>2, <3>3, <4>1, <4>2, <4>3
    <3>4. CASE i < n
      <4>1. list[i] # head_
        <5>1. n \in 1..n /\ head_ = list[n] /\ i # n
          BY <1>1, <1>3, <3>1, <3>4
        <5>2. QED
          BY <1>1, <3>1, <5>1 DEF NoDuplicates
      <4>2. prev_[list[i]] = list[i + 1]
        BY <1>1, <3>1, <3>4 DEF LinksMatch
      <4>3. prev_'[list[i]] = list'[i + 1]
        BY <1>1, <1>2, <1>5, <3>1, <3>4, <4>1, <4>2
      <4>4. i = 1 \/ i - 1 \in 1..n
        BY <1>1, <3>1
      <4>5. QED
        BY <1>1, <1>2, <3>1, <3>2, <3>4, <4>3, <4>4
    <3>5. QED
      BY <1>1, <2>2, <3>3, <3>4
  <2>3. QED
    BY <1>1, <2>1, <2>2
<1>10. LinksMatch'
  BY <1>2, <1>9 DEF LinksMatch
<1>11. FreeUnlinked'
  <2>1. Linked' = Linked \cup {t}
    BY <1>1, <1>2 DEF Linked, Range
  <2>2. n > 0 => head_ \in Linked
    BY <1>1, <1>3 DEF Linked, Range
  <2>3. QED
    BY <1>5, <2>1, <2>2 DEF FreeUnlinked
<1>12. QED
  BY <1>6, <1>7, <1>8, <1>10, <1>11

-----------------------------------------------------------------------------
(* Unlink and Pop both take out one element and join its neighbours: t at  *)
(* position k, with the neighbours list[k - 1] and list[k + 1].            *)

\* What both do to the pointers.
Detached(t) ==
  /\ \A e \in Elements :
       next_'[e] = IF e = t THEN NULL
                   ELSE IF e = prev_[t] THEN next_[t] ELSE next_[e]
  /\ \A e \in Elements :
       prev_'[e] = IF e = t THEN NULL
                   ELSE IF e = next_[t] THEN prev_[t] ELSE prev_[e]
  /\ next_' \in [Elements -> Pointer]
  /\ prev_' \in [Elements -> Pointer]
  /\ tail_' = IF tail_ = t THEN prev_[t] ELSE tail_
  /\ head_' = IF head_ = t THEN next_[t] ELSE head_

LEMMA DetachedInv ==
  ASSUME Inv, NEW t \in Elements, NEW k \in 1..Len(list), list[k] = t,
         Detached(t), popped' \in Pointer,
         list' \in Seq(Elements), Len(list') = Len(list) - 1,
         \A i \in 1..(Len(list) - 1) :
           list'[i] = IF i < k THEN list[i] ELSE list[i + 1]
  PROVE  Inv'
<1> DEFINE n == Len(list)
<1> USE DEF Inv, Represents
<1>1. /\ list \in Seq(Elements) /\ n \in Nat /\ DOMAIN list = 1..n
      /\ n \in 1..n /\ 1 \in 1..n
      /\ \A i \in 1..n : list[i] \in Elements /\ list[i] # NULL
      /\ \A i, j \in 1..n : list[i] = list[j] => i = j
      /\ k \in Nat /\ 1 <= k /\ k <= n
  BY ElementsAssumption DEF TypeOK, NoDuplicates
<1>2. /\ DOMAIN list' = 1..(n - 1)
      /\ \A i \in 1..(n - 1) : i < k => i \in 1..n /\ list'[i] = list[i]
      /\ \A i \in 1..(n - 1) : i >= k => i + 1 \in 1..n /\ list'[i] = list[i + 1]
  BY <1>1
<1>3. /\ \A i \in 1..n : next_[list[i]] = IF i = 1 THEN NULL ELSE list[i - 1]
      /\ \A i \in 1..n : prev_[list[i]] = IF i = n THEN NULL ELSE list[i + 1]
  BY <1>1 DEF LinksMatch
<1>4. /\ next_[t] = IF k = 1 THEN NULL ELSE list[k - 1]
      /\ prev_[t] = IF k = n THEN NULL ELSE list[k + 1]
  BY <1>3
<1>5. TypeOK'
  BY <1>1, <1>3 DEF TypeOK, Detached, Pointer
<1>6. NoDuplicates'
  <2> SUFFICES ASSUME NEW i \in 1..(n - 1), NEW j \in 1..(n - 1), list'[i] = list'[j]
               PROVE  i = j
    BY <1>2 DEF NoDuplicates
  <2> DEFINE I == IF i < k THEN i ELSE i + 1
             J == IF j < k THEN j ELSE j + 1
  <2>1. I \in 1..n /\ J \in 1..n /\ list[I] = list[J]
    BY <1>1, <1>2
  <2>2. I = J
    BY <1>1, <2>1
  <2>3. QED
    BY <1>1, <2>2
<1>7. EndsMatch'
  <2>1. tail_ = list[1] /\ head_ = list[n]
    BY <1>1 DEF EndsMatch
  <2>2. tail_ = t <=> k = 1
    BY <1>1, <2>1
  <2>3. head_ = t <=> k = n
    BY <1>1, <2>1
  <2>4. CASE n = 1
    BY <1>1, <1>4, <2>2, <2>3, <2>4 DEF EndsMatch, Detached
  <2>5. CASE n > 1
    <3>1. list' # <<>> /\ 1 \in 1..(n - 1) /\ n - 1 \in 1..(n - 1)
      BY <1>1, <2>5
    <3>2. tail_' = list'[1]
      <4>1. CASE k = 1
        <5>1. tail_' = list[2]
          BY <1>1, <1>4, <2>2, <2>5, <4>1 DEF Detached
        <5>2. list'[1] = list[1 + 1]
          BY <1>2, <3>1, <4>1
        <5>3. QED
          BY <5>1, <5>2
      <4>2. CASE k # 1
        <5>1. tail_' = list[1]
          BY <2>1, <2>2, <4>2 DEF Detached
        <5>2. list'[1] = list[1]
          BY <1>1, <1>2, <3>1, <4>2
        <5>3. QED
          BY <5>1, <5>2
      <4>3. QED
        BY <4>1, <4>2
    <3>3. head_' = list'[n - 1]
      <4>1. CASE k = n
        <5>1. head_' = list[n - 1]
          BY <1>1, <1>4, <2>3, <2>5, <4>1 DEF Detached
        <5>2. list'[n - 1] = list[n - 1]
          BY <1>1, <1>2, <3>1, <4>1
        <5>3. QED
          BY <5>1, <5>2
      <4>2. CASE k # n
        <5>1. head_' = list[n]
          BY <2>1, <2>3, <4>2 DEF Detached
        <5>2. n - 1 >= k /\ (n - 1) + 1 = n
          BY <1>1, <4>2
        <5>3. list'[n - 1] = list[n]
          BY <1>2, <3>1, <5>2
        <5>4. QED
          BY <5>1, <5>3
      <4>3. QED
        BY <4>1, <4>2
    <3>4. QED
      BY <3>1, <3>2, <3>3 DEF EndsMatch
  <2>6. QED
    BY <1>1, <2>4, <2>5
<1>8. ASSUME NEW i \in 1..(n - 1)
      PROVE  next_'[list'[i]] = IF i = 1 THEN NULL ELSE list'[i - 1]
  <2> DEFINE I == IF i < k THEN i ELSE i + 1
  <2>1. I \in 1..n /\ I # k /\ list'[i] = list[I] /\ i \in Nat
    BY <1>1, <1>2
  <2>2. list[I] # t /\ list[I] \in Elements
    BY <1>1, <2>1
  <2>3. CASE i = k
    <3>1. I = k + 1 /\ prev_[t] = list[I]
      BY <1>1, <1>4, <2>3
    <3>2. next_'[list[I]] = next_[t]
      BY <2>2, <3>1 DEF Detached
    <3>3. k > 1 => k - 1 \in 1..(n - 1) /\ list'[k - 1] = list[k - 1]
      BY <1>1, <1>2, <2>3
    <3>4. QED
      BY <1>1, <1>4, <2>1, <2>3, <3>2, <3>3
  <2>4. CASE i # k
    <3>1. prev_[t] # list[I]
      <4>1. CASE k = n
        BY <1>1, <1>4, <2>1, <4>1
      <4>2. CASE k # n
        <5>1. k + 1 \in 1..n /\ I # k + 1 /\ prev_[t] = list[k + 1]
          BY <1>1, <1>4, <2>1, <2>4, <4>2
        <5>2. QED
          BY <1>1, <2>1, <5>1
      <4>3. QED
        BY <4>1, <4>2
    <3>2. next_'[list[I]] = IF I = 1 THEN NULL ELSE list[I - 1]
      BY <1>3, <2>1, <2>2, <3>1 DEF Detached
    <3>3. CASE i < k
      <4>1. I = i /\ (i # 1 => i - 1 \in 1..(n - 1) /\ list'[i - 1] = list[i - 1])
        BY <1>1, <1>2, <3>3
      <4>2. QED
        BY <2>1, <3>2, <4>1
    <3>4. CASE i > k
      <4>1. /\ I = i + 1 /\ i # 1 /\ I # 1 /\ I - 1 = i
            /\ i - 1 \in 1..(n - 1) /\ i - 1 >= k
        BY <1>1, <3>4
      <4>2. list'[i - 1] = list[(i - 1) + 1]
        BY <1>2, <4>1
      <4>3. (i - 1) + 1 = i
        BY <2>1
      <4>4. QED
        BY <2>1, <3>2, <4>1, <4>2, <4>3
    <3>5. i < k \/ i > k
      BY <1>1, <2>1, <2>4
    <3>6. QED
      BY <3>3, <3>4, <3>5
  <2>5. QED
    BY <2>3, <2>4
<1>9. ASSUME NEW i \in 1..(n - 1)
      PROVE  prev_'[list'[i]] = IF i = n - 1 THEN NULL ELSE list'[i + 1]
  <2> DEFINE I == IF i < k THEN i ELSE i + 1
  <2>1. I \in 1..n /\ I # k /\ list'[i] = list[I] /\ i \in Nat
    BY <1>1, <1>2
  <2>2. list[I] # t /\ list[I] \in Elements
    BY <1>1, <2>1
  <2>3. CASE i + 1 = k
    <3>1. I = k - 1 /\ next_[t] = list[I]
      BY <1>1, <1>4, <2>3
    <3>2. prev_'[list[I]] = prev_[t]
      BY <2>2, <3>1 DEF Detached
    <3>3. k # n => k \in 1..(n - 1) /\ list'[k] = list[k + 1]
      BY <1>1, <1>2, <2>3
    <3>4. i = n - 1 <=> k = n
      BY <1>1, <2>1, <2>3
    <3>5. QED
      BY <1>4, <2>1, <2>3, <3>2, <3>3, <3>4
  <2>4. CASE i + 1 # k
    <3>1. next_[t] # list[I]
      <4>1. CASE k = 1
        BY <1>1, <1>4, <2>1, <4>1
      <4>2. CASE k # 1
        <5>1. k - 1 \in 1..n /\ I # k - 1 /\ next_[t] = list[k - 1]
          BY <1>1, <1>4, <2>1, <2>4, <4>2
        <5>2. QED
          BY <1>1, <2>1, <5>1
      <4>3. QED
        BY <4>1, <4>2
    <3>2. prev_'[list[I]] = IF I = n THEN NULL ELSE list[I + 1]
      BY <1>3, <2>1, <2>2, <3>1 DEF Detached
    <3>3. CASE i < k
      <4>1. /\ I = i /\ i # n /\ i # n - 1
            /\ i + 1 \in 1..(n - 1) /\ list'[i + 1] = list[i + 1]
        BY <1>1, <1>2, <2>1, <2>4, <3>3
      <4>2. QED
        BY <2>1, <3>2, <4>1
    <3>4. CASE i >= k
      <4>1. I = i + 1 /\ (I = n <=> i = n - 1)
        BY <1>1, <2>1, <3>4
      <4>2. i # n - 1 => i + 1 \in 1..(n - 1) /\ list'[i + 1] = list[(i + 1) + 1]
        BY <1>1, <1>2, <2>1, <3>4
      <4>3. QED
        BY <2>1, <3>2, <4>1, <4>2
    <3>5. i < k \/ i >= k
      BY <1>1, <2>1
    <3>6. QED
      BY <3>3, <3>4, <3>5
  <2>5. QED
    BY <2>3, <2>4
<1>10. LinksMatch'
  BY <1>2, <1>8, <1>9 DEF LinksMatch
<1>11. FreeUnlinked'
  <2>1. ASSUME NEW e \in Elements, e \in Linked, e # t PROVE e \in Linked'
    <3>1. PICK i \in 1..n : list[i] = e /\ i # k
      BY <1>1, <2>1 DEF Linked, Range
    <3>2. CASE i < k
      <4>1. i \in 1..(n - 1) /\ list'[i] = e
        BY <1>1, <1>2, <3>1, <3>2
      <4>2. QED
        BY <1>2, <4>1 DEF Linked, Range
    <3>3. CASE i > k
      <4>1. i - 1 \in 1..(n - 1) /\ i - 1 >= k /\ (i - 1) + 1 = i
        BY <1>1, <3>3
      <4>2. list'[i - 1] = e
        BY <1>2, <3>1, <4>1
      <4>3. QED
        BY <1>2, <4>1, <4>2 DEF Linked, Range
    <3>4. i < k \/ i > k
      BY <1>1, <3>1
    <3>5. QED
      BY <3>2, <3>3, <3>4
  <2>2. next_[t] # NULL => next_[t] \in Linked
    <3>1. k # 1 => k - 1 \in 1..n
      BY <1>1
    <3>2. QED
      BY <1>1, <1>4, <3>1 DEF Linked, Range
  <2>3. prev_[t] # NULL => prev_[t] \in Linked
    <3>1. k # n => k + 1 \in 1..n
      BY <1>1
    <3>2. QED
      BY <1>1, <1>4, <3>1 DEF Linked, Range
  <2>4. \A e \in Elements \ Linked' : e = t \/ e \notin Linked
    BY <2>1
  <2>5. QED
    BY <2>2, <2>3, <2>4, ElementsAssumption DEF FreeUnlinked, Detached
<1>12. QED
  BY <1>5, <1>6, <1>7, <1>10, <1>11

LEMMA UnlinkInv ==
  ASSUME Inv, NEW t \in Elements, Unlink(t)
  PROVE  Inv'
<1>1. PICK k \in 1..Len(list) : list[k] = t /\ list' = RemoveAt(list, k)
  BY DEF Inv, TypeOK, Unlink
<1>2. /\ list' \in Seq(Elements)
      /\ Len(list') = Len(list) - 1
      /\ \A i \in 1..(Len(list) - 1) :
           list'[i] = IF i < k THEN list[i] ELSE list[i + 1]
  BY <1>1, RemoveAtProperties DEF Inv, TypeOK
<1>3. Detached(t)
  <2>1. \A i \in 1..Len(list) : list[i] # NULL
    BY ElementsAssumption DEF Inv, TypeOK
  <2>2. next_[t] # t /\ prev_[t] # t
    <3>1. /\ next_[t] = IF k = 1 THEN NULL ELSE list[k - 1]
          /\ prev_[t] = IF k = Len(list) THEN NULL ELSE list[k + 1]
      BY <1>1 DEF Inv, TypeOK, Represents, LinksMatch
    <3>2. \A i \in 1..Len(list) : i # k => list[i] # t
      BY <1>1 DEF Inv, TypeOK, Represents, NoDuplicates
    <3>3. /\ k # 1 => k - 1 \in 1..Len(list) /\ k - 1 # k
          /\ k # Len(list) => k + 1 \in 1..Len(list) /\ k + 1 # k
      BY DEF Inv, TypeOK
    <3>4. t # NULL
      BY ElementsAssumption
    <3>5. QED
      BY <3>1, <3>2, <3>3, <3>4
  <2>3. QED
    BY <2>2, ElementsAssumption
       DEF Unlink, Detached, SetIfNotNull, Inv, TypeOK, Pointer
<1>4. popped' \in Pointer
  BY DEF Unlink, Inv, TypeOK
<1>5. QED
  BY <1>1, <1>2, <1>3, <1>4, DetachedInv

LEMMA PopInv ==
  ASSUME Inv, Pop
  PROVE  Inv' /\ popped' = Head(list)
<1>1. list \in Seq(Elements) /\ list # <<>> /\ Len(list) \in Nat /\ 1 \in 1..Len(list)
  BY DEF Inv, TypeOK, Pop
<1>2. tail_ = list[1] /\ tail_ \in Elements /\ head_ = list[Len(list)]
  BY <1>1 DEF Inv, Represents, EndsMatch
<1>3. next_[tail_] = NULL
  BY <1>1, <1>2 DEF Inv, Represents, LinksMatch
<1>4. /\ list' \in Seq(Elements) /\ Len(list') = Len(list) - 1
      /\ \A i \in 1..(Len(list) - 1) :
           list'[i] = IF i < 1 THEN list[i] ELSE list[i + 1]
  BY <1>1, HeadTailProperties DEF Pop
<1>5. prev_[tail_] # tail_
  <2>1. 1 \in DOMAIN list
    BY <1>1
  <2>2. prev_[tail_] = IF 1 = Len(list) THEN NULL ELSE list[1 + 1]
    BY <1>2, <2>1 DEF Inv, Represents, LinksMatch
  <2>3. Len(list) # 1 => 1 + 1 \in DOMAIN list /\ 1 + 1 # 1
    BY <1>1
  <2>4. Len(list) # 1 => list[1 + 1] # list[1]
    BY <2>1, <2>3 DEF Inv, Represents, NoDuplicates
  <2>5. QED
    BY <1>2, <2>2, <2>4, ElementsAssumption
<1>6. Detached(tail_)
  BY <1>2, <1>3, <1>5, ElementsAssumption
     DEF Pop, Detached, SetIfNotNull, Inv, TypeOK, Pointer
<1>7. popped' \in Pointer
  BY <1>2 DEF Pop, Pointer
<1>8. Inv'
  BY <1>1, <1>2, <1>4, <1>6, <1>7, DetachedInv
<1>9. QED
  BY <1>1, <1>2, <1>8 DEF Pop

LEMMA NextInv == Inv /\ [Next]_vars => Inv'
<1>1. CASE UNCHANGED vars
  BY <1>1 DEF vars, Inv, TypeOK, Represents, NoDuplicates, EndsMatch,
              LinksMatch, FreeUnlinked, Linked
<1>2. QED
  BY <1>1, PushInv, UnlinkInv, PopInv DEF Next

-----------------------------------------------------------------------------
(***************************************************************************)
(* After any calls, on any number of elements, both ends and both          *)
(* directions of the links spell the list, and an element outside of it    *)
(* has no stale link (include/inlist.hpp:47-99).                           *)
(***************************************************************************)
THEOREM PointersRepresentList == Spec => [](TypeOK /\ Represents)
<1>1. Init => Inv
  BY InitInv
<1>2. Inv /\ [Next]_vars => Inv'
  BY NextInv
<1>3. QED
  BY <1>1, <1>2, PTL DEF Spec, Inv

(***************************************************************************)
(* No ASSERT of a debug build fires on a legal call                        *)
(* (include/inlist.hpp:49-55, 66-69, 82-84, 92, 101-104).                  *)
(***************************************************************************)
THEOREM LegalCallsPassAsserts == Spec => []AssertsHold
<1>1. Inv => AssertsHold
  <2> SUFFICES ASSUME Inv PROVE AssertsHold
    OBVIOUS
  <2> USE DEF Inv, Represents
  <2>1. list \in Seq(Elements) /\ Len(list) \in Nat /\ DOMAIN list = 1..Len(list)
    BY DEF TypeOK
  <2>2. list # <<>> => 1 \in DOMAIN list /\ Len(list) \in DOMAIN list
    BY <2>1
  <2>3. \A i \in DOMAIN list : list[i] \in Elements /\ list[i] # NULL
    BY <2>1, ElementsAssumption
  <2>4. (head_ = NULL <=> list = <<>>) /\ (tail_ = NULL <=> list = <<>>)
    BY <2>2, <2>3 DEF EndsMatch
  <2>5. list # <<>> => next_[tail_] = NULL /\ prev_[head_] = NULL
    BY <2>2 DEF EndsMatch, LinksMatch
  <2>6. \A t \in Elements \ Linked : PushAsserts(t)
    BY <2>4, <2>5 DEF PushAsserts, FreeUnlinked
  <2>7. ASSUME NEW t \in Linked PROVE UnlinkAsserts(t)
    <3>1. PICK i \in DOMAIN list : list[i] = t
      BY DEF Linked, Range
    <3>2. i # 1 => i - 1 \in DOMAIN list
      BY <2>1
    <3>3. i # Len(list) => i + 1 \in DOMAIN list
      BY <2>1
    <3>4. list # <<>>
      BY <2>1, <3>1
    <3>5. next_[t] # NULL \/ tail_ = t
      BY <2>3, <3>1, <3>2, <3>4 DEF LinksMatch, EndsMatch
    <3>6. prev_[t] # NULL \/ head_ = t
      BY <2>3, <3>1, <3>3, <3>4 DEF LinksMatch, EndsMatch
    <3>7. QED
      BY <2>4, <3>4, <3>5, <3>6 DEF UnlinkAsserts
  <2>8. list # <<>> => PopAsserts
    BY <2>4, <2>5 DEF PopAsserts
  <2>9. QED
    BY <2>4, <2>6, <2>7, <2>8 DEF AssertsHold, IsEmpty
<1>2. QED
  BY <1>1, PointersRepresentList, PTL DEF Inv

(***************************************************************************)
(* The ASSERTs of a debug build stop every Unlink of an element that is    *)
(* not linked, and every second Push but that of a list's only element     *)
(* (include/inlist.hpp:53-55, 66-69).                                      *)
(***************************************************************************)
THEOREM MisuseIsCaught == Spec => []AssertsDetectMisuse
<1>1. Inv => AssertsDetectMisuse
  <2> SUFFICES ASSUME Inv PROVE AssertsDetectMisuse
    OBVIOUS
  <2> USE DEF Inv, Represents
  <2>1. list \in Seq(Elements) /\ Len(list) \in Nat /\ DOMAIN list = 1..Len(list)
    BY DEF TypeOK
  <2>2. \A i \in DOMAIN list : list[i] \in Elements /\ list[i] # NULL
    BY <2>1, ElementsAssumption
  <2>3. ASSUME NEW t \in Elements \ Linked PROVE ~UnlinkAsserts(t)
    <3>1. prev_[t] = NULL
      BY DEF FreeUnlinked
    <3>2. list # <<>> => Len(list) \in DOMAIN list
      BY <2>1
    <3>3. head_ # NULL => head_ \in Linked
      BY <3>2 DEF EndsMatch, Linked, Range
    <3>4. QED
      BY <3>1, <3>3 DEF UnlinkAsserts
  <2>4. ASSUME Len(list) > 1, NEW t \in Linked PROVE ~PushAsserts(t)
    <3>1. PICK i \in DOMAIN list : list[i] = t
      BY DEF Linked, Range
    <3>2. CASE i = 1
      <4>1. i # Len(list) /\ i + 1 \in DOMAIN list
        BY <2>1, <2>4, <3>2
      <4>2. prev_[t] # NULL
        BY <2>2, <3>1, <4>1 DEF LinksMatch
      <4>3. QED
        BY <4>2 DEF PushAsserts
    <3>3. CASE i # 1
      <4>1. i - 1 \in DOMAIN list
        BY <2>1, <3>1, <3>3
      <4>2. next_[t] # NULL
        BY <2>2, <3>1, <3>3, <4>1 DEF LinksMatch
      <4>3. QED
        BY <4>2 DEF PushAsserts
    <3>4. QED
      BY <3>2, <3>3
  <2>5. QED
    BY <2>3, <2>4 DEF AssertsDetectMisuse
<1>2. QED
  BY <1>1, PointersRepresentList, PTL DEF Inv

(***************************************************************************)
(* The pointers implement the first-in first-out list: Pop returns the     *)
(* oldest element that was not unlinked (include/inlist.hpp:80-99).        *)
(***************************************************************************)
THEOREM PointersImplementFifo == Spec => ImplementsFifoList
<1>1. Init => Abstract!Init
  BY DEF Init, Abstract!Init
<1>2. ASSUME Inv, [Next]_vars PROVE [Abstract!Next]_Abstract!listVars
  <2>1. ASSUME NEW t \in Elements, Push(t) PROVE Abstract!Push(t)
    BY <2>1 DEF Push, Abstract!Push, Linked, Range, Abstract!Range
  <2>2. ASSUME NEW t \in Elements, Unlink(t) PROVE Abstract!Unlink(t)
    BY <2>2 DEF Unlink, Abstract!Unlink, RemoveAt, Abstract!RemoveAt
  <2>3. ASSUME Pop PROVE Abstract!Pop
    BY <1>2, <2>3, PopInv DEF Pop, Abstract!Pop
  <2>4. CASE UNCHANGED vars
    BY <2>4 DEF vars, Abstract!listVars
  <2>5. QED
    BY <1>2, <2>1, <2>2, <2>3, <2>4 DEF Next, Abstract!Next
<1>3. QED
  BY <1>1, <1>2, PointersRepresentList, PTL
     DEF Spec, Inv, ImplementsFifoList, Abstract!Spec

=============================================================================
