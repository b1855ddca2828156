---------------------------- MODULE StagingProofs ----------------------------
(***************************************************************************)
(* The selection of evenly spaced indices is exact for every pair of sizes,   *)
(* and what prepare_image_sequence stages and says of it is true in every run  *)
(* on a directory.                                                          *)
(*                                                                         *)
(* The loop keeps accumulated_remainder below interval_count, and the index  *)
(* and the remainder it has produced after k passes account for exactly k    *)
(* times the interval: selected_index * interval_count + accumulated_remainder *)
(* = k * (element_count - 1). The index is therefore the quotient, and it     *)
(* grows by at least one because sample_count never exceeds element_count.   *)
(* Staging rests on one fact, EntriesAreKept: an entry, once there, stays as   *)
(* it is; so the files before position are this run's own until the manifest    *)
(* names them, and afterwards.                                               *)
(***************************************************************************)
EXTENDS Staging, TLAPS

\* What the loop has produced is exactly accounted for.
Accounted ==
  sample_count > 1 /\ ~returned =>
    /\ accumulated_remainder < Selecting!interval_count
    /\ selected_index * Selecting!interval_count + accumulated_remainder
         = Len(selected_indices) * (element_count - 1)
    /\ Len(selected_indices) < sample_count

Collected ==
  /\ ~returned /\ sample_count = 1 => selected_indices = <<>>
  /\ returned => Len(selected_indices) = sample_count

SelectInv == Selecting!TypeOK /\ Accounted /\ Collected /\ Selecting!IndicesAreExact

-----------------------------------------------------------------------------
(* Arithmetic *)

\* The division the loop steps by.
LEMMA Division ==
  ASSUME NEW a \in Nat, NEW d \in Nat \ {0}
  PROVE  /\ a \div d \in Nat
         /\ a % d \in 0 .. d - 1
         /\ a = (a \div d) * d + (a % d)
  OBVIOUS

\* A larger factor makes a larger product, by the other factor at least.
LEMMA ProductGrows ==
  ASSUME NEW p \in Nat, NEW q \in Nat, NEW d \in Nat, p < q
  PROVE  p * d + d <= q * d
<1>1. PICK n \in Nat : q = p + 1 + n
  <2>1. q - p - 1 \in Nat /\ q = p + 1 + (q - p - 1)
    OBVIOUS
  <2> QED
    BY <2>1
<1>2. q * d = p * d + d + n * d
  BY <1>1
<1>3. n * d \in Nat /\ p * d \in Nat
  BY <1>1
<1> QED
  BY <1>2, <1>3

\* A quotient and a remainder in range are the quotient and the remainder.
LEMMA QuotientIsUnique ==
  ASSUME NEW a \in Nat, NEW d \in Nat \ {0}, NEW q \in Nat, NEW r \in Nat,
         r < d, a = q * d + r
  PROVE  a \div d = q
<1> DEFINE c == a \div d
<1>1. /\ c \in Nat
      /\ \E s \in 0 .. d - 1 : a = c * d + s
  BY Division
<1> HIDE DEF c
<1>2. q * d \in Nat /\ c * d \in Nat
  BY <1>1
<1>3. ~(q < c)
  BY <1>1, <1>2, ProductGrows
<1>4. ~(c < q)
  BY <1>1, <1>2, ProductGrows
<1>5. c = q
  BY <1>1, <1>3, <1>4
<1> QED
  BY <1>5 DEF c

\* As many intervals as there are never pass the end.
LEMMA QuotientIsBounded ==
  ASSUME NEW d \in Nat \ {0}, NEW n \in Nat, NEW j \in Nat, NEW q \in Nat, NEW r \in Nat,
         j <= d, q * d + r = j * n
  PROVE  q <= n
<1>1. SUFFICES ASSUME n < q
               PROVE  FALSE
  OBVIOUS
<1>2. n * d + d <= q * d
  BY <1>1, ProductGrows
<1>3. j * n <= d * n
  <2>1. CASE j = d
    BY <2>1
  <2>2. CASE j < d
    <3>1. j * n + n <= d * n
      BY <2>2, ProductGrows
    <3>2. j * n \in Nat /\ d * n \in Nat
      OBVIOUS
    <3> QED
      BY <3>1, <3>2
  <2> QED
    BY <2>1, <2>2
<1>4. n * d \in Nat /\ q * d \in Nat /\ j * n \in Nat /\ d * n = n * d
  OBVIOUS
<1> QED
  BY <1>2, <1>3, <1>4

\* One more interval n = b * d + s, with and without the carried remainder.
LEMMA IntervalIsAdded ==
  ASSUME NEW d \in Nat \ {0}, NEW b \in Nat, NEW s \in 0 .. d - 1,
         NEW i \in Nat, NEW r \in 0 .. d - 1, NEW k \in Nat, NEW n \in Nat,
         n = b * d + s, i * d + r = k * n
  PROVE  /\ (i + b) * d + (r + s) = (k + 1) * n
         /\ (i + b + 1) * d + (r - (d - s)) = (k + 1) * n
<1>1. /\ (i + b) * d = i * d + b * d
      /\ (i + b + 1) * d = i * d + b * d + d
      /\ (k + 1) * n = k * n + n
      /\ i * d \in Nat /\ b * d \in Nat /\ k * n \in Nat
  OBVIOUS
<1>2. (i * d + b * d) + (r + s) = (i * d + r) + (b * d + s)
  BY <1>1
<1>3. (i * d + b * d + d) + (r - (d - s)) = (i * d + r) + (b * d + s)
  BY <1>1
<1> QED
  BY <1>1, <1>2, <1>3

-----------------------------------------------------------------------------
(* The loop *)

\* While the loop runs, the index it will append is the promised one, and one
\* more pass stays within the elements.
LEMMA IndexIsQuotient ==
  ASSUME SelectInv, sample_count > 1, ~returned
  PROVE  selected_index = Selecting!EvenIndex(element_count, sample_count, Len(selected_indices))
<1> DEFINE k == Len(selected_indices)
           a == k * (element_count - 1)
<1>1. /\ k \in Nat /\ element_count - 1 \in Nat /\ Selecting!interval_count \in Nat \ {0}
      /\ selected_index \in Nat /\ accumulated_remainder \in Nat
      /\ accumulated_remainder < Selecting!interval_count
      /\ a = selected_index * Selecting!interval_count + accumulated_remainder
  BY SamplingAssumption DEF SelectInv, Selecting!TypeOK, Accounted, Selecting!interval_count
<1>2. a \in Nat
  BY <1>1
<1> HIDE DEF a, k
<1>3. a \div Selecting!interval_count = selected_index
  BY <1>1, <1>2, QuotientIsUnique
<1> QED
  BY <1>3 DEF a, k, Selecting!EvenIndex, Selecting!interval_count

\* The first position is the first element.
LEMMA FirstIsZero ==
  ASSUME NEW n \in Nat \ {0}, NEW m \in Nat \ {0}
  PROVE  Selecting!EvenIndex(n, m, 0) = 0
<1>1. CASE m = 1
  BY <1>1 DEF Selecting!EvenIndex
<1>2. CASE m # 1
  <2>1. 0 * (n - 1) = 0 /\ 0 = 0 * (m - 1) + 0 /\ m - 1 \in Nat \ {0}
    BY <1>2
  <2>2. 0 \div (m - 1) = 0
    BY <2>1, QuotientIsUnique
  <2> QED
    BY <1>2, <2>1, <2>2 DEF Selecting!EvenIndex
<1> QED
  BY <1>1, <1>2

\* A pass that does not end the loop keeps the account and the sizes.
LEMMA StepKeepsAccount ==
  ASSUME SelectInv, Selecting!Step
  PROVE  /\ selected_index' \in 0 .. element_count - 1
         /\ accumulated_remainder' \in 0 .. Selecting!interval_count - 1
         /\ selected_index' * Selecting!interval_count + accumulated_remainder'
              = (Len(selected_indices) + 1) * (element_count - 1)
<1> DEFINE n == element_count - 1
           d == Selecting!interval_count
           b == Selecting!base_step
           s == Selecting!step_remainder
           i == selected_index
           r == accumulated_remainder
           k == Len(selected_indices)
<1>1. /\ n \in Nat /\ d \in Nat \ {0} /\ i \in Nat /\ r \in Nat /\ k \in Nat
      /\ r < d /\ i * d + r = k * n /\ k + 1 < sample_count /\ sample_count = d + 1
      /\ selected_indices \in Seq(0 .. MaxSize)
  BY SamplingAssumption DEF SelectInv, Selecting!TypeOK, Accounted, Selecting!interval_count, Selecting!Step
<1>2. /\ b \in Nat /\ s \in 0 .. d - 1
      /\ n = b * d + s
  BY <1>1, Division DEF Selecting!base_step, Selecting!step_remainder
<1>3. /\ r >= d - s => /\ selected_index' = i + b + 1
                        /\ accumulated_remainder' = r - (d - s)
      /\ ~(r >= d - s) => /\ selected_index' = i + b
                           /\ accumulated_remainder' = r + s
  BY DEF Selecting!Step, Selecting!CarryRemainder, Selecting!KeepRemainder, Selecting!RemainderIsDue
<1> HIDE DEF n, d, b, s, i, r, k
<1>4. /\ (i + b) * d + (r + s) = (k + 1) * n
      /\ (i + b + 1) * d + (r - (d - s)) = (k + 1) * n
  BY <1>1, <1>2, IntervalIsAdded
<1>5. CASE r >= d - s
  <2>1. selected_index' = i + b + 1 /\ accumulated_remainder' = r - (d - s)
    BY <1>3, <1>5
  <2>2. r - (d - s) \in 0 .. d - 1 /\ i + b + 1 \in Nat
    BY <1>1, <1>2, <1>5
  <2>3. i + b + 1 <= n
    <3> DEFINE q == i + b + 1
               t == r - (d - s)
               j == k + 1
    <3>1. /\ q \in Nat /\ t \in Nat /\ j \in Nat /\ j <= d
          /\ q * d + t = j * n
      BY <2>2, <1>1, <1>4
    <3> HIDE DEF q, t, j
    <3>2. q <= n
      BY <3>1, <1>1, QuotientIsBounded
    <3> QED
      BY <3>2 DEF q
  <2>4. /\ selected_index' \in 0 .. n
        /\ accumulated_remainder' \in 0 .. d - 1
        /\ selected_index' * d + accumulated_remainder' = (k + 1) * n
    BY <2>1, <2>2, <2>3, <1>4, <1>1
  <2> QED
    BY <2>4 DEF n, d, k
<1>6. CASE ~(r >= d - s)
  <2>1. selected_index' = i + b /\ accumulated_remainder' = r + s
    BY <1>3, <1>6
  <2>2. r + s \in 0 .. d - 1 /\ i + b \in Nat
    BY <1>1, <1>2, <1>6
  <2>3. i + b <= n
    <3> DEFINE q == i + b
               t == r + s
               j == k + 1
    <3>1. /\ q \in Nat /\ t \in Nat /\ j \in Nat /\ j <= d
          /\ q * d + t = j * n
      BY <2>2, <1>1, <1>4
    <3> HIDE DEF q, t, j
    <3>2. q <= n
      BY <3>1, <1>1, QuotientIsBounded
    <3> QED
      BY <3>2 DEF q
  <2>4. /\ selected_index' \in 0 .. n
        /\ accumulated_remainder' \in 0 .. d - 1
        /\ selected_index' * d + accumulated_remainder' = (k + 1) * n
    BY <2>1, <2>2, <2>3, <1>4, <1>1
  <2> QED
    BY <2>4 DEF n, d, k
<1> QED
  BY <1>5, <1>6

\* Appending an element leaves the earlier ones and grows the length by one.
LEMMA AppendFacts ==
  ASSUME NEW S, NEW s \in Seq(S), NEW x \in S
  PROVE  /\ Append(s, x) \in Seq(S)
         /\ Len(Append(s, x)) = Len(s) + 1
         /\ \A k \in 1 .. Len(s) : Append(s, x)[k] = s[k]
         /\ Append(s, x)[Len(s) + 1] = x
  OBVIOUS

\* The type of the result and its elements, when one more is appended.
LEMMA AppendKeepsExact ==
  ASSUME SelectInv, sample_count > 1, ~returned,
         selected_indices' = Append(selected_indices, selected_index),
         UNCHANGED <<element_count, sample_count>>
  PROVE  /\ selected_indices' \in Seq(0 .. MaxSize)
         /\ Len(selected_indices') = Len(selected_indices) + 1
         /\ Selecting!IndicesAreExact'
<1>1. /\ selected_indices \in Seq(0 .. MaxSize) /\ selected_index \in 0 .. MaxSize
      /\ Len(selected_indices) \in Nat
  BY DEF SelectInv, Selecting!TypeOK
<1>2. /\ selected_indices' \in Seq(0 .. MaxSize)
      /\ Len(selected_indices') = Len(selected_indices) + 1
      /\ \A k \in 1 .. Len(selected_indices) : selected_indices'[k] = selected_indices[k]
      /\ selected_indices'[Len(selected_indices) + 1] = selected_index
  BY <1>1, AppendFacts
<1>3. selected_index = Selecting!EvenIndex(element_count, sample_count, Len(selected_indices))
  BY IndexIsQuotient
<1>4. ASSUME NEW k \in 1 .. Len(selected_indices) + 1
      PROVE  selected_indices'[k] = Selecting!EvenIndex(element_count, sample_count, k - 1)
  <2>1. CASE k \in 1 .. Len(selected_indices)
    BY <2>1, <1>2 DEF SelectInv, Selecting!IndicesAreExact
  <2>2. CASE k = Len(selected_indices) + 1
    <3>1. k - 1 = Len(selected_indices)
      BY <2>2, <1>1
    <3> QED
      BY <2>2, <3>1, <1>2, <1>3
  <2> QED
    BY <2>1, <2>2, <1>1
<1> QED
  BY <1>2, <1>4 DEF Selecting!IndicesAreExact

\* The selection of one element.
LEMMA SingletonFacts ==
  ASSUME NEW S, NEW x \in S, NEW s, s = <<x>>
  PROVE  s \in Seq(S) /\ Len(s) = 1 /\ s[1] = x
  OBVIOUS

\* What a call of the function begins with.
Fresh ==
  /\ element_count \in 1 .. MaxSize
  /\ sample_count \in 1 .. element_count
  /\ selected_indices = <<>>
  /\ selected_index = 0
  /\ accumulated_remainder = 0
  /\ returned = FALSE

LEMMA FreshIsSound == Fresh => SelectInv
<1> SUFFICES ASSUME Fresh
             PROVE  SelectInv
  OBVIOUS
<1>1. /\ element_count \in 1 .. MaxSize
      /\ sample_count \in 1 .. element_count
      /\ Len(selected_indices) = 0
      /\ selected_indices \in Seq(0 .. MaxSize)
      /\ selected_index = 0 /\ accumulated_remainder = 0 /\ returned = FALSE
  BY DEF Fresh
<1>2. Selecting!TypeOK
  <2>1. MaxSize \in Nat /\ 0 \in 0 .. MaxSize
    BY SamplingAssumption
  <2>2. returned \in BOOLEAN
    BY <1>1
  <2> QED
    BY <1>1, <2>1, <2>2 DEF Selecting!TypeOK
<1>3. Accounted
  <2>1. Selecting!interval_count \in Nat /\ element_count - 1 \in Nat
    BY <1>1, SamplingAssumption DEF Selecting!interval_count
  <2>2. selected_index * Selecting!interval_count + accumulated_remainder
          = Len(selected_indices) * (element_count - 1)
    BY <1>1, <2>1
  <2> QED
    BY <1>1, <2>1, <2>2, SamplingAssumption DEF Accounted, Selecting!interval_count
<1>4. Collected /\ Selecting!IndicesAreExact
  BY <1>1 DEF Fresh, Collected, Selecting!IndicesAreExact
<1> QED
  BY <1>2, <1>3, <1>4 DEF SelectInv

LEMMA PassIsSound == SelectInv /\ [Selecting!Next]_(Selecting!vars) => SelectInv'
<1> SUFFICES ASSUME SelectInv, [Selecting!Next]_(Selecting!vars)
             PROVE  SelectInv'
  OBVIOUS
<1>1. CASE Selecting!ReturnFirst
  <2>1. /\ selected_indices' = <<0>> /\ returned' = TRUE /\ sample_count = 1
        /\ UNCHANGED <<element_count, sample_count, selected_index, accumulated_remainder>>
    BY <1>1 DEF Selecting!ReturnFirst
  <2>2. /\ selected_indices' \in Seq(0 .. MaxSize) /\ Len(selected_indices') = 1
        /\ selected_indices'[1] = 0
    <3>1. 0 \in 0 .. MaxSize
      BY SamplingAssumption
    <3> QED
      BY <2>1, <3>1, SingletonFacts
  <2>3. Selecting!TypeOK'
    BY <2>1, <2>2 DEF SelectInv, Selecting!TypeOK
  <2>4. Accounted' /\ Collected'
    BY <2>1, <2>2 DEF Accounted, Collected
  <2>5. Selecting!IndicesAreExact'
    BY <2>1, <2>2 DEF Selecting!IndicesAreExact, Selecting!EvenIndex
  <2> QED
    BY <2>3, <2>4, <2>5 DEF SelectInv
<1>2. CASE Selecting!Step
  <2>1. /\ sample_count > 1 /\ ~returned /\ Len(selected_indices) + 1 < sample_count
        /\ selected_indices' = Append(selected_indices, selected_index)
        /\ UNCHANGED <<element_count, sample_count, returned>>
    BY <1>2 DEF Selecting!Step
  <2>2. /\ selected_indices' \in Seq(0 .. MaxSize)
        /\ Len(selected_indices') = Len(selected_indices) + 1
        /\ Selecting!IndicesAreExact'
    BY <2>1, AppendKeepsExact
  <2>3. /\ selected_index' \in 0 .. element_count - 1
        /\ accumulated_remainder' \in 0 .. Selecting!interval_count - 1
        /\ selected_index' * Selecting!interval_count + accumulated_remainder'
             = (Len(selected_indices) + 1) * (element_count - 1)
    BY <1>2, StepKeepsAccount
  <2>4. Selecting!TypeOK'
    BY <2>1, <2>2, <2>3, SamplingAssumption DEF SelectInv, Selecting!TypeOK, Selecting!interval_count
  <2>5. Accounted'
    <3>1. Selecting!interval_count' = Selecting!interval_count /\ element_count' - 1 = element_count - 1
      BY <2>1 DEF Selecting!interval_count
    <3>2. accumulated_remainder' < Selecting!interval_count /\ Len(selected_indices') < sample_count
      BY <2>1, <2>2, <2>3, SamplingAssumption DEF SelectInv, Selecting!TypeOK, Selecting!interval_count
    <3> QED
      BY <3>1, <3>2, <2>1, <2>2, <2>3 DEF Accounted
  <2>6. Collected'
    BY <2>1 DEF Collected, SelectInv, Selecting!TypeOK
  <2> QED
    BY <2>2, <2>4, <2>5, <2>6 DEF SelectInv
<1>3. CASE Selecting!LastStep
  <2>1. /\ sample_count > 1 /\ ~returned /\ Len(selected_indices) + 1 = sample_count
        /\ selected_indices' = Append(selected_indices, selected_index)
        /\ returned' = TRUE
        /\ UNCHANGED <<element_count, sample_count, selected_index, accumulated_remainder>>
    BY <1>3 DEF Selecting!LastStep
  <2>2. /\ selected_indices' \in Seq(0 .. MaxSize)
        /\ Len(selected_indices') = Len(selected_indices) + 1
        /\ Selecting!IndicesAreExact'
    BY <2>1, AppendKeepsExact
  <2>3. Selecting!TypeOK'
    BY <2>1, <2>2 DEF SelectInv, Selecting!TypeOK
  <2>4. Accounted' /\ Collected'
    BY <2>1, <2>2 DEF Accounted, Collected
  <2> QED
    BY <2>2, <2>3, <2>4 DEF SelectInv
<1>4. CASE UNCHANGED Selecting!vars
  BY <1>4 DEF Selecting!vars, SelectInv, Selecting!TypeOK, Accounted, Collected, Selecting!IndicesAreExact, Selecting!interval_count
<1> QED
  BY <1>1, <1>2, <1>3, <1>4 DEF Selecting!Next

-----------------------------------------------------------------------------
(* The promise *)

\* Samples that are at least one element apart have different indices.
LEMMA EvenIndexIncreases ==
  ASSUME NEW n \in Nat, NEW m \in 2 .. n, NEW j \in Nat, NEW k \in Nat, j < k
  PROVE  Selecting!EvenIndex(n, m, j) < Selecting!EvenIndex(n, m, k)
<1> DEFINE d == m - 1
           e == n - 1
           a == j * e
           b == k * e
           p == a \div d
           q == b \div d
<1>1. d \in Nat \ {0} /\ e \in Nat /\ d <= e /\ a \in Nat /\ b \in Nat
  OBVIOUS
<1>2. a + d <= b
  <2>1. a + e <= b
    BY <1>1, ProductGrows
  <2> QED
    BY <2>1, <1>1
<1>3. Selecting!EvenIndex(n, m, j) = p /\ Selecting!EvenIndex(n, m, k) = q
  BY DEF Selecting!EvenIndex
<1> HIDE DEF a, b, d, e
<1>4. /\ p \in Nat /\ q \in Nat
      /\ \E r \in 0 .. d - 1 : a = p * d + r
      /\ \E r \in 0 .. d - 1 : b = q * d + r
  BY <1>1, Division
<1> HIDE DEF p, q
<1>5. PICK r \in 0 .. d - 1, t \in 0 .. d - 1 : a = p * d + r /\ b = q * d + t
  BY <1>4
<1>6. SUFFICES ASSUME q <= p
               PROVE  FALSE
  BY <1>3, <1>4
<1>7. p * d \in Nat /\ q * d \in Nat
  BY <1>1, <1>4
<1>8. q * d <= p * d
  <2>1. CASE q = p
    BY <2>1, <1>7
  <2>2. CASE q < p
    <3>1. q * d + d <= p * d
      BY <2>2, <1>1, <1>4, ProductGrows
    <3> QED
      BY <3>1, <1>1, <1>7
  <2> QED
    BY <2>1, <2>2, <1>4, <1>6
<1> QED
  BY <1>1, <1>2, <1>5, <1>7, <1>8

\* No sample lies past the last element, and the last one is on it.
LEMMA EvenIndexIsBounded ==
  ASSUME NEW n \in Nat, NEW m \in 2 .. n, NEW k \in 0 .. m - 1
  PROVE  Selecting!EvenIndex(n, m, k) \in 0 .. n - 1
<1> DEFINE d == m - 1
           e == n - 1
           a == k * e
           q == a \div d
<1>1. d \in Nat \ {0} /\ e \in Nat /\ k \in Nat /\ k <= d /\ a \in Nat
  OBVIOUS
<1>2. Selecting!EvenIndex(n, m, k) = q
  BY DEF Selecting!EvenIndex
<1>3. q \in Nat /\ \E r \in Nat : q * d + r = a
  <2> HIDE DEF a, d, e
  <2>1. q \in Nat /\ a % d \in Nat /\ q * d + (a % d) = a
    BY <1>1, Division
  <2> QED
    BY <2>1
<1> HIDE DEF q, d
<1>4. q <= e
  <2> HIDE DEF e
  <2>1. PICK r \in Nat : q * d + r = k * e
    BY <1>3
  <2> QED
    BY <2>1, <1>1, <1>3, QuotientIsBounded
<1> QED
  BY <1>1, <1>2, <1>3, <1>4

LEMMA LastIndexIsLast ==
  ASSUME NEW n \in Nat, NEW m \in 2 .. n
  PROVE  Selecting!EvenIndex(n, m, m - 1) = n - 1
<1> DEFINE d == m - 1
           e == n - 1
           a == d * e
<1>1. d \in Nat \ {0} /\ e \in Nat
  OBVIOUS
<1>2. Selecting!EvenIndex(n, m, m - 1) = a \div d
  BY DEF Selecting!EvenIndex
<1> HIDE DEF d, e
<1>3. a \in Nat /\ a = e * d + 0
  BY <1>1
<1>4. a \div d = e
  BY <1>1, <1>3, QuotientIsUnique
<1> QED
  BY <1>2, <1>4 DEF e

\* The exact indices make a usable selection.
LEMMA ExactIsUsable == SelectInv => Selecting!SelectionIsUsable
<1> SUFFICES ASSUME SelectInv, returned
             PROVE  Selecting!SelectionIsUsable
  BY DEF Selecting!SelectionIsUsable
<1>1. /\ element_count \in Nat \ {0} /\ sample_count \in 1 .. element_count
      /\ Len(selected_indices) = sample_count
      /\ \A k \in 1 .. sample_count :
           selected_indices[k] = Selecting!EvenIndex(element_count, sample_count, k - 1)
  BY SamplingAssumption DEF SelectInv, Selecting!TypeOK, Collected, Selecting!IndicesAreExact
<1>2. selected_indices[1] = 0
  <2>1. 1 \in 1 .. sample_count /\ 1 - 1 = 0 /\ sample_count \in Nat \ {0}
    BY <1>1
  <2> QED
    BY <2>1, <1>1, FirstIsZero
<1>3. CASE sample_count = 1
  <2>1. \A k \in 1 .. sample_count : k = 1
    BY <1>3
  <2> QED
    BY <2>1, <1>1, <1>2, <1>3 DEF Selecting!SelectionIsUsable
<1>4. CASE sample_count # 1
  <2>1. sample_count \in 2 .. element_count
    BY <1>1, <1>4
  <2>2. ASSUME NEW k \in 1 .. sample_count
        PROVE  selected_indices[k] < element_count
    <3>1. k - 1 \in 0 .. sample_count - 1
      BY <1>1
    <3>2. Selecting!EvenIndex(element_count, sample_count, k - 1) \in 0 .. element_count - 1
      BY <3>1, <2>1, <1>1, EvenIndexIsBounded
    <3> QED
      BY <3>2, <1>1
  <2>3. ASSUME NEW j \in 1 .. sample_count, NEW k \in 1 .. sample_count, j < k
        PROVE  selected_indices[j] < selected_indices[k]
    <3>1. j - 1 \in Nat /\ k - 1 \in Nat /\ j - 1 < k - 1
      BY <1>1, <2>3
    <3>2. Selecting!EvenIndex(element_count, sample_count, j - 1)
            < Selecting!EvenIndex(element_count, sample_count, k - 1)
      BY <3>1, <2>1, <1>1, EvenIndexIncreases
    <3> QED
      BY <3>2, <1>1
  <2>4. selected_indices[sample_count] = element_count - 1
    <3>1. sample_count \in 1 .. sample_count
      BY <1>1
    <3> QED
      BY <3>1, <2>1, <1>1, LastIndexIsLast
  <2> QED
    BY <1>1, <1>2, <2>2, <2>3, <2>4 DEF Selecting!SelectionIsUsable
<1> QED
  BY <1>3, <1>4

-----------------------------------------------------------------------------
(* Staging *)

\* The files before position have been created by this run; the manifest is not
\* there before it has created all of them.
Staged ==
  /\ phase \notin {"select", "ended"} => returned
  /\ phase \in {"select", "prepare", "inspect", "validate"} => position = 1
  /\ phase = "create" =>
       \A j \in 1 .. position - 1 : images[selected_indices[j]] = Entry(run, TRUE)
  /\ phase \in {"inspect", "validate", "create"} => manifest = Absent
  /\ phase = "write" => manifest = [run |-> run, files |-> Selected, whole |-> FALSE]
  /\ status = 0 => phase = "ended"

StagingInv == TypeOK /\ SelectInv /\ Staged /\ ManifestNamesStagedFiles

\* A returned selection consists of files of the listing, the promised ones.
LEMMA SelectedIsPromised ==
  ASSUME SelectInv, returned
  PROVE  /\ Len(selected_indices) = sample_count
         /\ selected_indices \in [1 .. sample_count -> Files]
         /\ Selected \subseteq Files
         /\ Selected = {EvenIndex(element_count, sample_count, k) : k \in 0 .. sample_count - 1}
<1>1. /\ Len(selected_indices) = sample_count
      /\ sample_count \in Nat /\ element_count \in Nat
      /\ \A k \in 1 .. sample_count :
           /\ selected_indices[k] < element_count
           /\ selected_indices[k] = EvenIndex(element_count, sample_count, k - 1)
  <2>1. Selecting!SelectionIsUsable
    BY ExactIsUsable
  <2>2. sample_count \in Nat /\ element_count \in Nat
    BY SamplingAssumption DEF SelectInv, Selecting!TypeOK
  <2> QED
    BY <2>1, <2>2 DEF SelectInv, Selecting!SelectionIsUsable, Selecting!IndicesAreExact,
       Selecting!EvenIndex, EvenIndex
<1>2. selected_indices \in [1 .. sample_count -> Files]
  <2>1. selected_indices \in Seq(0 .. MaxSize) /\ MaxSize \in Nat
    BY SamplingAssumption DEF SelectInv, Selecting!TypeOK
  <2>2. selected_indices \in [1 .. sample_count -> 0 .. MaxSize]
    BY <1>1, <2>1
  <2>3. \A k \in 1 .. sample_count : selected_indices[k] \in Files
    BY <1>1, <2>1, <2>2 DEF Files
  <2> QED
    BY <2>2, <2>3
<1>3. Selected = {EvenIndex(element_count, sample_count, k) : k \in 0 .. sample_count - 1}
  <2>1. \A k \in 1 .. sample_count :
          /\ k - 1 \in 0 .. sample_count - 1
          /\ selected_indices[k] = EvenIndex(element_count, sample_count, k - 1)
    BY <1>1
  <2>2. \A k \in 0 .. sample_count - 1 :
          /\ k + 1 \in 1 .. sample_count
          /\ selected_indices[k + 1] = EvenIndex(element_count, sample_count, k)
    <3> TAKE k \in 0 .. sample_count - 1
    <3>1. k + 1 \in 1 .. sample_count /\ (k + 1) - 1 = k
      BY <1>1
    <3> QED
      BY <3>1, <1>1
  <2> QED
    BY <1>1, <2>1, <2>2 DEF Selected
<1>4. Selected \subseteq Files
  BY <1>1, <1>2 DEF Selected
<1> QED
  BY <1>1, <1>2, <1>3, <1>4

\* What is in the directory can be told from nothing.
LEMMA EntryFacts ==
  ASSUME NEW r \in 0 .. MaxRuns, NEW whole \in BOOLEAN
  PROVE  /\ Entry(r, whole) \in [run : 0 .. MaxRuns, whole : BOOLEAN]
         /\ Entry(r, whole) # Absent
  BY StagingAssumption DEF Entry

LEMMA OwnEntry ==
  ASSUME TypeOK
  PROVE  Entry(run, TRUE) # Absent
<1>1. run \in 0 .. MaxRuns /\ TRUE \in BOOLEAN
  BY StagingAssumption DEF TypeOK
<1> QED
  BY <1>1, EntryFacts

LEMMA ManifestFacts ==
  ASSUME NEW r \in 1 .. MaxRuns, NEW files \in SUBSET Files, NEW whole \in BOOLEAN,
         element_count \in Nat
  PROVE  /\ [run |-> r, files |-> files, whole |-> whole]
              \in [run : 1 .. MaxRuns, files : SUBSET Files, whole : BOOLEAN]
         /\ [run |-> r, files |-> files, whole |-> whole] # Absent
<1>1. files \in SUBSET Nat /\ r \in Nat
  BY StagingAssumption DEF Files
<1>2. [run |-> r, files |-> files, whole |-> whole]
        \in [run : 1 .. MaxRuns, files : SUBSET Files, whole : BOOLEAN]
  OBVIOUS
<1>3. [run |-> r, files |-> files, whole |-> whole]
        \in [run : Nat, files : SUBSET Nat, whole : BOOLEAN]
  BY <1>1
<1>4. Absent \notin [run : Nat, files : SUBSET Nat, whole : BOOLEAN]
  BY StagingAssumption
<1> QED
  BY <1>2, <1>3, <1>4

Images == [Files -> [run : 0 .. MaxRuns, whole : BOOLEAN] \cup {Absent}]

\* Creating an entry where there was none.
LEMMA EntryCreated ==
  ASSUME images \in Images, NEW f \in Files, images[f] = Absent,
         NEW r \in 0 .. MaxRuns, NEW whole \in BOOLEAN,
         images' = [images EXCEPT ![f] = Entry(r, whole)]
  PROVE  /\ images' \in Images
         /\ images'[f] = Entry(r, whole)
         /\ \A g \in Files : images[g] # Absent => images'[g] = images[g]
<1>1. Entry(r, whole) \in [run : 0 .. MaxRuns, whole : BOOLEAN]
  BY EntryFacts
<1> QED
  BY <1>1 DEF Images

\* No step replaces or removes an entry of the output directory.
LEMMA EntriesAreKept ==
  ASSUME TypeOK, SelectInv, Staged, [Next]_vars
  PROVE  /\ UNCHANGED element_count
         /\ images' \in Images
         /\ \A f \in Files : images[f] # Absent => images'[f] = images[f]
<1>1. /\ images \in Images
      /\ run \in 0 .. MaxRuns
  BY StagingAssumption DEF TypeOK, Images
<1>2. ASSUME phase = "create", position <= sample_count
      PROVE  NextFile \in Files
  <2>1. selected_indices \in [1 .. sample_count -> Files]
    BY <1>2, SelectedIsPromised DEF Staged
  <2>2. position \in 1 .. sample_count
    BY <1>2, SamplingAssumption DEF TypeOK, Selecting!TypeOK
  <2> QED
    BY <2>1, <2>2 DEF NextFile
<1>3. CASE UNCHANGED images
  <2>1. UNCHANGED element_count
    BY DEF Next, Program, Surroundings, SelectIndices, Selecting!Next, Selecting!ReturnFirst,
       Selecting!Step, Selecting!LastStep, PrepareOutput, RefuseOutput, InspectImages,
       ValidateSources, RefuseSources, CreateFile, CreateFileFails, OpenManifest,
       WriteManifest, StepFails, Killed, RunAgain, SourceRemoved, EntryAppears, sampling, vars
  <2> QED
    BY <1>1, <1>3, <2>1
<1>4. CASE CreateFile
  <2>1. /\ phase = "create" /\ position <= sample_count
        /\ images[NextFile] = Absent
        /\ images' = [images EXCEPT ![NextFile] = Entry(run, TRUE)]
        /\ UNCHANGED element_count
    BY <1>4 DEF CreateFile, CreateExclusively, sampling
  <2> QED
    BY <1>1, <1>2, <2>1, EntryCreated
<1>5. CASE CreateFileFails
  <2>1. /\ phase = "create" /\ position <= sample_count
        /\ \/ UNCHANGED images
           \/ /\ images[NextFile] = Absent
              /\ images' = [images EXCEPT ![NextFile] = Entry(run, FALSE)]
        /\ UNCHANGED element_count
    BY <1>5 DEF CreateFileFails, CreateExclusively, sampling
  <2> QED
    BY <1>1, <1>2, <1>3, <2>1, EntryCreated
<1>6. CASE EntryAppears
  <2>1. /\ \E f \in Files : /\ images[f] = Absent
                            /\ images' = [images EXCEPT ![f] = Entry(0, TRUE)]
        /\ UNCHANGED element_count
    BY <1>6 DEF EntryAppears, sampling
  <2>2. 0 \in 0 .. MaxRuns
    BY StagingAssumption
  <2> QED
    BY <1>1, <2>1, <2>2, EntryCreated
<1>7. UNCHANGED images \/ CreateFile \/ CreateFileFails \/ EntryAppears
  BY DEF Next, Program, Surroundings, SelectIndices, PrepareOutput, RefuseOutput, InspectImages,
     ValidateSources, RefuseSources, OpenManifest, WriteManifest, StepFails, Killed, RunAgain,
     SourceRemoved, directory, vars
<1> QED
  BY <1>3, <1>4, <1>5, <1>6, <1>7

\* The choice of the indices stays sound; another run begins it anew.
LEMMA ChoiceIsSound ==
  ASSUME TypeOK, SelectInv, Staged, [Next]_vars, (Fresh => SelectInv)'
  PROVE  SelectInv'
<1>1. CASE SelectIndices
  BY <1>1, PassIsSound DEF SelectIndices
<1>2. CASE RunAgain
  <2>1. Fresh'
    <3>1. /\ element_count' = element_count /\ element_count \in 1 .. MaxSize
          /\ sample_count' \in {Limited(element_count, m) : m \in SampleCounts}
          /\ selected_indices' = <<>> /\ selected_index' = 0
          /\ accumulated_remainder' = 0 /\ returned' = FALSE
      BY <1>2 DEF RunAgain, SelectInv, Selecting!TypeOK
    <3>2. sample_count' \in 1 .. element_count
      BY <3>1, SamplingAssumption DEF Limited
    <3> QED
      BY <3>1, <3>2 DEF Fresh
  <2> QED
    BY <2>1
<1>3. CASE UNCHANGED sampling
  <2>1. UNCHANGED Selecting!vars
    BY <1>3 DEF sampling, Selecting!vars
  <2> QED
    BY <2>1, PassIsSound
<1>4. SelectIndices \/ RunAgain \/ UNCHANGED sampling
  BY DEF Next, Program, Surroundings, PrepareOutput, RefuseOutput, InspectImages, ValidateSources,
     RefuseSources, CreateFile, CreateFileFails, OpenManifest, WriteManifest, StepFails, Killed,
     SourceRemoved, EntryAppears, vars
<1> QED
  BY <1>1, <1>2, <1>3, <1>4

\* What changes the manifest: opening it where there is none, and completing the
\* one this run has opened.
LEMMA ManifestSteps ==
  ASSUME TypeOK, SelectInv, Staged, [Next]_vars
  PROVE  \/ UNCHANGED manifest
         \/ /\ OpenManifest /\ manifest = Absent /\ returned /\ position = sample_count + 1
            /\ manifest' = [run |-> run, files |-> Selected, whole |-> FALSE]
         \/ /\ WriteManifest /\ returned
            /\ manifest  = [run |-> run, files |-> Selected, whole |-> FALSE]
            /\ manifest' = [run |-> run, files |-> Selected, whole |-> TRUE]
<1>1. CASE OpenManifest
  <2>1. position > sample_count /\ position \in 1 .. sample_count + 1 /\ sample_count \in Nat
    BY <1>1, SamplingAssumption DEF OpenManifest, FilesAreCreated, TypeOK, Selecting!TypeOK
  <2> QED
    BY <1>1, <2>1 DEF OpenManifest, Staged
<1>2. CASE WriteManifest
  <2>1. /\ returned
        /\ manifest  = [run |-> run, files |-> Selected, whole |-> FALSE]
        /\ manifest' = [manifest EXCEPT !.whole = TRUE]
    BY <1>2 DEF WriteManifest, Staged
  <2>2. manifest' = [run |-> run, files |-> Selected, whole |-> TRUE]
    BY <2>1
  <2> QED
    BY <1>2, <2>1, <2>2
<1>3. UNCHANGED manifest \/ OpenManifest \/ WriteManifest
  BY DEF Next, Program, Surroundings, SelectIndices, PrepareOutput, RefuseOutput, InspectImages,
     ValidateSources, RefuseSources, CreateFile, CreateFileFails, StepFails, Killed, RunAgain,
     SourceRemoved, EntryAppears, directory, vars
<1> QED
  BY <1>1, <1>2, <1>3

LEMMA TypesAreKept ==
  ASSUME TypeOK, SelectInv, Staged, [Next]_vars, SelectInv'
  PROVE  TypeOK'
<1>1. UNCHANGED element_count /\ images' \in Images /\ Files' = Files
  BY EntriesAreKept DEF Files
<1>2. /\ phase' \in {"select", "prepare", "inspect", "validate", "create", "write", "ended"}
      /\ status' \in {Absent, -1, 0, 1}
      /\ mode' \in {"symlink", "copy"}
      /\ sources' \subseteq Files
  BY DEF TypeOK, Next, Program, Surroundings, SelectIndices, PrepareOutput, RefuseOutput,
     InspectImages, ValidateSources, RefuseSources, CreateFile, CreateFileFails, OpenManifest,
     WriteManifest, StepFails, Killed, RunAgain, SourceRemoved, EntryAppears, End, vars
<1>3. run' \in 1 .. MaxRuns
  <2>1. run' = run \/ (run < MaxRuns /\ run' = run + 1)
    BY DEF Next, Program, Surroundings, SelectIndices, PrepareOutput, RefuseOutput,
       InspectImages, ValidateSources, RefuseSources, CreateFile, CreateFileFails, OpenManifest,
       WriteManifest, StepFails, Killed, RunAgain, SourceRemoved, EntryAppears, vars
  <2> QED
    BY <2>1, StagingAssumption DEF TypeOK
<1>4. position' \in 1 .. sample_count' + 1
  <2>1. \/ position' = 1
        \/ position' = position /\ sample_count' = sample_count
        \/ position <= sample_count /\ position' = position + 1 /\ sample_count' = sample_count
    BY DEF Next, Program, Surroundings, SelectIndices, Selecting!Next, Selecting!ReturnFirst,
       Selecting!Step, Selecting!LastStep, PrepareOutput, RefuseOutput,
       InspectImages, ValidateSources, RefuseSources, CreateFile, CreateFileFails, OpenManifest,
       WriteManifest, StepFails, Killed, RunAgain, SourceRemoved, EntryAppears, sampling, vars
  <2>2. sample_count' \in Nat /\ sample_count \in Nat
    BY SamplingAssumption DEF SelectInv, Selecting!TypeOK
  <2> QED
    BY <2>1, <2>2 DEF TypeOK
<1>5. manifest' \in [run : 1 .. MaxRuns, files : SUBSET Files, whole : BOOLEAN] \cup {Absent}
  <2>1. run \in 1 .. MaxRuns /\ element_count \in Nat
    BY SamplingAssumption DEF TypeOK, Selecting!TypeOK
  <2>2. returned => Selected \subseteq Files
    BY SelectedIsPromised
  <2>3. \A whole \in BOOLEAN : returned =>
          [run |-> run, files |-> Selected, whole |-> whole]
            \in [run : 1 .. MaxRuns, files : SUBSET Files, whole : BOOLEAN]
    BY <2>1, <2>2, ManifestFacts
  <2>4. \/ UNCHANGED manifest
        \/ returned /\ \E whole \in BOOLEAN :
             manifest' = [run |-> run, files |-> Selected, whole |-> whole]
    BY ManifestSteps
  <2> QED
    BY <2>3, <2>4 DEF TypeOK
<1>6. Selecting!TypeOK'
  BY DEF SelectInv
<1>7. /\ (sources \subseteq Files)'
      /\ (images \in [Files -> [run : 0 .. MaxRuns, whole : BOOLEAN] \cup {Absent}])'
      /\ (manifest \in [run : 1 .. MaxRuns, files : SUBSET Files, whole : BOOLEAN] \cup {Absent})'
  BY <1>1, <1>2, <1>5 DEF Images
<1> HIDE DEF Files
<1> QED
  BY <1>2, <1>3, <1>4, <1>6, <1>7 DEF TypeOK

\* Which files are staged, and what is known of the manifest meanwhile.
LEMMA StagedIsKept ==
  ASSUME TypeOK, SelectInv, Staged, [Next]_vars, SelectInv'
  PROVE  Staged'
<1>1. CASE SelectIndices
  BY <1>1, StagingAssumption DEF SelectIndices, Staged, TypeOK
<1>2. CASE PrepareOutput
  BY <1>2 DEF PrepareOutput, OutputIsUsable, Staged, sampling, directory
<1>3. CASE InspectImages \/ RefuseOutput
  BY <1>3 DEF InspectImages, RefuseOutput, End, Staged, sampling, directory
<1>4. CASE ValidateSources
  <2>1. /\ phase = "validate" /\ phase' = "create" /\ position' = 1
        /\ UNCHANGED <<sampling, run, status, images, manifest>>
    BY <1>4 DEF ValidateSources, Staged, directory
  <2>2. 1 .. position' - 1 = {}
    BY <2>1
  <2> QED
    BY <2>1, <2>2 DEF Staged, sampling
<1>5. CASE RefuseSources \/ StepFails \/ Killed
  BY <1>5 DEF RefuseSources, StepFails, Killed, End, Staged, sampling, directory
<1>6. CASE CreateFile
  <2>1. /\ phase = "create" /\ phase' = "create" /\ position <= sample_count
        /\ position' = position + 1 /\ images[NextFile] = Absent
        /\ images' = [images EXCEPT ![NextFile] = Entry(run, TRUE)]
        /\ UNCHANGED <<sampling, run, status, manifest>>
    BY <1>6 DEF CreateFile, CreateExclusively
  <2>2. /\ position \in 1 .. sample_count /\ sample_count \in Nat
        /\ selected_indices \in [1 .. sample_count -> Files]
    BY <2>1, SelectedIsPromised, SamplingAssumption DEF Staged, TypeOK, Selecting!TypeOK
  <2>3. ASSUME NEW j \in 1 .. position
        PROVE  images'[selected_indices[j]] = Entry(run, TRUE)
    <3>1. CASE j = position
      <4>1. NextFile \in Files
        BY <2>2 DEF NextFile
      <4> QED
        BY <2>1, <3>1, <4>1 DEF NextFile, TypeOK
    <3>2. CASE j # position
      <4>1. j \in 1 .. position - 1 /\ selected_indices[j] \in Files
        BY <2>2, <3>2
      <4>2. images[selected_indices[j]] = Entry(run, TRUE)
        BY <2>1, <4>1 DEF Staged
      <4>3. images[selected_indices[j]] # Absent
        BY <4>2, OwnEntry
      <4> QED
        BY <4>1, <4>2, <4>3, EntriesAreKept
    <3> QED
      BY <3>1, <3>2
  <2>4. position' - 1 = position
    BY <2>1, <2>2
  <2> QED
    BY <2>1, <2>3, <2>4 DEF Staged, sampling
<1>7. CASE CreateFileFails
  BY <1>7 DEF CreateFileFails, End, Staged, sampling
<1>8. CASE OpenManifest
  BY <1>8 DEF OpenManifest, Staged, Selected, sampling
<1>9. CASE WriteManifest
  BY <1>9 DEF WriteManifest, End, Staged, sampling
<1>10. CASE RunAgain
  BY <1>10, StagingAssumption DEF RunAgain, Staged, directory
<1>11. CASE SourceRemoved
  BY <1>11 DEF SourceRemoved, Staged, Selected, sampling, directory
<1>12. CASE EntryAppears
  <2>1. UNCHANGED <<sampling, phase, run, status, position, manifest>>
    BY <1>12 DEF EntryAppears
  <2>2. ASSUME phase = "create", NEW j \in 1 .. position - 1
        PROVE  images'[selected_indices[j]] = Entry(run, TRUE)
    <3>1. images[selected_indices[j]] = Entry(run, TRUE)
      BY <2>2 DEF Staged
    <3>2. images[selected_indices[j]] # Absent
      BY <3>1, OwnEntry
    <3>3. selected_indices[j] \in Files
      <4>1. j \in 1 .. sample_count /\ selected_indices \in [1 .. sample_count -> Files]
        BY <2>2, SelectedIsPromised, SamplingAssumption DEF Staged, TypeOK, Selecting!TypeOK
      <4> QED
        BY <4>1
    <3> QED
      BY <3>1, <3>2, <3>3, EntriesAreKept
  <2> QED
    BY <2>1, <2>2 DEF Staged, Selected, sampling
<1>13. CASE UNCHANGED vars
  BY <1>13 DEF vars, Staged, Selected, sampling, directory
<1> QED
  BY <1>1, <1>2, <1>3, <1>4, <1>5, <1>6, <1>7, <1>8, <1>9, <1>10, <1>11, <1>12, <1>13
     DEF Next, Program, Surroundings

LEMMA ManifestIsKept ==
  ASSUME TypeOK, SelectInv, Staged, ManifestNamesStagedFiles, [Next]_vars
  PROVE  ManifestNamesStagedFiles'
<1>1. ASSUME manifest' # Absent, NEW f \in manifest'.files
      PROVE  images'[f] = Entry(manifest'.run, TRUE)
  <2>1. CASE UNCHANGED manifest
    <3>1. f \in Files /\ manifest.run \in 0 .. MaxRuns
      BY <1>1, <2>1, StagingAssumption DEF TypeOK
    <3>2. images[f] = Entry(manifest.run, TRUE)
      BY <1>1, <2>1 DEF ManifestNamesStagedFiles
    <3>3. images[f] # Absent
      BY <3>1, <3>2, EntryFacts
    <3> QED
      BY <2>1, <3>1, <3>2, <3>3, EntriesAreKept
  <2>2. CASE /\ OpenManifest /\ returned /\ position = sample_count + 1
             /\ manifest' = [run |-> run, files |-> Selected, whole |-> FALSE]
    <3>1. f \in Selected /\ manifest'.run = run /\ UNCHANGED images /\ phase = "create"
      BY <1>1, <2>2 DEF OpenManifest
    <3>2. /\ Len(selected_indices) = sample_count
          /\ position - 1 = sample_count
      BY <2>2, SelectedIsPromised, SamplingAssumption DEF TypeOK, Selecting!TypeOK
    <3>3. \A j \in 1 .. sample_count : images[selected_indices[j]] = Entry(run, TRUE)
      BY <3>1, <3>2 DEF Staged
    <3> QED
      BY <3>1, <3>2, <3>3 DEF Selected
  <2>3. CASE /\ WriteManifest
             /\ manifest  = [run |-> run, files |-> Selected, whole |-> FALSE]
             /\ manifest' = [run |-> run, files |-> Selected, whole |-> TRUE]
    <3>1. /\ f \in manifest.files /\ manifest'.run = manifest.run
          /\ UNCHANGED images /\ run \in 1 .. MaxRuns /\ element_count \in Nat
      BY <1>1, <2>3, SamplingAssumption DEF WriteManifest, TypeOK, Selecting!TypeOK
    <3>2. manifest # Absent
      <4>1. Selected \subseteq Files
        BY <2>3, SelectedIsPromised DEF WriteManifest, Staged
      <4> QED
        BY <2>3, <3>1, <4>1, ManifestFacts
    <3> QED
      BY <3>1, <3>2 DEF ManifestNamesStagedFiles
  <2> QED
    BY <2>1, <2>2, <2>3, ManifestSteps
<1>2. ASSUME status' = 0
      PROVE  /\ manifest' = [run |-> run', files |-> Selected', whole |-> TRUE]
             /\ Selected' = {EvenIndex(element_count', sample_count', k) :
                               k \in 0 .. sample_count' - 1}
  <2>1. CASE WriteManifest
    <3>1. /\ manifest' = [run |-> run, files |-> Selected, whole |-> TRUE]
          /\ Selected' = Selected /\ returned
          /\ UNCHANGED <<run, element_count, sample_count>>
      <4>1. /\ manifest = [run |-> run, files |-> Selected, whole |-> FALSE] /\ returned
            /\ manifest' = [manifest EXCEPT !.whole = TRUE]
            /\ UNCHANGED <<run, element_count, sample_count, selected_indices>>
        BY <2>1 DEF WriteManifest, Staged, sampling
      <4>2. manifest' = [run |-> run, files |-> Selected, whole |-> TRUE]
        BY <4>1
      <4>3. Selected' = Selected
        BY <4>1 DEF Selected
      <4> HIDE DEF Selected
      <4> QED
        BY <4>1, <4>2, <4>3
    <3>2. Selected = {EvenIndex(element_count, sample_count, k) : k \in 0 .. sample_count - 1}
      BY <3>1, SelectedIsPromised
    <3> QED
      BY <3>1, <3>2
  <2>2. CASE ~WriteManifest
    <3>1. status = 0 /\ UNCHANGED <<sampling, run>>
      <4>1. UNCHANGED status \/ status' \in {1, -1, Absent}
        BY <2>2 DEF Next, Program, Surroundings, SelectIndices,
           PrepareOutput, RefuseOutput, InspectImages, ValidateSources, RefuseSources, CreateFile,
           CreateFileFails, OpenManifest, StepFails, Killed, RunAgain, SourceRemoved,
           EntryAppears, End, vars
      <4>2. status = 0
        BY <1>2, <4>1, StagingAssumption
      <4>3. phase = "ended"
        BY <4>2 DEF Staged
      <4>4. ~RunAgain
        BY <1>2, StagingAssumption DEF RunAgain
      <4>5. ~SelectIndices
        BY <4>3 DEF SelectIndices
      <4>6. UNCHANGED <<sampling, run>>
        BY <4>4, <4>5 DEF Next, Program, Surroundings,
           PrepareOutput, RefuseOutput, InspectImages, ValidateSources, RefuseSources, CreateFile,
           CreateFileFails, OpenManifest, WriteManifest, StepFails, Killed, SourceRemoved,
           EntryAppears, vars
      <4> QED
        BY <4>2, <4>6
    <3>2. UNCHANGED manifest
      <4>1. phase = "ended"
        BY <3>1 DEF Staged
      <4>2. ~OpenManifest
        BY <4>1 DEF OpenManifest
      <4> QED
        BY <4>2, <2>2, ManifestSteps
    <3> QED
      BY <3>1, <3>2 DEF ManifestNamesStagedFiles, Selected, sampling
  <2> QED
    BY <2>1, <2>2
<1> QED
  BY <1>1, <1>2 DEF ManifestNamesStagedFiles

LEMMA StagingInvariance == Spec => []StagingInv
<1>1. Init => StagingInv
  <2> SUFFICES ASSUME Init
               PROVE  StagingInv
    OBVIOUS
  <2>1. Fresh
    BY SamplingAssumption DEF Init, Selecting!Init, Selecting!Limited, Fresh
  <2>2. SelectInv
    BY <2>1, FreshIsSound
  <2>3. TypeOK
    <3>1. run \in 1 .. MaxRuns /\ position \in 1 .. sample_count + 1
      BY <2>1, StagingAssumption, SamplingAssumption DEF Init, Fresh
    <3> QED
      BY <2>2, <3>1 DEF Init, TypeOK, SelectInv
  <2>4. Staged /\ ManifestNamesStagedFiles
    BY StagingAssumption DEF Init, Staged, ManifestNamesStagedFiles
  <2> QED
    BY <2>2, <2>3, <2>4 DEF StagingInv
<1>2. StagingInv /\ [Next]_vars /\ (Fresh => SelectInv)' => StagingInv'
  BY ChoiceIsSound, TypesAreKept, StagedIsKept, ManifestIsKept DEF StagingInv
<1>3. Fresh => SelectInv
  BY FreshIsSound
<1> QED
  BY <1>1, <1>2, <1>3, PTL DEF Spec

-----------------------------------------------------------------------------
(* The theorems *)

\* No index and no remainder that exists between two passes of the loop in
\* sampling.cpp exceeds size_t, for every width of it, and what the program
\* leaves in the directory is what the model says it can be.
THEOREM StagingTypeCorrect == Spec => []TypeOK
  BY StagingInvariance, PTL DEF StagingInv

\* For every element count and every sample count, in every run on the directory:
\* the indices SelectEvenlySpacedIndices returns are the promised quotients, in
\* strictly increasing order, within the elements, from the first to the last.
THEOREM SelectsExactly == Spec => []SelectionIsExact
<1>1. StagingInv => SelectionIsExact
  BY ExactIsUsable
     DEF StagingInv, SelectInv, SelectionIsExact, Selecting!SelectionIsExact
<1> QED
  BY <1>1, StagingInvariance, PTL

\* However often the program is run or killed, whatever appears in the directory
\* or disappears from the sources: a manifest names only files that its own run
\* has created and completed, and success means the promised selection.
THEOREM ManifestIsTruthful == Spec => []ManifestNamesStagedFiles
  BY StagingInvariance, PTL DEF StagingInv

\* No run ever replaces or removes an image, or the manifest of an earlier run.
THEOREM NothingIsReplaced == Spec => EarlierOutputIsKept
<1>1. StagingInv /\ [Next]_vars =>
        [/\ \A f \in Entries : images'[f] = images[f]
         /\ (manifest # Absent /\ manifest.run # run) => manifest' = manifest]_directory
  <2> SUFFICES ASSUME StagingInv, [Next]_vars
               PROVE  /\ \A f \in Entries : images'[f] = images[f]
                      /\ (manifest # Absent /\ manifest.run # run) => manifest' = manifest
    OBVIOUS
  <2>1. \A f \in Entries : images'[f] = images[f]
    BY EntriesAreKept DEF StagingInv, Entries, TypeOK
  <2>2. ASSUME manifest # Absent, manifest.run # run
        PROVE  manifest' = manifest
    BY <2>2, ManifestSteps DEF StagingInv
  <2> QED
    BY <2>1, <2>2
<1> QED
  BY <1>1, StagingInvariance, PTL DEF Spec, EarlierOutputIsKept
=============================================================================
