-------------------------- MODULE Histogram_proofs --------------------------
(***************************************************************************)
(* Theorems about the execution histogram, for any number of CPUs and any  *)
(* set of times below 2^32: bpf_log2 is exact (Log2Exact), the buckets     *)
(* agree with the total in every value that is counted, copied or reported *)
(* (AgreeInv), and a reading never falls behind the one before it, since   *)
(* all that a CPU counts it counts on (ReadInv).                           *)
(***************************************************************************)
EXTENDS Histogram, Sums_proofs

-----------------------------------------------------------------------------
(* bpf_log2.                                                               *)

(* m is the position of the highest one of v, 0 when there is none.        *)
IsTop(v, m) == IF v = {} THEN m = 0 ELSE m \in v /\ \A b \in v : b <= m

(* One halving: what is left has half the width, and its highest one is    *)
(* that of v, as many positions lower as the shift.                        *)
LEMMA Halving ==
  ASSUME NEW n \in Nat, NEW v \in SUBSET (0 .. 2 * n - 1),
         NEW s, s = Log2Shift(v, n), NEW w, w = ShiftRight(v, s)
  PROVE  /\ s \in Nat /\ w \in SUBSET (0 .. n - 1)
         /\ \A m \in Nat : IsTop(w, m) => IsTop(v, s + m)
<1>1. CASE \E b \in v : b >= n
  <2>1. s = n /\ w = {b - n : b \in {x \in v : x >= n}}
    BY <1>1 DEF Log2Shift, Exceeds, ShiftRight
  <2>2. w \in SUBSET (0 .. n - 1) /\ w # {} /\ v # {}
    BY <1>1, <2>1
  <2>3. ASSUME NEW m \in Nat, IsTop(w, m)
        PROVE  IsTop(v, s + m)
    <3>1. m \in w /\ \A x \in w : x <= m
      BY <2>2, <2>3 DEF IsTop
    <3>2. s + m \in v
      BY <2>1, <3>1
    <3>3. ASSUME NEW b \in v PROVE b <= s + m
      <4>1. CASE b >= n
        <5>1. b - n \in w
          BY <2>1, <4>1
        <5> QED
          BY <2>1, <3>1, <5>1
      <4>2. CASE ~(b >= n)
        BY <2>1, <4>2
      <4> QED
        BY <4>1, <4>2
    <3> QED
      BY <2>2, <3>2, <3>3 DEF IsTop
  <2> QED
    BY <2>1, <2>2, <2>3
<1>2. CASE ~(\E b \in v : b >= n)
  <2>1. s = 0
    BY <1>2 DEF Log2Shift, Exceeds
  <2>2. w = v
    <3>1. w = {b - 0 : b \in {x \in v : x >= 0}}
      BY <2>1 DEF ShiftRight
    <3>2. \A b \in v : b - 0 = b /\ b >= 0
      OBVIOUS
    <3> QED
      BY <3>1, <3>2
  <2>3. w \in SUBSET (0 .. n - 1)
    BY <1>2, <2>2
  <2>4. ASSUME NEW m \in Nat, IsTop(w, m)
        PROVE  IsTop(v, s + m)
    <3>1. s + m = m
      BY <2>1
    <3> QED
      BY <2>2, <2>4, <3>1
  <2> QED
    BY <2>1, <2>3, <2>4
<1> QED
  BY <1>1, <1>2

(***************************************************************************)
(* bpf_log2 (packet/c/cap.c) finds the highest one of any value of 32      *)
(* bits.                                                                   *)
(***************************************************************************)
THEOREM Log2Exact ==
  ASSUME NEW v \in SUBSET (0 .. 31)
  PROVE  bpf_log2(v) \in 0 .. 31 /\ IsTop(v, bpf_log2(v))
<1>1. PICK s16, v16, s8, v8, s4, v4, s2, v2 :
        /\ s16 = Log2Shift(v, 16) /\ v16 = ShiftRight(v, s16)
        /\ s8 = Log2Shift(v16, 8) /\ v8 = ShiftRight(v16, s8)
        /\ s4 = Log2Shift(v8, 4) /\ v4 = ShiftRight(v8, s4)
        /\ s2 = Log2Shift(v4, 2) /\ v2 = ShiftRight(v4, s2)
  OBVIOUS
<1> DEFINE s1 == IF 1 \in v2 THEN 1 ELSE 0
<1>2. bpf_log2(v) = s16 + s8 + s4 + s2 + s1
  BY <1>1 DEF bpf_log2
<1>3. /\ 16 \in Nat /\ 2 * 16 - 1 = 31 /\ 16 - 1 = 15
      /\ 8 \in Nat /\ 2 * 8 - 1 = 15 /\ 8 - 1 = 7
      /\ 4 \in Nat /\ 2 * 4 - 1 = 7 /\ 4 - 1 = 3
      /\ 2 \in Nat /\ 2 * 2 - 1 = 3 /\ 2 - 1 = 1
  OBVIOUS
<1>4. /\ s16 \in Nat /\ v16 \in SUBSET (0 .. 15)
      /\ \A m \in Nat : IsTop(v16, m) => IsTop(v, s16 + m)
  BY <1>1, <1>3, Halving
<1>5. /\ s8 \in Nat /\ v8 \in SUBSET (0 .. 7)
      /\ \A m \in Nat : IsTop(v8, m) => IsTop(v16, s8 + m)
  BY <1>1, <1>3, <1>4, Halving
<1>6. /\ s4 \in Nat /\ v4 \in SUBSET (0 .. 3)
      /\ \A m \in Nat : IsTop(v4, m) => IsTop(v8, s4 + m)
  BY <1>1, <1>3, <1>5, Halving
<1>7. /\ s2 \in Nat /\ v2 \in SUBSET (0 .. 1)
      /\ \A m \in Nat : IsTop(v2, m) => IsTop(v4, s2 + m)
  BY <1>1, <1>3, <1>6, Halving
<1>8. s1 \in Nat /\ IsTop(v2, s1)
  BY <1>7 DEF IsTop
<1> HIDE DEF s1
<1>9. /\ s2 + s1 \in Nat /\ s4 + (s2 + s1) \in Nat /\ s8 + (s4 + (s2 + s1)) \in Nat
      /\ s16 + (s8 + (s4 + (s2 + s1))) = s16 + s8 + s4 + s2 + s1
  BY <1>4, <1>5, <1>6, <1>7, <1>8
<1>10. IsTop(v4, s2 + s1)
  BY <1>7, <1>8
<1>11. IsTop(v8, s4 + (s2 + s1))
  BY <1>6, <1>9, <1>10
<1>12. IsTop(v16, s8 + (s4 + (s2 + s1)))
  BY <1>5, <1>9, <1>11
<1>13. IsTop(v, s16 + (s8 + (s4 + (s2 + s1))))
  BY <1>4, <1>9, <1>12
<1>14. IsTop(v, bpf_log2(v))
  BY <1>2, <1>9, <1>13
<1>15. bpf_log2(v) \in 0 .. 31
  <2>1. CASE v = {}
    BY <1>14, <2>1 DEF IsTop
  <2>2. CASE v # {}
    BY <1>14, <2>2 DEF IsTop
  <2> QED
    BY <2>1, <2>2
<1> QED
  BY <1>14, <1>15

(* The bucket of a time is at most n exactly when the time is below        *)
(* 2^(n + 1), the bound that Write reports for bucket n.                   *)
LEMMA BucketIsBelow ==
  ASSUME NEW d \in Durations
  PROVE  /\ bucket_index(d) \in BucketIndices
         /\ \A n \in 0 .. BoundCount - 1 : bucket_index(d) \in 0 .. n <=> ~Exceeds(d, n + 1)
<1>1. d \in SUBSET (0 .. 31) /\ Uint32(d) = d
  BY DurationsAssumption DEF Uint32
<1>2. bpf_log2(d) \in 0 .. 31 /\ IsTop(d, bpf_log2(d))
  BY <1>1, Log2Exact
<1>3. bucket_index(d) = bpf_log2(d)
  BY <1>1, <1>2 DEF bucket_index, BUCKET_COUNT
<1>4. ASSUME NEW n \in 0 .. BoundCount - 1
      PROVE  bpf_log2(d) \in 0 .. n <=> ~Exceeds(d, n + 1)
  <2>1. n \in Nat
    BY DEF BoundCount
  <2>2. CASE d = {}
    BY <1>2, <2>1, <2>2 DEF IsTop, Exceeds
  <2>3. CASE d # {}
    <3>1. bpf_log2(d) \in d /\ \A b \in d : b <= bpf_log2(d)
      BY <1>2, <2>3 DEF IsTop
    <3> QED
      BY <1>1, <1>2, <2>1, <3>1 DEF Exceeds
  <2> QED
    BY <2>2, <2>3
<1> QED
  BY <1>2, <1>3, <1>4 DEF BucketIndices, BUCKET_COUNT

-----------------------------------------------------------------------------
(* A value of the histogram agrees with itself.                            *)

Sum(f, S) == SumFunctionOnSet(f, S)

Times     == [Durations -> Nat]
Snapshots == [Total : Times, Buckets : [BucketIndices -> Nat]]

(* The times of one bucket.                                                *)
Class(i) == {d \in Durations : bucket_index(d) = i}

(* The buckets count the terms of the total, but for those in t.           *)
Agrees(s, t) ==
  /\ PartOf(t, s.Total)
  /\ \A i \in BucketIndices : s.Buckets[i] + Sum(t, Class(i)) = Sum(s.Total, Class(i))

LEMMA DurationsFinite ==
  IsFiniteSet(Durations) /\ \A i : IsFiniteSet(Class(i)) /\ Class(i) \in SUBSET Durations
<1>1. IsFiniteSet(0 .. 31)
  <2>1. 0 \in Int /\ 31 \in Int
    OBVIOUS
  <2> QED
    BY <2>1, FS_Interval
<1>2. IsFiniteSet(SUBSET (0 .. 31))
  BY <1>1, FS_SUBSET
<1>3. IsFiniteSet(Durations)
  BY <1>2, DurationsAssumption, FS_Subset
<1> QED
  BY <1>3, FS_Subset DEF Class

LEMMA ClassSums ==
  ASSUME NEW s \in Times, NEW i
  PROVE  Sum(s, Class(i)) \in Nat /\ TermCount(s) \in Nat
<1>1. (\A d \in Class(i) : s[d] \in Nat) /\ (\A d \in Durations : s[d] \in Nat)
  BY DurationsFinite DEF Times
<1> QED
  BY <1>1, DurationsFinite, SumIsNat DEF Sum, TermCount

(* Sums of times are added term by term.                                   *)
LEMMA ClassOfBoth ==
  ASSUME NEW s \in Times, NEW t \in Times, NEW i
  PROVE  /\ AddTimes(s, t) \in Times
         /\ Sum(AddTimes(s, t), Class(i)) = Sum(s, Class(i)) + Sum(t, Class(i))
         /\ TermCount(AddTimes(s, t)) = TermCount(s) + TermCount(t)
<1> DEFINE h == AddTimes(s, t)
<1>1. \A d \in Durations : s[d] \in Nat /\ t[d] \in Nat /\ h[d] = s[d] + t[d]
  BY DEF Times, AddTimes
<1>2. h \in Times
  BY DEF Times, AddTimes
<1> HIDE DEF h
<1>3. Sum(h, Class(i)) = Sum(s, Class(i)) + Sum(t, Class(i))
  <2>1. \A d \in Class(i) : s[d] \in Nat /\ t[d] \in Nat /\ h[d] = s[d] + t[d]
    BY <1>1, DurationsFinite
  <2> QED
    BY <2>1, DurationsFinite, SumOfSums DEF Sum
<1>4. TermCount(h) = TermCount(s) + TermCount(t)
  BY <1>1, DurationsFinite, SumOfSums DEF TermCount
<1> QED
  BY <1>2, <1>3, <1>4 DEF h

(* The sum of no time, and of one.                                         *)
LEMMA ClassOfNone ==
  ASSUME NEW i
  PROVE  /\ TimesOf({}) = NoTimes /\ NoTimes \in Times
         /\ Sum(NoTimes, Class(i)) = 0 /\ TermCount(NoTimes) = 0
<1>1. TimesOf({}) = NoTimes /\ NoTimes \in Times
  BY DEF TimesOf, NoTimes, Times
<1>2. (\A d \in Class(i) : NoTimes[d] = 0) /\ (\A d \in Durations : NoTimes[d] = 0)
  BY DurationsFinite DEF NoTimes
<1>3. Sum(NoTimes, Class(i)) = 0
  BY <1>2, DurationsFinite, SumOfZeros DEF Sum
<1>4. TermCount(NoTimes) = 0
  BY <1>2, DurationsFinite, SumOfZeros DEF TermCount
<1> QED
  BY <1>1, <1>3, <1>4

LEMMA SumOfOne ==
  ASSUME NEW d \in Durations, NEW S \in SUBSET Durations
  PROVE  Sum(TimesOf({d}), S) = IF d \in S THEN 1 ELSE 0
<1> DEFINE f == TimesOf({d})
<1>1. \A x \in Durations : f[x] = IF x = d THEN 1 ELSE 0
  BY DEF TimesOf
<1> HIDE DEF f
<1>2. IsFiniteSet(S) /\ \A x \in S : f[x] \in Nat
  BY <1>1, DurationsFinite, FS_Subset
<1>3. CASE d \notin S
  <2>1. \A x \in S : f[x] = 0
    BY <1>1, <1>3
  <2>2. SumFunctionOnSet(f, S) = 0
    BY <1>2, <2>1, SumOfZeros
  <2> QED
    BY <1>3, <2>2 DEF Sum, f
<1>4. CASE d \in S
  <2>1. IsFiniteSet(S \ {d}) /\ (\A x \in S \ {d} : f[x] = 0)
    BY <1>1, <1>2, FS_RemoveElement
  <2>2. SumFunctionOnSet(f, S \ {d}) = 0
    BY <2>1, SumOfZeros
  <2>3. SumFunctionOnSet(f, S) = f[d] + SumFunctionOnSet(f, S \ {d})
    BY <1>2, <1>4, SumSplits
  <2>4. SumFunctionOnSet(f, S) = 1
    BY <1>1, <2>2, <2>3
  <2> QED
    BY <1>4, <2>4 DEF Sum, f
<1> QED
  BY <1>3, <1>4

LEMMA ClassOfOne ==
  ASSUME NEW d \in Durations, NEW i
  PROVE  /\ TimesOf({d}) \in Times
         /\ Sum(TimesOf({d}), Class(i)) = IF i = bucket_index(d) THEN 1 ELSE 0
         /\ TermCount(TimesOf({d})) = 1
<1>1. TimesOf({d}) \in Times
  BY DEF TimesOf, Times
<1>2. d \in Class(i) <=> i = bucket_index(d)
  BY DEF Class
<1>3. Sum(TimesOf({d}), Class(i)) = IF d \in Class(i) THEN 1 ELSE 0
  BY SumOfOne, DurationsFinite
<1>4. Sum(TimesOf({d}), Durations) = 1
  BY SumOfOne
<1> QED
  BY <1>1, <1>2, <1>3, <1>4 DEF TermCount, Sum

LEMMA NewAgrees == NewSnapshot \in Snapshots /\ Agrees(NewSnapshot, NoTimes)
<1>1. /\ NewSnapshot.Total = NoTimes /\ NewSnapshot \in Snapshots
      /\ \A i \in BucketIndices : NewSnapshot.Buckets[i] = 0
  BY ClassOfNone DEF NewSnapshot, Snapshots
<1>2. PartOf(NoTimes, NoTimes)
  BY DEF PartOf, NoTimes
<1> QED
  BY <1>1, <1>2, ClassOfNone DEF Agrees

(* Two values that agree with themselves are added to one that does.       *)
LEMMA BothAgree ==
  ASSUME NEW s \in Snapshots, NEW t \in Times, Agrees(s, t),
         NEW s2 \in Snapshots, NEW t2 \in Times, Agrees(s2, t2)
  PROVE  /\ AddSnapshots(s, s2) \in Snapshots
         /\ Agrees(AddSnapshots(s, s2), AddTimes(t, t2))
<1> DEFINE a == AddSnapshots(s, s2)
<1>1. s.Total \in Times /\ s2.Total \in Times
  BY DEF Snapshots
<1>2. /\ a.Total = AddTimes(s.Total, s2.Total)
      /\ \A i \in BucketIndices : a.Buckets[i] = s.Buckets[i] + s2.Buckets[i]
  BY DEF AddSnapshots
<1>3. \A i \in BucketIndices : s.Buckets[i] \in Nat /\ s2.Buckets[i] \in Nat
  BY DEF Snapshots
<1>4. a \in Snapshots
  BY <1>1, <1>3, ClassOfBoth DEF AddSnapshots, Snapshots
<1>5. PartOf(AddTimes(t, t2), a.Total)
  BY <1>1, <1>2 DEF Agrees, PartOf, AddTimes, Times
<1>6. ASSUME NEW i \in BucketIndices
      PROVE  a.Buckets[i] + Sum(AddTimes(t, t2), Class(i)) = Sum(a.Total, Class(i))
  <2>1. /\ s.Buckets[i] + Sum(t, Class(i)) = Sum(s.Total, Class(i))
        /\ s2.Buckets[i] + Sum(t2, Class(i)) = Sum(s2.Total, Class(i))
    BY DEF Agrees
  <2>2. /\ Sum(AddTimes(t, t2), Class(i)) = Sum(t, Class(i)) + Sum(t2, Class(i))
        /\ Sum(a.Total, Class(i)) = Sum(s.Total, Class(i)) + Sum(s2.Total, Class(i))
    BY <1>1, <1>2, ClassOfBoth
  <2>3. Sum(t, Class(i)) \in Nat /\ Sum(t2, Class(i)) \in Nat
    BY ClassSums
  <2>4. a.Buckets[i] = s.Buckets[i] + s2.Buckets[i]
    BY <1>2
  <2>5. s.Buckets[i] \in Nat /\ s2.Buckets[i] \in Nat
    BY <1>3
  <2> HIDE DEF a
  <2> QED
    BY <2>1, <2>2, <2>3, <2>4, <2>5
<1> HIDE DEF a
<1>7. Agrees(a, AddTimes(t, t2))
  BY <1>5, <1>6 DEF Agrees
<1> QED
  BY <1>4, <1>7 DEF a

(* The two steps of update_histogram.                                      *)
LEMMA TotalAgrees ==
  ASSUME NEW s \in Snapshots, Agrees(s, TimesOf({})), NEW d \in Durations,
         NEW a, a = [s EXCEPT !.Total = AddTimes(@, TimesOf({d}))]
  PROVE  a \in Snapshots /\ Agrees(a, TimesOf({d}))
<1>1. a.Total = AddTimes(s.Total, TimesOf({d})) /\ a.Buckets = s.Buckets /\ s.Total \in Times
  BY DEF Snapshots
<1>2. a \in Snapshots
  BY <1>1, ClassOfBoth, ClassOfOne DEF Snapshots
<1>3. PartOf(TimesOf({d}), a.Total)
  BY <1>1 DEF PartOf, AddTimes, TimesOf, Times
<1>4. ASSUME NEW i \in BucketIndices
      PROVE  a.Buckets[i] + Sum(TimesOf({d}), Class(i)) = Sum(a.Total, Class(i))
  <2>1. s.Buckets[i] + 0 = Sum(s.Total, Class(i))
    BY ClassOfNone DEF Agrees
  <2>2. Sum(a.Total, Class(i)) = Sum(s.Total, Class(i)) + Sum(TimesOf({d}), Class(i))
    BY <1>1, ClassOfBoth, ClassOfOne
  <2>3. s.Buckets[i] \in Nat
    BY DEF Snapshots
  <2> QED
    BY <1>1, <2>1, <2>2, <2>3
<1> QED
  BY <1>2, <1>3, <1>4 DEF Agrees

LEMMA BucketAgrees ==
  ASSUME NEW s \in Snapshots, NEW d \in Durations, Agrees(s, TimesOf({d})),
         NEW a, a = [s EXCEPT !.Buckets[bucket_index(d)] = @ + 1]
  PROVE  a \in Snapshots /\ Agrees(a, TimesOf({}))
<1> DEFINE k == bucket_index(d)
<1>1. k \in BucketIndices
  BY BucketIsBelow
<1>2. /\ a.Total = s.Total /\ s.Total \in Times /\ s.Buckets \in [BucketIndices -> Nat]
      /\ a.Buckets = [s.Buckets EXCEPT ![k] = @ + 1]
  BY DEF Snapshots
<1> HIDE DEF k
<1>3. a \in Snapshots
  BY <1>1, <1>2 DEF Snapshots, k
<1>4. PartOf(TimesOf({}), a.Total)
  BY <1>2 DEF PartOf, TimesOf, Times
<1>5. ASSUME NEW i \in BucketIndices
      PROVE  a.Buckets[i] + Sum(TimesOf({}), Class(i)) = Sum(a.Total, Class(i))
  <2>1. s.Buckets[i] + Sum(TimesOf({d}), Class(i)) = Sum(s.Total, Class(i))
    BY DEF Agrees
  <2>2. Sum(TimesOf({d}), Class(i)) = IF i = k THEN 1 ELSE 0
    BY ClassOfOne DEF k
  <2>3. a.Buckets[i] = IF i = k THEN s.Buckets[i] + 1 ELSE s.Buckets[i]
    BY <1>1, <1>2
  <2>4. s.Buckets[i] \in Nat /\ Sum(TimesOf({}), Class(i)) = 0
    BY <1>2, ClassOfNone
  <2> QED
    BY <1>2, <2>1, <2>2, <2>3, <2>4
<1> QED
  BY <1>3, <1>4, <1>5 DEF Agrees

-----------------------------------------------------------------------------
(* One CPU is copied after the other, while they count on.                 *)

(***************************************************************************)
(* The value n of a counter in the snapshot being read is no more than     *)
(* what the CPUs read so far count now; and the one in the snapshot before *)
(* it, m, no more than n and what the other CPUs count now.                *)
(***************************************************************************)
Between(f, R, n, m) ==
  n <= Sum(f, R) /\ m <= n + Sum(f, HistogramCPUs \ R)

Column(f) == \A c \in HistogramCPUs : f[c] \in Nat

LEMMA ColumnSums ==
  ASSUME NEW f, Column(f), NEW R \in SUBSET HistogramCPUs
  PROVE  /\ Sum(f, R) \in Nat /\ IsFiniteSet(R) /\ (\A c \in R : f[c] \in Nat)
         /\ Sum(f, HistogramCPUs \ R) \in Nat /\ IsFiniteSet(HistogramCPUs \ R)
         /\ (\A c \in HistogramCPUs \ R : f[c] \in Nat)
<1>1. /\ IsFiniteSet(R) /\ (\A c \in R : f[c] \in Nat)
      /\ IsFiniteSet(HistogramCPUs \ R) /\ (\A c \in HistogramCPUs \ R : f[c] \in Nat)
  BY HistogramCPUsAssumption, FS_Subset DEF Column
<1>2. SumFunctionOnSet(f, R) \in Nat
  BY <1>1, SumIsNat
<1>3. SumFunctionOnSet(f, HistogramCPUs \ R) \in Nat
  BY <1>1, SumIsNat
<1> QED
  BY <1>1, <1>2, <1>3 DEF Sum

(* A counter that grows.                                                   *)
LEMMA BetweenGrows ==
  ASSUME NEW f, Column(f), NEW g, Column(g), \A c \in HistogramCPUs : f[c] <= g[c],
         NEW R \in SUBSET HistogramCPUs, NEW n \in Nat, NEW m \in Nat, Between(f, R, n, m)
  PROVE  Between(g, R, n, m)
<1> DEFINE Q == HistogramCPUs \ R
<1>1. /\ Sum(f, R) \in Nat /\ Sum(g, R) \in Nat /\ IsFiniteSet(R)
      /\ Sum(f, Q) \in Nat /\ Sum(g, Q) \in Nat /\ IsFiniteSet(Q)
  BY ColumnSums
<1>2. /\ \A c \in R : f[c] \in Nat /\ g[c] \in Nat /\ f[c] <= g[c]
      /\ \A c \in Q : f[c] \in Nat /\ g[c] \in Nat /\ f[c] <= g[c]
  BY DEF Column
<1>3. n <= Sum(f, R) /\ m <= n + Sum(f, Q)
  BY DEF Between
<1> HIDE DEF Q
<1>4. Sum(f, R) <= Sum(g, R)
  BY <1>1, <1>2, SumMonotone DEF Sum
<1>5. Sum(f, Q) <= Sum(g, Q)
  BY <1>1, <1>2, SumMonotone DEF Sum
<1>6. n <= Sum(g, R) /\ m <= n + Sum(g, Q)
  BY <1>1, <1>3, <1>4, <1>5
<1> QED
  BY <1>6 DEF Between, Q

(* The value of one more CPU is copied.                                    *)
LEMMA BetweenReads ==
  ASSUME NEW f, Column(f), NEW R \in SUBSET HistogramCPUs, NEW c \in HistogramCPUs \ R,
         NEW n \in Nat, NEW m \in Nat, Between(f, R, n, m)
  PROVE  Between(f, R \cup {c}, n + f[c], m)
<1> DEFINE Q == HistogramCPUs \ R
           R2 == R \cup {c}
           Q2 == HistogramCPUs \ R2
<1>1. R2 \in SUBSET HistogramCPUs /\ R2 \ {c} = R /\ Q \ {c} = Q2 /\ c \in R2 /\ c \in Q
  OBVIOUS
<1>2. n <= Sum(f, R) /\ m <= n + Sum(f, Q)
  BY DEF Between
<1>3. /\ IsFiniteSet(R2) /\ (\A x \in R2 : f[x] \in Nat)
      /\ IsFiniteSet(Q) /\ (\A x \in Q : f[x] \in Nat) /\ f[c] \in Nat
      /\ Sum(f, R) \in Nat /\ Sum(f, Q2) \in Nat
  BY <1>1, ColumnSums DEF Column
<1> HIDE DEF R2, Q, Q2
<1>4. Sum(f, R2) = f[c] + Sum(f, R)
  BY <1>1, <1>3, SumSplits DEF Sum
<1>5. Sum(f, Q) = f[c] + Sum(f, Q2)
  BY <1>1, <1>3, SumSplits DEF Sum
<1>6. n + f[c] <= Sum(f, R2) /\ m <= (n + f[c]) + Sum(f, Q2)
  BY <1>2, <1>3, <1>4, <1>5
<1> QED
  BY <1>6 DEF Between, R2, Q2

(* All have been copied, and the next reading starts.                      *)
LEMMA BetweenEnds ==
  ASSUME NEW f, Column(f), NEW n \in Nat, NEW m \in Nat, Between(f, HistogramCPUs, n, m)
  PROVE  m <= n /\ Between(f, {}, 0, n)
<1>1. HistogramCPUs \ HistogramCPUs = {} /\ HistogramCPUs \ {} = HistogramCPUs
  OBVIOUS
<1>2. Sum(f, {}) = 0
  BY SumOverNone DEF Sum
<1>3. n <= Sum(f, HistogramCPUs) /\ m <= n + Sum(f, {})
  BY <1>1 DEF Between
<1>4. Sum(f, HistogramCPUs) \in Nat
  BY ColumnSums
<1>5. m <= n /\ n <= 0 + Sum(f, HistogramCPUs)
  BY <1>2, <1>3, <1>4
<1> QED
  BY <1>1, <1>2, <1>5 DEF Between

-----------------------------------------------------------------------------
(* The inductive invariant.                                                *)

HistTypeOK ==
  /\ histogram \in [HistogramCPUs -> Snapshots]
  /\ measured \in [HistogramCPUs -> SUBSET Durations]
  /\ \A c \in HistogramCPUs : measured[c] = {} \/ \E d \in Durations : measured[c] = {d}
  /\ read \in SUBSET HistogramCPUs
  /\ snapshot \in Snapshots /\ currentSnapshot \in Snapshots
  /\ samples \in Times
  /\ torn \in [reading : Times, current : Times]

(* What is in a bucket of a CPU, of the snapshot being read and of the one *)
(* before it are times of their totals; at most one per CPU is missing.    *)
AgreeInv ==
  /\ \A c \in HistogramCPUs : Agrees(histogram[c], TimesOf(measured[c]))
  /\ Agrees(snapshot, torn.reading) /\ TermCount(torn.reading) <= Cardinality(read)
  /\ Agrees(currentSnapshot, torn.current)
  /\ TermCount(torn.current) <= Cardinality(HistogramCPUs)

TotalsOf(d)  == [c \in HistogramCPUs |-> histogram[c].Total[d]]
BucketsOf(i) == [c \in HistogramCPUs |-> histogram[c].Buckets[i]]

(* Nothing is in the totals that was not measured, and no reading is       *)
(* overtaken by the one before it.                                         *)
ReadInv ==
  /\ \A d \in Durations :
       /\ samples[d] = Sum(TotalsOf(d), HistogramCPUs)
       /\ Between(TotalsOf(d), read, snapshot.Total[d], currentSnapshot.Total[d])
  /\ \A i \in BucketIndices :
       Between(BucketsOf(i), read, snapshot.Buckets[i], currentSnapshot.Buckets[i])

HistInv == HistTypeOK /\ AgreeInv /\ ReadInv

LEMMA Columns ==
  HistTypeOK => (\A d : d \in Durations => Column(TotalsOf(d)))
                /\ (\A i : i \in BucketIndices => Column(BucketsOf(i)))
BY DEF HistTypeOK, Column, TotalsOf, BucketsOf, Snapshots, Times

LEMMA ColumnsNext ==
  HistTypeOK' => (\A d : d \in Durations => Column(TotalsOf(d)'))
                 /\ (\A i : i \in BucketIndices => Column(BucketsOf(i)'))
BY DEF HistTypeOK, Column, TotalsOf, BucketsOf, Snapshots, Times

LEMMA HistStart == HistInit => HistInv
<1> SUFFICES ASSUME HistInit
             PROVE  HistInv
  OBVIOUS
<1>1. HistTypeOK
  BY NewAgrees, ClassOfNone DEF HistInit, HistTypeOK
<1>2. AgreeInv
  <2>1. \A c \in HistogramCPUs : Agrees(histogram[c], TimesOf(measured[c]))
    BY NewAgrees, ClassOfNone DEF HistInit
  <2>2. TermCount(NoTimes) = 0 /\ Cardinality({}) = 0 /\ Cardinality(HistogramCPUs) \in Nat
    BY ClassOfNone, FS_EmptySet, HistogramCPUsAssumption, FS_CardinalityType
  <2> QED
    BY <2>1, <2>2, NewAgrees DEF HistInit, AgreeInv
<1>3. ReadInv
  <2>1. ASSUME NEW f, \A c \in HistogramCPUs : f[c] = 0
        PROVE  Sum(f, HistogramCPUs) = 0 /\ Between(f, {}, 0, 0)
    <3>1. Sum(f, HistogramCPUs) = 0
      BY <2>1, HistogramCPUsAssumption, SumOfZeros DEF Sum
    <3>2. Sum(f, {}) = 0 /\ HistogramCPUs \ {} = HistogramCPUs
      BY SumOverNone DEF Sum
    <3> QED
      BY <3>1, <3>2 DEF Between
  <2>2. ASSUME NEW d \in Durations
        PROVE  /\ samples[d] = 0 /\ snapshot.Total[d] = 0 /\ currentSnapshot.Total[d] = 0
               /\ \A c \in HistogramCPUs : TotalsOf(d)[c] = 0
    BY DEF HistInit, TotalsOf, NewSnapshot, NoTimes
  <2>3. ASSUME NEW i \in BucketIndices
        PROVE  /\ snapshot.Buckets[i] = 0 /\ currentSnapshot.Buckets[i] = 0
               /\ \A c \in HistogramCPUs : BucketsOf(i)[c] = 0
    BY DEF HistInit, BucketsOf, NewSnapshot
  <2>4. read = {}
    BY DEF HistInit
  <2> QED
    BY <2>1, <2>2, <2>3, <2>4 DEF ReadInv
<1> QED
  BY <1>1, <1>2, <1>3 DEF HistInv

(* A step of update_histogram only lets the counters of its CPU grow.      *)
LEMMA CountersGrow ==
  ASSUME HistTypeOK, HistTypeOK', ReadInv, UNCHANGED <<read, snapshot, currentSnapshot>>,
         \A c \in HistogramCPUs :
           /\ \A d \in Durations : histogram[c].Total[d] <= histogram'[c].Total[d]
           /\ \A i \in BucketIndices : histogram[c].Buckets[i] <= histogram'[c].Buckets[i]
  PROVE  /\ \A d \in Durations :
              Between(TotalsOf(d), read, snapshot.Total[d], currentSnapshot.Total[d])'
         /\ \A i \in BucketIndices :
              Between(BucketsOf(i), read, snapshot.Buckets[i], currentSnapshot.Buckets[i])'
<1>1. /\ \A d \in Durations : snapshot.Total[d] \in Nat /\ currentSnapshot.Total[d] \in Nat
      /\ \A i \in BucketIndices : snapshot.Buckets[i] \in Nat /\ currentSnapshot.Buckets[i] \in Nat
      /\ read \in SUBSET HistogramCPUs
  BY DEF HistTypeOK, Snapshots, Times
<1>2. ASSUME NEW d \in Durations
      PROVE  Between(TotalsOf(d), read, snapshot.Total[d], currentSnapshot.Total[d])'
  <2>1. \A c \in HistogramCPUs : TotalsOf(d)[c] <= TotalsOf(d)'[c]
    BY DEF TotalsOf
  <2>2. Column(TotalsOf(d)) /\ Column(TotalsOf(d)')
    BY Columns, ColumnsNext
  <2>3. Between(TotalsOf(d), read, snapshot.Total[d], currentSnapshot.Total[d])
    BY DEF ReadInv
  <2>4. Between(TotalsOf(d)', read, snapshot.Total[d], currentSnapshot.Total[d])
    BY <1>1, <2>1, <2>2, <2>3, BetweenGrows
  <2> QED
    BY <2>4 DEF Between
<1>3. ASSUME NEW i \in BucketIndices
      PROVE  Between(BucketsOf(i), read, snapshot.Buckets[i], currentSnapshot.Buckets[i])'
  <2>1. \A c \in HistogramCPUs : BucketsOf(i)[c] <= BucketsOf(i)'[c]
    BY DEF BucketsOf
  <2>2. Column(BucketsOf(i)) /\ Column(BucketsOf(i)')
    BY Columns, ColumnsNext
  <2>3. Between(BucketsOf(i), read, snapshot.Buckets[i], currentSnapshot.Buckets[i])
    BY DEF ReadInv
  <2>4. Between(BucketsOf(i)', read, snapshot.Buckets[i], currentSnapshot.Buckets[i])
    BY <1>1, <2>1, <2>2, <2>3, BetweenGrows
  <2> QED
    BY <2>4 DEF Between
<1> QED
  BY <1>2, <1>3

LEMMA AddTotalKeeps ==
  ASSUME HistInv, NEW c \in HistogramCPUs, NEW d \in Durations, AddTotal(c, d)
  PROVE  HistInv'
<1> DEFINE a == [histogram[c] EXCEPT !.Total = AddTimes(@, TimesOf({d}))]
<1>1. /\ measured[c] = {} /\ measured' = [measured EXCEPT ![c] = {d}]
      /\ histogram' = [histogram EXCEPT ![c] = a]
      /\ samples' = AddTimes(samples, TimesOf({d}))
      /\ UNCHANGED <<read, snapshot, currentSnapshot, torn>>
  BY DEF AddTotal
<1>2. /\ histogram \in [HistogramCPUs -> Snapshots] /\ histogram[c] \in Snapshots
      /\ measured \in [HistogramCPUs -> SUBSET Durations] /\ samples \in Times
      /\ Agrees(histogram[c], TimesOf({}))
  BY <1>1 DEF HistInv, HistTypeOK, AgreeInv
<1>3. a \in Snapshots /\ Agrees(a, TimesOf({d}))
  BY <1>2, TotalAgrees
<1>4. a.Total = AddTimes(histogram[c].Total, TimesOf({d})) /\ a.Buckets = histogram[c].Buckets
  BY <1>2 DEF Snapshots
<1> HIDE DEF a
<1>5. HistTypeOK'
  <2>1. samples' \in Times
    BY <1>1, <1>2, ClassOfBoth, ClassOfOne
  <2>2. \A x \in HistogramCPUs : measured'[x] = {} \/ \E e \in Durations : measured'[x] = {e}
    BY <1>1, <1>2 DEF HistInv, HistTypeOK
  <2> QED
    BY <1>1, <1>2, <1>3, <2>1, <2>2 DEF HistInv, HistTypeOK
<1>6. AgreeInv'
  <2>1. \A x \in HistogramCPUs : Agrees(histogram[x], TimesOf(measured[x]))'
    <3>1. ASSUME NEW x \in HistogramCPUs
          PROVE  Agrees(histogram'[x], TimesOf(measured'[x]))
      BY <1>1, <1>2, <1>3 DEF HistInv, AgreeInv
    <3> QED
      BY <3>1 DEF Agrees, PartOf, Sum, TimesOf, Class
  <2> QED
    BY <1>1, <2>1 DEF HistInv, AgreeInv, Agrees, PartOf, Sum, Class, TermCount
<1>7. ASSUME NEW e \in Durations
      PROVE  /\ histogram[c].Total[e] \in Nat /\ samples[e] \in Nat
             /\ a.Total[e] = histogram[c].Total[e] + (IF e = d THEN 1 ELSE 0)
             /\ samples'[e] = samples[e] + (IF e = d THEN 1 ELSE 0)
  BY <1>1, <1>2, <1>4 DEF Snapshots, Times, AddTimes, TimesOf
<1>8. ASSUME NEW e \in Durations
      PROVE  samples'[e] = Sum(TotalsOf(e)', HistogramCPUs)
  <2> DEFINE f == TotalsOf(e)
             g == TotalsOf(e)'
  <2>1. Column(f) /\ Column(g)
    BY <1>5, Columns, ColumnsNext DEF HistInv
  <2>2. \A x \in HistogramCPUs \ {c} : f[x] = g[x]
    BY <1>1 DEF TotalsOf
  <2>3. f[c] = histogram[c].Total[e] /\ g[c] = a.Total[e]
    BY <1>1, <1>2 DEF TotalsOf
  <2>4. samples[e] = Sum(f, HistogramCPUs)
    BY DEF HistInv, ReadInv
  <2> HIDE DEF f, g
  <2>5. SumFunctionOnSet(g, HistogramCPUs) = SumFunctionOnSet(f, HistogramCPUs) - f[c] + g[c]
    BY <2>1, <2>2, HistogramCPUsAssumption, SumChanges DEF Column
  <2>6. Sum(g, HistogramCPUs) = samples[e] - f[c] + g[c]
    BY <2>4, <2>5 DEF Sum
  <2>7. samples'[e] = Sum(g, HistogramCPUs)
    BY <1>7, <2>3, <2>6
  <2> QED
    BY <2>7 DEF g
<1>9. \A x \in HistogramCPUs :
        /\ \A e \in Durations : histogram[x].Total[e] <= histogram'[x].Total[e]
        /\ \A i \in BucketIndices : histogram[x].Buckets[i] <= histogram'[x].Buckets[i]
  <2>1. ASSUME NEW x \in HistogramCPUs
        PROVE  /\ \A e \in Durations : histogram[x].Total[e] <= histogram'[x].Total[e]
               /\ \A i \in BucketIndices : histogram[x].Buckets[i] <= histogram'[x].Buckets[i]
    <3>1. /\ \A e \in Durations : histogram[x].Total[e] \in Nat
          /\ \A i \in BucketIndices : histogram[x].Buckets[i] \in Nat
      BY <1>2 DEF Snapshots, Times
    <3>2. CASE x = c
      <4>1. histogram'[x] = a
        BY <1>1, <1>2, <3>2
      <4> QED
        BY <1>4, <1>7, <3>1, <3>2, <4>1
    <3>3. CASE x # c
      BY <1>1, <1>2, <3>1, <3>3
    <3> QED
      BY <3>2, <3>3
  <2> QED
    BY <2>1
<1>10. ReadInv'
  <2>1. /\ \A e \in Durations :
              Between(TotalsOf(e), read, snapshot.Total[e], currentSnapshot.Total[e])'
        /\ \A i \in BucketIndices :
             Between(BucketsOf(i), read, snapshot.Buckets[i], currentSnapshot.Buckets[i])'
    BY <1>1, <1>5, <1>9, CountersGrow DEF HistInv
  <2> QED
    BY <1>8, <2>1 DEF ReadInv, Sum
<1> QED
  BY <1>5, <1>6, <1>10 DEF HistInv

LEMMA IncrementBucketKeeps ==
  ASSUME HistInv, NEW c \in HistogramCPUs, IncrementBucket(c)
  PROVE  HistInv'
<1>1. PICK time \in measured[c] :
        /\ histogram' = [histogram EXCEPT ![c].Buckets[bucket_index(time)] = @ + 1]
        /\ measured' = [measured EXCEPT ![c] = {}]
        /\ UNCHANGED <<read, snapshot, currentSnapshot, samples, torn>>
  BY DEF IncrementBucket
<1> DEFINE k == bucket_index(time)
           a == [histogram[c] EXCEPT !.Buckets[k] = @ + 1]
<1>2. /\ histogram \in [HistogramCPUs -> Snapshots] /\ histogram[c] \in Snapshots
      /\ measured \in [HistogramCPUs -> SUBSET Durations] /\ time \in Durations
      /\ measured[c] = {time} /\ Agrees(histogram[c], TimesOf({time}))
  BY DEF HistInv, HistTypeOK, AgreeInv
<1>3. a \in Snapshots /\ Agrees(a, TimesOf({}))
  BY <1>2, BucketAgrees
<1>4. a.Total = histogram[c].Total /\ a.Buckets = [histogram[c].Buckets EXCEPT ![k] = @ + 1]
  BY <1>2 DEF Snapshots
<1>5. histogram' = [histogram EXCEPT ![c] = a]
  BY <1>1
<1> HIDE DEF a, k
<1>6. HistTypeOK'
  <2>1. \A x \in HistogramCPUs : measured'[x] = {} \/ \E e \in Durations : measured'[x] = {e}
    BY <1>1, <1>2 DEF HistInv, HistTypeOK
  <2> QED
    BY <1>1, <1>2, <1>3, <1>5, <2>1 DEF HistInv, HistTypeOK
<1>7. AgreeInv'
  <2>1. \A x \in HistogramCPUs : Agrees(histogram[x], TimesOf(measured[x]))'
    <3>1. ASSUME NEW x \in HistogramCPUs
          PROVE  Agrees(histogram'[x], TimesOf(measured'[x]))
      BY <1>1, <1>2, <1>3, <1>5 DEF HistInv, AgreeInv
    <3> QED
      BY <3>1 DEF Agrees, PartOf, Sum, TimesOf, Class
  <2> QED
    BY <1>1, <2>1 DEF HistInv, AgreeInv, Agrees, PartOf, Sum, Class, TermCount
<1>8. \A x \in HistogramCPUs : histogram'[x].Total = histogram[x].Total
  BY <1>2, <1>4, <1>5
<1>9. ASSUME NEW e \in Durations
      PROVE  samples'[e] = Sum(TotalsOf(e)', HistogramCPUs)
  <2>1. TotalsOf(e)' = TotalsOf(e)
    BY <1>8 DEF TotalsOf
  <2> QED
    BY <1>1, <2>1 DEF HistInv, ReadInv
<1>10. \A x \in HistogramCPUs :
        /\ \A e \in Durations : histogram[x].Total[e] <= histogram'[x].Total[e]
        /\ \A i \in BucketIndices : histogram[x].Buckets[i] <= histogram'[x].Buckets[i]
  <2>1. ASSUME NEW x \in HistogramCPUs
        PROVE  /\ \A e \in Durations : histogram[x].Total[e] <= histogram'[x].Total[e]
               /\ \A i \in BucketIndices : histogram[x].Buckets[i] <= histogram'[x].Buckets[i]
    <3>1. /\ \A e \in Durations : histogram[x].Total[e] \in Nat
          /\ \A i \in BucketIndices : histogram[x].Buckets[i] \in Nat
          /\ histogram[x].Buckets \in [BucketIndices -> Nat]
      BY <1>2 DEF Snapshots, Times
    <3>2. CASE x = c
      <4>1. histogram'[x] = a
        BY <1>2, <1>5, <3>2
      <4> QED
        BY <1>4, <3>1, <3>2, <4>1
    <3>3. CASE x # c
      BY <1>2, <1>5, <3>1, <3>3
    <3> QED
      BY <3>2, <3>3
  <2> QED
    BY <2>1
<1>11. ReadInv'
  <2>1. /\ \A e \in Durations :
              Between(TotalsOf(e), read, snapshot.Total[e], currentSnapshot.Total[e])'
        /\ \A i \in BucketIndices :
             Between(BucketsOf(i), read, snapshot.Buckets[i], currentSnapshot.Buckets[i])'
    BY <1>1, <1>6, <1>10, CountersGrow DEF HistInv
  <2> QED
    BY <1>9, <2>1 DEF ReadInv, Sum
<1> QED
  BY <1>6, <1>7, <1>11 DEF HistInv

LEMMA ReadCPUKeeps ==
  ASSUME HistInv, NEW c \in HistogramCPUs, ReadCPU(c)
  PROVE  HistInv'
<1> DEFINE m == TimesOf(measured[c])
<1>1. /\ c \notin read /\ read' = read \cup {c}
      /\ snapshot' = AddSnapshots(snapshot, histogram[c])
      /\ torn' = [torn EXCEPT !.reading = AddTimes(@, m)]
      /\ UNCHANGED <<histogram, measured, currentSnapshot, samples>>
  BY DEF ReadCPU
<1>2. /\ histogram[c] \in Snapshots /\ Agrees(histogram[c], m)
      /\ snapshot \in Snapshots /\ Agrees(snapshot, torn.reading)
      /\ torn \in [reading : Times, current : Times] /\ torn.reading \in Times
      /\ read \in SUBSET HistogramCPUs
  BY DEF HistInv, HistTypeOK, AgreeInv
<1>3. m \in Times /\ TermCount(m) \in Nat /\ TermCount(m) <= 1
  <2>1. CASE measured[c] = {}
    BY <2>1, ClassOfNone
  <2>2. CASE \E d \in Durations : measured[c] = {d}
    BY <2>2, ClassOfOne
  <2> QED
    BY <2>1, <2>2 DEF HistInv, HistTypeOK
<1> HIDE DEF m
<1>4. torn'.reading = AddTimes(torn.reading, m) /\ torn'.current = torn.current
  BY <1>1, <1>2
<1>5. snapshot' \in Snapshots /\ Agrees(snapshot', torn'.reading)
  BY <1>1, <1>2, <1>3, <1>4, BothAgree
<1>6. torn' \in [reading : Times, current : Times]
  BY <1>1, <1>2, <1>3, ClassOfBoth
<1>7. HistTypeOK'
  BY <1>1, <1>5, <1>6 DEF HistInv, HistTypeOK
<1>8. AgreeInv'
  <2>1. TermCount(torn'.reading) <= Cardinality(read')
    <3>1. Cardinality(read') = Cardinality(read) + 1 /\ Cardinality(read) \in Nat
      BY <1>1, <1>2, HistogramCPUsAssumption, FS_Subset, FS_AddElement, FS_CardinalityType
    <3>2. TermCount(torn'.reading) = TermCount(torn.reading) + TermCount(m)
      BY <1>2, <1>3, <1>4, ClassOfBoth
    <3>3. TermCount(torn.reading) \in Nat /\ TermCount(torn.reading) <= Cardinality(read)
      BY <1>2, ClassSums DEF HistInv, AgreeInv
    <3> QED
      BY <1>3, <3>1, <3>2, <3>3
  <2> QED
    BY <1>1, <1>4, <1>5, <2>1 DEF HistInv, AgreeInv, Agrees, PartOf, Sum, Class, TermCount, TimesOf
<1>9. ReadInv'
  <2>1. c \in HistogramCPUs \ read
    BY <1>1
  <2>2. ASSUME NEW e \in Durations
        PROVE  /\ samples'[e] = Sum(TotalsOf(e)', HistogramCPUs)
               /\ Between(TotalsOf(e)', read', snapshot'.Total[e], currentSnapshot'.Total[e])
    <3>1. TotalsOf(e)' = TotalsOf(e) /\ TotalsOf(e)[c] = histogram[c].Total[e]
      BY <1>1 DEF TotalsOf
    <3>2. snapshot'.Total[e] = snapshot.Total[e] + TotalsOf(e)[c]
      BY <1>1, <3>1 DEF AddSnapshots, AddTimes
    <3>3. snapshot.Total[e] \in Nat /\ currentSnapshot.Total[e] \in Nat /\ Column(TotalsOf(e))
      BY Columns DEF HistInv, HistTypeOK, Snapshots, Times
    <3>4. Between(TotalsOf(e), read, snapshot.Total[e], currentSnapshot.Total[e])
      BY DEF HistInv, ReadInv
    <3>5. Between(TotalsOf(e), read \cup {c}, snapshot.Total[e] + TotalsOf(e)[c], currentSnapshot.Total[e])
      BY <1>2, <2>1, <3>3, <3>4, BetweenReads
    <3> QED
      BY <1>1, <3>1, <3>2, <3>5 DEF HistInv, ReadInv
  <2>3. ASSUME NEW i \in BucketIndices
        PROVE  Between(BucketsOf(i)', read', snapshot'.Buckets[i], currentSnapshot'.Buckets[i])
    <3>1. BucketsOf(i)' = BucketsOf(i) /\ BucketsOf(i)[c] = histogram[c].Buckets[i]
      BY <1>1 DEF BucketsOf
    <3>2. snapshot'.Buckets[i] = snapshot.Buckets[i] + BucketsOf(i)[c]
      BY <1>1, <3>1 DEF AddSnapshots
    <3>3. snapshot.Buckets[i] \in Nat /\ currentSnapshot.Buckets[i] \in Nat /\ Column(BucketsOf(i))
      BY Columns DEF HistInv, HistTypeOK, Snapshots
    <3>4. Between(BucketsOf(i), read, snapshot.Buckets[i], currentSnapshot.Buckets[i])
      BY DEF HistInv, ReadInv
    <3>5. Between(BucketsOf(i), read \cup {c}, snapshot.Buckets[i] + BucketsOf(i)[c], currentSnapshot.Buckets[i])
      BY <1>2, <2>1, <3>3, <3>4, BetweenReads
    <3> QED
      BY <1>1, <3>1, <3>2, <3>5
  <2> QED
    BY <2>2, <2>3 DEF ReadInv, Between, Sum
<1> QED
  BY <1>7, <1>8, <1>9 DEF HistInv

(* The snapshot has been read, so it is not behind the one before it.      *)
LEMMA ReadIsLater ==
  ASSUME HistInv, read = HistogramCPUs
  PROVE  /\ \A d \in Durations :
              /\ currentSnapshot.Total[d] <= snapshot.Total[d]
              /\ Between(TotalsOf(d), {}, 0, snapshot.Total[d])
         /\ \A i \in BucketIndices :
              /\ currentSnapshot.Buckets[i] <= snapshot.Buckets[i]
              /\ Between(BucketsOf(i), {}, 0, snapshot.Buckets[i])
<1>1. ASSUME NEW d \in Durations
      PROVE  /\ currentSnapshot.Total[d] <= snapshot.Total[d]
             /\ Between(TotalsOf(d), {}, 0, snapshot.Total[d])
  <2>1. snapshot.Total[d] \in Nat /\ currentSnapshot.Total[d] \in Nat /\ Column(TotalsOf(d))
    BY Columns DEF HistInv, HistTypeOK, Snapshots, Times
  <2>2. Between(TotalsOf(d), HistogramCPUs, snapshot.Total[d], currentSnapshot.Total[d])
    BY DEF HistInv, ReadInv
  <2> QED
    BY <2>1, <2>2, BetweenEnds
<1>2. ASSUME NEW i \in BucketIndices
      PROVE  /\ currentSnapshot.Buckets[i] <= snapshot.Buckets[i]
             /\ Between(BucketsOf(i), {}, 0, snapshot.Buckets[i])
  <2>1. snapshot.Buckets[i] \in Nat /\ currentSnapshot.Buckets[i] \in Nat /\ Column(BucketsOf(i))
    BY Columns DEF HistInv, HistTypeOK, Snapshots
  <2>2. Between(BucketsOf(i), HistogramCPUs, snapshot.Buckets[i], currentSnapshot.Buckets[i])
    BY DEF HistInv, ReadInv
  <2> QED
    BY <2>1, <2>2, BetweenEnds
<1> QED
  BY <1>1, <1>2

(* ApplySnapshot accepts every snapshot that is read.                      *)
LEMMA ApplyReadIs ==
  ASSUME HistTypeOK, ApplyRead
  PROVE  /\ read = HistogramCPUs /\ currentSnapshot' = snapshot
         /\ read' = {} /\ snapshot' = NewSnapshot
         /\ torn' = [reading |-> NoTimes, current |-> torn.reading]
         /\ UNCHANGED <<histogram, measured, samples>>
<1>1. DOMAIN snapshot.Buckets = BucketIndices /\ DOMAIN currentSnapshot.Buckets = BucketIndices
  BY DEF HistTypeOK, Snapshots
<1>2. checkSnapshot(snapshot)
  BY <1>1 DEF checkSnapshot
<1> QED
  BY <1>2 DEF ApplyRead, ApplySnapshot, AllRead

LEMMA ApplyReadKeeps ==
  ASSUME HistInv, ApplyRead
  PROVE  HistInv'
<1>1. /\ read = HistogramCPUs /\ currentSnapshot' = snapshot
      /\ read' = {} /\ snapshot' = NewSnapshot
      /\ torn' = [reading |-> NoTimes, current |-> torn.reading]
      /\ UNCHANGED <<histogram, measured, samples>>
  BY ApplyReadIs DEF HistInv
<1>2. torn.reading \in Times /\ torn'.reading = NoTimes /\ torn'.current = torn.reading
  BY <1>1 DEF HistInv, HistTypeOK
<1>3. HistTypeOK'
  BY <1>1, <1>2, NewAgrees, ClassOfNone DEF HistInv, HistTypeOK
<1>4. AgreeInv'
  <2>1. TermCount(NoTimes) = 0 /\ Cardinality({}) = 0
    BY ClassOfNone, FS_EmptySet
  <2>2. TermCount(NoTimes) <= Cardinality({})
    BY <2>1
  <2>3. /\ \A c \in HistogramCPUs : Agrees(histogram'[c], TimesOf(measured'[c]))
        /\ Agrees(snapshot', torn'.reading) /\ TermCount(torn'.reading) <= Cardinality(read')
        /\ Agrees(currentSnapshot', torn'.current)
        /\ TermCount(torn'.current) <= Cardinality(HistogramCPUs)
    BY <1>1, <1>2, <2>2, NewAgrees DEF HistInv, AgreeInv
  <2> QED
    BY <2>3 DEF AgreeInv, Agrees, PartOf, Sum, Class, TermCount, TimesOf
<1>5. ReadInv'
  <2>1. \A d \in Durations : snapshot'.Total[d] = 0
    BY <1>1 DEF NewSnapshot, NoTimes
  <2>2. \A i \in BucketIndices : snapshot'.Buckets[i] = 0
    BY <1>1 DEF NewSnapshot
  <2>3. ASSUME NEW d \in Durations
        PROVE  /\ samples'[d] = Sum(TotalsOf(d)', HistogramCPUs)
               /\ Between(TotalsOf(d)', read', snapshot'.Total[d], currentSnapshot'.Total[d])
    <3>1. TotalsOf(d)' = TotalsOf(d)
      BY <1>1 DEF TotalsOf
    <3>2. Between(TotalsOf(d), {}, 0, snapshot.Total[d])
      BY <1>1, ReadIsLater
    <3> QED
      BY <1>1, <2>1, <3>1, <3>2 DEF HistInv, ReadInv
  <2>4. ASSUME NEW i \in BucketIndices
        PROVE  Between(BucketsOf(i)', read', snapshot'.Buckets[i], currentSnapshot'.Buckets[i])
    <3>1. BucketsOf(i)' = BucketsOf(i)
      BY <1>1 DEF BucketsOf
    <3>2. Between(BucketsOf(i), {}, 0, snapshot.Buckets[i])
      BY <1>1, ReadIsLater
    <3> QED
      BY <1>1, <2>2, <3>1, <3>2
  <2> QED
    BY <2>3, <2>4 DEF ReadInv, Between, Sum
<1> QED
  BY <1>3, <1>4, <1>5 DEF HistInv

(* ApplySnapshot refuses the zero value of the closed channel.             *)
LEMMA ZeroIsRefused ==
  ASSUME HistTypeOK, ApplyZero
  PROVE  /\ currentSnapshot' = currentSnapshot
         /\ UNCHANGED <<histogram, measured, read, snapshot, samples, torn>>
<1>1. DOMAIN currentSnapshot.Buckets = BucketIndices
  BY DEF HistTypeOK, Snapshots
<1>2. DOMAIN ZeroSnapshot.Buckets = {} /\ 0 \in BucketIndices
  BY DEF ZeroSnapshot, BucketIndices, BUCKET_COUNT
<1>3. ~checkSnapshot(ZeroSnapshot)
  BY <1>1, <1>2 DEF checkSnapshot
<1> QED
  BY <1>3 DEF ApplyZero, ApplySnapshot

LEMMA HistStep == HistInv /\ [HistNext]_histVars => HistInv'
<1> SUFFICES ASSUME HistInv, [HistNext]_histVars
             PROVE  HistInv'
  OBVIOUS
<1>1. ASSUME NEW c \in HistogramCPUs, NEW d \in Durations, AddTotal(c, d)
      PROVE  HistInv'
  BY <1>1, AddTotalKeeps
<1>2. ASSUME NEW c \in HistogramCPUs, IncrementBucket(c)
      PROVE  HistInv'
  BY <1>2, IncrementBucketKeeps
<1>3. ASSUME NEW c \in HistogramCPUs, ReadCPU(c)
      PROVE  HistInv'
  BY <1>3, ReadCPUKeeps
<1>4. CASE ApplyRead
  BY <1>4, ApplyReadKeeps
<1>5. CASE CloseSnapshots \/ ApplyZero \/ UNCHANGED histVars
  <2>1. /\ histogram' = histogram /\ measured' = measured /\ read' = read /\ snapshot' = snapshot
        /\ currentSnapshot' = currentSnapshot /\ samples' = samples /\ torn' = torn
    BY <1>5, ZeroIsRefused DEF CloseSnapshots, histVars, HistInv
  <2>2. HistTypeOK'
    BY <2>1 DEF HistInv, HistTypeOK
  <2>3. AgreeInv'
    BY <2>1 DEF HistInv, AgreeInv, Agrees, PartOf, Sum, Class, TermCount, TimesOf
  <2>4. ReadInv'
    <3>1. (\A d : TotalsOf(d)' = TotalsOf(d)) /\ (\A i : BucketsOf(i)' = BucketsOf(i))
      BY <2>1 DEF TotalsOf, BucketsOf
    <3> QED
      BY <2>1, <3>1 DEF HistInv, ReadInv, Between, Sum
  <2> QED
    BY <2>2, <2>3, <2>4 DEF HistInv
<1>6. CASE HistNext
  <2>1. CASE \E c \in HistogramCPUs : (\E d \in Durations : AddTotal(c, d)) \/ IncrementBucket(c) \/ ReadCPU(c)
    BY <1>1, <1>2, <1>3, <2>1
  <2> QED
    BY <1>4, <1>5, <1>6, <2>1 DEF HistNext
<1> QED
  BY <1>5, <1>6

-----------------------------------------------------------------------------
(* What a scrape reports.                                                  *)

(* No more is in the last snapshot than was measured: it is at most what   *)
(* has been read of the next one and what the other CPUs count.            *)
LEMMA ReportedWasMeasured == HistInv => PartOf(currentSnapshot.Total, samples)
<1> SUFFICES ASSUME HistInv, NEW d \in Durations
             PROVE  currentSnapshot.Total[d] <= samples[d]
  BY DEF PartOf
<1> DEFINE f == TotalsOf(d)
           Q == HistogramCPUs \ read
<1>1. Column(f) /\ read \in SUBSET HistogramCPUs /\ read \cup Q = HistogramCPUs /\ read \cap Q = {}
  BY Columns DEF HistInv, HistTypeOK
<1>2. snapshot.Total[d] \in Nat /\ currentSnapshot.Total[d] \in Nat
  BY DEF HistInv, HistTypeOK, Snapshots, Times
<1>3. /\ samples[d] = Sum(f, HistogramCPUs)
      /\ snapshot.Total[d] <= Sum(f, read) /\ currentSnapshot.Total[d] <= snapshot.Total[d] + Sum(f, Q)
  BY DEF HistInv, ReadInv, Between
<1>4. /\ IsFiniteSet(read) /\ IsFiniteSet(Q) /\ Sum(f, read) \in Nat /\ Sum(f, Q) \in Nat
  BY <1>1, ColumnSums
<1> HIDE DEF f, Q
<1>5. Sum(f, HistogramCPUs) = Sum(f, read) + Sum(f, Q)
  BY <1>1, <1>4, SumOverBoth DEF Sum, Column
<1> QED
  BY <1>2, <1>3, <1>4, <1>5

(* The buckets 0 to n of a value that agrees with itself, added up.        *)
LEMMA BucketsAddUp ==
  ASSUME NEW s \in Snapshots, NEW t \in Times, Agrees(s, t),
         NEW counted, counted = [d \in Durations |-> s.Total[d] - t[d]],
         NEW I \in SUBSET BucketIndices
  PROVE  /\ \A d \in Durations : counted[d] \in Nat
         /\ Sum(s.Buckets, I) = Sum(counted, {d \in Durations : bucket_index(d) \in I})
<1>1. s.Total \in Times /\ \A i \in BucketIndices : s.Buckets[i] \in Nat
  BY DEF Snapshots
<1>2. \A d \in Durations : /\ counted[d] \in Nat /\ t[d] \in Nat /\ s.Total[d] \in Nat
                           /\ s.Total[d] = counted[d] + t[d]
  BY <1>1 DEF Agrees, PartOf, Times
<1>3. ASSUME NEW i \in I
      PROVE  s.Buckets[i] = Sum(counted, Class(i))
  <2>1. \A d \in Class(i) : counted[d] \in Nat /\ t[d] \in Nat /\ s.Total[d] = counted[d] + t[d]
    BY <1>2, DurationsFinite
  <2>2. Sum(s.Total, Class(i)) = Sum(counted, Class(i)) + Sum(t, Class(i))
    BY <2>1, DurationsFinite, SumOfSums DEF Sum
  <2>3. s.Buckets[i] + Sum(t, Class(i)) = Sum(s.Total, Class(i))
    BY DEF Agrees
  <2>4. Sum(t, Class(i)) \in Nat /\ s.Buckets[i] \in Nat
    BY <1>1, ClassSums
  <2>5. Sum(counted, Class(i)) \in Nat
    BY <2>1, DurationsFinite, SumIsNat DEF Sum
  <2> QED
    BY <2>2, <2>3, <2>4, <2>5
<1> DEFINE class == [d \in Durations |-> bucket_index(d)]
           C == [i \in I |-> Class(i)]
           T == {d \in Durations : bucket_index(d) \in I}
           g == s.Buckets
<1>4. IsFiniteSet(I)
  <2>1. 0 \in Int /\ 31 \in Int /\ BucketIndices = 0 .. 31
    BY DEF BucketIndices, BUCKET_COUNT
  <2> QED
    BY <2>1, FS_Interval, FS_Subset
<1>5. Classes(Durations, class, I, C, T)
  BY DEF Class, Classes
<1>6. ClassTotals(g, counted, I, C)
  BY <1>3 DEF Sum, ClassTotals
<1>7. IsFiniteSet(Durations) /\ \A x \in Durations : counted[x] \in Nat
  BY <1>2, DurationsFinite
<1> HIDE DEF class, C, T, g
<1>8. SumFunctionOnSet(g, I) = SumFunctionOnSet(counted, T)
  BY <1>4, <1>5, <1>6, <1>7, SumByClass
<1> QED
  BY <1>2, <1>8 DEF Sum, g, T

LEMMA InvReported == HistInv => HistogramReported
<1> SUFFICES ASSUME HistInv
             PROVE  HistogramReported
  OBVIOUS
<1> DEFINE s == currentSnapshot
           t == torn.current
           counted == [d \in Durations |-> s.Total[d] - t[d]]
<1>1. s \in Snapshots /\ t \in Times /\ Agrees(s, t) /\ TermCount(t) <= Cardinality(HistogramCPUs)
  BY DEF HistInv, HistTypeOK, AgreeInv
<1>2. PartOf(s.Total, samples) /\ PartOf(t, s.Total)
  BY <1>1, ReportedWasMeasured DEF Agrees
<1>3. ASSUME NEW I \in SUBSET BucketIndices
      PROVE  Sum(s.Buckets, I) = Sum(counted, {d \in Durations : bucket_index(d) \in I})
  BY <1>1, BucketsAddUp
<1> HIDE DEF s, t, counted
<1>4. ASSUME NEW n \in 0 .. BoundCount - 1
      PROVE  CumulativeCount(n) = Below(counted, n + 1)
  <2>1. 0 .. n \in SUBSET BucketIndices
    BY DEF BucketIndices, BUCKET_COUNT, BoundCount
  <2>2. {d \in Durations : bucket_index(d) \in 0 .. n} = {d \in Durations : ~Exceeds(d, n + 1)}
    BY BucketIsBelow
  <2>3. Sum(s.Buckets, 0 .. n) = Sum(counted, {d \in Durations : ~Exceeds(d, n + 1)})
    BY <1>3, <2>1, <2>2
  <2> QED
    BY <2>3 DEF CumulativeCount, Below, Sum, s
<1>5. SampleCount = TermCount(counted)
  <2>1. /\ BoundCount - 1 = 30 /\ BUCKET_COUNT - 1 = 31 /\ BucketIndices = 0 .. 31
        /\ 31 \in 0 .. 31 /\ (0 .. 31) \ {31} = 0 .. 30 /\ 0 \in Int /\ 31 \in Int
    BY DEF BoundCount, BUCKET_COUNT, BucketIndices
  <2>2. IsFiniteSet(0 .. 31) /\ \A i \in 0 .. 31 : s.Buckets[i] \in Nat
    <3>1. IsFiniteSet(0 .. 31)
      BY <2>1, FS_Interval
    <3>2. s.Buckets \in [0 .. 31 -> Nat]
      BY <1>1, <2>1 DEF Snapshots
    <3> QED
      BY <3>1, <3>2
  <2>3. SumFunctionOnSet(s.Buckets, 0 .. 31) = s.Buckets[31] + SumFunctionOnSet(s.Buckets, (0 .. 31) \ {31})
    BY <2>1, <2>2, SumSplits
  <2>4. IsFiniteSet(0 .. 30) /\ \A i \in 0 .. 30 : s.Buckets[i] \in Nat
    BY <2>1, <2>2, FS_RemoveElement
  <2>5. SumFunctionOnSet(s.Buckets, 0 .. 30) \in Nat /\ s.Buckets[31] \in Nat
    BY <2>1, <2>2, <2>4, SumIsNat
  <2>6. SampleCount = SumFunctionOnSet(s.Buckets, 0 .. 30) + s.Buckets[31]
    BY <2>1 DEF SampleCount, CumulativeCount, s
  <2>7. SampleCount = Sum(s.Buckets, BucketIndices)
    <3>1. \A m, n \in Nat : m + n = n + m
      OBVIOUS
    <3>2. SampleCount = s.Buckets[31] + SumFunctionOnSet(s.Buckets, 0 .. 30)
      BY <2>5, <2>6, <3>1
    <3>3. SumFunctionOnSet(s.Buckets, 0 .. 31) = s.Buckets[31] + SumFunctionOnSet(s.Buckets, 0 .. 30)
      BY <2>1, <2>3
    <3>4. BucketIndices = 0 .. 31
      BY <2>1
    <3> QED
      BY <3>2, <3>3, <3>4 DEF Sum
  <2>8. {d \in Durations : bucket_index(d) \in BucketIndices} = Durations
    BY BucketIsBelow
  <2>9. Sum(s.Buckets, BucketIndices) = Sum(counted, Durations)
    BY <1>3, <2>8
  <2> QED
    BY <2>7, <2>9 DEF TermCount, Sum
<1>6. DOMAIN s.Buckets = BucketIndices
  BY <1>1 DEF Snapshots
<1> QED
  BY <1>1, <1>2, <1>4, <1>5, <1>6 DEF HistogramReported, s, t, counted

(***************************************************************************)
(* What Write (promextra/promextra.go) reports of the execution times is a *)
(* part of what update_histogram (packet/c/cap.c) measured, on any number  *)
(* of CPUs and for any set of times below 2^32, although the CPUs count on *)
(* while readSnapshotFromMap copies them one after the other.              *)
(***************************************************************************)
THEOREM ScrapesReportMeasuredTimes == HistSpec => []HistogramReported
<1>1. HistInit => HistInv
  BY HistStart
<1>2. HistInv /\ [HistNext]_histVars => HistInv'
  BY HistStep
<1>3. HistInv => HistogramReported
  BY InvReported
<1> QED
  BY <1>1, <1>2, <1>3, PTL DEF HistSpec

(***************************************************************************)
(* The buckets and the sum of a scrape are never behind those of an        *)
(* earlier one: ApplySnapshot (promextra/promextra.go) never replaces a    *)
(* snapshot by one that has less of anything.                              *)
(***************************************************************************)
THEOREM ScrapesNeverGoBack == HistSpec => CountsNeverDecrease
<1> DEFINE Grows == /\ \A i \in BucketIndices : currentSnapshot.Buckets[i] <= currentSnapshot'.Buckets[i]
                    /\ PartOf(currentSnapshot.Total, currentSnapshot'.Total)
<1>1. HistInit => HistInv
  BY HistStart
<1>2. HistInv /\ [HistNext]_histVars => HistInv'
  BY HistStep
<1>3. HistInv /\ [HistNext]_histVars => [Grows]_histVars
  <2> SUFFICES ASSUME HistInv, HistNext
               PROVE  Grows
    OBVIOUS
  <2>1. CASE ApplyRead
    <3>1. read = HistogramCPUs /\ currentSnapshot' = snapshot
      BY <2>1, ApplyReadIs DEF HistInv
    <3> QED
      BY <3>1, ReadIsLater DEF PartOf
  <2>2. CASE ~ApplyRead
    <3>1. currentSnapshot' = currentSnapshot
      BY <2>2, ZeroIsRefused DEF HistNext, AddTotal, IncrementBucket, ReadCPU, CloseSnapshots, HistInv
    <3>2. /\ \A i \in BucketIndices : currentSnapshot.Buckets[i] \in Nat
          /\ \A d \in Durations : currentSnapshot.Total[d] \in Nat
      BY DEF HistInv, HistTypeOK, Snapshots, Times
    <3>3. /\ \A i \in BucketIndices : currentSnapshot.Buckets[i] <= currentSnapshot.Buckets[i]
          /\ \A d \in Durations : currentSnapshot.Total[d] <= currentSnapshot.Total[d]
      BY <3>2
    <3> QED
      BY <3>1, <3>3 DEF PartOf
  <2> QED
    BY <2>1, <2>2
<1> QED
  BY <1>1, <1>2, <1>3, PTL DEF HistSpec, CountsNeverDecrease
=============================================================================
