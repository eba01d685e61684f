----------------------------- MODULE Histogram ------------------------------
(***************************************************************************)
(* The histogram of execution times: update_histogram and bpf_log2         *)
(* (packet/c/cap.c) on every CPU, readSnapshotFromMap (packet/bpf.go),     *)
(* TrackExecutionTime (packet/packet.go), which sends what is read to      *)
(* Apply, ApplySnapshot and Write (promextra/promextra.go).                *)
(* capture_packets has the call of update_histogram commented out until    *)
(* the kernels in use allow it; the module is about the code in place.     *)
(*                                                                         *)
(* A time in nanoseconds is an unsigned integer of 64 bits: the set of the *)
(* positions of its ones. A sum of times says how often each of them has   *)
(* been added.                                                             *)
(***************************************************************************)
EXTENDS Integers, FiniteSets, Functions

CONSTANTS
  HistogramCPUs,   \* CPUs that run the filter
  Durations,       \* execution times that are measured
  MaxSamples       \* bound on their number

VARIABLES
  histogram,         \* eBPF per-CPU array: CPU -> execution_histogram
  measured,          \* CPU -> the time it has still to count in a bucket, if any
  read,              \* CPUs whose value the current Lookup has copied
  snapshot,          \* the snapshot that is being read
  closed,            \* the channel snapshots is closed
  currentSnapshot,   \* PrecomputedHistogram.currentSnapshot
  samples,           \* history: the sum of all times measured
  torn               \* history: times in `snapshot' and `currentSnapshot' that
                     \*   were copied between the two steps of update_histogram

histVars == <<histogram, measured, read, snapshot, closed, currentSnapshot, samples, torn>>

(* The longest run of the filter takes less than 2^32 nanoseconds.         *)
ASSUME DurationsAssumption == Durations \subseteq SUBSET (0 .. 31) /\ MaxSamples \in Nat

ASSUME HistogramCPUsAssumption == IsFiniteSet(HistogramCPUs)

BUCKET_COUNT         == 32
ExecutionBucketCount == 32
BucketIndices        == 0 .. BUCKET_COUNT - 1

(* The bounds of the Prometheus buckets are 2^1 .. 2^31; this is how many. *)
BoundCount == 31

(* Sums of times: none, a sum of two, and how many terms a sum has.        *)
NoTimes           == [d \in Durations |-> 0]
AddTimes(s1, s2)  == [d \in Durations |-> s1[d] + s2[d]]
TermCount(s)      == SumFunctionOnSet(s, Durations)

(* The sum of a set of times.                                              *)
TimesOf(times)    == [d \in Durations |-> IF d \in times THEN 1 ELSE 0]

NewSnapshot == [Total |-> NoTimes, Buckets |-> [i \in BucketIndices |-> 0]]

(* The zero value of Snapshot: its slice of buckets is empty.              *)
ZeroSnapshot == [Total |-> NoTimes, Buckets |-> [i \in {} |-> 0]]

-----------------------------------------------------------------------------
(* v > 2^n - 1, v >> n, and the conversion to an unsigned int of 32 bits.  *)
Exceeds(v, n)    == \E b \in v : b >= n
ShiftRight(v, n) == {b - n : b \in {x \in v : x >= n}}
Uint32(v)        == v \cap 0 .. 31

(***************************************************************************)
(* A deliberately wrong Log2Shift that stops one power of two too late.    *)
(***************************************************************************)
Log2ShiftLate(v, n) == IF Exceeds(v, n + 1) THEN n ELSE 0

(* One halving of the search: the shift is n when v has a one at n or up.  *)
Log2Shift(v, n) == IF Exceeds(v, n) THEN n ELSE 0

bpf_log2(v) ==
  LET s16 == Log2Shift(v, 16)
      v16 == ShiftRight(v, s16)
      s8  == Log2Shift(v16, 8)
      v8  == ShiftRight(v16, s8)
      s4  == Log2Shift(v8, 4)
      v4  == ShiftRight(v8, s4)
      s2  == Log2Shift(v4, 2)
      v2  == ShiftRight(v4, s2)
  IN  s16 + s8 + s4 + s2 + (IF 1 \in v2 THEN 1 ELSE 0)

(* The bucket of a duration; the argument of bpf_log2 has 32 bits.         *)
bucket_index(duration_ns) ==
  LET i == bpf_log2(Uint32(duration_ns)) IN IF i >= BUCKET_COUNT THEN BUCKET_COUNT - 1 ELSE i

-----------------------------------------------------------------------------
(* verifyConstants ends the process at once when the counts differ.        *)
verifyConstants == BUCKET_COUNT = ExecutionBucketCount

HistInit ==
  /\ verifyConstants
  /\ histogram = [c \in HistogramCPUs |-> NewSnapshot]
  /\ measured = [c \in HistogramCPUs |-> {}]
  /\ read = {} /\ snapshot = NewSnapshot /\ closed = FALSE
  /\ currentSnapshot = NewSnapshot
  /\ samples = NoTimes /\ torn = [reading |-> NoTimes, current |-> NoTimes]

(* update_histogram: the time is added to the total, then the bucket is    *)
(* incremented; the value read may be copied in between.                   *)
AddTotal(c, d) ==
  /\ measured[c] = {} /\ TermCount(samples) < MaxSamples
  /\ measured' = [measured EXCEPT ![c] = {d}]
  /\ histogram' = [histogram EXCEPT ![c].Total = AddTimes(@, TimesOf({d}))]
  /\ samples' = AddTimes(samples, TimesOf({d}))
  /\ UNCHANGED <<read, snapshot, closed, currentSnapshot, torn>>

IncrementBucket(c) ==
  \E d \in measured[c] :
    /\ histogram' = [histogram EXCEPT ![c].Buckets[bucket_index(d)] = @ + 1]
    /\ measured' = [measured EXCEPT ![c] = {}]
    /\ UNCHANGED <<read, snapshot, closed, currentSnapshot, samples, torn>>

(* The values of the CPUs are added up, the total and every bucket.        *)
AddSnapshots(s, value) ==
  [Total |-> AddTimes(s.Total, value.Total),
   Buckets |-> [i \in BucketIndices |-> s.Buckets[i] + value.Buckets[i]]]

(* readSnapshotFromMap; Lookup (external) copies one CPU after the other.  *)
ReadCPU(c) ==
  /\ ~closed /\ c \notin read
  /\ read' = read \cup {c}
  /\ snapshot' = AddSnapshots(snapshot, histogram[c])
  /\ torn' = [torn EXCEPT !.reading = AddTimes(@, TimesOf(measured[c]))]
  /\ UNCHANGED <<histogram, measured, closed, currentSnapshot, samples>>

(***************************************************************************)
(* A deliberately wrong AllRead that is content with one of the CPUs.      *)
(***************************************************************************)
SomeRead == read # {}

(* The loop over the values of the CPUs has ended.                         *)
AllRead == read = HistogramCPUs

(* ApplySnapshot only accepts as many buckets as there are.                *)
checkSnapshot(s) == DOMAIN s.Buckets = DOMAIN currentSnapshot.Buckets

ApplySnapshot(s) ==
  currentSnapshot' = IF checkSnapshot(s) THEN s ELSE currentSnapshot

(* The snapshot goes over the channel to Apply.                            *)
ApplyRead ==
  /\ ~closed /\ AllRead
  /\ ApplySnapshot(snapshot)
  /\ read' = {} /\ snapshot' = NewSnapshot
  /\ torn' = [reading |-> NoTimes, current |-> torn.reading]
  /\ UNCHANGED <<histogram, measured, closed, samples>>

(* TrackExecutionTime returns between two snapshots, and closes the        *)
(* channel; ...                                                            *)
CloseSnapshots ==
  /\ ~closed /\ read = {}
  /\ closed' = TRUE
  /\ UNCHANGED <<histogram, measured, read, snapshot, currentSnapshot, samples, torn>>

(* ... from then on Apply, until it returns, receives zero values from it, *)
(* while the filter still runs and the histogram may still be scraped.     *)
ApplyZero ==
  /\ closed
  /\ ApplySnapshot(ZeroSnapshot)
  /\ UNCHANGED <<histogram, measured, read, snapshot, closed, samples, torn>>

HistNext ==
  \/ \E c \in HistogramCPUs : (\E d \in Durations : AddTotal(c, d)) \/ IncrementBucket(c) \/ ReadCPU(c)
  \/ ApplyRead \/ CloseSnapshots \/ ApplyZero

HistSpec == HistInit /\ [][HistNext]_histVars

-----------------------------------------------------------------------------
(* Write: what a scrape reports for the bound 2^(n + 1), and in all. The   *)
(* last bucket of the snapshot, that of +Inf, is only in the sample count. *)
CumulativeCount(n) == SumFunctionOnSet(currentSnapshot.Buckets, 0 .. n)

SampleCount == CumulativeCount(BoundCount - 1) + currentSnapshot.Buckets[BUCKET_COUNT - 1]

-----------------------------------------------------------------------------
(* Properties.                                                             *)

(* The number of terms of a sum that are below 2^n.                        *)
Below(s, n) == SumFunctionOnSet(s, {d \in Durations : ~Exceeds(d, n)})

(* Every term of the sum is one of the other.                              *)
PartOf(s1, s2) == \A d \in Durations : s1[d] <= s2[d]

(***************************************************************************)
(* Whatever a scrape reports was measured, and nothing is reported twice:  *)
(* the sum is a part of the times measured, and the count below each bound *)
(* is the number of terms of the sum below it, short of at most one time   *)
(* per CPU, whose bucket was not yet incremented when it was copied. Write *)
(* finds all the buckets it indexes, also when the channel of the          *)
(* snapshots is closed and gives zero values.                              *)
(***************************************************************************)
HistogramReported ==
  LET counted == [d \in Durations |-> currentSnapshot.Total[d] - torn.current[d]] IN
  /\ DOMAIN currentSnapshot.Buckets = BucketIndices
  /\ PartOf(currentSnapshot.Total, samples) /\ PartOf(torn.current, currentSnapshot.Total)
  /\ \A n \in 0 .. BoundCount - 1 : CumulativeCount(n) = Below(counted, n + 1)
  /\ SampleCount = TermCount(counted)
  /\ TermCount(torn.current) <= Cardinality(HistogramCPUs)

(***************************************************************************)
(* The counts of a Prometheus histogram never go back from one scrape to   *)
(* the next, although the CPUs are not read at the same moment, and also   *)
(* while the process is shut down.                                         *)
(***************************************************************************)
CountsNeverDecrease ==
  [][/\ \A i \in BucketIndices : currentSnapshot.Buckets[i] <= currentSnapshot'.Buckets[i]
     /\ PartOf(currentSnapshot.Total, currentSnapshot'.Total)]_histVars
=============================================================================
