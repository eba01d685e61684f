---------------------------- MODULE Places_proofs ---------------------------
(***************************************************************************)
(* Theorems about where the connections that the filter counts are: with   *)
(* one CPU each is in exactly one place of the pipeline (NothingLost), and *)
(* in no case is there more in the pipeline than was counted               *)
(* (NothingInvented).                                                      *)
(***************************************************************************)
EXTENDS Audit_proofs, Counters_proofs, Sums_proofs

-----------------------------------------------------------------------------
(* The parts of what is kept for a ConnKey.                                *)

(* They are numbers.                                                       *)
PartsNat ==
  \A ck \in ConnKey, o \in Outcomes :
    /\ \A b \in Buckets : InBucket(b, ck, o) \in Nat
    /\ InCopy(ck, o) \in Nat /\ InInc(ck, o) \in Nat
    /\ Total(KindOf(o), ck) \in Nat

LEMMA KindOfType ==
  ASSUME NEW o \in Outcomes
  PROVE  KindOf(o) \in Kinds /\ KindOf(o) \in {"successful", "rejected"}
BY DEF Outcomes, KindOf, Kinds

LEMMA PartsType == TypeInv => PartsNat
<1> SUFFICES ASSUME TypeInv, NEW ck \in ConnKey, NEW o \in Outcomes
             PROVE  /\ \A b \in Buckets : InBucket(b, ck, o) \in Nat
                    /\ InCopy(ck, o) \in Nat /\ InInc(ck, o) \in Nat
                    /\ Total(KindOf(o), ck) \in Nat
  BY DEF PartsNat
<1>1. \A s \in sni_stats_t : s[o] \in Nat
  BY DEF sni_stats_t, Outcomes
<1>2. \A b \in Buckets : InBucket(b, ck, o) \in Nat
  BY <1>1 DEF InBucket, TypeInv, TypeOK, MapsTypeOK, IsMap
<1>3. InCopy(ck, o) \in Nat
  BY <1>1 DEF InCopy, TypeInv, TypeOK, TrackTypeOK, IsMap
<1>4. \A i \in Inc : i[KindOf(o)] \in Nat
  BY KindOfType DEF Inc
<1>5. InInc(ck, o) \in Nat
  BY <1>4 DEF InInc, TypeInv, TypeOK, TrackTypeOK
<1>6. Value(KindOf(o), ck) \in Nat /\ Pending(KindOf(o), ck) \in Nat
  BY <1>4, KindOfType, ValueType DEF Pending, TypeInv, TypeOK, MetricsTypeOK
<1> QED
  BY <1>2, <1>3, <1>5, <1>6 DEF Total

LEMMA PartsTypeNext == TypeInv' => PartsNat'
BY PartsType, PTL

(* What is in the buckets is a sum over them.                              *)
LEMMA BucketsFinite == IsFiniteSet(Buckets)
<1>1. 0 \in Int /\ STATS_SECONDS_COUNT - 1 \in Int
  BY StatsSecondsAssumption
<1> QED
  BY <1>1, FS_Interval DEF Buckets

LEMMA InBucketsIsSum ==
  ASSUME NEW ck, NEW o
  PROVE  /\ InBuckets(ck, o) = SumFunctionOnSet([b \in Buckets |-> InBucket(b, ck, o)], Buckets)
         /\ InBuckets(ck, o)' = SumFunctionOnSet([b \in Buckets |-> InBucket(b, ck, o)'], Buckets)
BY DEF InBuckets, SumFunction

(* A step that leaves every bucket alone but one, for a ConnKey.           *)
LEMMA BucketsOfStep ==
  ASSUME TypeInv, TypeInv', NEW ck \in ConnKey, NEW o \in Outcomes, NEW b \in Buckets,
         \A x \in Buckets : x # b => InBucket(x, ck, o)' = InBucket(x, ck, o)
  PROVE  /\ InBuckets(ck, o) \in Nat
         /\ InBuckets(ck, o)' = InBuckets(ck, o) - InBucket(b, ck, o) + InBucket(b, ck, o)'
<1> DEFINE f == [x \in Buckets |-> InBucket(x, ck, o)]
           g == [x \in Buckets |-> InBucket(x, ck, o)']
<1>1. \A x \in Buckets : f[x] \in Nat /\ g[x] \in Nat
  BY PartsType, PartsTypeNext DEF PartsNat
<1>2. \A x \in Buckets \ {b} : f[x] = g[x]
  OBVIOUS
<1>3. f[b] = InBucket(b, ck, o) /\ g[b] = InBucket(b, ck, o)'
  OBVIOUS
<1>4. /\ InBuckets(ck, o) = SumFunctionOnSet(f, Buckets)
      /\ InBuckets(ck, o)' = SumFunctionOnSet(g, Buckets)
  BY InBucketsIsSum
<1> HIDE DEF f, g
<1>5. SumFunctionOnSet(g, Buckets) = SumFunctionOnSet(f, Buckets) - f[b] + g[b]
  BY <1>1, <1>2, BucketsFinite, SumChanges
<1>6. SumFunctionOnSet(f, Buckets) \in Nat
  BY <1>1, BucketsFinite, SumIsNat
<1> QED
  BY <1>3, <1>4, <1>5, <1>6

(* What is kept is a number, before and after a step.                      *)
KeptNat ==
  \A ck \in ConnKey, o \in Outcomes : InBuckets(ck, o) \in Nat /\ Kept(ck, o) \in Nat

LEMMA KeptType == TypeInv => KeptNat
<1> SUFFICES ASSUME TypeInv, NEW ck \in ConnKey, NEW o \in Outcomes
             PROVE  InBuckets(ck, o) \in Nat /\ Kept(ck, o) \in Nat
  BY DEF KeptNat
<1>1. InBuckets(ck, o) \in Nat
  <2> DEFINE f == [x \in Buckets |-> InBucket(x, ck, o)]
  <2>1. \A x \in Buckets : f[x] \in Nat
    BY PartsType DEF PartsNat
  <2>2. InBuckets(ck, o) = SumFunctionOnSet(f, Buckets)
    BY InBucketsIsSum
  <2> HIDE DEF f
  <2> QED
    BY <2>1, <2>2, BucketsFinite, SumIsNat
<1> QED
  BY <1>1, PartsType DEF PartsNat, Kept

LEMMA KeptTypeNext == TypeInv' => KeptNat'
BY KeptType, PTL

(* A step that leaves every bucket alone, for a ConnKey, ...               *)
LEMMA BucketsSame ==
  ASSUME NEW ck, NEW o, \A b \in Buckets : InBucket(b, ck, o)' = InBucket(b, ck, o)
  PROVE  InBuckets(ck, o)' = InBuckets(ck, o)
<1> DEFINE f == [x \in Buckets |-> InBucket(x, ck, o)]
           g == [x \in Buckets |-> InBucket(x, ck, o)']
<1>1. f = g
  OBVIOUS
<1>2. /\ InBuckets(ck, o) = SumFunctionOnSet(f, Buckets)
      /\ InBuckets(ck, o)' = SumFunctionOnSet(g, Buckets)
  BY InBucketsIsSum
<1> HIDE DEF f, g
<1> QED
  BY <1>1, <1>2

(* ... and one that leaves all of the parts alone.                         *)
LEMMA KeptSame ==
  ASSUME NEW ck, NEW o,
         \A b \in Buckets : InBucket(b, ck, o)' = InBucket(b, ck, o),
         InCopy(ck, o)' = InCopy(ck, o), InInc(ck, o)' = InInc(ck, o),
         Total(KindOf(o), ck)' = Total(KindOf(o), ck)
  PROVE  Kept(ck, o)' = Kept(ck, o)
BY BucketsSame DEF Kept

-----------------------------------------------------------------------------
(* The steps of the goroutines.                                            *)

(***************************************************************************)
(* TrackConnections holds an increment only while it sends it, and deletes *)
(* from the bucket what it has copied, and only that.                      *)
(***************************************************************************)
PlaceInv ==
  /\ tpc # "send" => inc = Null
  /\ tpc = "cleanup" =>
       /\ todo \subseteq DOMAIN statsValuesAtKey
       /\ DOMAIN stats[statsKey] \cap DOMAIN statsValuesAtKey \subseteq todo

(* Every step of the exporter preserves it.                                *)
LEMMA PlaceStep ==
  ASSUME TypeInv, ClockInv, PlaceInv, [Next]_vars
  PROVE  PlaceInv'
<1>b. statsKey \in Buckets
  BY StatsSecondsAssumption DEF statsKey, Buckets, TypeInv, TypeOK, TrackTypeOK
<1>1. ASSUME NEW c \in CPUs, CaptureAction(c) \/ DeliverAction(c)
      PROVE  PlaceInv'
  <2>1. UNCHANGED <<tpc, todo, statsValuesAtKey, inc, currentTickerClock>>
    BY <1>1 DEF CaptureAction, DeliverAction, trackVars, loopVars
  <2>2. stats'[statsKey] = stats[statsKey]
    BY <1>1, DrainedUntouched DEF CaptureAction, DeliverAction
  <2> QED
    BY <2>1, <2>2 DEF PlaceInv, statsKey
<1>2. ASSUME NEW k \in todo, DeleteStats(k)
      PROVE  PlaceInv'
  <2>1. DOMAIN stats'[statsKey] = DOMAIN stats[statsKey] \ {k}
    BY <1>2, <1>b DEF DeleteStats, TypeInv, TypeOK, MapsTypeOK, MapDelete
  <2> QED
    BY <1>2, <2>1 DEF DeleteStats, PlaceInv, statsKey
<1>3. CASE CollectEnd
  BY <1>3 DEF CollectEnd, PlaceInv, mapVars
<1>4. CASE tpc' # "cleanup" /\ (tpc' = "send" \/ inc' = Null)
  BY <1>4 DEF PlaceInv
<1>5. CASE UNCHANGED <<tpc, todo, statsValuesAtKey, inc, currentTickerClock, stats>>
  BY <1>5 DEF PlaceInv, statsKey
<1>6. CASE TrackAction
  BY <1>2, <1>3, <1>4, <1>6
     DEF TrackAction, TrackStep, Tick, ScanConnection, PurgeConnection, CollectStats, Account,
         ScanError, ScanEnd, StatsLookup, StatsLookupError, CleanupEnd, EndOfBody, loopVars,
         PlaceInv
<1>7. CASE SecondAction \/ ApplyAction \/ UNCHANGED vars
  BY <1>5, <1>7 DEF SecondAction, Second, ApplyAction, vars, mapVars, trackVars, loopVars
<1>8. CASE SendInc \/ ExpireAction \/ AdvanceAction \/ Restart
  BY <1>4, <1>8 DEF SendInc, Send, ExpireAction, Expire, AdvanceAction, Advance, Restart,
       EndOfBody, loopVars, PlaceInv
<1> QED
  BY <1>1, <1>6, <1>7, <1>8 DEF Next, Rest

(* It holds throughout.                                                    *)
LEMMA PlaceInvariant == Spec => []PlaceInv
<1>1. Init => PlaceInv
  BY DEF Init, TrackInit, PlaceInv
<1>2. TypeInv /\ ClockInv /\ PlaceInv /\ [Next]_vars => PlaceInv'
  BY PlaceStep
<1> QED
  BY <1>1, <1>2, TypeInvariant, ClockInvariant, PTL DEF Spec

(* The end of the iteration: what was in the bucket is now in the copy.    *)
LEMMA KeptOfCollectEnd ==
  ASSUME TypeInv, TypeInv', CopyInv, CollectEnd, UNCHANGED metricVars,
         NEW ck \in ConnKey, NEW o \in Outcomes
  PROVE  Kept(ck, o)' = Kept(ck, o)
<1>1. /\ tpc = "stats" /\ tpc' = "cleanup"
      /\ UNCHANGED <<stats, currentTickerClock, statsValuesAtKey, inc, counters, applying, step>>
  BY DEF CollectEnd, mapVars, metricVars
<1>2. statsKey \in Buckets /\ statsKey' = statsKey
  BY <1>1, OldestBucket DEF statsKey
<1>3. /\ InInc(ck, o)' = InInc(ck, o) /\ Total(KindOf(o), ck)' = Total(KindOf(o), ck)
  BY <1>1 DEF InInc, Total, Value, Pending
<1>4. ~Copied(ck) /\ (Copied(ck)' <=> ck \in DOMAIN statsValuesAtKey)
  BY <1>1 DEF Copied
<1>5. \A x \in Buckets : x # statsKey => InBucket(x, ck, o)' = InBucket(x, ck, o)
  BY <1>1, <1>2 DEF InBucket
<1>6. InBuckets(ck, o)' = InBuckets(ck, o) - InBucket(statsKey, ck, o) + InBucket(statsKey, ck, o)'
  BY <1>2, <1>5, BucketsOfStep
<1>7. InBucket(statsKey, ck, o) + InCopy(ck, o) = InBucket(statsKey, ck, o)' + InCopy(ck, o)'
  <2>1. CASE ck \in DOMAIN statsValuesAtKey
    <3>1. ck \in DOMAIN stats[statsKey] /\ statsValuesAtKey[ck] = stats[statsKey][ck]
      BY <1>1, <2>1 DEF CopyInv
    <3>2. InCopy(ck, o) = 0 /\ InCopy(ck, o)' = stats[statsKey][ck][o]
      BY <1>1, <1>4, <2>1, <3>1 DEF InCopy
    <3>3. InBucket(statsKey, ck, o) = stats[statsKey][ck][o] /\ InBucket(statsKey, ck, o)' = 0
      BY <1>1, <1>2, <1>4, <2>1, <3>1 DEF InBucket
    <3>4. stats[statsKey][ck][o] \in Nat
      BY <1>2, <3>3, PartsType DEF PartsNat
    <3> QED
      BY <3>2, <3>3, <3>4
  <2>2. CASE ck \notin DOMAIN statsValuesAtKey
    BY <1>1, <1>2, <1>4, <2>2 DEF InCopy, InBucket
  <2> QED
    BY <2>1, <2>2
<1>8. /\ InBuckets(ck, o) \in Nat /\ InBucket(statsKey, ck, o) \in Nat
      /\ InBucket(statsKey, ck, o)' \in Nat /\ InCopy(ck, o) \in Nat /\ InCopy(ck, o)' \in Nat
      /\ InInc(ck, o) \in Nat /\ Total(KindOf(o), ck) \in Nat
  BY <1>2, KeptType, PartsType, PartsTypeNext DEF KeptNat, PartsNat
<1> QED
  BY <1>3, <1>6, <1>7, <1>8 DEF Kept

(* The entry that is deleted has been copied.                              *)
LEMMA KeptOfDelete ==
  ASSUME TypeInv, TypeInv', PlaceInv, NEW k \in todo, DeleteStats(k), UNCHANGED metricVars,
         NEW ck \in ConnKey, NEW o \in Outcomes
  PROVE  Kept(ck, o)' = Kept(ck, o)
<1>1. /\ tpc = "cleanup" /\ stats' = [stats EXCEPT ![statsKey] = MapDelete(@, k)]
      /\ UNCHANGED <<tpc, currentTickerClock, statsValuesAtKey, inc, counters, applying, step>>
  BY DEF DeleteStats, metricVars
<1>2. statsKey \in Buckets /\ statsKey' = statsKey /\ stats = [b \in Buckets |-> stats[b]]
  BY <1>1, OldestBucket DEF statsKey, TypeInv, TypeOK, MapsTypeOK
<1>3. /\ InInc(ck, o)' = InInc(ck, o) /\ Total(KindOf(o), ck)' = Total(KindOf(o), ck)
  BY <1>1 DEF InInc, Total, Value, Pending
<1>4. (Copied(ck)' <=> Copied(ck)) /\ (Copied(ck) <=> ck \in DOMAIN statsValuesAtKey)
  BY <1>1 DEF Copied
<1>5. InCopy(ck, o)' = InCopy(ck, o)
  BY <1>1, <1>4 DEF InCopy
<1>6. k \in DOMAIN statsValuesAtKey
  BY <1>1 DEF PlaceInv
<1>7. ASSUME NEW b \in Buckets
      PROVE  InBucket(b, ck, o)' = InBucket(b, ck, o)
  <2>1. CASE b # statsKey
    BY <1>1, <1>2, <2>1 DEF InBucket
  <2>2. CASE b = statsKey /\ ck = k
    BY <1>1, <1>2, <1>4, <1>6, <2>2 DEF InBucket
  <2>3. CASE b = statsKey /\ ck # k
    <3>1. /\ stats'[b] = MapDelete(stats[b], k)
      BY <1>1, <1>2, <2>3
    <3>2. /\ ck \in DOMAIN stats'[b] <=> ck \in DOMAIN stats[b]
          /\ ck \in DOMAIN stats[b] => stats'[b][ck] = stats[b][ck]
      BY <2>3, <3>1 DEF MapDelete
    <3> QED
      BY <1>1, <1>2, <1>4, <3>2 DEF InBucket
  <2> QED
    BY <2>1, <2>2, <2>3
<1> QED
  BY <1>3, <1>5, <1>7, KeptSame

(***************************************************************************)
(* The end of the cleanup. What has been copied is to be annotated; or it  *)
(* is dropped, if the iteration had failed.                                *)
(***************************************************************************)
LEMMA KeptOfCleanupEnd ==
  ASSUME TypeInv, TypeInv', DrainInv, PlaceInv, CleanupEnd, Alive', UNCHANGED metricVars,
         NEW ck \in ConnKey, NEW o \in Outcomes
  PROVE  /\ ~iterErr => Kept(ck, o)' = Kept(ck, o)
         /\ Kept(ck, o)' <= Kept(ck, o)
<1>1. /\ tpc = "cleanup" /\ todo = {} /\ inc = Null /\ inc' = Null
      /\ UNCHANGED <<stats, currentTickerClock, counters, applying, step>>
  BY DEF CleanupEnd, PlaceInv, EndOfBody, Alive, metricVars, mapVars, loopVars
<1>2. statsKey \in Buckets /\ statsKey' = statsKey
  BY <1>1, OldestBucket DEF statsKey
<1>3. InInc(ck, o)' = InInc(ck, o) /\ Total(KindOf(o), ck)' = Total(KindOf(o), ck)
  BY <1>1 DEF InInc, Total, Value, Pending
<1>4. ~(ck \in DOMAIN stats[statsKey] /\ ck \in DOMAIN statsValuesAtKey)
  BY <1>1 DEF PlaceInv
<1>5. Copied(ck) <=> ck \in DOMAIN statsValuesAtKey
  BY <1>1 DEF Copied
<1>6. tpc' # "cleanup"
  BY DEF CleanupEnd, EndOfBody, Alive
<1>7. \A b \in Buckets : InBucket(b, ck, o)' = InBucket(b, ck, o)
  BY <1>1, <1>2, <1>4, <1>5, <1>6 DEF InBucket
<1>8. InBuckets(ck, o)' = InBuckets(ck, o)
  BY <1>7, BucketsSame
<1>9. CASE ~iterErr
  <2>1. tpc' = "account" /\ UNCHANGED statsValuesAtKey /\ todo' = DOMAIN statsValuesAtKey
    BY <1>9 DEF CleanupEnd, Alive, PutUint32Panics, lenIP, sniSet
  <2>2. Copied(ck)' <=> ck \in DOMAIN statsValuesAtKey
    BY <2>1 DEF Copied
  <2>3. InCopy(ck, o)' = InCopy(ck, o)
    BY <1>5, <2>1, <2>2 DEF InCopy
  <2>4. Kept(ck, o)' = Kept(ck, o)
    BY <1>3, <1>7, <2>3, KeptSame
  <2> QED
    BY <2>4, KeptType DEF KeptNat
<1>10. CASE iterErr
  <2>1. tpc' = "idle"
    BY <1>10 DEF CleanupEnd, EndOfBody
  <2>2. InCopy(ck, o)' = 0
    BY <2>1 DEF InCopy, Copied
  <2>3. /\ InCopy(ck, o) \in Nat /\ InBuckets(ck, o) \in Nat
        /\ InInc(ck, o) \in Nat /\ Total(KindOf(o), ck) \in Nat
    BY KeptType, PartsType DEF KeptNat, PartsNat
  <2> QED
    BY <1>3, <1>8, <1>10, <2>2, <2>3 DEF Kept
<1> QED
  BY <1>9, <1>10

(* The increment takes what the copy has for its ConnKey.                  *)
LEMMA KeptOfAccount ==
  ASSUME TypeInv, TypeInv', PlaceInv, NEW k \in todo, Account(k), UNCHANGED metricVars,
         NEW ck \in ConnKey, NEW o \in Outcomes
  PROVE  Kept(ck, o)' = Kept(ck, o)
<1>1. /\ tpc = "account" /\ tpc' = "send" /\ todo' = todo \ {k} /\ inc = Null
      /\ UNCHANGED <<stats, currentTickerClock, statsValuesAtKey, counters, applying, step>>
  BY DEF Account, PlaceInv, metricVars, mapVars
<1>2. \A b \in Buckets : InBucket(b, ck, o)' = InBucket(b, ck, o)
  BY <1>1 DEF InBucket
<1>3. Total(KindOf(o), ck)' = Total(KindOf(o), ck)
  BY <1>1 DEF Total, Value, Pending
<1>4. /\ inc' \in Inc /\ inc' # Null /\ inc'.key = k
      /\ inc'.successful = succeeded_connections(k)
      /\ inc'.rejected = failed_connections(k)
  <2>1. /\ DOMAIN staleConnections(k) = {}
        /\ succeeded_connections(k) \in Nat /\ failed_connections(k) \in Nat
        /\ previousFailed(k) \in BOOLEAN
    BY <1>1, CountsType DEF TypeInv, TypeOK, NoOldConnections, staleConnections
  <2>2. inc' \in Inc
    BY <1>1 DEF TypeInv, TypeOK, TrackTypeOK
  <2> QED
    BY <2>1, <2>2, AccountWithoutStale, NullIncAssumption DEF Account
<1>5. InInc(ck, o) = 0 /\ InInc(ck, o)' = IF ck = k THEN inc'[KindOf(o)] ELSE 0
  BY <1>1, <1>4 DEF InInc
<1>6. (Copied(ck) <=> ck \in todo) /\ (Copied(ck)' <=> ck \in todo \ {k})
  BY <1>1 DEF Copied
<1>7. InCopy(ck, o) + InInc(ck, o) = InCopy(ck, o)' + InInc(ck, o)'
  <2>1. CASE ck = k
    <3>1. InCopy(ck, o)' = 0
      BY <1>6, <2>1 DEF InCopy
    <3>2. inc'[KindOf(o)] = InCopy(ck, o)
      BY <1>4, <1>6, <2>1
         DEF InCopy, KindOf, Outcomes, succeeded_connections, failed_connections
    <3> QED
      BY <1>5, <2>1, <3>1, <3>2, PartsType DEF PartsNat
  <2>2. CASE ck # k
    BY <1>1, <1>5, <1>6, <2>2 DEF InCopy
  <2> QED
    BY <2>1, <2>2
<1>8. InBuckets(ck, o)' = InBuckets(ck, o)
  BY <1>2, BucketsSame
<1>9. /\ InCopy(ck, o) \in Nat /\ InCopy(ck, o)' \in Nat /\ InBuckets(ck, o) \in Nat
      /\ InInc(ck, o) \in Nat /\ InInc(ck, o)' \in Nat /\ Total(KindOf(o), ck) \in Nat
  BY KeptType, PartsType, PartsTypeNext DEF KeptNat, PartsNat
<1> QED
  BY <1>3, <1>7, <1>8, <1>9 DEF Kept

(* The hand-over of the increment: it is in the totals at once.            *)
LEMMA KeptOfSend ==
  ASSUME TypeInv, TypeInv', SendInc, NEW ck \in ConnKey, NEW o \in Outcomes
  PROVE  Kept(ck, o)' = Kept(ck, o)
<1>1. /\ tpc = "send" /\ tpc' = "account" /\ inc' = Null /\ inc \in Inc /\ inc # Null
      /\ UNCHANGED <<stats, currentTickerClock, statsValuesAtKey, todo>>
  BY NullIncAssumption DEF SendInc, Send, TypeInv, TypeOK, TrackTypeOK, mapVars
<1>2. InBuckets(ck, o)' = InBuckets(ck, o) /\ InCopy(ck, o)' = InCopy(ck, o)
  <2>1. \A b \in Buckets : InBucket(b, ck, o)' = InBucket(b, ck, o)
    BY <1>1 DEF InBucket
  <2>2. Copied(ck)' <=> Copied(ck)
    BY <1>1 DEF Copied
  <2> QED
    BY <1>1, <2>1, <2>2, BucketsSame DEF InCopy
<1>3. InInc(ck, o)' = 0 /\ InInc(ck, o) = IF ck = inc.key THEN inc[KindOf(o)] ELSE 0
  BY <1>1 DEF InInc
<1>4. Total(KindOf(o), ck)' = Total(KindOf(o), ck) + InInc(ck, o)
  BY <1>3, KindOfType, TotalsOfSend
<1>5. /\ InCopy(ck, o) \in Nat /\ InBuckets(ck, o) \in Nat
      /\ InInc(ck, o) \in Nat /\ Total(KindOf(o), ck) \in Nat
  BY KeptType, PartsType DEF KeptNat, PartsNat
<1> QED
  BY <1>2, <1>3, <1>4, <1>5 DEF Kept

(***************************************************************************)
(* No step of the goroutines, on the way of an entry from its bucket to    *)
(* the counters, adds anything for any ConnKey; and none takes anything    *)
(* away, but the end of the tick after an iteration that failed.           *)
(***************************************************************************)
LEMMA KeptOfGoroutines ==
  ASSUME TypeInv, TypeInv', DrainInv, CopyInv, PlaceInv, [Next]_vars, Alive, Alive',
         ~(\E c \in CPUs : CaptureAction(c) \/ DeliverAction(c)),
         NEW ck \in ConnKey, NEW o \in Outcomes
  PROVE  /\ ~iterErr => Kept(ck, o)' = Kept(ck, o)
         /\ Kept(ck, o)' <= Kept(ck, o)
<1> DEFINE Early == {"idle", "scan", "purge", "stats", "advance"}
<1>n. Kept(ck, o) \in Nat
  BY KeptType DEF KeptNat
<1>1. ASSUME UNCHANGED <<stats, counters, applying, step>>, inc = Null, inc' = Null,
             tpc \in Early \/ (tpc = "account" /\ todo = {}), tpc' \in Early
      PROVE  Kept(ck, o)' = Kept(ck, o)
  <2>1. \A b \in Buckets : InBucket(b, ck, o)' = InBucket(b, ck, o)
    BY <1>1 DEF InBucket
  <2>2. ~Copied(ck) /\ ~Copied(ck)'
    BY <1>1 DEF Copied
  <2>3. InCopy(ck, o)' = InCopy(ck, o) /\ InInc(ck, o)' = InInc(ck, o)
    BY <1>1, <2>2 DEF InCopy, InInc
  <2>4. Total(KindOf(o), ck)' = Total(KindOf(o), ck)
    BY <1>1 DEF Total, Value, Pending
  <2> QED
    BY <2>1, <2>3, <2>4, KeptSame
<1>2. ASSUME UNCHANGED <<tpc, todo, statsValuesAtKey, currentTickerClock, inc, stats>>,
             Total(KindOf(o), ck)' = Total(KindOf(o), ck)
      PROVE  Kept(ck, o)' = Kept(ck, o)
  <2>1. \A b \in Buckets : InBucket(b, ck, o)' = InBucket(b, ck, o)
    BY <1>2 DEF InBucket, Copied, statsKey
  <2>2. InCopy(ck, o)' = InCopy(ck, o) /\ InInc(ck, o)' = InInc(ck, o)
    BY <1>2 DEF InCopy, InInc, Copied
  <2> QED
    BY <1>2, <2>1, <2>2, KeptSame
<1>3. CASE TrackAction
  <2>1. UNCHANGED <<metricVars, counters, applying, step>>
    BY <1>3 DEF TrackAction, metricVars
  <2>2. CASE \E k \in todo : DeleteStats(k) \/ Account(k)
    BY <1>n, <2>1, <2>2, KeptOfDelete, KeptOfAccount
  <2>3. CASE CollectEnd \/ CleanupEnd
    BY <1>n, <2>1, <2>3, KeptOfCollectEnd, KeptOfCleanupEnd
  <2>4. CASE \/ Tick \/ ScanError \/ ScanEnd \/ StatsLookup \/ StatsLookupError
             \/ \E k \in todo : ScanConnection(k) \/ PurgeConnection(k) \/ CollectStats(k)
    <3>1. UNCHANGED stats /\ inc = Null /\ inc' = Null /\ tpc \in Early /\ tpc' \in Early
      BY <2>4 DEF Tick, ScanError, ScanEnd, StatsLookup, StatsLookupError, ScanConnection,
           PurgeConnection, CollectStats, EndOfBody, PlaceInv, mapVars
    <3>2. Kept(ck, o)' = Kept(ck, o)
      BY <1>1, <2>1, <3>1, Zenon
    <3> QED
      BY <1>n, <3>2
  <2> QED
    BY <1>3, <2>2, <2>3, <2>4 DEF TrackAction, TrackStep
<1>4. CASE SendInc
  BY <1>n, <1>4, KeptOfSend
<1>5. CASE ApplyAction
  <2>1. Total(KindOf(o), ck)' = Total(KindOf(o), ck)
    BY <1>5, KindOfType, TotalOfApply DEF ApplyAction
  <2> QED
    BY <1>n, <1>2, <1>5, <2>1 DEF ApplyAction, mapVars, trackVars, loopVars
<1>6. CASE ExpireAction
  <2>1. UNCHANGED <<counters, applying, step>>
    BY <1>6, DeleteMetricsDeletesNothing DEF ExpireAction, TypeInv, TypeOK
  <2>2. /\ UNCHANGED stats /\ inc = Null /\ inc' = Null
        /\ tpc = "account" /\ todo = {} /\ tpc' = "advance"
    BY <1>6 DEF ExpireAction, Expire, PlaceInv, mapVars, loopVars
  <2> QED
    BY <1>n, <1>1, <2>1, <2>2
<1>7. CASE AdvanceAction
  <2>1. /\ UNCHANGED <<stats, counters, applying, step>> /\ inc = Null /\ inc' = Null
        /\ tpc \in Early /\ tpc' \in Early
    BY <1>7 DEF AdvanceAction, Advance, EndOfBody, PlaceInv, metricVars
  <2>2. Kept(ck, o)' = Kept(ck, o)
    BY <1>1, <2>1, Zenon
  <2> QED
    BY <1>n, <2>2
<1>8. CASE SecondAction \/ UNCHANGED vars
  <2>1. UNCHANGED <<tpc, todo, statsValuesAtKey, currentTickerClock, inc, stats, counters, applying, step>>
    BY <1>8 DEF SecondAction, Second, vars, mapVars, trackVars, loopVars, metricVars
  <2>2. Total(KindOf(o), ck)' = Total(KindOf(o), ck)
    BY <2>1 DEF Total, Value, Pending
  <2> QED
    BY <1>n, <1>2, <2>1, <2>2
<1> QED
  BY <1>3, <1>4, <1>5, <1>6, <1>7, <1>8 DEF Next, Rest, Restart

-----------------------------------------------------------------------------
(* The steps of the filter.                                                *)

(* The run has read the clock for a call and has not recorded it yet.      *)
Unrecorded(c) == cpu[c].pc \in {"stats_find", "stats_add", "stats_insert"}

(* The call in hand counts for this outcome.                               *)
For(c, o) == cpu[c].success = (o = "succeeded_connections")

(* A step of one CPU leaves the runs of the others alone.                  *)
LEMMA OthersKept ==
  ASSUME TypeInv, NEW c \in CPUs, CpuStep(c) \/ Deliver(c), NEW d \in CPUs, d # c
  PROVE  cpu'[d] = cpu[d]
<1>0. cpu \in [CPUs -> Run]
  BY DEF TypeInv, TypeOK, CaptureTypeOK
<1>1. ASSUME NEW label, Goto(c, label)
      PROVE  cpu'[d] = cpu[d]
  BY <1>0, <1>1 DEF Goto
<1>2. ASSUME NEW success, NEW ret, Call(c, success, ret)
      PROVE  cpu'[d] = cpu[d]
  BY <1>0, <1>2 DEF Call
<1>3. ASSUME NEW p, NEW left, Start(c, p, left)
      PROVE  cpu'[d] = cpu[d]
  BY <1>0, <1>3 DEF Start
<1>4. CASE Deliver(c) \/ NextSocket(c)
  BY <1>3, <1>4 DEF Deliver, Ignore, Receive, NextSocket
<1>5. CASE SynAck(c) \/ Psh(c) \/ Bytes(c) \/ Rst(c) \/ Fin(c) \/ StatsDelete(c)
  BY <1>1, <1>2, <1>5 DEF SynAck, Psh, Bytes, Rst, Fin, StatsDelete
<1>6. CASE NewConnection(c) \/ Lookup(c)
  BY <1>0, <1>6 DEF NewConnection, Lookup
<1>7. CASE StatsClock(c) \/ StatsFind(c) \/ StatsAdd(c) \/ StatsInsert(c)
  BY <1>0, <1>7 DEF StatsClock, StatsFind, StatsAdd, StatsInsert
<1> QED
  BY <1>4, <1>5, <1>6, <1>7 DEF CpuStep

(***************************************************************************)
(* What a step of a run has to do with its call: reading the clock makes   *)
(* one, a write records it, a lookup keeps it in hand, and at any other    *)
(* step there is none.                                                     *)
(***************************************************************************)
LEMMA CallOfStep ==
  ASSUME TypeInv, NEW c \in CPUs, CpuStep(c) \/ Deliver(c)
  PROVE  \/ /\ StatsClock(c) /\ ~Unrecorded(c) /\ Unrecorded(c)' /\ UNCHANGED mapVars
            /\ cpu'[c].success = cpu[c].success /\ cpu'[c].conn = cpu[c].conn
         \/ /\ StatsFind(c) /\ Unrecorded(c) /\ Unrecorded(c)' /\ UNCHANGED mapVars
            /\ cpu'[c].success = cpu[c].success /\ cpu'[c].conn = cpu[c].conn
         \/ /\ StatsAdd(c) \/ StatsInsert(c)
            /\ Unrecorded(c) /\ ~Unrecorded(c)' /\ elem' = elem
         \/ /\ ~(StatsClock(c) \/ StatsFind(c) \/ StatsAdd(c) \/ StatsInsert(c))
            /\ ~Unrecorded(c) /\ ~Unrecorded(c)' /\ stats' = stats
<1>0. cpu \in [CPUs -> Run]
  BY DEF TypeInv, TypeOK, CaptureTypeOK
<1>1. CASE StatsClock(c)
  BY <1>0, <1>1 DEF StatsClock, Unrecorded, Run
<1>2. CASE StatsFind(c)
  BY <1>0, <1>2 DEF StatsFind, Unrecorded, Run
<1>3. CASE StatsAdd(c) \/ StatsInsert(c)
  BY <1>0, <1>3 DEF StatsAdd, StatsInsert, Unrecorded, Run
<1>4. CASE ~(StatsClock(c) \/ StatsFind(c) \/ StatsAdd(c) \/ StatsInsert(c))
  <2>1. ~Unrecorded(c)'
    BY <1>4, StatsLabels DEF Unrecorded
  <2>2. ~Unrecorded(c) /\ stats' = stats
    BY <1>4 DEF CpuStep, Deliver, Ignore, Receive, NoFrame, NextSocket, Start, NewConnection,
         Lookup, SynAck, Psh, Bytes, Rst, Fin, StatsDelete, Unrecorded, mapVars
  <2> QED
    BY <1>4, <2>1, <2>2
<1> QED
  BY <1>1, <1>2, <1>3, <1>4

(* So the calls grow when the clock is read, and by one.                   *)
LEMMA CallsOfFilter ==
  ASSUME TypeInv, NEW c \in CPUs, CpuStep(c) \/ Deliver(c), AuditStep
  PROVE  LET id == elem[cpu[c].conn].id IN
         /\ StatsClock(c) => calls' = MapPut(calls, id, AddOne(CallsOf(id), cpu[c].success))
         /\ ~StatsClock(c) => calls' = calls
<1>1. \A d \in CPUs : d # c => cpu'[d] = cpu[d]
  BY OthersKept
<1>2. CASE StatsClock(c)
  <2>1. cpu[c].pc = "stats_clock" /\ cpu'[c].pc = "stats_find"
    BY <1>2 DEF StatsClock, TypeInv, TypeOK, CaptureTypeOK, Run
  <2>2. Clocking = {c}
    BY <1>1, <2>1 DEF Clocking, Moving
  <2>3. Caller = c
    BY <2>2 DEF Caller
  <2> QED
    BY <1>2, <2>2, <2>3 DEF AuditStep
<1>3. CASE ~StatsClock(c)
  <2>1. ~(cpu[c].pc = "stats_clock" /\ cpu'[c].pc = "stats_find")
    BY <1>3, CallOfStep DEF Unrecorded
  <2>2. Clocking = {}
    BY <1>1, <2>1 DEF Clocking, Moving
  <2> QED
    BY <1>3, <2>2 DEF AuditStep
<1> QED
  BY <1>2, <1>3

(* They do not change otherwise.                                           *)
LEMMA CallsOfGoroutines ==
  ASSUME AuditStep, cpu' = cpu
  PROVE  calls' = calls
<1>1. Clocking = {}
  BY DEF Clocking, Moving
<1> QED
  BY <1>1 DEF AuditStep

(* One more for the outcome of the call.                                   *)
LEMMA AddOneIs ==
  ASSUME NEW s \in sni_stats_t, NEW success \in BOOLEAN, NEW o \in Outcomes
  PROVE  AddOne(s, success)[o] = s[o] + (IF success = (o = "succeeded_connections") THEN 1 ELSE 0)
BY DEF AddOne, sni_stats_t, Outcomes

(* A step that does not write to a bucket leaves what is kept alone.       *)
LEMMA KeptOfReading ==
  ASSUME TypeInv, stats' = stats, UNCHANGED <<trackVars, metricVars>>, NEW ck, NEW o
  PROVE  Kept(ck, o)' = Kept(ck, o)
<1>1. UNCHANGED <<tpc, todo, statsValuesAtKey, currentTickerClock, inc, counters, applying, step>>
  BY DEF trackVars, loopVars, metricVars
<1>2. \A b \in Buckets : InBucket(b, ck, o)' = InBucket(b, ck, o)
  BY <1>1 DEF InBucket, Copied, statsKey
<1>3. /\ InCopy(ck, o)' = InCopy(ck, o) /\ InInc(ck, o)' = InInc(ck, o)
      /\ Total(KindOf(o), ck)' = Total(KindOf(o), ck)
  BY <1>1 DEF InCopy, InInc, Copied, Total, Value, Pending
<1> QED
  BY <1>2, <1>3, KeptSame

(* The ConnKey of the entry that the run is about to write.                *)
EntryKey(c) == IF cpu[c].pc = "stats_add" THEN cpu[c].entry ELSE elem[cpu[c].conn].id

(* What the bucket holds for it.                                           *)
EntryOf(b, k) == IF k \in DOMAIN stats[b] THEN stats[b][k] ELSE NoStats

(***************************************************************************)
(* A write changes one entry of one bucket, which is not being drained: to *)
(* one more than the entry that was there, or than none at all.            *)
(***************************************************************************)
LEMMA WriteIs ==
  ASSUME TypeInv, ClockInv, NEW c \in CPUs, StatsAdd(c) \/ StatsInsert(c),
         NEW b, b = bucketOf(c), NEW k, k = EntryKey(c)
  PROVE  /\ b \in Buckets /\ b # statsKey /\ k \in ConnKey
         /\ \A x \in Buckets : x # b => stats'[x] = stats[x]
         /\ \/ stats' = stats
            \/ /\ stats'[b] = MapPut(stats[b], k, AddOne(EntryOf(b, k), cpu[c].success))
            \/ /\ k \in DOMAIN stats[b] /\ StatsInsert(c)
               /\ stats'[b] = MapPut(stats[b], k, NewStats(cpu[c].success))
<1>0. /\ cpu[c] \in Run /\ RunOK(cpu[c], DOMAIN elem) /\ stats = [x \in Buckets |-> stats[x]]
      /\ \A x \in Buckets : IsMap(stats[x], ConnKey, sni_stats_t)
  BY DEF TypeInv, TypeOK, CaptureTypeOK, MapsTypeOK
<1>1. b \in Buckets
  BY <1>0, StatsSecondsAssumption DEF bucketOf, Run, Buckets
<1>2. b # statsKey
  BY WritersElsewhere DEF StatsAdd, StatsInsert, HoldsClock
<1>3. CASE StatsAdd(c)
  <2>1. k = cpu[c].entry /\ k \in ConnKey
    BY <1>0, <1>3 DEF StatsAdd, EntryKey, RunOK
  <2>2. CASE k \in DOMAIN stats[b]
    <3>1. stats' = [stats EXCEPT ![b] = [stats[b] EXCEPT ![k] = AddOne(stats[b][k], cpu[c].success)]]
      BY <1>0, <1>1, <1>3, <2>1, <2>2 DEF StatsAdd
    <3>2. [stats[b] EXCEPT ![k] = AddOne(stats[b][k], cpu[c].success)]
            = MapPut(stats[b], k, AddOne(EntryOf(b, k), cpu[c].success))
      BY <1>0, <1>1, <2>2 DEF MapPut, EntryOf, IsMap
    <3> QED
      BY <1>0, <1>1, <1>2, <2>1, <3>1, <3>2
  <2>3. CASE k \notin DOMAIN stats[b]
    BY <1>1, <1>2, <1>3, <2>1, <2>3 DEF StatsAdd
  <2> QED
    BY <2>2, <2>3
<1>4. CASE StatsInsert(c)
  <2>1. k = elem[cpu[c].conn].id /\ k \in ConnKey
    BY <1>0, <1>4 DEF StatsInsert, EntryKey, RunOK, TypeInv, TypeOK, MapsTypeOK, IsMap, tuple_data_t
  <2>2. stats' = [stats EXCEPT ![b] = BucketUpdate(stats[b], k, NewStats(cpu[c].success))]
    BY <1>4, <2>1 DEF StatsInsert
  <2>3. \A x \in Buckets : x # b => stats'[x] = stats[x]
    BY <1>0, <2>2
  <2>4. stats'[b] = BucketUpdate(stats[b], k, NewStats(cpu[c].success))
    BY <1>0, <1>1, <2>2
  <2>5. CASE k \in DOMAIN stats[b]
    BY <1>1, <1>2, <1>4, <2>1, <2>3, <2>4, <2>5 DEF BucketUpdate
  <2>6. CASE k \notin DOMAIN stats[b] /\ Cardinality(DOMAIN stats[b]) < MAX_SERVER_COUNT
    BY <1>1, <1>2, <2>1, <2>3, <2>4, <2>6 DEF BucketUpdate, NewStats, EntryOf
  <2>7. CASE k \notin DOMAIN stats[b] /\ ~(Cardinality(DOMAIN stats[b]) < MAX_SERVER_COUNT)
    <3>1. stats' = stats
      BY <1>0, <2>2, <2>7 DEF BucketUpdate
    <3> QED
      BY <1>1, <1>2, <2>1, <2>3, <3>1
  <2> QED
    BY <2>5, <2>6, <2>7
<1> QED
  BY <1>3, <1>4

(* What is kept changes with this entry, ...                               *)
LEMMA KeptOfWrite ==
  ASSUME TypeInv, TypeInv', ClockInv, NEW c \in CPUs, StatsAdd(c) \/ StatsInsert(c),
         UNCHANGED <<trackVars, metricVars>>, NEW o \in Outcomes,
         NEW b, b = bucketOf(c), NEW k, k = EntryKey(c)
  PROVE  /\ \A ck \in ConnKey \ {k} : Kept(ck, o)' = Kept(ck, o)
         /\ EntryOf(b, k)[o] \in Nat
         /\ Kept(k, o)' = Kept(k, o) - EntryOf(b, k)[o]
                            + (IF k \in DOMAIN stats'[b] THEN stats'[b][k][o] ELSE 0)
<1>1. UNCHANGED <<tpc, todo, statsValuesAtKey, currentTickerClock, inc, counters, applying, step>>
  BY DEF trackVars, loopVars, metricVars
<1>2. /\ b \in Buckets /\ b # statsKey /\ k \in ConnKey
      /\ \A x \in Buckets : x # b => stats'[x] = stats[x]
      /\ \/ stats' = stats
         \/ \E v : stats'[b] = MapPut(stats[b], k, v)
  BY WriteIs
<1>3. ASSUME NEW ck
      PROVE  /\ InCopy(ck, o)' = InCopy(ck, o) /\ InInc(ck, o)' = InInc(ck, o)
             /\ Total(KindOf(o), ck)' = Total(KindOf(o), ck)
             /\ Copied(ck)' <=> Copied(ck)
  BY <1>1 DEF InCopy, InInc, Copied, Total, Value, Pending
<1>4. statsKey' = statsKey
  BY <1>1 DEF statsKey
<1>5. ASSUME NEW ck, NEW x \in Buckets, x # b
      PROVE  InBucket(x, ck, o)' = InBucket(x, ck, o)
  BY <1>1, <1>2, <1>3, <1>4, <1>5 DEF InBucket
<1>6. ASSUME NEW ck \in ConnKey \ {k}
      PROVE  Kept(ck, o)' = Kept(ck, o)
  <2>1. /\ ck \in DOMAIN stats'[b] <=> ck \in DOMAIN stats[b]
        /\ ck \in DOMAIN stats[b] => stats'[b][ck] = stats[b][ck]
    BY <1>2 DEF MapPut
  <2>2. InBucket(b, ck, o)' = InBucket(b, ck, o)
    BY <1>2, <1>4, <2>1 DEF InBucket
  <2> QED
    BY <1>3, <1>5, <2>2, KeptSame
<1>7. InBucket(b, k, o) = EntryOf(b, k)[o]
  BY <1>2 DEF InBucket, EntryOf, NoStats, Outcomes
<1>8. InBucket(b, k, o)' = IF k \in DOMAIN stats'[b] THEN stats'[b][k][o] ELSE 0
  BY <1>2, <1>4 DEF InBucket
<1>9. InBuckets(k, o)' = InBuckets(k, o) - InBucket(b, k, o) + InBucket(b, k, o)'
  BY <1>2, <1>5, BucketsOfStep
<1>10. /\ InCopy(k, o) \in Nat /\ InBuckets(k, o) \in Nat /\ InInc(k, o) \in Nat
       /\ Total(KindOf(o), k) \in Nat /\ InBucket(b, k, o) \in Nat /\ InBucket(b, k, o)' \in Nat
  BY <1>2, KeptType, PartsType, PartsTypeNext DEF KeptNat, PartsNat
<1> HIDE DEF EntryOf
<1>11. Kept(k, o)' = Kept(k, o) - InBucket(b, k, o) + InBucket(b, k, o)'
  BY <1>3, <1>9, <1>10 DEF Kept
<1> QED
  BY <1>6, <1>7, <1>8, <1>10, <1>11

(* ... by no more than the call, ...                                       *)
LEMMA KeptAtMost ==
  ASSUME TypeInv, TypeInv', ClockInv, NEW c \in CPUs, StatsAdd(c) \/ StatsInsert(c),
         UNCHANGED <<trackVars, metricVars>>, NEW o \in Outcomes, NEW k, k = EntryKey(c)
  PROVE  Kept(k, o)' <= Kept(k, o) + (IF For(c, o) THEN 1 ELSE 0)
<1> DEFINE more == IF For(c, o) THEN 1 ELSE 0
<1>1. PICK b : b = bucketOf(c)
  OBVIOUS
<1>2. /\ b \in Buckets /\ k \in ConnKey
      /\ \/ stats' = stats
         \/ stats'[b] = MapPut(stats[b], k, AddOne(EntryOf(b, k), cpu[c].success))
         \/ stats'[b] = MapPut(stats[b], k, NewStats(cpu[c].success))
  BY <1>1, WriteIs
<1>3. /\ EntryOf(b, k)[o] \in Nat
      /\ Kept(k, o)' = Kept(k, o) - EntryOf(b, k)[o]
                         + (IF k \in DOMAIN stats'[b] THEN stats'[b][k][o] ELSE 0)
  BY <1>1, KeptOfWrite
<1>4. Kept(k, o) \in Nat /\ more \in Nat
  BY <1>2, KeptType DEF KeptNat
<1>5. cpu[c].success \in BOOLEAN /\ NoStats \in sni_stats_t /\ EntryOf(b, k) \in sni_stats_t
  BY <1>2 DEF TypeInv, TypeOK, CaptureTypeOK, Run, MapsTypeOK, IsMap, EntryOf, NoStats, sni_stats_t
<1>6. /\ AddOne(EntryOf(b, k), cpu[c].success)[o] = EntryOf(b, k)[o] + more
      /\ NewStats(cpu[c].success)[o] = NoStats[o] + more
  BY <1>5, AddOneIs DEF NewStats, For
<1>7. NoStats[o] = 0
  BY DEF NoStats, Outcomes
<1>8. (IF k \in DOMAIN stats'[b] THEN stats'[b][k][o] ELSE 0)
        \in {EntryOf(b, k)[o], EntryOf(b, k)[o] + more, more}
  <2>1. CASE stats' = stats
    BY <1>7, <2>1 DEF EntryOf
  <2>2. ASSUME NEW v, stats'[b] = MapPut(stats[b], k, v)
        PROVE  k \in DOMAIN stats'[b] /\ stats'[b][k] = v
    BY <2>2 DEF MapPut
  <2> QED
    BY <1>2, <1>4, <1>6, <1>7, <2>1, <2>2
<1> HIDE DEF EntryOf, more
<1> QED
  BY <1>3, <1>4, <1>8 DEF more

(* ... and by the call, for a run that is alone and has room.              *)
LEMMA KeptExactly ==
  ASSUME TypeInv, TypeInv', ClockInv, NEW c \in CPUs, StatsAdd(c) \/ StatsInsert(c),
         UNCHANGED <<trackVars, metricVars>>, NEW o \in Outcomes, EntryInv(c),
         cpu[c].pc = "stats_insert" => Cardinality(DOMAIN stats[bucketOf(c)]) < MAX_SERVER_COUNT,
         NEW k, k = EntryKey(c)
  PROVE  /\ k = elem[cpu[c].conn].id
         /\ Kept(k, o)' = Kept(k, o) + (IF For(c, o) THEN 1 ELSE 0)
<1> DEFINE more == IF For(c, o) THEN 1 ELSE 0
<1>1. PICK b : b = bucketOf(c)
  OBVIOUS
<1>2. k = elem[cpu[c].conn].id
  BY DEF StatsAdd, StatsInsert, EntryInv, EntryKey
<1>3. b \in Buckets /\ k \in ConnKey
  BY <1>1, WriteIs
<1>4. /\ cpu[c].success \in BOOLEAN /\ EntryOf(b, k) \in sni_stats_t
      /\ stats = [x \in Buckets |-> stats[x]] /\ IsMap(stats[b], ConnKey, sni_stats_t)
  BY <1>3 DEF TypeInv, TypeOK, CaptureTypeOK, Run, MapsTypeOK, IsMap, EntryOf, NoStats, sni_stats_t
<1>5. stats'[b] = MapPut(stats[b], k, AddOne(EntryOf(b, k), cpu[c].success))
  <2>1. CASE StatsAdd(c)
    <3>1. cpu[c].entry = k /\ k \in DOMAIN stats[b]
      BY <1>1, <1>2, <2>1 DEF StatsAdd, EntryInv
    <3>2. stats'[b] = [stats[b] EXCEPT ![k] = AddOne(stats[b][k], cpu[c].success)]
      BY <1>1, <1>3, <1>4, <2>1, <3>1 DEF StatsAdd
    <3> QED
      BY <1>4, <3>1, <3>2 DEF MapPut, EntryOf, IsMap
  <2>2. CASE StatsInsert(c)
    <3>1. k \notin DOMAIN stats[b] /\ Cardinality(DOMAIN stats[b]) < MAX_SERVER_COUNT
      BY <1>1, <1>2, <2>2 DEF StatsInsert, EntryInv
    <3>2. stats'[b] = BucketUpdate(stats[b], k, NewStats(cpu[c].success))
      BY <1>1, <1>2, <1>3, <1>4, <2>2 DEF StatsInsert
    <3> QED
      BY <3>1, <3>2 DEF BucketUpdate, NewStats, EntryOf
  <2> QED
    BY <2>1, <2>2
<1>6. k \in DOMAIN stats'[b] /\ stats'[b][k] = AddOne(EntryOf(b, k), cpu[c].success)
  BY <1>5 DEF MapPut
<1>7. /\ EntryOf(b, k)[o] \in Nat
      /\ Kept(k, o)' = Kept(k, o) - EntryOf(b, k)[o]
                         + (IF k \in DOMAIN stats'[b] THEN stats'[b][k][o] ELSE 0)
  BY <1>1, KeptOfWrite
<1>8. Kept(k, o) \in Nat /\ more \in Nat
  BY <1>3, KeptType DEF KeptNat
<1>9. AddOne(EntryOf(b, k), cpu[c].success)[o] = EntryOf(b, k)[o] + more
  BY <1>4, AddOneIs DEF For
<1> HIDE DEF EntryOf, more
<1>10. Kept(k, o)' = Kept(k, o) - EntryOf(b, k)[o] + (EntryOf(b, k)[o] + more)
  BY <1>6, <1>7, <1>9
<1>11. Kept(k, o)' = Kept(k, o) + more
  BY <1>7, <1>8, <1>10
<1> QED
  BY <1>2, <1>11 DEF more

-----------------------------------------------------------------------------
(* With one CPU, nothing is lost.                                          *)

(* An entry is never refused for want of room in its bucket.               *)
Room ==
  \A c \in CPUs :
    cpu[c].pc = "stats_insert" => Cardinality(DOMAIN stats[bucketOf(c)]) < MAX_SERVER_COUNT

(* Every call is in one place.                                             *)
AllPlaced ==
  \A ck \in ConnKey, o \in Outcomes : Places(ck, o) = CallsOf(ck)[o]

LostInv == IsMap(calls, ConnKey, sni_stats_t) /\ (Alive => AllPlaced)

(* The calls keep their type.                                              *)
LEMMA CallsType ==
  ASSUME TypeInv, IsMap(calls, ConnKey, sni_stats_t)
  PROVE  \A ck \in ConnKey : CallsOf(ck) \in sni_stats_t
BY DEF CallsOf, IsMap, NoStats, sni_stats_t

LEMMA KnownKeysType ==
  ASSUME TypeInv, IsMap(calls, ConnKey, sni_stats_t)
  PROVE  KnownKeys \subseteq ConnKey
<1>1. DOMAIN calls \subseteq ConnKey /\ DOMAIN statsValuesAtKey \subseteq ConnKey
  BY DEF IsMap, TypeInv, TypeOK, TrackTypeOK
<1>2. \A b \in Buckets : DOMAIN stats[b] \subseteq ConnKey
  BY DEF IsMap, TypeInv, TypeOK, MapsTypeOK
<1>3. \A kind \in Kinds : DOMAIN counters[kind] \subseteq ConnKey
  BY DEF IsMap, TypeInv, TypeOK, MetricsTypeOK
<1>4. \A i \in {inc, applying} \ {Null} : i.key \in ConnKey
  BY DEF TypeInv, TypeOK, TrackTypeOK, MetricsTypeOK, Inc
<1> DEFINE inBuckets == UNION {DOMAIN stats[b] : b \in Buckets}
           inCounters == UNION {DOMAIN counters[kind] : kind \in Kinds}
           inIncs == {i.key : i \in {inc, applying} \ {Null}}
<1>5. inBuckets \subseteq ConnKey /\ inCounters \subseteq ConnKey
  BY <1>2, <1>3, Zenon
<1>6. inIncs \subseteq ConnKey
  BY <1>4, Zenon
<1>7. KnownKeys = DOMAIN calls \cup inBuckets \cup DOMAIN statsValuesAtKey \cup inIncs
                    \cup inCounters
  BY DEF KnownKeys
<1> HIDE DEF inBuckets, inCounters, inIncs
<1> QED
  BY <1>1, <1>5, <1>6, <1>7

LEMMA CallsMapStep ==
  ASSUME TypeInv, IsMap(calls, ConnKey, sni_stats_t), [AuditNext]_<<vars, auditVars>>
  PROVE  IsMap(calls, ConnKey, sni_stats_t)'
<1>1. CASE UNCHANGED <<vars, auditVars>>
  BY <1>1 DEF auditVars
<1>2. CASE AuditNext /\ ~Alive
  BY <1>2, EmptyMapType DEF AuditNext, AuditReset
<1>3. CASE AuditNext /\ Alive
  <2>1. Next /\ AuditStep
    BY <1>3 DEF AuditNext
  <2>2. ASSUME NEW c \in CPUs, CaptureAction(c) \/ DeliverAction(c)
        PROVE  IsMap(calls, ConnKey, sni_stats_t)'
    <3> DEFINE id == elem[cpu[c].conn].id
    <3>1. CpuStep(c) \/ Deliver(c)
      BY <2>2 DEF CaptureAction, DeliverAction
    <3>2. CASE StatsClock(c)
      <4>1. id \in ConnKey /\ cpu[c].success \in BOOLEAN
        BY <3>2 DEF StatsClock, TypeInv, TypeOK, CaptureTypeOK, RunOK, Run, MapsTypeOK, IsMap,
             tuple_data_t
      <4>2. AddOne(CallsOf(id), cpu[c].success) \in sni_stats_t
        BY <4>1, CallsType, AddOneType
      <4> HIDE DEF id
      <4>3. calls' = MapPut(calls, id, AddOne(CallsOf(id), cpu[c].success))
        BY <2>1, <3>1, <3>2, CallsOfFilter DEF id
      <4> QED
        BY <4>1, <4>2, <4>3 DEF IsMap, MapPut
    <3>3. CASE ~StatsClock(c)
      BY <2>1, <3>1, <3>3, CallsOfFilter
    <3> QED
      BY <3>2, <3>3
  <2>3. CASE ~(\E c \in CPUs : CaptureAction(c) \/ DeliverAction(c))
    <3>1. cpu' = cpu
      BY <1>3, <2>1, <2>3
         DEF Next, Rest, Restart, vars, SecondAction, TrackAction, SendInc, ApplyAction,
             ExpireAction, AdvanceAction, captureVars
    <3> QED
      BY <2>1, <3>1, CallsOfGoroutines
  <2> QED
    BY <2>2, <2>3
<1> QED
  BY <1>1, <1>2, <1>3

(* A run that is alone has at most one call in hand.                       *)
LEMMA RunsOfOne ==
  ASSUME NEW c \in CPUs, CPUs = {c}, NEW ck, NEW o
  PROVE  InRuns(ck, o) = IF Unrecorded(c) /\ For(c, o) /\ elem[cpu[c].conn].id = ck
                         THEN 1 ELSE 0
<1> DEFINE hand == {d \in Recording(o) : elem[cpu[d].conn].id = ck}
<1>1. hand = IF Unrecorded(c) /\ For(c, o) /\ elem[cpu[c].conn].id = ck THEN {c} ELSE {}
  BY DEF Recording, Unrecorded, For
<1>2. Cardinality({c}) = 1 /\ Cardinality({}) = 0
  BY FS_EmptySet, FS_Singleton
<1> QED
  BY <1>1, <1>2 DEF InRuns

LEMMA RunsOfOneNext ==
  ASSUME NEW c \in CPUs, CPUs = {c}, NEW ck, NEW o
  PROVE  InRuns(ck, o)' = IF Unrecorded(c)' /\ For(c, o)' /\ elem'[cpu'[c].conn].id = ck
                          THEN 1 ELSE 0
<1>1. (InRuns(ck, o) = IF Unrecorded(c) /\ For(c, o) /\ elem[cpu[c].conn].id = ck
                       THEN 1 ELSE 0)'
  BY RunsOfOne, PTL
<1> QED
  BY <1>1

(* The steps of the filter keep every call in one place, ...               *)
LEMMA PlacedOfFilter ==
  ASSUME TypeInv, TypeInv', ClockInv, NEW c \in CPUs, CPUs = {c}, EntryInv(c), Room,
         IsMap(calls, ConnKey, sni_stats_t), AllPlaced, AuditStep,
         CpuStep(c) \/ Deliver(c), UNCHANGED <<trackVars, metricVars>>
  PROVE  AllPlaced'
<1> SUFFICES ASSUME NEW ck \in ConnKey, NEW o \in Outcomes
             PROVE  Places(ck, o)' = CallsOf(ck)[o]'
  BY DEF AllPlaced
<1> DEFINE id == elem[cpu[c].conn].id
           one == IF For(c, o) THEN 1 ELSE 0
<1>0. /\ Places(ck, o) = CallsOf(ck)[o]
      /\ InRuns(ck, o) = IF Unrecorded(c) /\ For(c, o) /\ id = ck THEN 1 ELSE 0
      /\ InRuns(ck, o)' = IF Unrecorded(c)' /\ For(c, o)' /\ elem'[cpu'[c].conn].id = ck
                          THEN 1 ELSE 0
      /\ Kept(ck, o) \in Nat
  BY RunsOfOne, RunsOfOneNext, KeptType DEF AllPlaced, KeptNat
<1>1. CASE StatsClock(c)
  <2>1. /\ ~Unrecorded(c) /\ Unrecorded(c)' /\ elem' = elem /\ stats' = stats
        /\ cpu'[c].success = cpu[c].success /\ cpu'[c].conn = cpu[c].conn
    BY <1>1, CallOfStep DEF StatsClock, Unrecorded, mapVars
  <2>2. Kept(ck, o)' = Kept(ck, o)
    BY <2>1, KeptOfReading
  <2>3. InRuns(ck, o) = 0 /\ InRuns(ck, o)' = IF id = ck THEN one ELSE 0
    BY <1>0, <2>1 DEF For
  <2>4. calls' = MapPut(calls, id, AddOne(CallsOf(id), cpu[c].success))
    BY <1>1, CallsOfFilter
  <2>5. CallsOf(ck)' = IF ck = id THEN AddOne(CallsOf(ck), cpu[c].success) ELSE CallsOf(ck)
    BY <2>4 DEF CallsOf, MapPut
  <2>6. CallsOf(ck) \in sni_stats_t /\ cpu[c].success \in BOOLEAN
    BY CallsType DEF TypeInv, TypeOK, CaptureTypeOK, Run
  <2>7. AddOne(CallsOf(ck), cpu[c].success)[o] = CallsOf(ck)[o] + one /\ CallsOf(ck)[o] \in Nat
    BY <2>6, AddOneIs DEF For, sni_stats_t, Outcomes
  <2> HIDE DEF one, id
  <2>8. one \in Nat
    BY DEF one
  <2> QED
    BY <1>0, <2>2, <2>3, <2>5, <2>7, <2>8 DEF Places
<1>2. CASE ~StatsClock(c)
  <2>1. calls' = calls /\ CallsOf(ck)' = CallsOf(ck)
    BY <1>2, CallsOfFilter DEF CallsOf
  <2>2. CASE StatsFind(c)
    <3>1. /\ Unrecorded(c) /\ Unrecorded(c)' /\ elem' = elem /\ stats' = stats
          /\ cpu'[c].success = cpu[c].success /\ cpu'[c].conn = cpu[c].conn
      BY <1>2, <2>2, CallOfStep DEF StatsFind, StatsAdd, StatsInsert, mapVars
    <3>2. Kept(ck, o)' = Kept(ck, o) /\ InRuns(ck, o)' = InRuns(ck, o)
      BY <1>0, <3>1, KeptOfReading DEF For
    <3> QED
      BY <1>0, <2>1, <3>2 DEF Places
  <2>3. CASE StatsAdd(c) \/ StatsInsert(c)
    <3>1. Unrecorded(c) /\ ~Unrecorded(c)'
      BY <1>2, <2>3, CallOfStep DEF StatsFind, StatsAdd, StatsInsert
    <3>2. InRuns(ck, o)' = 0 /\ InRuns(ck, o) = IF id = ck THEN one ELSE 0
      BY <1>0, <3>1
    <3>3. PICK k : k = EntryKey(c)
      OBVIOUS
    <3>4. cpu[c].pc = "stats_insert" => Cardinality(DOMAIN stats[bucketOf(c)]) < MAX_SERVER_COUNT
      BY DEF Room
    <3>5. k = id /\ Kept(k, o)' = Kept(k, o) + one
      BY <2>3, <3>3, <3>4, KeptExactly
    <3>6. ck # k => Kept(ck, o)' = Kept(ck, o)
      BY <2>3, <3>3, KeptOfWrite
    <3> HIDE DEF one, id
    <3>7. one \in Nat
      BY DEF one
    <3>8. CASE ck = k
      BY <1>0, <2>1, <3>2, <3>5, <3>7, <3>8 DEF Places
    <3>9. CASE ck # k
      BY <1>0, <2>1, <3>2, <3>5, <3>6, <3>9 DEF Places
    <3> QED
      BY <3>8, <3>9
  <2>4. CASE ~StatsFind(c) /\ ~StatsAdd(c) /\ ~StatsInsert(c)
    <3>1. ~Unrecorded(c) /\ ~Unrecorded(c)' /\ stats' = stats
      BY <1>2, <2>4, CallOfStep
    <3>2. Kept(ck, o)' = Kept(ck, o) /\ InRuns(ck, o)' = InRuns(ck, o)
      BY <1>0, <3>1, KeptOfReading
    <3> QED
      BY <1>0, <2>1, <3>2 DEF Places
  <2> QED
    BY <2>2, <2>3, <2>4
<1> QED
  BY <1>1, <1>2

(* Nothing is kept for a ConnKey that no map and no increment names, and   *)
(* before the first frame none does.                                       *)
LEMMA NothingKept ==
  ASSUME NEW ck, NEW o \in Outcomes, ck \notin DOMAIN statsValuesAtKey,
         \A b \in Buckets : ck \notin DOMAIN stats[b],
         \A kind \in Kinds : ck \notin DOMAIN counters[kind],
         inc = Null \/ inc.key # ck, applying = Null \/ applying.key # ck
  PROVE  Kept(ck, o) = 0
<1>1. InCopy(ck, o) = 0 /\ InInc(ck, o) = 0
  BY DEF InCopy, InInc
<1>2. Total(KindOf(o), ck) = 0
  BY KindOfType DEF Total, Value, Pending
<1>3. InBuckets(ck, o) = 0
  <2> DEFINE f == [b \in Buckets |-> InBucket(b, ck, o)]
  <2>1. \A b \in Buckets : f[b] = 0
    BY DEF InBucket
  <2>2. InBuckets(ck, o) = SumFunctionOnSet(f, Buckets)
    BY InBucketsIsSum
  <2> HIDE DEF f
  <2>3. SumFunctionOnSet(f, Buckets) = SumFunctionOnSet(f, {})
    <3>1. {} \in SUBSET Buckets /\ (\A b \in Buckets : f[b] \in Nat)
      BY <2>1
    <3> QED
      BY <2>1, <3>1, BucketsFinite, SumOverMore
  <2> QED
    BY <2>2, <2>3, SumOverNone
<1> QED
  BY <1>1, <1>2, <1>3 DEF Kept

LEMMA StartsEmpty ==
  ASSUME Init, NEW ck \in ConnKey, NEW o \in Outcomes
  PROVE  Kept(ck, o) = 0
<1>1. /\ stats = [b \in Buckets |-> EmptyMap] /\ statsValuesAtKey = EmptyMap /\ inc = Null
      /\ counters = [kind \in Kinds |-> EmptyMap] /\ applying = Null
  BY DEF Init, MapsInit, TrackInit, MetricsInit
<1>2. /\ \A b \in Buckets : ck \notin DOMAIN stats[b]
      /\ \A kind \in Kinds : ck \notin DOMAIN counters[kind]
      /\ ck \notin DOMAIN statsValuesAtKey
  BY <1>1, EmptyMapType
<1> QED
  BY <1>1, <1>2, NothingKept

LEMMA LostStart ==
  ASSUME Init, calls = EmptyMap, NEW c \in CPUs, CPUs = {c}
  PROVE  LostInv
<1>1. cpu[c].pc = "idle"
  BY DEF Init, CaptureInit, IdleRun
<1>2. ASSUME NEW ck \in ConnKey, NEW o \in Outcomes
      PROVE  Places(ck, o) = CallsOf(ck)[o]
  <2>1. CallsOf(ck)[o] = 0
    BY EmptyMapType DEF CallsOf, NoStats, Outcomes
  <2>2. InRuns(ck, o) = 0
    BY <1>1, RunsOfOne DEF Unrecorded
  <2>3. Kept(ck, o) = 0
    BY StartsEmpty
  <2> QED
    BY <2>1, <2>2, <2>3 DEF Places
<1> QED
  BY <1>2, EmptyMapType DEF LostInv, AllPlaced

(* Every step keeps every call in one place.                               *)
LEMMA LostStep ==
  ASSUME TypeInv, TypeInv', ClockInv, DrainInv, CopyInv, PlaceInv, ~iterErr,
         NEW c \in CPUs, CPUs = {c}, EntryInv(c), Room, LostInv,
         [AuditNext]_<<vars, auditVars>>
  PROVE  LostInv'
<1>1. IsMap(calls, ConnKey, sni_stats_t)'
  BY CallsMapStep DEF LostInv
<1>2. CASE AuditNext /\ ~Alive
  <2>1. Init' /\ calls' = EmptyMap
    BY <1>2, PanickedRestarts, RestartInit DEF AuditNext, AuditReset
  <2>2. (Init /\ calls = EmptyMap => LostInv)'
    BY LostStart, PTL
  <2> QED
    BY <2>1, <2>2
<1>3. CASE ~Alive'
  BY <1>1, <1>3 DEF LostInv
<1>4. ASSUME Alive, Alive', Next, ~(\E d \in CPUs : CaptureAction(d) \/ DeliverAction(d)),
             calls' = calls
      PROVE  AllPlaced'
  <2>1. UNCHANGED <<cpu, elem>>
    BY <1>4
       DEF Next, Rest, Restart, vars, SecondAction, Second, TrackAction, TrackStep, Tick,
           ScanConnection, PurgeConnection, CollectStats, DeleteStats, Account, ScanError, ScanEnd,
           StatsLookup, StatsLookupError, CollectEnd, CleanupEnd, SendInc, Send, ApplyAction,
           ExpireAction, Expire, AdvanceAction, Advance, mapVars, captureVars
  <2>2. ASSUME NEW ck \in ConnKey, NEW o \in Outcomes
        PROVE  Places(ck, o)' = CallsOf(ck)[o]'
    <3>1. Kept(ck, o)' = Kept(ck, o)
      BY <1>4, KeptOfGoroutines
    <3>2. InRuns(ck, o)' = InRuns(ck, o) /\ CallsOf(ck)' = CallsOf(ck)
      BY <1>4, <2>1 DEF InRuns, Recording, CallsOf
    <3> QED
      BY <1>4, <3>1, <3>2 DEF Places, LostInv, AllPlaced
  <2> QED
    BY <2>2 DEF AllPlaced
<1>5. CASE UNCHANGED <<vars, auditVars>>
  <2>1. UNCHANGED <<cpu, elem, stats, trackVars, metricVars, calls>> /\ (Alive' <=> Alive)
    BY <1>5 DEF vars, auditVars, mapVars, captureVars, trackVars, Alive
  <2>2. ASSUME NEW ck \in ConnKey, NEW o \in Outcomes
        PROVE  Places(ck, o)' = Places(ck, o) /\ CallsOf(ck)' = CallsOf(ck)
    <3>1. Kept(ck, o)' = Kept(ck, o)
      BY <2>1, KeptOfReading
    <3> QED
      BY <2>1, <3>1 DEF Places, InRuns, Recording, CallsOf
  <2> QED
    BY <1>1, <2>1, <2>2 DEF LostInv, AllPlaced
<1>6. CASE AuditNext /\ Alive /\ Alive'
  <2>1. Next /\ AuditStep
    BY <1>6 DEF AuditNext
  <2>2. CASE CaptureAction(c) \/ DeliverAction(c)
    <3>1. AllPlaced'
      BY <1>6, <2>1, <2>2, PlacedOfFilter DEF CaptureAction, DeliverAction, LostInv
    <3> QED
      BY <1>1, <3>1 DEF LostInv
  <2>3. CASE ~(\E d \in CPUs : CaptureAction(d) \/ DeliverAction(d))
    <3>1. cpu' = cpu
      BY <1>6, <2>1, <2>3
         DEF Next, Rest, Restart, vars, SecondAction, TrackAction, SendInc, ApplyAction,
             ExpireAction, AdvanceAction, captureVars
    <3>2. AllPlaced'
      BY <1>4, <1>6, <2>1, <2>3, <3>1, CallsOfGoroutines
    <3> QED
      BY <1>1, <3>2 DEF LostInv
  <2> QED
    BY <2>2, <2>3
<1> QED
  BY <1>2, <1>3, <1>5, <1>6

(***************************************************************************)
(* With one CPU, a stats map that can be read and room in its buckets,     *)
(* whatever else fails: every call of add_connection_to_stats is in        *)
(* exactly one place, the run that makes it, a bucket, the copy of the     *)
(* bucket, the increment, or the totals of its ConnKey. Two CPUs may lose  *)
(* one (see the run failures_kept), and so may a full bucket, and an error *)
(* while a bucket is read.                                                 *)
(***************************************************************************)
THEOREM EveryCallHasItsPlace ==
  ASSUME NEW c \in CPUs, CPUs = {c}, "stats" \notin Faults
  PROVE  AuditSpec /\ []Room => []NothingLost
<1>1. AuditInit => LostInv /\ EntryInv(c)
  BY LostStart, ExactStart DEF AuditInit, ExactInv
<1>2. TypeInv /\ ClockInv /\ EntryInv(c) /\ [AuditNext]_<<vars, auditVars>> => EntryInv(c)'
  BY EntryStep DEF AuditNext
<1>3. /\ TypeInv /\ TypeInv' /\ ClockInv /\ DrainInv /\ CopyInv /\ PlaceInv /\ ~iterErr
      /\ EntryInv(c) /\ Room /\ LostInv /\ [AuditNext]_<<vars, auditVars>>
      => LostInv'
  BY LostStep
<1>4. TypeInv /\ LostInv => NothingLost
  BY KnownKeysType DEF LostInv, AllPlaced, NothingLost
<1> QED
  BY <1>1, <1>2, <1>3, <1>4, AuditIsExporter, TypeInvariant, ClockInvariant, DrainInvariant,
     CopyInvariant, PlaceInvariant, NoIterErr, PTL DEF AuditSpec

-----------------------------------------------------------------------------
(* With any number of CPUs and any of the faults, nothing is invented.     *)

LEMMA ConnKeyFinite == IsFiniteSet(ConnKey)
<1> DEFINE S == (IPs \X IPs) \X Sni
           f == [p \in S |-> [sourceIP |-> p[1][1], destIP |-> p[1][2], sni |-> p[2]]]
<1>1. IsFiniteSet(S)
  <2>1. IsFiniteSet(IPs \X IPs)
    BY FiniteKeysAssumption, FS_Product
  <2> QED
    BY <2>1, FiniteKeysAssumption, FS_Product
<1>2. f \in Surjection(S, ConnKey)
  <2>1. f \in [S -> ConnKey]
    BY DEF ConnKey
  <2>2. ASSUME NEW ck \in ConnKey
        PROVE  \E p \in S : f[p] = ck
    <3>1. /\ ck.sourceIP \in IPs /\ ck.destIP \in IPs /\ ck.sni \in Sni
          /\ ck = [sourceIP |-> ck.sourceIP, destIP |-> ck.destIP, sni |-> ck.sni]
      BY DEF ConnKey
    <3> DEFINE p == <<<<ck.sourceIP, ck.destIP>>, ck.sni>>
    <3>2. p \in S
      BY <3>1
    <3>3. p[1][1] = ck.sourceIP /\ p[1][2] = ck.destIP /\ p[2] = ck.sni
      OBVIOUS
    <3> HIDE DEF p
    <3>4. f[p] = [sourceIP |-> p[1][1], destIP |-> p[1][2], sni |-> p[2]]
      BY <3>2
    <3> QED
      BY <3>1, <3>2, <3>3, <3>4
  <2> HIDE DEF f, S
  <2> QED
    BY <2>1, <2>2 DEF Surjection
<1> HIDE DEF f, S
<1> QED
  BY <1>1, <1>2, FS_Surjection

(* All that the pipeline holds, and all the calls, for an outcome.         *)
Held(o) == SumFunctionOnSet([ck \in ConnKey |-> Kept(ck, o)], ConnKey)

Made(o) == SumFunctionOnSet([ck \in ConnKey |-> CallsOf(ck)[o]], ConnKey)

NoneInvented ==
  \A o \in Outcomes : Cardinality(Recording(o)) + Held(o) <= Made(o)

InventInv == IsMap(calls, ConnKey, sni_stats_t) /\ (Alive => NoneInvented)

(* They are numbers, before and after a step.                              *)
SumsNat ==
  \A o \in Outcomes : Held(o) \in Nat /\ Made(o) \in Nat /\ Cardinality(Recording(o)) \in Nat

LEMMA SumsType == TypeInv /\ IsMap(calls, ConnKey, sni_stats_t) => SumsNat
<1> SUFFICES ASSUME TypeInv, IsMap(calls, ConnKey, sni_stats_t), NEW o \in Outcomes
             PROVE  Held(o) \in Nat /\ Made(o) \in Nat /\ Cardinality(Recording(o)) \in Nat
  BY DEF SumsNat
<1> DEFINE f == [ck \in ConnKey |-> Kept(ck, o)]
           g == [ck \in ConnKey |-> CallsOf(ck)[o]]
<1>1. \A ck \in ConnKey : f[ck] \in Nat
  BY KeptType DEF KeptNat
<1>2. \A ck \in ConnKey : g[ck] \in Nat
  BY CallsType DEF sni_stats_t, Outcomes
<1>3. Held(o) = SumFunctionOnSet(f, ConnKey) /\ Made(o) = SumFunctionOnSet(g, ConnKey)
  BY DEF Held, Made
<1>4. Recording(o) \in SUBSET CPUs
  BY DEF Recording
<1>5. Cardinality(Recording(o)) \in Nat
  BY <1>4, CPUsAssumption, FS_Subset, FS_CardinalityType
<1> HIDE DEF f, g
<1> QED
  BY <1>1, <1>2, <1>3, <1>5, ConnKeyFinite, SumIsNat

LEMMA SumsTypeNext == (TypeInv /\ IsMap(calls, ConnKey, sni_stats_t))' => SumsNat'
BY SumsType, PTL

(* A step that adds nothing for any ConnKey adds nothing.                  *)
LEMMA HeldNoMore ==
  ASSUME TypeInv, TypeInv', NEW o \in Outcomes,
         \A ck \in ConnKey : Kept(ck, o)' <= Kept(ck, o)
  PROVE  Held(o)' <= Held(o)
<1> DEFINE f == [ck \in ConnKey |-> Kept(ck, o)]
           g == [ck \in ConnKey |-> Kept(ck, o)']
<1>1. \A ck \in ConnKey : g[ck] \in Nat /\ f[ck] \in Nat /\ g[ck] <= f[ck]
  BY KeptType, KeptTypeNext DEF KeptNat
<1>2. Held(o) = SumFunctionOnSet(f, ConnKey) /\ Held(o)' = SumFunctionOnSet(g, ConnKey)
  BY DEF Held
<1> HIDE DEF f, g
<1> QED
  BY <1>1, <1>2, ConnKeyFinite, SumMonotone

(* One that adds at most n for one of them adds at most n.                 *)
LEMMA HeldMore ==
  ASSUME TypeInv, TypeInv', NEW o \in Outcomes, NEW k \in ConnKey, NEW n \in Nat,
         \A ck \in ConnKey \ {k} : Kept(ck, o)' = Kept(ck, o),
         Kept(k, o)' <= Kept(k, o) + n
  PROVE  Held(o)' <= Held(o) + n
<1> DEFINE f == [ck \in ConnKey |-> Kept(ck, o)]
           g == [ck \in ConnKey |-> Kept(ck, o)']
<1>1. \A ck \in ConnKey : f[ck] \in Nat /\ g[ck] \in Nat
  BY KeptType, KeptTypeNext DEF KeptNat
<1>2. \A ck \in ConnKey \ {k} : f[ck] = g[ck]
  OBVIOUS
<1>3. g[k] <= f[k] + n
  OBVIOUS
<1>4. Held(o) = SumFunctionOnSet(f, ConnKey) /\ Held(o)' = SumFunctionOnSet(g, ConnKey)
  BY DEF Held
<1> HIDE DEF f, g
<1>5. SumFunctionOnSet(g, ConnKey) <= SumFunctionOnSet(f, ConnKey) + n
  BY <1>1, <1>2, <1>3, ConnKeyFinite, SumGrows
<1> QED
  BY <1>4, <1>5

(* A call makes one more for its outcome.                                  *)
LEMMA MadeMore ==
  ASSUME TypeInv, IsMap(calls, ConnKey, sni_stats_t), NEW o \in Outcomes, NEW k \in ConnKey,
         NEW success \in BOOLEAN, calls' = MapPut(calls, k, AddOne(CallsOf(k), success))
  PROVE  Made(o)' = Made(o) + (IF success = (o = "succeeded_connections") THEN 1 ELSE 0)
<1> DEFINE f == [ck \in ConnKey |-> CallsOf(ck)[o]]
           g == [ck \in ConnKey |-> CallsOf(ck)[o]']
           one == IF success = (o = "succeeded_connections") THEN 1 ELSE 0
<1>1. \A ck \in ConnKey : f[ck] \in Nat
  BY CallsType DEF sni_stats_t, Outcomes
<1>2. \A ck \in ConnKey : CallsOf(ck)' = IF ck = k THEN AddOne(CallsOf(k), success) ELSE CallsOf(ck)
  BY DEF CallsOf, MapPut
<1>3. AddOne(CallsOf(k), success)[o] = CallsOf(k)[o] + one
  BY CallsType, AddOneIs
<1>4. (\A ck \in ConnKey \ {k} : f[ck] = g[ck]) /\ g[k] = f[k] + one
  BY <1>2, <1>3
<1>5. Made(o) = SumFunctionOnSet(f, ConnKey) /\ Made(o)' = SumFunctionOnSet(g, ConnKey)
  BY DEF Made
<1>6. one \in Nat
  OBVIOUS
<1> HIDE DEF f, g, one
<1>7. /\ \A ck \in ConnKey : f[ck] \in Nat /\ g[ck] \in Nat
      /\ \A ck \in ConnKey \ {k} : f[ck] = g[ck]
  BY <1>1, <1>4, <1>6
<1>8. SumFunctionOnSet(g, ConnKey) = SumFunctionOnSet(f, ConnKey) - f[k] + g[k]
  BY <1>7, ConnKeyFinite, SumChanges
<1>9. SumFunctionOnSet(f, ConnKey) \in Nat /\ f[k] \in Nat
  BY <1>1, ConnKeyFinite, SumIsNat
<1>10. SumFunctionOnSet(g, ConnKey) = SumFunctionOnSet(f, ConnKey) + one
  BY <1>4, <1>6, <1>8, <1>9
<1> QED
  BY <1>5, <1>10 DEF one

(* What a run of the filter counts, it has been called for.                *)
LEMMA InventedOfFilter ==
  ASSUME TypeInv, TypeInv', ClockInv, NEW c \in CPUs, CpuStep(c) \/ Deliver(c),
         IsMap(calls, ConnKey, sni_stats_t), IsMap(calls, ConnKey, sni_stats_t)',
         NoneInvented, AuditStep, UNCHANGED <<trackVars, metricVars>>
  PROVE  NoneInvented'
<1> SUFFICES ASSUME NEW o \in Outcomes
             PROVE  Cardinality(Recording(o))' + Held(o)' <= Made(o)'
  BY DEF NoneInvented
<1> DEFINE one == IF For(c, o) THEN 1 ELSE 0
<1>1. /\ Cardinality(Recording(o)) + Held(o) <= Made(o)
      /\ Held(o) \in Nat /\ Made(o) \in Nat /\ Cardinality(Recording(o)) \in Nat
      /\ Held(o)' \in Nat /\ Made(o)' \in Nat /\ Cardinality(Recording(o))' \in Nat
  BY SumsType, SumsTypeNext DEF NoneInvented, SumsNat
<1>2. /\ Recording(o) = {d \in CPUs : Unrecorded(d) /\ For(d, o)}
      /\ Recording(o)' = {d \in CPUs : Unrecorded(d)' /\ For(d, o)'}
  BY DEF Recording, Unrecorded, For
<1>3. \A d \in CPUs \ {c} : (Unrecorded(d)' <=> Unrecorded(d)) /\ (For(d, o)' <=> For(d, o))
  BY OthersKept DEF Unrecorded, For
<1>4. IsFiniteSet(Recording(o))
  BY <1>2, CPUsAssumption, FS_Subset
<1>5. stats' = stats => Held(o)' <= Held(o)
  <2> SUFFICES ASSUME stats' = stats
               PROVE  Held(o)' <= Held(o)
    OBVIOUS
  <2>1. \A ck \in ConnKey : Kept(ck, o)' <= Kept(ck, o)
    BY KeptOfReading, KeptType DEF KeptNat
  <2> QED
    BY <2>1, HeldNoMore
<1>6. calls' = calls => Made(o)' = Made(o)
  BY DEF Made, CallsOf
<1>7. one \in Nat
  OBVIOUS
<1>8. CASE StatsClock(c)
  <2>1. /\ ~Unrecorded(c) /\ Unrecorded(c)' /\ elem' = elem /\ stats' = stats
        /\ (For(c, o)' <=> For(c, o))
    BY <1>8, CallOfStep DEF StatsClock, Unrecorded, mapVars, For
  <2>2. Cardinality(Recording(o))' = Cardinality(Recording(o)) + one
    <3>1. CASE For(c, o)
      <4>1. Recording(o)' = Recording(o) \cup {c} /\ c \notin Recording(o)
        BY <1>2, <1>3, <2>1, <3>1
      <4> QED
        BY <1>4, <3>1, <4>1, FS_AddElement
    <3>2. CASE ~For(c, o)
      <4>1. Recording(o)' = Recording(o)
        BY <1>2, <1>3, <2>1, <3>2
      <4> QED
        BY <1>1, <3>2, <4>1
    <3> QED
      BY <3>1, <3>2
  <2>3. elem[cpu[c].conn].id \in ConnKey /\ cpu[c].success \in BOOLEAN
    BY <1>8 DEF StatsClock, TypeInv, TypeOK, CaptureTypeOK, RunOK, Run, MapsTypeOK, IsMap,
         tuple_data_t
  <2>4. Made(o)' = Made(o) + one
    BY <1>8, <2>3, CallsOfFilter, MadeMore DEF For
  <2> HIDE DEF one
  <2> QED
    BY <1>1, <1>5, <1>7, <2>1, <2>2, <2>4
<1>9. CASE StatsAdd(c) \/ StatsInsert(c)
  <2>1. Unrecorded(c) /\ ~Unrecorded(c)' /\ ~StatsClock(c)
    BY <1>9, CallOfStep DEF StatsClock, StatsFind, StatsAdd, StatsInsert
  <2>2. Made(o)' = Made(o)
    BY <1>6, <2>1, CallsOfFilter
  <2>3. Cardinality(Recording(o))' = Cardinality(Recording(o)) - one
    <3>1. CASE For(c, o)
      <4>1. Recording(o)' = Recording(o) \ {c} /\ c \in Recording(o)
        BY <1>2, <1>3, <2>1, <3>1
      <4> QED
        BY <1>4, <3>1, <4>1, FS_RemoveElement
    <3>2. CASE ~For(c, o)
      <4>1. Recording(o)' = Recording(o)
        BY <1>2, <1>3, <2>1, <3>2
      <4> QED
        BY <1>1, <3>2, <4>1
    <3> QED
      BY <3>1, <3>2
  <2>4. PICK k : k = EntryKey(c)
    OBVIOUS
  <2>5. k \in ConnKey
    BY <1>9, <2>4, WriteIs
  <2>6. \A ck \in ConnKey \ {k} : Kept(ck, o)' = Kept(ck, o)
    BY <1>9, <2>4, KeptOfWrite
  <2>7. Kept(k, o)' <= Kept(k, o) + one
    BY <1>9, <2>4, KeptAtMost
  <2> HIDE DEF one
  <2>8. Held(o)' <= Held(o) + one
    BY <1>7, <2>5, <2>6, <2>7, HeldMore
  <2> QED
    BY <1>1, <1>7, <2>2, <2>3, <2>8
<1>10. CASE ~(StatsClock(c) \/ StatsAdd(c) \/ StatsInsert(c))
  <2>1. /\ stats' = stats /\ (Unrecorded(c)' <=> Unrecorded(c))
        /\ Unrecorded(c) => (For(c, o)' <=> For(c, o))
    BY <1>10, CallOfStep DEF mapVars, For
  <2>2. Recording(o)' = Recording(o)
    BY <1>2, <1>3, <2>1
  <2>3. Made(o)' = Made(o)
    BY <1>6, <1>10, CallsOfFilter
  <2> QED
    BY <1>1, <1>5, <2>1, <2>2, <2>3
<1> QED
  BY <1>8, <1>9, <1>10

(* The goroutines, whatever fails, only hand on what is kept, or drop it.  *)
LEMMA InventedOfGoroutines ==
  ASSUME TypeInv, TypeInv', IsMap(calls, ConnKey, sni_stats_t), NoneInvented,
         cpu' = cpu, calls' = calls,
         \A ck \in ConnKey, o \in Outcomes : Kept(ck, o)' <= Kept(ck, o)
  PROVE  NoneInvented'
<1> SUFFICES ASSUME NEW o \in Outcomes
             PROVE  Cardinality(Recording(o))' + Held(o)' <= Made(o)'
  BY DEF NoneInvented
<1>1. /\ Cardinality(Recording(o)) + Held(o) <= Made(o)
      /\ Held(o) \in Nat /\ Made(o) \in Nat /\ Cardinality(Recording(o)) \in Nat
      /\ Held(o)' \in Nat
  BY SumsType, SumsTypeNext DEF NoneInvented, SumsNat
<1>2. Held(o)' <= Held(o)
  BY HeldNoMore
<1>3. Recording(o)' = Recording(o) /\ Made(o)' = Made(o)
  BY DEF Recording, Made, CallsOf
<1> QED
  BY <1>1, <1>2, <1>3

LEMMA InventStart ==
  ASSUME Init, calls = EmptyMap
  PROVE  InventInv
<1>1. ASSUME NEW o \in Outcomes
      PROVE  Cardinality(Recording(o)) + Held(o) <= Made(o)
  <2> DEFINE f == [ck \in ConnKey |-> Kept(ck, o)]
             g == [ck \in ConnKey |-> CallsOf(ck)[o]]
  <2>1. \A c \in CPUs : cpu[c].pc = "idle"
    BY DEF Init, CaptureInit, IdleRun
  <2>2. Cardinality(Recording(o)) = 0
    BY <2>1, FS_EmptySet DEF Recording
  <2>3. \A ck \in ConnKey : f[ck] = 0 /\ g[ck] = 0
    BY StartsEmpty, EmptyMapType DEF CallsOf, NoStats, Outcomes
  <2>4. Held(o) = SumFunctionOnSet(f, ConnKey) /\ Made(o) = SumFunctionOnSet(g, ConnKey)
    BY DEF Held, Made
  <2> HIDE DEF f, g
  <2>5. /\ {} \in SUBSET ConnKey
        /\ \A ck \in ConnKey : f[ck] \in Nat /\ g[ck] \in Nat
        /\ \A ck \in ConnKey \ {} : f[ck] = 0 /\ g[ck] = 0
    BY <2>3
  <2>6. /\ SumFunctionOnSet(f, ConnKey) = SumFunctionOnSet(f, {})
        /\ SumFunctionOnSet(g, ConnKey) = SumFunctionOnSet(g, {})
    BY <2>5, ConnKeyFinite, SumOverMore
  <2> QED
    BY <2>2, <2>4, <2>6, SumOverNone
<1> QED
  BY <1>1, EmptyMapType DEF InventInv, NoneInvented

LEMMA InventStep ==
  ASSUME TypeInv, TypeInv', ClockInv, DrainInv, CopyInv, PlaceInv, InventInv,
         [AuditNext]_<<vars, auditVars>>
  PROVE  InventInv'
<1>1. IsMap(calls, ConnKey, sni_stats_t) /\ IsMap(calls, ConnKey, sni_stats_t)'
  BY CallsMapStep DEF InventInv
<1>2. CASE AuditNext /\ ~Alive
  <2>1. Init' /\ calls' = EmptyMap
    BY <1>2, PanickedRestarts, RestartInit DEF AuditNext, AuditReset
  <2>2. (Init /\ calls = EmptyMap => InventInv)'
    BY InventStart, PTL
  <2> QED
    BY <2>1, <2>2
<1>3. CASE ~Alive'
  BY <1>1, <1>3 DEF InventInv
<1>4. CASE UNCHANGED <<vars, auditVars>>
  <2>1. UNCHANGED <<cpu, elem, stats, trackVars, metricVars, calls>> /\ (Alive' <=> Alive)
    BY <1>4 DEF vars, auditVars, mapVars, captureVars, trackVars, Alive
  <2>2. \A ck \in ConnKey, o \in Outcomes : Kept(ck, o)' <= Kept(ck, o)
    BY <2>1, KeptOfReading, KeptType DEF KeptNat
  <2> QED
    BY <1>1, <2>1, <2>2, InventedOfGoroutines DEF InventInv
<1>5. CASE AuditNext /\ Alive /\ Alive'
  <2>1. Next /\ AuditStep /\ NoneInvented
    BY <1>5 DEF AuditNext, InventInv
  <2>2. ASSUME NEW c \in CPUs, CaptureAction(c) \/ DeliverAction(c)
        PROVE  NoneInvented'
    BY <1>1, <2>1, <2>2, InventedOfFilter DEF CaptureAction, DeliverAction
  <2>3. CASE ~(\E c \in CPUs : CaptureAction(c) \/ DeliverAction(c))
    <3>1. cpu' = cpu
      BY <1>5, <2>1, <2>3
         DEF Next, Rest, Restart, vars, SecondAction, TrackAction, SendInc, ApplyAction,
             ExpireAction, AdvanceAction, captureVars
    <3>2. calls' = calls
      BY <2>1, <3>1, CallsOfGoroutines
    <3>3. \A ck \in ConnKey, o \in Outcomes : Kept(ck, o)' <= Kept(ck, o)
      BY <1>5, <2>1, <2>3, KeptOfGoroutines
    <3> QED
      BY <1>1, <2>1, <3>1, <3>2, <3>3, InventedOfGoroutines DEF InventInv
  <2> QED
    BY <1>1, <2>2, <2>3 DEF InventInv
<1> QED
  BY <1>2, <1>3, <1>4, <1>5

(* The ConnKeys that no map names add nothing to the sums.                 *)
LEMMA SumsOverKnown ==
  ASSUME TypeInv, IsMap(calls, ConnKey, sni_stats_t), NEW o \in Outcomes
  PROVE  /\ SumFunction([ck \in KnownKeys |-> Kept(ck, o)]) = Held(o)
         /\ SumFunction([ck \in KnownKeys |-> CallsOf(ck)[o]]) = Made(o)
<1> DEFINE f == [ck \in ConnKey |-> Kept(ck, o)]
           g == [ck \in ConnKey |-> CallsOf(ck)[o]]
           f2 == [ck \in KnownKeys |-> Kept(ck, o)]
           g2 == [ck \in KnownKeys |-> CallsOf(ck)[o]]
<1>1. KnownKeys \in SUBSET ConnKey /\ IsFiniteSet(KnownKeys)
  BY KnownKeysType, ConnKeyFinite, FS_Subset
<1>2. \A ck \in ConnKey : f[ck] \in Nat /\ g[ck] \in Nat
  BY KeptType, CallsType DEF KeptNat, sni_stats_t, Outcomes
<1>3. \A ck \in KnownKeys : f2[ck] = f[ck] /\ g2[ck] = g[ck]
  BY <1>1
<1>4. ASSUME NEW ck \in ConnKey \ KnownKeys
      PROVE  f[ck] = 0 /\ g[ck] = 0
  <2>1. /\ ck \notin DOMAIN calls /\ ck \notin DOMAIN statsValuesAtKey
        /\ \A b \in Buckets : ck \notin DOMAIN stats[b]
        /\ \A kind \in Kinds : ck \notin DOMAIN counters[kind]
        /\ inc = Null \/ inc.key # ck
        /\ applying = Null \/ applying.key # ck
    BY DEF KnownKeys
  <2>2. CallsOf(ck)[o] = 0
    BY <2>1 DEF CallsOf, NoStats, Outcomes
  <2>3. Kept(ck, o) = 0
    BY <2>1, NothingKept
  <2> QED
    BY <2>2, <2>3
<1>5. /\ SumFunction(f2) = SumFunctionOnSet(f2, KnownKeys)
      /\ SumFunction(g2) = SumFunctionOnSet(g2, KnownKeys)
  BY DEF SumFunction, SumFunctionOnSet, FoldFunction
<1>6. Held(o) = SumFunctionOnSet(f, ConnKey) /\ Made(o) = SumFunctionOnSet(g, ConnKey)
  BY DEF Held, Made
<1> HIDE DEF f, g, f2, g2
<1>7. /\ \A ck \in KnownKeys : f[ck] \in Nat /\ f[ck] = f2[ck]
      /\ \A ck \in KnownKeys : g[ck] \in Nat /\ g[ck] = g2[ck]
  BY <1>1, <1>2, <1>3
<1>8. /\ SumFunctionOnSet(f, KnownKeys) = SumFunctionOnSet(f2, KnownKeys)
      /\ SumFunctionOnSet(g, KnownKeys) = SumFunctionOnSet(g2, KnownKeys)
  BY <1>1, <1>7, SumAgrees
<1>9. /\ SumFunctionOnSet(f, ConnKey) = SumFunctionOnSet(f, KnownKeys)
      /\ SumFunctionOnSet(g, ConnKey) = SumFunctionOnSet(g, KnownKeys)
  BY <1>1, <1>2, <1>4, ConnKeyFinite, SumOverMore
<1> QED
  BY <1>5, <1>6, <1>8, <1>9 DEF f2, g2

(***************************************************************************)
(* For any number of CPUs, in any interleaving, and with any of the        *)
(* failures the code handles: the buckets, the copy of one, the increments *)
(* and the totals hold together no more connections of an outcome than     *)
(* add_connection_to_stats was called for.                                 *)
(***************************************************************************)
THEOREM NothingIsInvented == AuditSpec => []NothingInvented
<1>1. AuditInit => InventInv
  BY InventStart DEF AuditInit
<1>2. /\ TypeInv /\ TypeInv' /\ ClockInv /\ DrainInv /\ CopyInv /\ PlaceInv /\ InventInv
      /\ [AuditNext]_<<vars, auditVars>>
      => InventInv'
  BY InventStep
<1>3. TypeInv /\ InventInv => NothingInvented
  BY SumsOverKnown DEF InventInv, NoneInvented, NothingInvented
<1> QED
  BY <1>1, <1>2, <1>3, AuditIsExporter, TypeInvariant, ClockInvariant, DrainInvariant,
     CopyInvariant, PlaceInvariant, PTL DEF AuditSpec
=============================================================================
