-------------------------- MODULE Counters_proofs ---------------------------
(***************************************************************************)
(* What the counters can be relied on for, for any traffic, any number of  *)
(* CPUs and any of the faults. The argument follows a bucket entry on its  *)
(* way: the filter stores no empty entry, so every increment annotates an  *)
(* active second (IncsGood), so the counters of a ConnKey stay related     *)
(* while the additions of an increment are being made (BaseInv). With the  *)
(* bookkeeping of the loops (LoopInv, SeriesInv) every step of the         *)
(* exporter is then a step of the abstract module Seconds, or none. Last,  *)
(* what this is worth to a scrape that reads the counters one by one.      *)
(***************************************************************************)
EXTENDS Exporter_proofs, Scrape

-----------------------------------------------------------------------------
(* Entries of buckets.                                                     *)

NonZero(s) == s.succeeded_connections > 0 \/ s.failed_connections > 0

EntriesCounted ==
  /\ \A b \in Buckets : \A ck \in DOMAIN stats[b] : NonZero(stats[b][ck])
  /\ \A ck \in DOMAIN statsValuesAtKey : NonZero(statsValuesAtKey[ck])

(* Adding one makes an entry that is not empty.                            *)
LEMMA AddOneNonZero ==
  ASSUME NEW s \in sni_stats_t, NEW success \in BOOLEAN
  PROVE  NonZero(AddOne(s, success))
BY DEF AddOne, sni_stats_t, NonZero

(* A write to a bucket by the filter, an addition or an insertion, leaves  *)
(* no empty entry behind.                                                  *)
LEMMA EntriesOfCapture ==
  ASSUME TypeInv, EntriesCounted, NEW c \in CPUs, CpuStep(c) \/ Deliver(c),
         UNCHANGED statsValuesAtKey
  PROVE  EntriesCounted'
<1>0. /\ bucketOf(c) \in Buckets /\ cpu[c].success \in BOOLEAN
      /\ stats = [b \in Buckets |-> stats[b]]
  BY StatsSecondsAssumption
     DEF TypeInv, TypeOK, CaptureTypeOK, MapsTypeOK, bucketOf, Run, Buckets
<1>1. CASE StatsAdd(c)
  <2> DEFINE b == bucketOf(c)
             k == cpu[c].entry
             v == AddOne(stats[b][k], cpu[c].success)
  <2>1. CASE k \in DOMAIN stats[b]
    <3>1. stats[b][k] \in sni_stats_t
      BY <1>0, <2>1 DEF TypeInv, TypeOK, MapsTypeOK, IsMap
    <3>2. NonZero(v)
      BY <1>0, <3>1, AddOneNonZero
    <3>3. stats' = [stats EXCEPT ![b] = [stats[b] EXCEPT ![k] = v]]
      BY <1>0, <1>1, <2>1 DEF StatsAdd, TypeInv, TypeOK, MapsTypeOK, IsMap
    <3>4. stats[b] \in [DOMAIN stats[b] -> sni_stats_t]
      BY <1>0 DEF TypeInv, TypeOK, MapsTypeOK, IsMap
    <3> HIDE DEF v, b, k
    <3>5. ASSUME NEW x \in Buckets, NEW ck \in DOMAIN stats'[x]
          PROVE  NonZero(stats'[x][ck])
      <4>1. CASE x = b
        <5>1. stats'[x] = [stats[b] EXCEPT ![k] = v]
          BY <1>0, <3>3, <4>1
        <5>2. ck \in DOMAIN stats[b] /\ stats'[x][ck] = IF ck = k THEN v ELSE stats[b][ck]
          BY <3>4, <3>5, <5>1
        <5> QED
          BY <3>2, <4>1, <5>2, <3>5 DEF EntriesCounted
      <4>2. CASE x # b
        <5>1. stats'[x] = stats[x]
          BY <1>0, <3>3, <4>2
        <5> QED
          BY <5>1, <3>5 DEF EntriesCounted
      <4> QED
        BY <4>1, <4>2
    <3> QED
      BY <3>5 DEF EntriesCounted
  <2>2. CASE k \notin DOMAIN stats[b]
    BY <1>1, <2>2 DEF StatsAdd, EntriesCounted
  <2> QED
    BY <2>1, <2>2
<1>2. CASE StatsInsert(c)
  <2> DEFINE b == bucketOf(c)
             id == elem[cpu[c].conn].id
             v == NewStats(cpu[c].success)
  <2>1. NonZero(v)
    BY <1>0, AddOneNonZero DEF NewStats, NoStats, sni_stats_t
  <2>2. stats' = [stats EXCEPT ![b] = BucketUpdate(stats[b], id, v)]
    BY <1>0, <1>2 DEF StatsInsert
  <2> HIDE DEF v, b, id
  <2>3. ASSUME NEW x \in Buckets, NEW ck \in DOMAIN stats'[x]
        PROVE  NonZero(stats'[x][ck])
    <3>1. CASE x = b
      <4>1. stats'[x] = BucketUpdate(stats[b], id, v)
        BY <1>0, <2>2, <3>1
      <4>2. CASE stats'[x] = MapPut(stats[b], id, v)
        BY <2>1, <2>3, <3>1, <4>2 DEF MapPut, EntriesCounted
      <4>3. CASE stats'[x] = stats[b]
        BY <2>3, <3>1, <4>3 DEF EntriesCounted
      <4> QED
        BY <4>1, <4>2, <4>3 DEF BucketUpdate
    <3>2. CASE x # b
      <4>1. stats'[x] = stats[x]
        BY <1>0, <2>2, <3>2
      <4> QED
        BY <4>1, <2>3 DEF EntriesCounted
    <3> QED
      BY <3>1, <3>2
  <2> QED
    BY <2>3 DEF EntriesCounted
<1>3. CASE UNCHANGED stats
  BY <1>3 DEF EntriesCounted
<1> QED
  BY <1>1, <1>2, <1>3
     DEF CpuStep, Deliver, Ignore, Receive, NextSocket, Start, NewConnection, Lookup, SynAck, Psh, Bytes, Rst,
         Fin, StatsClock, StatsFind, StatsDelete, mapVars

(* TrackConnections copies entries and deletes entries.                    *)
LEMMA EntriesOfTrack ==
  ASSUME TypeInv, EntriesCounted, TrackStep
  PROVE  EntriesCounted'
<1>0. statsKey \in Buckets /\ stats = [b \in Buckets |-> stats[b]]
  BY StatsSecondsAssumption DEF statsKey, Buckets, TypeInv, TypeOK, TrackTypeOK, MapsTypeOK
<1>1. ASSUME NEW k \in todo, CollectStats(k)
      PROVE  EntriesCounted'
  <2>1. UNCHANGED stats
    BY <1>1 DEF CollectStats, mapVars
  <2>2. CASE k \in DOMAIN stats[statsKey]
    <3>1. statsValuesAtKey' = MapPut(statsValuesAtKey, k, stats[statsKey][k])
      BY <1>1, <2>2 DEF CollectStats
    <3>2. NonZero(stats[statsKey][k])
      BY <1>0, <2>2 DEF EntriesCounted
    <3> QED
      BY <2>1, <3>1, <3>2 DEF MapPut, EntriesCounted
  <2>3. CASE k \notin DOMAIN stats[statsKey]
    BY <1>1, <2>1, <2>3 DEF CollectStats, EntriesCounted
  <2> QED
    BY <2>2, <2>3
<1>2. ASSUME NEW k \in todo, DeleteStats(k)
      PROVE  EntriesCounted'
  <2>1. UNCHANGED statsValuesAtKey
    BY <1>2 DEF DeleteStats
  <2>2. stats' = [stats EXCEPT ![statsKey] = MapDelete(stats[statsKey], k)]
    BY <1>0, <1>2 DEF DeleteStats
  <2>3. ASSUME NEW x \in Buckets, NEW ck \in DOMAIN stats'[x]
        PROVE  NonZero(stats'[x][ck])
    <3>1. CASE x = statsKey
      <4>1. stats'[x] = MapDelete(stats[statsKey], k)
        BY <1>0, <2>2, <3>1
      <4> QED
        BY <4>1, <2>3, <3>1 DEF MapDelete, EntriesCounted
    <3>2. CASE x # statsKey
      <4>1. stats'[x] = stats[x]
        BY <1>0, <2>2, <3>2
      <4> QED
        BY <4>1, <2>3 DEF EntriesCounted
    <3> QED
      BY <3>1, <3>2
  <2> QED
    BY <2>1, <2>3 DEF EntriesCounted
<1>3. CASE UNCHANGED stats /\ (UNCHANGED statsValuesAtKey \/ statsValuesAtKey' = EmptyMap)
  BY <1>3, EmptyMapType DEF EntriesCounted
<1> QED
  BY <1>1, <1>2, <1>3
     DEF TrackStep, Tick, ScanConnection, PurgeConnection, Account, ScanError, ScanEnd,
         StatsLookup, StatsLookupError, CollectEnd, CleanupEnd, EndOfBody, loopVars, mapVars

(* Every step of the exporter leaves no empty entry behind.                *)
LEMMA EntriesStep ==
  ASSUME TypeInv, EntriesCounted, [Next]_vars
  PROVE  EntriesCounted'
<1>1. ASSUME NEW c \in CPUs, CaptureAction(c) \/ DeliverAction(c)
      PROVE  EntriesCounted'
  BY <1>1, EntriesOfCapture DEF CaptureAction, DeliverAction, trackVars, loopVars
<1>2. CASE TrackAction
  BY <1>2, EntriesOfTrack DEF TrackAction
<1>3. CASE Restart
  BY <1>3, EmptyMapType DEF Restart, EndOfBody, EntriesCounted
<1>4. CASE SecondAction \/ SendInc \/ ApplyAction \/ ExpireAction \/ AdvanceAction
           \/ UNCHANGED vars
  <2>1. /\ UNCHANGED stats
        /\ UNCHANGED statsValuesAtKey \/ statsValuesAtKey' = EmptyMap
    BY <1>4 DEF SecondAction, Second, SendInc, Send, ApplyAction, ExpireAction, Expire,
         AdvanceAction, Advance, EndOfBody, vars, mapVars, trackVars, loopVars
  <2> QED
    BY <2>1, EmptyMapType DEF EntriesCounted
<1> QED
  BY <1>1, <1>2, <1>3, <1>4 DEF Next, Rest

-----------------------------------------------------------------------------
(* Increments.                                                             *)

(***************************************************************************)
(* What holds of an increment that annotates a second with connections:    *)
(* the second is active, it failed exactly if it failed actively, and its  *)
(* annotation is backed by its connections.                                *)
(***************************************************************************)
GoodInc(i) ==
  /\ i.active = 1
  /\ i.failed = i.active_failed
  /\ i.failed <= 1
  /\ i.failed <= i.rejected
  /\ i.active <= i.successful + i.rejected
  /\ i.rejected > 0 => i.active_failed = 1
  /\ i.rejected_by_client = 0

IncsGood ==
  /\ tpc = "send" => GoodInc(inc)
  /\ applying # Null => GoodInc(applying)

(* accountForConnections makes such an increment of an entry of a bucket.  *)
LEMMA AccountGood ==
  ASSUME TypeInv, EntriesCounted, NEW ck \in todo, Account(ck)
  PROVE  GoodInc(inc')
<1> DEFINE s == succeeded_connections(ck)
           f == failed_connections(ck)
           previous == previousFailed(ck)
<1>1. ck \in DOMAIN statsValuesAtKey /\ DOMAIN staleConnections(ck) = {}
  BY DEF Account, TypeInv, NoOldConnections, staleConnections
<1>2. s \in Nat /\ f \in Nat /\ previous \in BOOLEAN
  BY CountsType DEF TypeInv, TypeOK
<1>3. s > 0 \/ f > 0
  BY <1>1 DEF EntriesCounted, NonZero, succeeded_connections, failed_connections
<1>4. inc' = accountForConnections(ck, previous, staleConnections(ck), s, f)
  BY DEF Account
<1> HIDE DEF s, f, previous
<1>5. inc' = [key |-> ck, active |-> Bit(s > 0 \/ f > 0),
              failed |-> Bit((previous /\ ~(s > 0 \/ f > 0)) \/ f > 0),
              active_failed |-> Bit(f > 0),
              successful |-> s, rejected |-> f, rejected_by_client |-> 0]
  BY <1>1, <1>2, <1>4, AccountWithoutStale
<1> QED
  BY <1>2, <1>3, <1>5 DEF GoodInc, Bit

(* Every step of the exporter keeps the increments in flight good.         *)
LEMMA IncsStep ==
  ASSUME TypeInv, EntriesCounted, IncsGood, [Next]_vars
  PROVE  IncsGood'
<1>1. ASSUME NEW k \in todo, Account(k), UNCHANGED applying
      PROVE  IncsGood'
  BY <1>1, AccountGood DEF IncsGood
<1>2. CASE SendInc
  BY <1>2 DEF SendInc, Send, ReceiveInc, IncsGood
<1>3. CASE ApplyAction
  BY <1>3 DEF ApplyAction, ApplyNext, trackVars, loopVars, IncsGood
<1>4. CASE /\ tpc' # "send" \/ UNCHANGED <<tpc, inc>>
           /\ applying' = Null \/ UNCHANGED applying
  BY <1>4 DEF IncsGood
<1> QED
  BY <1>1, <1>2, <1>3, <1>4
     DEF Next, Rest, vars, CaptureAction, DeliverAction, SecondAction, Second, TrackAction,
         TrackStep, Tick, ScanConnection, PurgeConnection, CollectStats, DeleteStats,
         ScanError, ScanEnd, StatsLookup, StatsLookupError, CollectEnd, CleanupEnd,
         ExpireAction, Expire, AdvanceAction, Advance, Restart, EndOfBody,
         trackVars, loopVars, metricVars

-----------------------------------------------------------------------------
(* Counters.                                                               *)

(* The place of an addition in Inc.apply.                                  *)
Position == [active |-> 1, failed |-> 2, active_failed |-> 3,
             successful |-> 4, rejected |-> 5, rejected_by_client |-> 6]

(* What the increment being applied has added to a counter so far.         *)
Added(kind, ck) ==
  IF applying # Null /\ applying.key = ck /\ Position[kind] <= step THEN applying[kind] ELSE 0

(* The counter before the increment being applied.                         *)
Base(kind, ck) == Value(kind, ck) - Added(kind, ck)

(* The counters of a ConnKey between two increments.                       *)
Related(active, failed, active_failed, successful, rejected) ==
  /\ 0 <= active_failed
  /\ active_failed <= failed
  /\ failed <= active
  /\ failed <= rejected
  /\ active <= successful + rejected
  /\ rejected > 0 => active_failed > 0

BaseInv ==
  \A ck \in ConnKey :
    Related(Base("active", ck), Base("failed", ck), Base("active_failed", ck),
            Base("successful", ck), Base("rejected", ck))

(* Adding a whole increment to related counters leaves them related.       *)
LEMMA RelatedPlusInc ==
  ASSUME NEW i \in Inc, GoodInc(i), NEW a \in Int, NEW f \in Int, NEW af \in Int,
         NEW s \in Int, NEW r \in Int, Related(a, f, af, s, r)
  PROVE  Related(a + i.active, f + i.failed, af + i.active_failed,
                 s + i.successful, r + i.rejected)
BY DEF Related, GoodInc, Inc

(* The values are numbers.                                                 *)
LEMMA ValueType ==
  ASSUME TypeInv, NEW kind \in Kinds, NEW ck
  PROVE  Value(kind, ck) \in Nat
BY DEF TypeInv, TypeOK, MetricsTypeOK, IsMap, Value

(* An addition changes one series of one counter.                          *)
LEMMA ApplyNextValue ==
  ASSUME TypeInv, ApplyNext, NEW kind \in Kinds, NEW ck
  PROVE  Value(kind, ck)' = IF kind = ApplyOrder[step + 1] /\ ck = applying.key
                            THEN Value(kind, ck) + applying[kind]
                            ELSE Value(kind, ck)
<1> DEFINE k == ApplyOrder[step + 1]
           v == Value(k, applying.key) + applying[k]
<1>1. counters' = [counters EXCEPT ![k] = MapPut(counters[k], applying.key, v)]
  BY DEF ApplyNext
<1>2. counters = [x \in Kinds |-> counters[x]]
  BY DEF TypeInv, TypeOK, MetricsTypeOK
<1>v. k = kind => v = Value(kind, applying.key) + applying[kind]
  OBVIOUS
<1> HIDE DEF k, v
<1>3. CASE kind # k
  <2>1. counters'[kind] = counters[kind]
    BY <1>1, <1>2, <1>3
  <2> QED
    BY <1>3, <2>1 DEF Value, k
<1>4. CASE kind = k
  <2>1. counters'[kind] = MapPut(counters[kind], applying.key, v)
    BY <1>1, <1>2, <1>4
  <2>2. CASE ck = applying.key
    <3>1. ck \in DOMAIN counters'[kind] /\ counters'[kind][ck] = v
      BY <2>1, <2>2 DEF MapPut
    <3>2. Value(kind, ck)' = v
      BY <3>1, Zenon DEF Value
    <3> QED
      BY <1>4, <1>v, <2>2, <3>2 DEF k
  <2>3. CASE ck # applying.key
    <3>1. /\ ck \in DOMAIN counters'[kind] <=> ck \in DOMAIN counters[kind]
          /\ ck \in DOMAIN counters[kind] => counters'[kind][ck] = counters[kind][ck]
      BY <2>1, <2>3 DEF MapPut
    <3> QED
      BY <2>3, <3>1 DEF Value
  <2> QED
    BY <2>2, <2>3
<1> QED
  BY <1>3, <1>4

(* An addition that is not the last leaves every base alone.               *)
LEMMA BaseOfAddition ==
  ASSUME TypeInv, ApplyNext, step # 5, NEW kind \in Kinds, NEW ck
  PROVE  Base(kind, ck)' = Base(kind, ck)
<1>1. applying \in Inc /\ applying # Null /\ applying[kind] \in Nat
  BY DEF ApplyNext, TypeInv, TypeOK, MetricsTypeOK, Inc, Kinds
<1>2. step \in {0, 1, 2, 3, 4} /\ step' = step + 1 /\ applying' = applying
  BY DEF ApplyNext, TypeInv, TypeOK, MetricsTypeOK
<1>3. Position[kind] \in 1 .. 6 /\ (kind = ApplyOrder[step + 1] <=> Position[kind] = step + 1)
  BY <1>2 DEF Position, Kinds, ApplyOrder
<1>4. Value(kind, ck)' = IF Position[kind] = step + 1 /\ ck = applying.key
                         THEN Value(kind, ck) + applying[kind] ELSE Value(kind, ck)
  BY <1>3, ApplyNextValue
<1>5. Value(kind, ck) \in Nat
  BY ValueType
<1>6. Added(kind, ck)' = IF applying.key = ck /\ Position[kind] <= step + 1
                         THEN applying[kind] ELSE 0
  BY <1>1, <1>2 DEF Added
<1>7. Added(kind, ck) = IF applying.key = ck /\ Position[kind] <= step
                        THEN applying[kind] ELSE 0
  BY <1>1 DEF Added
<1> QED
  BY <1>1, <1>2, <1>3, <1>4, <1>5, <1>6, <1>7 DEF Base

(* The last addition adds the whole increment to the bases of its ConnKey. *)
LEMMA BaseOfLast ==
  ASSUME TypeInv, ApplyNext, step = 5, NEW kind \in Kinds, NEW ck
  PROVE  Base(kind, ck)' = IF ck = applying.key THEN Base(kind, ck) + applying[kind]
                                                ELSE Base(kind, ck)
<1>1. applying \in Inc /\ applying # Null /\ applying[kind] \in Nat
  BY DEF ApplyNext, TypeInv, TypeOK, MetricsTypeOK, Inc, Kinds
<1>2. applying' = Null
  BY DEF ApplyNext
<1>3. Position[kind] \in 1 .. 6 /\ (kind = ApplyOrder[step + 1] <=> Position[kind] = 6)
  BY DEF Position, Kinds, ApplyOrder
<1>4. Value(kind, ck)' = IF Position[kind] = 6 /\ ck = applying.key
                         THEN Value(kind, ck) + applying[kind] ELSE Value(kind, ck)
  BY <1>3, ApplyNextValue
<1>5. Value(kind, ck) \in Nat
  BY ValueType
<1>6. Added(kind, ck)' = 0
  BY <1>2 DEF Added
<1>7. Added(kind, ck) = IF applying.key = ck /\ Position[kind] <= 5
                        THEN applying[kind] ELSE 0
  BY <1>1 DEF Added
<1> QED
  BY <1>1, <1>3, <1>4, <1>5, <1>6, <1>7 DEF Base

(* The bases are numbers.                                                  *)
LEMMA BaseType ==
  ASSUME TypeInv, NEW kind \in Kinds, NEW ck
  PROVE  Base(kind, ck) \in Int
<1>1. Value(kind, ck) \in Nat
  BY ValueType
<1>2. Added(kind, ck) \in Nat
  BY DEF Added, TypeInv, TypeOK, MetricsTypeOK, Inc, Kinds
<1> QED
  BY <1>1, <1>2 DEF Base

(* Every step of the exporter keeps the bases related.                     *)
LEMMA BaseStep ==
  ASSUME TypeInv, IncsGood, BaseInv, [Next]_vars
  PROVE  BaseInv'
<1>1. ASSUME \A kind \in Kinds : \A ck \in ConnKey : Base(kind, ck)' = Base(kind, ck)
      PROVE  BaseInv'
  BY <1>1 DEF BaseInv, Kinds
<1>2. CASE ApplyAction
  <2>1. ApplyNext
    BY <1>2 DEF ApplyAction
  <2>2. CASE step # 5
    BY <1>1, <2>1, <2>2, BaseOfAddition
  <2>3. CASE step = 5
    <3>1. applying \in Inc /\ GoodInc(applying)
      BY <2>1 DEF ApplyNext, TypeInv, TypeOK, MetricsTypeOK, IncsGood
    <3> SUFFICES ASSUME NEW ck \in ConnKey
                 PROVE  Related(Base("active", ck)', Base("failed", ck)',
                                Base("active_failed", ck)', Base("successful", ck)',
                                Base("rejected", ck)')
      BY DEF BaseInv
    <3>2. Related(Base("active", ck), Base("failed", ck), Base("active_failed", ck),
                  Base("successful", ck), Base("rejected", ck))
      BY DEF BaseInv
    <3>3. CASE ck # applying.key
      BY <2>1, <2>3, <3>2, <3>3, BaseOfLast DEF Kinds
    <3>4. CASE ck = applying.key
      <4>1. /\ Base("active", ck) \in Int /\ Base("failed", ck) \in Int
            /\ Base("active_failed", ck) \in Int /\ Base("successful", ck) \in Int
            /\ Base("rejected", ck) \in Int
        BY BaseType DEF Kinds
      <4>2. /\ Base("active", ck)' = Base("active", ck) + applying.active
            /\ Base("failed", ck)' = Base("failed", ck) + applying.failed
            /\ Base("active_failed", ck)' = Base("active_failed", ck) + applying.active_failed
            /\ Base("successful", ck)' = Base("successful", ck) + applying.successful
            /\ Base("rejected", ck)' = Base("rejected", ck) + applying.rejected
        BY <2>1, <2>3, <3>4, BaseOfLast DEF Kinds
      <4> QED
        BY <3>1, <3>2, <4>1, <4>2, RelatedPlusInc
    <3> QED
      BY <3>3, <3>4
  <2> QED
    BY <2>2, <2>3
<1>3. CASE SendInc
  <2>1. counters' = counters /\ applying = Null /\ step' = 0
    BY <1>3 DEF SendInc, ReceiveInc
  <2>2. ASSUME NEW kind \in Kinds, NEW ck \in ConnKey
        PROVE  Base(kind, ck)' = Base(kind, ck)
    <3>1. Value(kind, ck)' = Value(kind, ck)
      BY <2>1 DEF Value
    <3>2. Added(kind, ck) = 0
      BY <2>1 DEF Added
    <3>3. Position[kind] \in 1 .. 6
      BY DEF Position, Kinds
    <3>4. Added(kind, ck)' = 0
      BY <2>1, <3>3 DEF Added
    <3> QED
      BY <3>1, <3>2, <3>4 DEF Base
  <2> QED
    BY <1>1, <2>2
<1>4. CASE Restart
  <2>1. counters' = [kind \in Kinds |-> EmptyMap] /\ applying' = Null
    BY <1>4 DEF Restart
  <2>2. \A kind \in Kinds : \A ck \in ConnKey : Base(kind, ck)' = 0
    BY <2>1, EmptyMapType DEF Base, Value, Added
  <2> QED
    BY <2>2 DEF BaseInv, Related, Kinds
<1>5. CASE UNCHANGED <<counters, applying, step>>
  BY <1>1, <1>5 DEF Base, Value, Added
<1>6. CASE ExpireAction
  <2>1. counters' = counters
    BY <1>6, DeleteMetricsDeletesNothing DEF ExpireAction, TypeInv, TypeOK
  <2> QED
    BY <1>5, <1>6, <2>1 DEF ExpireAction
<1> QED
  BY <1>2, <1>3, <1>4, <1>5, <1>6
     DEF Next, Rest, vars, CaptureAction, DeliverAction, SecondAction, TrackAction,
         AdvanceAction, metricVars

-----------------------------------------------------------------------------
(* Theorems.                                                               *)

CounterInv == EntriesCounted /\ IncsGood /\ BaseInv

(* The inductive invariant holds throughout.                               *)
LEMMA CounterInvariant == Spec => []CounterInv
<1>1. Init => CounterInv
  <2> SUFFICES ASSUME Init PROVE CounterInv
    OBVIOUS
  <2>1. EntriesCounted
    BY EmptyMapType DEF Init, MapsInit, TrackInit, EntriesCounted
  <2>2. IncsGood
    BY DEF Init, TrackInit, MetricsInit, IncsGood
  <2>3. \A kind \in Kinds : \A ck \in ConnKey : Base(kind, ck) = 0
    BY EmptyMapType DEF Init, MetricsInit, Base, Value, Added
  <2>4. BaseInv
    BY <2>3 DEF BaseInv, Related, Kinds
  <2> QED
    BY <2>1, <2>2, <2>4 DEF CounterInv
<1>2. TypeInv /\ CounterInv /\ [Next]_vars => CounterInv'
  BY EntriesStep, IncsStep, BaseStep DEF CounterInv
<1> QED
  BY <1>1, <1>2, TypeInvariant, PTL DEF Spec

(***************************************************************************)
(* Between two increments every failed second of a ConnKey is backed by a  *)
(* rejected connection, every active second by a connection, and a         *)
(* rejected connection by an active failed second.                         *)
(***************************************************************************)
THEOREM SecondsAreBacked == Spec => []SecondsBacked
<1>1. TypeInv /\ CounterInv => SecondsBacked
  <2> SUFFICES ASSUME TypeInv, CounterInv,
                      NEW ck \in UNION {DOMAIN counters[kind] : kind \in Kinds},
                      applying = Null \/ applying.key # ck
               PROVE  /\ Value("failed", ck) <= Value("rejected", ck)
                      /\ Value("active", ck) <= Value("successful", ck) + Value("rejected", ck)
                      /\ Value("rejected", ck) > 0 => Value("active_failed", ck) > 0
    BY DEF SecondsBacked
  <2>1. ck \in ConnKey
    BY DEF TypeInv, TypeOK, MetricsTypeOK, IsMap
  <2>2. Related(Base("active", ck), Base("failed", ck), Base("active_failed", ck),
                Base("successful", ck), Base("rejected", ck))
    BY <2>1 DEF CounterInv, BaseInv
  <2>3. /\ Value("active", ck) \in Nat /\ Value("failed", ck) \in Nat
        /\ Value("active_failed", ck) \in Nat /\ Value("successful", ck) \in Nat
        /\ Value("rejected", ck) \in Nat
    BY ValueType DEF Kinds
  <2> QED
    BY <2>2, <2>3 DEF Base, Added, Related
<1> QED
  BY <1>1, TypeInvariant, CounterInvariant, PTL

-----------------------------------------------------------------------------
(***************************************************************************)
(* Exporter implements Seconds. The initial states map to initial states;  *)
(* the rendezvous on the channel maps to Annotate, the end of a tick to    *)
(* NextSecond, a restart to StartAgain, and every other step to a stutter: *)
(* an addition of Inc.apply moves a part of a total from what is pending   *)
(* to the counter.                                                         *)
(***************************************************************************)

(* What is still to be visited in the loops over sniSet.                   *)
LoopInv ==
  /\ tpc = "send" => inc.key \in sniSet /\ inc.key \notin todo
  /\ tpc = "advance" => todo = {}

(* The series of active seconds of an increment exists once its first      *)
(* addition is made, and it exists wherever another one does.              *)
SeriesInv ==
  /\ applying # Null /\ step >= 1 => applying.key \in DOMAIN counters["active"]
  /\ \A kind \in Kinds : DOMAIN counters[kind] \subseteq DOMAIN counters["active"]

(* Every step of the exporter preserves both.                              *)
LEMMA LoopStep ==
  ASSUME TypeInv, LoopInv, [Next]_vars
  PROVE  LoopInv'
<1>1. ASSUME NEW ck \in todo, Account(ck)
      PROVE  LoopInv'
  <2>1. inc'.key = ck /\ todo' = todo \ {ck} /\ tpc' = "send"
    BY <1>1 DEF Account, accountForConnections
  <2>2. sniSet' = sniSet /\ ck \in sniSet
    BY <1>1 DEF Account, sniSet, TypeInv, NoOldConnections
  <2> QED
    BY <2>1, <2>2 DEF LoopInv
<1>2. CASE ExpireAction
  BY <1>2 DEF ExpireAction, Expire, loopVars, LoopInv
<1>3. CASE tpc' \notin {"send", "advance"}
  BY <1>3 DEF LoopInv
<1>4. CASE UNCHANGED <<tpc, todo, inc, oldConnections, statsValuesAtKey>>
  BY <1>4 DEF LoopInv, sniSet
<1> QED
  BY <1>1, <1>2, <1>3, <1>4
     DEF Next, Rest, vars, CaptureAction, DeliverAction, SecondAction, Second, TrackAction,
         TrackStep, Tick, ScanConnection, PurgeConnection, CollectStats, DeleteStats,
         ScanError, ScanEnd, StatsLookup, StatsLookupError, CollectEnd, CleanupEnd,
         SendInc, Send, ApplyAction, AdvanceAction, Advance, Restart, EndOfBody,
         trackVars, loopVars

(* The series of an increment are created before they are needed.          *)
LEMMA SeriesStep ==
  ASSUME TypeInv, SeriesInv, [Next]_vars
  PROVE  SeriesInv'
<1>1. CASE ApplyAction
  <2>1. /\ ApplyNext /\ applying \in Inc /\ applying # Null /\ step \in 0 .. 5
        /\ counters = [kind \in Kinds |-> counters[kind]]
    BY <1>1 DEF ApplyAction, ApplyNext, TypeInv, TypeOK, MetricsTypeOK
  <2> DEFINE k == ApplyOrder[step + 1]
             m == MapPut(counters[k], applying.key, Value(k, applying.key) + applying[k])
  <2>2. /\ counters' = [counters EXCEPT ![k] = m]
        /\ applying' = applying \/ applying' = Null
    BY <2>1 DEF ApplyNext
  <2>3. k \in Kinds /\ (step = 0 <=> k = "active")
    BY <2>1 DEF ApplyOrder, Kinds
  <2>4. DOMAIN m = DOMAIN counters[k] \cup {applying.key}
    BY DEF MapPut
  <2> HIDE DEF k, m
  <2>5. DOMAIN counters'[k] = DOMAIN counters[k] \cup {applying.key}
    BY <2>1, <2>2, <2>3, <2>4
  <2>6. \A kind \in Kinds : kind # k => counters'[kind] = counters[kind]
    BY <2>1, <2>2
  <2>7. /\ applying.key \in DOMAIN counters'["active"]
        /\ DOMAIN counters["active"] \subseteq DOMAIN counters'["active"]
    BY <2>1, <2>3, <2>5, <2>6 DEF SeriesInv, Kinds
  <2>8. \A kind \in Kinds : DOMAIN counters'[kind] \subseteq DOMAIN counters'["active"]
    BY <2>5, <2>6, <2>7 DEF SeriesInv
  <2> QED
    BY <2>2, <2>7, <2>8 DEF SeriesInv
<1>2. CASE SendInc
  BY <1>2 DEF SendInc, ReceiveInc, SeriesInv
<1>3. CASE ExpireAction
  <2>1. counters' = counters
    BY <1>3, DeleteMetricsDeletesNothing DEF ExpireAction, TypeInv, TypeOK
  <2> QED
    BY <1>3, <2>1 DEF ExpireAction, SeriesInv
<1>4. CASE Restart
  BY <1>4, EmptyMapType DEF Restart, SeriesInv, Kinds
<1>5. CASE UNCHANGED <<counters, applying, step>>
  BY <1>5 DEF SeriesInv
<1> QED
  BY <1>1, <1>2, <1>3, <1>4, <1>5
     DEF Next, Rest, vars, CaptureAction, DeliverAction, SecondAction, TrackAction,
         AdvanceAction, metricVars

SecondsInv == LoopInv /\ SeriesInv

(* They hold throughout.                                                   *)
LEMMA SecondsInvariant == Spec => []SecondsInv
<1>1. Init => SecondsInv
  BY EmptyMapType DEF Init, Kinds, TrackInit, MetricsInit, SecondsInv, LoopInv, SeriesInv
<1>2. TypeInv /\ SecondsInv /\ [Next]_vars => SecondsInv'
  BY LoopStep, SeriesStep DEF SecondsInv
<1> QED
  BY <1>1, <1>2, TypeInvariant, PTL DEF Spec

-----------------------------------------------------------------------------
(* The totals.                                                             *)

(* The part of the increment being applied that belongs to a series.       *)
Whole(kind, ck) == IF applying # Null /\ applying.key = ck THEN applying[kind] ELSE 0

(* A total is what the counter was before the increment, and the whole of  *)
(* the increment.                                                          *)
LEMMA TotalIsBasePlusWhole ==
  ASSUME TypeInv, NEW kind \in Kinds, NEW ck
  PROVE  Total(kind, ck) = Base(kind, ck) + Whole(kind, ck)
<1>1. Value(kind, ck) \in Nat
  BY ValueType
<1>2. CASE applying # Null /\ applying.key = ck
  <2>1. applying[kind] \in Nat /\ step \in {0, 1, 2, 3, 4, 5}
    BY <1>2 DEF TypeInv, TypeOK, MetricsTypeOK, Inc, Kinds
  <2>2. /\ Position[kind] \in 1 .. 6
        /\ \A n \in 1 .. 6 : ApplyOrder[n] = kind <=> n = Position[kind]
    BY DEF Position, Kinds, ApplyOrder
  <2>3. (\E n \in step + 1 .. 6 : ApplyOrder[n] = kind) <=> ~(Position[kind] <= step)
    BY <2>1, <2>2
  <2> QED
    BY <1>1, <1>2, <2>1, <2>3 DEF Total, Pending, Base, Added, Whole
<1>3. CASE ~(applying # Null /\ applying.key = ck)
  BY <1>1, <1>3 DEF Total, Pending, Base, Added, Whole
<1> QED
  BY <1>2, <1>3

(* The same of all the totals.                                             *)
TotalsSplit ==
  \A kind \in Kinds : \A ck \in ConnKey : Total(kind, ck) = Base(kind, ck) + Whole(kind, ck)

(* Before a step, ...                                                      *)
LEMMA TotalsAreSplit == TypeInv => TotalsSplit
BY TotalIsBasePlusWhole DEF TotalsSplit

(* ... and after it.                                                       *)
LEMMA TotalsAreSplitNext == TypeInv' => TotalsSplit'
BY TotalsAreSplit, PTL

(* The totals are the same if the series and each total are.               *)
LEMMA SameTotals ==
  ASSUME Counted \subseteq ConnKey, Counted' = Counted,
         \A kind \in Kinds : \A ck \in ConnKey : Total(kind, ck)' = Total(kind, ck)
  PROVE  totals' = totals
BY DEF totals, Kinds

(* An addition leaves each total alone, ...                                *)
LEMMA TotalOfApply ==
  ASSUME TypeInv, TypeInv', ApplyNext, NEW kind \in Kinds, NEW ck \in ConnKey
  PROVE  Total(kind, ck)' = Total(kind, ck)
<1>1. applying \in Inc /\ applying # Null
  BY DEF ApplyNext, TypeInv, TypeOK, MetricsTypeOK
<1>2. applying[kind] \in Nat /\ Base(kind, ck) \in Int
  BY <1>1, BaseType DEF Inc, Kinds
<1>3. /\ Total(kind, ck) = Base(kind, ck) + Whole(kind, ck)
      /\ Total(kind, ck)' = Base(kind, ck)' + Whole(kind, ck)'
  BY TotalsAreSplit, TotalsAreSplitNext DEF TotalsSplit
<1>4. CASE step # 5
  BY <1>3, <1>4, BaseOfAddition DEF ApplyNext, Whole
<1>5. CASE step = 5
  <2>1. Whole(kind, ck)' = 0
    BY <1>5 DEF ApplyNext, Whole
  <2> QED
    BY <1>1, <1>2, <1>3, <1>5, <2>1, BaseOfLast DEF Whole
<1> QED
  BY <1>4, <1>5

(* ... and so all of them.                                                 *)
LEMMA TotalsOfApply ==
  ASSUME TypeInv, TypeInv', SeriesInv, SeriesInv', ApplyNext
  PROVE  totals' = totals
<1>0. applying \in Inc /\ applying # Null /\ step \in 0 .. 5
  BY DEF ApplyNext, TypeInv, TypeOK, MetricsTypeOK
<1>1. \A kind \in Kinds : \A ck \in ConnKey : Total(kind, ck)' = Total(kind, ck)
  BY TotalOfApply
<1>2. Counted' = Counted
  <2>1. DOMAIN counters'["active"] = DOMAIN counters["active"]
          \cup (IF step = 0 THEN {applying.key} ELSE {})
    <3> DEFINE k == ApplyOrder[step + 1]
               m == MapPut(counters[k], applying.key, Value(k, applying.key) + applying[k])
    <3>1. counters' = [counters EXCEPT ![k] = m]
      BY DEF ApplyNext
    <3>2. counters = [kind \in Kinds |-> counters[kind]]
      BY DEF TypeInv, TypeOK, MetricsTypeOK
    <3>3. DOMAIN m = DOMAIN counters[k] \cup {applying.key}
      BY DEF MapPut
    <3>4. step = 0 <=> k = "active"
      BY <1>0 DEF ApplyOrder
    <3> HIDE DEF k, m
    <3> QED
      BY <3>1, <3>2, <3>3, <3>4 DEF Kinds
  <2>2. CASE step = 5
    <3>1. applying' = Null /\ applying.key \in DOMAIN counters["active"]
      BY <1>0, <2>2 DEF ApplyNext, SeriesInv
    <3> QED
      BY <1>0, <2>1, <2>2, <3>1 DEF Counted
  <2>3. CASE step # 5
    BY <1>0, <2>1, <2>3 DEF ApplyNext, Counted
  <2> QED
    BY <2>2, <2>3
<1>3. Counted \subseteq ConnKey
  BY <1>0 DEF Counted, TypeInv, TypeOK, MetricsTypeOK, IsMap, Kinds, Inc
<1> QED
  BY <1>1, <1>2, <1>3, SameTotals

(* The hand-over of an increment adds all of it to the totals of its key.  *)
LEMMA TotalsOfSend ==
  ASSUME TypeInv, SendInc, NEW kind \in Kinds, NEW ck
  PROVE  /\ Total(kind, ck) \in Nat
         /\ Total(kind, ck)' = Total(kind, ck) + (IF ck = inc.key THEN inc[kind] ELSE 0)
         /\ Total(kind, ck) = Value(kind, ck)
<1>1. /\ applying = Null /\ applying' = inc /\ step' = 0 /\ counters' = counters
      /\ inc \in Inc /\ inc # Null
  BY NullIncAssumption DEF SendInc, Send, ReceiveInc, TypeInv, TypeOK, TrackTypeOK
<1>2. Value(kind, ck) \in Nat /\ Value(kind, ck)' = Value(kind, ck)
  BY <1>1, ValueType DEF Value
<1>3. inc[kind] \in Nat /\ \E n \in 1 .. 6 : ApplyOrder[n] = kind
  BY <1>1 DEF Inc, Kinds, ApplyOrder
<1>4. Pending(kind, ck) = 0
  BY <1>1 DEF Pending
<1>5. Pending(kind, ck)' = IF ck = inc.key THEN inc[kind] ELSE 0
  BY <1>1, <1>3 DEF Pending
<1> QED
  BY <1>2, <1>3, <1>4, <1>5 DEF Total

(* It is an annotation that Seconds allows.                                *)
LEMMA SendAnnotates ==
  ASSUME TypeInv, IncsGood, SecondsInv, SendInc, NEW ck, ck = inc.key
  PROVE  ck \in ConnKey /\ Abstract!Annotate(ck)
<1> DEFINE T(kind) == Total(kind, ck)
<1>1. /\ applying = Null /\ applying' = inc /\ counters' = counters
      /\ inc \in Inc /\ inc # Null /\ ck \in ConnKey /\ GoodInc(inc)
  BY NullIncAssumption
     DEF SendInc, Send, ReceiveInc, TypeInv, TypeOK, TrackTypeOK, Inc, IncsGood
<1>2. Counted = DOMAIN counters["active"] /\ Counted' = Counted \cup {ck}
  BY <1>1 DEF Counted
<1>3. /\ ck \notin annotated /\ annotated' = annotated \cup {ck}
      /\ UNCHANGED currentTickerClock
  <2>1. /\ tpc = "send" /\ tpc' = "account" /\ sniSet' = sniSet
        /\ UNCHANGED <<todo, currentTickerClock>>
    BY DEF SendInc, Send, sniSet
  <2>2. annotated = sniSet \ (todo \cup {ck}) /\ annotated' = sniSet \ todo
    BY <2>1 DEF annotated
  <2> QED
    BY <2>1, <2>2 DEF SecondsInv, LoopInv
<1>4. \A kind \in Kinds : /\ T(kind) \in Nat /\ inc[kind] \in Nat
                          /\ T(kind)' = T(kind) + inc[kind]
  <2>1. \A kind \in Kinds : inc[kind] \in Nat
    BY <1>1 DEF Inc, Kinds
  <2> QED
    BY <2>1, TotalsOfSend
<1>5. DOMAIN totals = Counted /\ DOMAIN totals' = Counted \cup {ck}
  BY <1>2 DEF totals
<1>6. Abstract!TotalsOf(ck) =
        [active |-> T("active"), failed |-> T("failed"), active_failed |-> T("active_failed"),
         successful |-> T("successful"), rejected |-> T("rejected"),
         rejected_by_client |-> T("rejected_by_client")]
  <2>1. CASE ck \in Counted
    BY <1>5, <2>1 DEF Abstract!TotalsOf, totals
  <2>2. CASE ck \notin Counted
    <3>1. \A kind \in Kinds : T(kind) = 0
      BY <1>2, <2>2, TotalsOfSend DEF SecondsInv, SeriesInv, Value
    <3> QED
      BY <1>5, <2>2, <3>1 DEF Abstract!TotalsOf, Abstract!Zero, Kinds
  <2> QED
    BY <2>1, <2>2
<1>7. totals'[ck] =
        [active |-> T("active") + inc.active, failed |-> T("failed") + inc.failed,
         active_failed |-> T("active_failed") + inc.active_failed,
         successful |-> T("successful") + inc.successful,
         rejected |-> T("rejected") + inc.rejected,
         rejected_by_client |-> T("rejected_by_client") + inc.rejected_by_client]
  BY <1>2, <1>4 DEF totals, Kinds
<1>8. \A k \in Counted : k # ck => totals'[k] = totals[k]
  <2> SUFFICES ASSUME NEW k \in Counted, k # ck
               PROVE  totals'[k] = totals[k]
    OBVIOUS
  <2>1. \A kind \in Kinds : Total(kind, k)' = Total(kind, k)
    BY TotalsOfSend
  <2> QED
    BY <1>2, <2>1 DEF totals, Kinds
<1> DEFINE s == totals'[ck].successful - Abstract!TotalsOf(ck).successful
           f == totals'[ck].rejected - Abstract!TotalsOf(ck).rejected
<1>9. s = inc.successful /\ f = inc.rejected
  BY <1>4, <1>6, <1>7 DEF Kinds
<1>10. totals'[ck] = Abstract!PlusSecond(Abstract!TotalsOf(ck), s, f)
  BY <1>1, <1>4, <1>6, <1>7, <1>9 DEF Abstract!PlusSecond, GoodInc, Kinds
<1>11. s >= 0 /\ f >= 0 /\ s + f > 0
  BY <1>1, <1>4, <1>9 DEF GoodInc, Kinds
<1>12. totals' = [k \in DOMAIN totals \cup {ck} |->
                    IF k = ck THEN Abstract!PlusSecond(Abstract!TotalsOf(ck), s, f)
                    ELSE totals[k]]
  <2>1. totals' = [k \in Counted \cup {ck} |-> totals'[k]]
    BY <1>2 DEF totals
  <2> QED
    BY <1>5, <1>8, <1>10, <2>1
<1> QED
  BY <1>1, <1>3, <1>5, <1>11, <1>12 DEF Abstract!Annotate

-----------------------------------------------------------------------------
(* The other steps.                                                        *)

(* The totals only depend on the counters and the increment in progress.   *)
LEMMA TotalsUnchanged ==
  ASSUME UNCHANGED <<counters, applying, step>>
  PROVE  totals' = totals
BY DEF totals, Counted, Total, Pending, Value

(* The steps of TrackConnections by itself annotate nothing.               *)
LEMMA AnnotatedOfTrack ==
  ASSUME TypeInv, SecondsInv, TrackStep
  PROVE  annotated' = annotated /\ UNCHANGED currentTickerClock
<1>1. ASSUME NEW ck \in todo, Account(ck)
      PROVE  annotated' = annotated /\ UNCHANGED currentTickerClock
  <2>1. /\ inc'.key = ck /\ todo' = todo \ {ck} /\ tpc = "account" /\ tpc' = "send"
        /\ UNCHANGED <<currentTickerClock, oldConnections, statsValuesAtKey>>
    BY <1>1 DEF Account, accountForConnections
  <2>2. sniSet' = sniSet
    BY <2>1 DEF sniSet
  <2> QED
    BY <1>1, <2>1, <2>2 DEF annotated
<1>2. CASE CleanupEnd
  <2>1. tpc = "cleanup" /\ UNCHANGED currentTickerClock
    BY <1>2 DEF CleanupEnd
  <2>2. \/ tpc' \in {"idle", "panicked"}
        \/ tpc' = "account" /\ todo' = sniSet /\ sniSet' = sniSet
    BY <1>2 DEF CleanupEnd, EndOfBody, sniSet
  <2> QED
    BY <2>1, <2>2 DEF annotated
<1>3. CASE /\ tpc \notin {"account", "send", "advance"}
           /\ tpc' \notin {"account", "send", "advance"}
           /\ UNCHANGED currentTickerClock
  BY <1>3 DEF annotated
<1> QED
  BY <1>1, <1>2, <1>3
     DEF TrackStep, Tick, ScanConnection, PurgeConnection, CollectStats, DeleteStats,
         ScanError, ScanEnd, StatsLookup, StatsLookupError, CollectEnd, EndOfBody

(* Every step of the exporter is a step of Seconds, or none.               *)
LEMMA SecondsStep ==
  ASSUME TypeInv, TypeInv', CounterInv, SecondsInv, SecondsInv', [Next]_vars
  PROVE  [Abstract!SecondsNext]_(Abstract!secondsVars)
<1>1. ASSUME totals' = totals, annotated' = annotated, UNCHANGED currentTickerClock
      PROVE  [Abstract!SecondsNext]_(Abstract!secondsVars)
  BY <1>1 DEF Abstract!secondsVars
<1>2. CASE SendInc
  <2>1. inc.key \in ConnKey /\ \E ck \in ConnKey : ck = inc.key
    BY <1>2 DEF SendInc, Send, TypeInv, TypeOK, TrackTypeOK, Inc
  <2>2. PICK ck \in ConnKey : ck = inc.key
    BY <2>1
  <2>3. Abstract!Annotate(ck)
    BY <1>2, <2>2, SendAnnotates DEF CounterInv
  <2> QED
    BY <2>3 DEF Abstract!SecondsNext
<1>3. CASE ApplyAction
  <2>1. totals' = totals
    BY <1>3, TotalsOfApply DEF ApplyAction, SecondsInv
  <2>2. annotated' = annotated /\ UNCHANGED currentTickerClock
    BY <1>3 DEF ApplyAction, trackVars, loopVars, annotated, sniSet
  <2> QED
    BY <1>1, <2>1, <2>2
<1>4. CASE TrackAction
  BY <1>1, <1>4, AnnotatedOfTrack, TotalsUnchanged DEF TrackAction, metricVars
<1>5. CASE ExpireAction
  <2>1. counters' = counters
    BY <1>5, DeleteMetricsDeletesNothing DEF ExpireAction, TypeInv, TypeOK
  <2>2. totals' = totals
    BY <1>5, <2>1, TotalsUnchanged DEF ExpireAction
  <2>3. annotated' = annotated /\ UNCHANGED currentTickerClock
    BY <1>5 DEF ExpireAction, Expire, loopVars, annotated, sniSet
  <2> QED
    BY <1>1, <2>2, <2>3
<1>6. CASE AdvanceAction
  <2>1. totals' = totals
    BY <1>6, TotalsUnchanged DEF AdvanceAction, metricVars
  <2>2. annotated' = {} /\ currentTickerClock' = currentTickerClock + 1
    BY <1>6 DEF AdvanceAction, Advance, EndOfBody, annotated
  <2> QED
    BY <2>1, <2>2 DEF Abstract!SecondsNext, Abstract!NextSecond
<1>7. CASE Restart
  <2>1. annotated' = {} /\ currentTickerClock' = 0
    BY <1>7 DEF Restart, EndOfBody, annotated
  <2>2. Counted' = {}
    BY <1>7, EmptyMapType DEF Restart, Counted, Kinds
  <2>3. totals' = [ck \in {} |-> Abstract!Zero]
    BY <2>2 DEF totals
  <2> QED
    BY <2>1, <2>3 DEF Abstract!SecondsNext, Abstract!StartAgain
<1>8. CASE UNCHANGED <<trackVars, metricVars>>
  <2>1. totals' = totals
    BY <1>8, TotalsUnchanged DEF metricVars
  <2>2. annotated' = annotated /\ UNCHANGED currentTickerClock
    BY <1>8 DEF trackVars, loopVars, annotated, sniSet
  <2> QED
    BY <1>1, <2>1, <2>2
<1>9. CASE SecondAction
  <2>1. totals' = totals
    BY <1>9, TotalsUnchanged DEF SecondAction, metricVars
  <2>2. annotated' = annotated /\ UNCHANGED currentTickerClock
    BY <1>9 DEF SecondAction, Second, loopVars, annotated, sniSet
  <2> QED
    BY <1>1, <2>1, <2>2
<1> QED
  BY <1>2, <1>3, <1>4, <1>5, <1>6, <1>7, <1>8, <1>9
     DEF Next, Rest, vars, CaptureAction, DeliverAction

(***************************************************************************)
(* The exporter implements Seconds: a ConnKey is annotated at most once in *)
(* a tick of TrackConnections, with one whole annotation, for any traffic, *)
(* any number of CPUs, buckets and connections, and any of the faults.     *)
(***************************************************************************)
THEOREM ExporterImplementsSeconds == Spec => AnnotatesSeconds
<1>1. Init => Abstract!SecondsInit
  <2> SUFFICES ASSUME Init PROVE Abstract!SecondsInit
    OBVIOUS
  <2>1. annotated = {} /\ currentTickerClock = 0
    BY DEF Init, TrackInit, annotated
  <2>2. Counted = {}
    BY EmptyMapType DEF Init, MetricsInit, Counted, Kinds
  <2>3. totals = [ck \in {} |-> Abstract!Zero]
    BY <2>2 DEF totals
  <2> QED
    BY <2>1, <2>3 DEF Abstract!SecondsInit
<1>2. /\ TypeInv /\ TypeInv' /\ CounterInv /\ SecondsInv /\ SecondsInv'
      /\ [Next]_vars
      => [Abstract!SecondsNext]_(Abstract!secondsVars)
  BY SecondsStep
<1> QED
  BY <1>1, <1>2, TypeInvariant, CounterInvariant, SecondsInvariant, PTL
     DEF Spec, AnnotatesSeconds, Abstract!SecondsSpec

-----------------------------------------------------------------------------
(***************************************************************************)
(* Scrapes. What a scrape has read of a series lies between the last       *)
(* report and the counter, and the counter is ahead of the other kinds by  *)
(* no more than the increments that were in the hands of Apply meanwhile.  *)
(***************************************************************************)

(* A scrape only reads: the exporter under it behaves as without it.       *)
LEMMA ScrapedIsExporter == ScrapeSpec => Spec
<1>1. ScrapeInit => Init
  BY DEF ScrapeInit
<1>2. [ScrapeNext]_<<vars, scrapeVars>> => [Next]_vars
  BY DEF ScrapeNext, ExporterStep, ScrapeStart, ScrapeRead, ScrapeEnd
<1> QED
  BY <1>1, <1>2, PTL DEF ScrapeSpec, Spec

(* Whether an increment of the ConnKey is being applied.                   *)
BeingApplied(ck) == IF applying # Null /\ applying.key = ck THEN 1 ELSE 0

(* The order of the counters at one instant: no active failed second that  *)
(* is not active, and failed, and one that is still to be added at most.   *)
LEMMA OrderedNow ==
  ASSUME TypeInv, CounterInv, NEW ck \in ConnKey, NEW kind \in {"active", "failed"}
  PROVE  /\ Value("active_failed", ck) <= Value(kind, ck)
         /\ Value("active_failed", ck) <= Total("active_failed", ck)
         /\ Total("active_failed", ck) <= Value(kind, ck) + BeingApplied(ck)
<1>1. Related(Base("active", ck), Base("failed", ck), Base("active_failed", ck),
              Base("successful", ck), Base("rejected", ck))
  BY DEF CounterInv, BaseInv
<1>2. /\ Value("active", ck) \in Nat /\ Value("failed", ck) \in Nat
      /\ Value("active_failed", ck) \in Nat
  BY ValueType DEF Kinds
<1>3. /\ Base("active", ck) \in Int /\ Base("failed", ck) \in Int
      /\ Base("active_failed", ck) \in Int
  BY BaseType DEF Kinds
<1>4. Base("active_failed", ck) <= Base("failed", ck) /\ Base("failed", ck) <= Base("active", ck)
  BY <1>1 DEF Related
<1>5. Total("active_failed", ck) = Base("active_failed", ck) + Whole("active_failed", ck)
  BY TotalIsBasePlusWhole DEF Kinds
<1>6. CASE applying = Null \/ applying.key # ck
  BY <1>2, <1>3, <1>4, <1>5, <1>6 DEF Base, Added, Whole, BeingApplied
<1>7. CASE applying # Null /\ applying.key = ck
  <2>1. applying \in Inc /\ GoodInc(applying) /\ step \in 0 .. 5
    BY <1>7 DEF TypeInv, TypeOK, MetricsTypeOK, CounterInv, IncsGood
  <2>2. /\ Added("active", ck) = IF 1 <= step THEN applying.active ELSE 0
        /\ Added("failed", ck) = IF 2 <= step THEN applying.failed ELSE 0
        /\ Added("active_failed", ck) = IF 3 <= step THEN applying.active_failed ELSE 0
        /\ Whole("active_failed", ck) = applying.active_failed /\ BeingApplied(ck) = 1
    BY <1>7 DEF Added, Position, Whole, BeingApplied
  <2>3. applying.active \in Nat /\ applying.failed \in Nat /\ applying.active_failed \in Nat
    BY <2>1 DEF Inc
  <2> QED
    BY <1>2, <1>3, <1>4, <1>5, <2>1, <2>2, <2>3 DEF Base, GoodInc
<1> QED
  BY <1>6, <1>7

(* A step that hands no increment over leaves the totals alone, ...        *)
LEMMA TotalsOfOthers ==
  ASSUME TypeInv, TypeInv', Alive, [Next]_vars, ~SendInc
  PROVE  /\ \A kind \in Kinds : \A ck \in ConnKey :
              Total(kind, ck)' = Total(kind, ck) /\ Value(kind, ck) <= Value(kind, ck)'
         /\ applying' = applying \/ applying' = Null
<1>1. CASE ApplyAction
  <2>1. ApplyNext /\ applying \in Inc
    BY <1>1 DEF ApplyAction, ApplyNext, TypeInv, TypeOK, MetricsTypeOK
  <2>2. ASSUME NEW kind \in Kinds, NEW ck \in ConnKey
        PROVE  Value(kind, ck) <= Value(kind, ck)'
    <3>1. Value(kind, ck) \in Nat /\ applying[kind] \in Nat
      BY <2>1, ValueType DEF Inc, Kinds
    <3> QED
      BY <2>1, <3>1, ApplyNextValue
  <2> QED
    BY <2>1, <2>2, TotalOfApply DEF ApplyNext
<1>2. CASE UNCHANGED <<counters, applying, step>>
  <2>1. ASSUME NEW kind \in Kinds, NEW ck \in ConnKey
        PROVE  Total(kind, ck)' = Total(kind, ck) /\ Value(kind, ck) <= Value(kind, ck)'
    <3>1. Value(kind, ck) \in Nat /\ Value(kind, ck)' = Value(kind, ck)
      BY <1>2, ValueType DEF Value
    <3> QED
      BY <1>2, <3>1 DEF Total, Pending
  <2> QED
    BY <1>2, <2>1
<1>3. CASE ExpireAction
  <2>1. counters' = counters
    BY <1>3, DeleteMetricsDeletesNothing DEF ExpireAction, TypeInv, TypeOK
  <2> QED
    BY <1>2, <1>3, <2>1 DEF ExpireAction
<1> QED
  BY <1>1, <1>2, <1>3
     DEF Next, Rest, vars, CaptureAction, DeliverAction, SecondAction, TrackAction,
         AdvanceAction, Restart, metricVars

(* ... and one that hands an increment over adds one to them at most.      *)
LEMMA TotalsOfHandOver ==
  ASSUME TypeInv, CounterInv, SendInc, NEW ck \in ConnKey
  PROVE  /\ Total("active_failed", ck)' <= Total("active_failed", ck) + BeingApplied(ck)'
         /\ applying = Null /\ applying' # Null /\ applying'.key \in ConnKey
         /\ \A kind \in Kinds : Value(kind, ck)' = Value(kind, ck)
<1>1. /\ applying = Null /\ applying' = inc /\ counters' = counters
      /\ inc \in Inc /\ inc # Null /\ GoodInc(inc)
  BY NullIncAssumption
     DEF SendInc, Send, ReceiveInc, TypeInv, TypeOK, TrackTypeOK, CounterInv, IncsGood
<1>2. /\ Total("active_failed", ck) \in Nat
      /\ Total("active_failed", ck)' = Total("active_failed", ck)
                                        + (IF ck = inc.key THEN inc["active_failed"] ELSE 0)
  BY TotalsOfSend DEF Kinds
<1>3. inc.active_failed \in Nat /\ inc.active_failed <= 1 /\ inc.key \in ConnKey
  BY <1>1 DEF GoodInc, Inc
<1>4. BeingApplied(ck)' = IF ck = inc.key THEN 1 ELSE 0
  BY <1>1 DEF BeingApplied
<1> QED
  BY <1>1, <1>2, <1>3, <1>4 DEF Value

ScrapeTypeOK ==
  /\ scraping \in BOOLEAN
  /\ during \in [ConnKey -> Nat]
  /\ \A kind \in SecondsKinds : \A ck \in ConnKey :
       /\ In(sample, kind, ck) \in Nat /\ In(reported, kind, ck) \in Nat
       /\ ~scraping => In(sample, kind, ck) = 0

(* What has been reported of a ConnKey is not ahead of the counters.       *)
ReportedInv(ck) ==
  /\ \A kind \in SecondsKinds : In(reported, kind, ck) <= Value(kind, ck)
  /\ \A kind \in {"active", "failed"} : In(reported, "active_failed", ck) <= Value(kind, ck)

(* What has been read of it lies in between, and the active failed seconds *)
(* that are on their way are accounted for by the increments in hand.      *)
SettledInv(ck) ==
  /\ \A kind \in SecondsKinds :
       Settled(kind, ck) => /\ In(reported, kind, ck) <= In(sample, kind, ck)
                            /\ In(sample, kind, ck) <= Value(kind, ck)
  /\ \A kind \in {"active", "failed"} :
       Settled(kind, ck) =>
         /\ In(reported, "active_failed", ck) <= In(sample, kind, ck)
         /\ Total("active_failed", ck) <= In(sample, kind, ck) + during[ck]

(* A scrape knows of the increment that is being applied.                  *)
DuringInv(ck) == scraping => BeingApplied(ck) <= during[ck]

ScrapeInv ==
  /\ ScrapeTypeOK
  /\ \A ck \in ConnKey : ReportedInv(ck) /\ SettledInv(ck) /\ DuringInv(ck)

(* The counters and the samples of a ConnKey are numbers, ...              *)
NumbersAt(ck) ==
  /\ \A kind \in SecondsKinds :
       /\ Value(kind, ck) \in Nat
       /\ In(sample, kind, ck) \in Nat /\ In(reported, kind, ck) \in Nat
  /\ Total("active_failed", ck) \in Int
  /\ during[ck] \in Nat /\ BeingApplied(ck) \in Nat

LEMMA NumbersOf ==
  ASSUME TypeInv, ScrapeTypeOK, NEW ck \in ConnKey
  PROVE  NumbersAt(ck)
<1>1. \A kind \in SecondsKinds : kind \in Kinds
  BY DEF SecondsKinds, Kinds
<1>2. Total("active_failed", ck) \in Int
  <2>1. Base("active_failed", ck) \in Int
    BY BaseType DEF Kinds
  <2>2. Whole("active_failed", ck) \in Int
    BY DEF Whole, TypeInv, TypeOK, MetricsTypeOK, Inc
  <2> QED
    BY <2>1, <2>2, TotalIsBasePlusWhole DEF Kinds
<1> QED
  BY <1>1, <1>2, ValueType DEF ScrapeTypeOK, BeingApplied, NumbersAt

(* ... also after a step.                                                  *)
Numbers == \A ck \in ConnKey : NumbersAt(ck)

LEMMA NumbersNext == TypeInv' /\ ScrapeTypeOK' => Numbers'
<1>1. TypeInv /\ ScrapeTypeOK => Numbers
  BY NumbersOf DEF Numbers
<1> QED
  BY <1>1, PTL

(* The start of a scrape: the series it does not list are zero.            *)
LEMMA StartStep ==
  ASSUME TypeInv, CounterInv, ScrapeInv, ScrapeStart
  PROVE  ScrapeInv'
<1>1. /\ ~scraping /\ scraping' /\ unread' = Listed
      /\ during' = [ck \in ConnKey |-> BeingApplied(ck)]
      /\ UNCHANGED <<vars, sample, reported>>
  BY DEF ScrapeStart, BeingApplied
<1>2. UNCHANGED <<counters, applying, step>>
  BY <1>1 DEF vars, metricVars
<1>3. /\ \A kind \in SecondsKinds : \A ck \in ConnKey : Value(kind, ck)' = Value(kind, ck)
      /\ \A ck \in ConnKey : /\ Total("active_failed", ck)' = Total("active_failed", ck)
                              /\ BeingApplied(ck)' = BeingApplied(ck)
  BY <1>2 DEF Value, Total, Pending, BeingApplied
<1>4. ScrapeTypeOK'
  <2>1. scraping' \in BOOLEAN
    BY <1>1 DEF ScrapeStart
  <2> QED
    BY <1>1, <2>1 DEF ScrapeInv, ScrapeTypeOK, In, BeingApplied
<1> SUFFICES ASSUME NEW ck \in ConnKey
             PROVE  ReportedInv(ck)' /\ SettledInv(ck)' /\ DuringInv(ck)'
  BY <1>4 DEF ScrapeInv
<1>5. /\ \A kind \in SecondsKinds : /\ In(sample, kind, ck)' = In(sample, kind, ck)
                                    /\ In(reported, kind, ck)' = In(reported, kind, ck)
      /\ \A kind \in SecondsKinds : In(sample, kind, ck) = 0
  BY <1>1 DEF In, ScrapeInv, ScrapeTypeOK
<1>6. during'[ck] = BeingApplied(ck) /\ BeingApplied(ck) \in Nat
  BY <1>1 DEF BeingApplied
<1>7. ReportedInv(ck)'
  BY <1>3, <1>5 DEF ScrapeInv, ReportedInv, SecondsKinds
<1>8. DuringInv(ck)'
  BY <1>3, <1>6 DEF DuringInv
<1>9. ASSUME NEW kind \in SecondsKinds, Settled(kind, ck)'
      PROVE  Value(kind, ck) = 0
  BY <1>1, <1>9 DEF Settled, Listed, Value
<1>10. SettledInv(ck)'
  <2>1. ASSUME NEW kind \in SecondsKinds, Settled(kind, ck)'
        PROVE  /\ In(reported, kind, ck)' <= In(sample, kind, ck)'
               /\ In(sample, kind, ck)' <= Value(kind, ck)'
    BY <1>3, <1>5, <1>9, <2>1 DEF ScrapeInv, ReportedInv
  <2>2. ASSUME NEW kind \in {"active", "failed"}, Settled(kind, ck)'
        PROVE  /\ In(reported, "active_failed", ck)' <= In(sample, kind, ck)'
               /\ Total("active_failed", ck)' <= In(sample, kind, ck)' + during'[ck]
    <3>1. kind \in SecondsKinds /\ "active_failed" \in SecondsKinds
      BY DEF SecondsKinds
    <3>2. Total("active_failed", ck) <= 0 + BeingApplied(ck)
      BY <1>9, <2>2, <3>1, OrderedNow
    <3>3. In(reported, "active_failed", ck) <= 0
      BY <1>9, <2>2, <3>1 DEF ScrapeInv, ReportedInv
    <3>4. /\ In(sample, kind, ck)' = 0 /\ In(reported, "active_failed", ck)' = In(reported, "active_failed", ck)
      BY <1>5, <3>1
    <3> QED
      BY <1>3, <1>6, <3>2, <3>3, <3>4
  <2> QED
    BY <2>1, <2>2 DEF SettledInv
<1> QED
  BY <1>7, <1>8, <1>10

(* The read of one series: the counter is not behind the last report, and  *)
(* ahead of the active failed seconds but for the increment in hand.       *)
LEMMA ReadStep ==
  ASSUME TypeInv, CounterInv, ScrapeInv, NEW s \in unread, ScrapeRead(s[1], s[2])
  PROVE  ScrapeInv'
<1> DEFINE k0 == s[1]
           c0 == s[2]
           v0 == Value(k0, c0)
<1>1. /\ scraping /\ unread' = unread \ {<<k0, c0>>}
      /\ sample' = MapPut(sample, <<k0, c0>>, v0)
      /\ UNCHANGED <<vars, scraping, reported, during>>
  BY DEF ScrapeRead
<1>2. UNCHANGED <<counters, applying, step>>
  BY <1>1 DEF vars, metricVars
<1>3. /\ \A kind \in SecondsKinds : \A ck \in ConnKey : Value(kind, ck)' = Value(kind, ck)
      /\ \A ck \in ConnKey : /\ Total("active_failed", ck)' = Total("active_failed", ck)
                              /\ BeingApplied(ck)' = BeingApplied(ck)
  BY <1>2 DEF Value, Total, Pending, BeingApplied
<1> HIDE DEF k0, c0
<1>4. ASSUME NEW kind \in SecondsKinds, NEW ck \in ConnKey
      PROVE  In(sample, kind, ck)' = IF kind = k0 /\ ck = c0 THEN Value(kind, ck)
                                                            ELSE In(sample, kind, ck)
  <2>1. CASE kind = k0 /\ ck = c0
    <3>1. In(sample, kind, ck)' = v0
      BY <1>1, <2>1 DEF In, MapPut
    <3> QED
      BY <2>1, <3>1
  <2>2. CASE ~(kind = k0 /\ ck = c0)
    BY <1>1, <2>2 DEF In, MapPut
  <2> QED
    BY <2>1, <2>2
<1>5. ASSUME NEW kind \in SecondsKinds, NEW ck \in ConnKey
      PROVE  /\ In(reported, kind, ck)' = In(reported, kind, ck)
             /\ Settled(kind, ck)' => Settled(kind, ck) \/ (kind = k0 /\ ck = c0)
  BY <1>1 DEF In, Settled
<1>6. ScrapeTypeOK'
  <2>1. ASSUME NEW kind \in SecondsKinds, NEW ck \in ConnKey
        PROVE  /\ In(sample, kind, ck)' \in Nat /\ In(reported, kind, ck)' \in Nat
    BY <1>4, <1>5, NumbersOf DEF ScrapeInv, NumbersAt
  <2> QED
    BY <1>1, <2>1 DEF ScrapeInv, ScrapeTypeOK
<1> SUFFICES ASSUME NEW ck \in ConnKey
             PROVE  ReportedInv(ck)' /\ SettledInv(ck)' /\ DuringInv(ck)'
  BY <1>6 DEF ScrapeInv
<1>7. ReportedInv(ck)'
  BY <1>3, <1>5 DEF ScrapeInv, ReportedInv, SecondsKinds
<1>8. DuringInv(ck)'
  BY <1>1, <1>3 DEF ScrapeInv, DuringInv
<1>9. SettledInv(ck)'
  <2>1. ASSUME NEW kind \in SecondsKinds, Settled(kind, ck)'
        PROVE  /\ In(reported, kind, ck)' <= In(sample, kind, ck)'
               /\ In(sample, kind, ck)' <= Value(kind, ck)'
    <3>1. Value(kind, ck) \in Nat
      BY NumbersOf DEF ScrapeInv, NumbersAt
    <3> QED
      BY <1>3, <1>4, <1>5, <2>1, <3>1 DEF ScrapeInv, ReportedInv, SettledInv
  <2>2. ASSUME NEW kind \in {"active", "failed"}, Settled(kind, ck)'
        PROVE  /\ In(reported, "active_failed", ck)' <= In(sample, kind, ck)'
               /\ Total("active_failed", ck)' <= In(sample, kind, ck)' + during'[ck]
    <3>1. kind \in SecondsKinds /\ "active_failed" \in SecondsKinds
      BY DEF SecondsKinds
    <3>2. /\ Total("active_failed", ck)' = Total("active_failed", ck) /\ during' = during
          /\ In(reported, "active_failed", ck)' = In(reported, "active_failed", ck)
      BY <1>1, <1>3, <1>5, <3>1
    <3>3. CASE kind = k0 /\ ck = c0
      <4>1. In(sample, kind, ck)' = Value(kind, ck)
        BY <1>4, <3>1, <3>3
      <4>2. Total("active_failed", ck) <= Value(kind, ck) + BeingApplied(ck)
        BY OrderedNow
      <4>3. BeingApplied(ck) <= during[ck]
        BY <1>1 DEF ScrapeInv, DuringInv
      <4>4. /\ Value(kind, ck) \in Nat /\ Total("active_failed", ck) \in Int
            /\ BeingApplied(ck) \in Nat /\ during[ck] \in Nat
        BY <3>1, NumbersOf DEF ScrapeInv, NumbersAt
      <4>5. Total("active_failed", ck) <= Value(kind, ck) + during[ck]
        BY <4>2, <4>3, <4>4
      <4>6. In(reported, "active_failed", ck) <= Value(kind, ck)
        BY DEF ScrapeInv, ReportedInv
      <4> QED
        BY <3>2, <4>1, <4>5, <4>6
    <3>4. CASE ~(kind = k0 /\ ck = c0)
      <4>1. In(sample, kind, ck)' = In(sample, kind, ck) /\ Settled(kind, ck)
        BY <1>4, <1>5, <2>2, <3>1, <3>4
      <4> QED
        BY <3>2, <4>1 DEF ScrapeInv, SettledInv
    <3> QED
      BY <3>3, <3>4
  <2> QED
    BY <2>1, <2>2 DEF SettledInv
<1> QED
  BY <1>7, <1>8, <1>9

(* The end of a scrape: every series is settled, and becomes the report.   *)
LEMMA EndStep ==
  ASSUME TypeInv, CounterInv, ScrapeInv, ScrapeEnd
  PROVE  ScrapeInv'
<1>1. /\ scraping /\ unread = {} /\ reported' = sample /\ ~scraping' /\ scraping' \in BOOLEAN
      /\ during' = NoIncs /\ sample' = EmptyMap /\ UNCHANGED vars
  BY DEF ScrapeEnd, NoScrape
<1>2. UNCHANGED counters
  BY <1>1 DEF vars, metricVars
<1>3. ASSUME NEW kind \in SecondsKinds, NEW ck \in ConnKey
      PROVE  /\ Value(kind, ck)' = Value(kind, ck)
             /\ In(sample, kind, ck)' = 0 /\ In(reported, kind, ck)' = In(sample, kind, ck)
             /\ Settled(kind, ck) /\ ~Settled(kind, ck)'
  BY <1>1, <1>2, EmptyMapType DEF Value, In, Settled
<1>4. ScrapeTypeOK'
  BY <1>1, <1>3 DEF ScrapeInv, ScrapeTypeOK, NoIncs
<1> SUFFICES ASSUME NEW ck \in ConnKey
             PROVE  ReportedInv(ck)' /\ SettledInv(ck)' /\ DuringInv(ck)'
  BY <1>4 DEF ScrapeInv
<1>5. SettledInv(ck)' /\ DuringInv(ck)'
  BY <1>1, <1>3 DEF SettledInv, DuringInv, Settled
<1>6. ReportedInv(ck)'
  <2>1. ASSUME NEW kind \in SecondsKinds
        PROVE  In(reported, kind, ck)' <= Value(kind, ck)'
    BY <1>3 DEF ScrapeInv, SettledInv
  <2>2. ASSUME NEW kind \in {"active", "failed"}
        PROVE  In(reported, "active_failed", ck)' <= Value(kind, ck)'
    <3>1. kind \in SecondsKinds /\ "active_failed" \in SecondsKinds
      BY DEF SecondsKinds
    <3>2. /\ In(sample, "active_failed", ck) <= Value("active_failed", ck)
          /\ Value("active_failed", ck) <= Value(kind, ck)
      BY <1>3, <3>1, OrderedNow DEF ScrapeInv, SettledInv
    <3>3. /\ In(sample, "active_failed", ck) \in Nat /\ Value("active_failed", ck) \in Nat
          /\ Value(kind, ck) \in Nat
      BY <3>1, NumbersOf DEF ScrapeInv, NumbersAt
    <3> QED
      BY <1>3, <3>1, <3>2, <3>3
  <2> QED
    BY <2>1, <2>2 DEF ReportedInv
<1> QED
  BY <1>5, <1>6

(* A step of the running exporter under a scrape: the counters only grow,  *)
(* and an increment that is handed over is noted.                          *)
LEMMA RunningStep ==
  ASSUME TypeInv, TypeInv', CounterInv, ScrapeInv, ExporterStep, Alive
  PROVE  ScrapeInv'
<1>1. /\ Next /\ UNCHANGED <<scraping, unread, sample, reported>>
      /\ during' = IF scraping /\ applying = Null /\ applying' # Null
                   THEN [during EXCEPT ![applying'.key] = during[applying'.key] + 1] ELSE during
  BY DEF ExporterStep
<1>2. during \in [ConnKey -> Nat]
  BY DEF ScrapeInv, ScrapeTypeOK
<1>3. ASSUME NEW ck \in ConnKey
      PROVE  /\ \A kind \in SecondsKinds : Value(kind, ck) <= Value(kind, ck)'
             /\ during'[ck] \in Nat
             /\ scraping => /\ Total("active_failed", ck)' - Total("active_failed", ck)
                                   <= during'[ck] - during[ck]
                            /\ BeingApplied(ck)' <= during'[ck]
  <2>1. \A kind \in SecondsKinds : kind \in Kinds
    BY DEF SecondsKinds, Kinds
  <2>2. /\ \A kind \in SecondsKinds : Value(kind, ck) \in Nat
        /\ Total("active_failed", ck) \in Int /\ during[ck] \in Nat
        /\ BeingApplied(ck) \in Nat /\ BeingApplied(ck)' \in {0, 1}
    BY NumbersOf DEF ScrapeInv, NumbersAt, BeingApplied
  <2>3. CASE SendInc
    <3>1. /\ Total("active_failed", ck)' <= Total("active_failed", ck) + BeingApplied(ck)'
          /\ applying = Null /\ applying' # Null /\ applying'.key \in ConnKey
          /\ \A kind \in Kinds : Value(kind, ck)' = Value(kind, ck)
      BY <2>3, TotalsOfHandOver
    <3>2. /\ scraping => during'[ck] = during[ck] + BeingApplied(ck)'
          /\ ~scraping => during'[ck] = during[ck]
      BY <1>1, <1>2, <3>1 DEF BeingApplied
    <3>3. \A kind \in SecondsKinds : Value(kind, ck) <= Value(kind, ck)'
      BY <2>1, <2>2, <3>1
    <3>4. during'[ck] \in Nat
      BY <2>2, <3>2 DEF ScrapeInv, ScrapeTypeOK
    <3>5. Total("active_failed", ck)' \in Int
      BY TotalsOfSend, <2>3 DEF Kinds, SendInc, Send, TypeInv, TypeOK, TrackTypeOK, Inc
    <3> QED
      BY <2>2, <3>1, <3>2, <3>3, <3>4, <3>5
  <2>4. CASE ~SendInc
    <3>1. /\ \A kind \in Kinds : /\ Total(kind, ck)' = Total(kind, ck)
                                 /\ Value(kind, ck) <= Value(kind, ck)'
          /\ applying' = applying \/ applying' = Null
      BY <1>1, <2>4, TotalsOfOthers
    <3>2. during'[ck] = during[ck] /\ BeingApplied(ck)' <= BeingApplied(ck)
      BY <1>1, <3>1 DEF BeingApplied
    <3>3. Total("active_failed", ck)' = Total("active_failed", ck)
      BY <3>1 DEF Kinds
    <3>4. scraping => BeingApplied(ck) <= during[ck]
      BY DEF ScrapeInv, DuringInv
    <3> QED
      BY <2>1, <2>2, <3>1, <3>2, <3>3, <3>4
  <2> QED
    BY <2>3, <2>4
<1>4. ASSUME NEW kind \in SecondsKinds, NEW ck \in ConnKey
      PROVE  /\ In(sample, kind, ck)' = In(sample, kind, ck)
             /\ In(reported, kind, ck)' = In(reported, kind, ck)
             /\ Settled(kind, ck)' = Settled(kind, ck)
  BY <1>1 DEF In, Settled
<1>5. ScrapeTypeOK'
  <2>1. during' \in [ConnKey -> Nat]
    <3>1. during' = [ck \in ConnKey |-> during'[ck]]
      BY <1>1, <1>2
    <3> QED
      BY <1>3, <3>1
  <2> QED
    BY <1>1, <1>4, <2>1 DEF ScrapeInv, ScrapeTypeOK
<1> SUFFICES ASSUME NEW ck \in ConnKey
             PROVE  ReportedInv(ck)' /\ SettledInv(ck)' /\ DuringInv(ck)'
  BY <1>5 DEF ScrapeInv
<1>n. /\ \A kind \in SecondsKinds :
           /\ Value(kind, ck) \in Nat /\ Value(kind, ck)' \in Nat
           /\ In(sample, kind, ck) \in Nat /\ In(reported, kind, ck) \in Nat
      /\ Total("active_failed", ck) \in Int /\ Total("active_failed", ck)' \in Int
      /\ during[ck] \in Nat /\ during'[ck] \in Nat
  <2>1. ScrapeTypeOK
    BY DEF ScrapeInv
  <2>2. /\ \A kind \in SecondsKinds : Value(kind, ck)' \in Nat
        /\ Total("active_failed", ck)' \in Int /\ during'[ck] \in Nat
    BY <1>5, NumbersNext DEF Numbers, NumbersAt
  <2> QED
    BY <2>1, <2>2, NumbersOf DEF NumbersAt
<1>k. \A kind \in {"active", "failed"} : kind \in SecondsKinds /\ "active_failed" \in SecondsKinds
  BY DEF SecondsKinds
<1>6. ReportedInv(ck)'
  <2>1. ASSUME NEW kind \in SecondsKinds, NEW r \in SecondsKinds,
               In(reported, r, ck) <= Value(kind, ck)
        PROVE  In(reported, r, ck)' <= Value(kind, ck)'
    <3>1. In(reported, r, ck)' = In(reported, r, ck) /\ Value(kind, ck) <= Value(kind, ck)'
      BY <1>3, <1>4
    <3> QED
      BY <1>n, <2>1, <3>1
  <2> QED
    BY <1>k, <2>1 DEF ScrapeInv, ReportedInv
<1>7. DuringInv(ck)'
  BY <1>1, <1>3 DEF DuringInv
<1>8. SettledInv(ck)'
  <2>1. ASSUME NEW kind \in SecondsKinds, Settled(kind, ck)'
        PROVE  /\ In(reported, kind, ck)' <= In(sample, kind, ck)'
               /\ In(sample, kind, ck)' <= Value(kind, ck)'
    <3>1. /\ In(reported, kind, ck) <= In(sample, kind, ck)
          /\ In(sample, kind, ck) <= Value(kind, ck) /\ Value(kind, ck) <= Value(kind, ck)'
      BY <1>3, <1>4, <2>1 DEF ScrapeInv, SettledInv
    <3> QED
      BY <1>4, <1>n, <3>1
  <2>2. ASSUME NEW kind \in {"active", "failed"}, Settled(kind, ck)'
        PROVE  /\ In(reported, "active_failed", ck)' <= In(sample, kind, ck)'
               /\ Total("active_failed", ck)' <= In(sample, kind, ck)' + during'[ck]
    <3>1. /\ In(reported, "active_failed", ck) <= In(sample, kind, ck)
          /\ Total("active_failed", ck) <= In(sample, kind, ck) + during[ck]
          /\ scraping
      BY <1>4, <1>k, <2>2 DEF ScrapeInv, SettledInv, Settled
    <3>2. Total("active_failed", ck)' - Total("active_failed", ck) <= during'[ck] - during[ck]
      BY <1>3, <3>1
    <3>3. /\ In(sample, kind, ck)' = In(sample, kind, ck)
          /\ In(reported, "active_failed", ck)' = In(reported, "active_failed", ck)
          /\ In(sample, kind, ck) \in Nat
      BY <1>4, <1>k, <1>n
    <3> QED
      BY <1>n, <3>1, <3>2, <3>3
  <2> QED
    BY <2>1, <2>2 DEF SettledInv
<1> QED
  BY <1>6, <1>7, <1>8

(* A restart: nothing has been read, reported or handed over.              *)
LEMMA RestartedStep ==
  ASSUME TypeInv, TypeInv', ScrapeInv, ExporterStep, ~Alive
  PROVE  ScrapeInv'
<1>1. /\ ~scraping' /\ scraping' \in BOOLEAN /\ during' = NoIncs
      /\ sample' = EmptyMap /\ reported' = EmptyMap
  BY DEF ExporterStep, NoScrape
<1>2. ASSUME NEW kind \in SecondsKinds, NEW ck \in ConnKey
      PROVE  In(sample, kind, ck)' = 0 /\ In(reported, kind, ck)' = 0 /\ ~Settled(kind, ck)'
  BY <1>1, EmptyMapType DEF In, Settled
<1>3. ScrapeTypeOK'
  BY <1>1, <1>2 DEF ScrapeTypeOK, NoIncs
<1> SUFFICES ASSUME NEW ck \in ConnKey
             PROVE  ReportedInv(ck)' /\ SettledInv(ck)' /\ DuringInv(ck)'
  BY <1>3 DEF ScrapeInv
<1>4. SettledInv(ck)' /\ DuringInv(ck)'
  BY <1>1 DEF SettledInv, DuringInv, Settled
<1>5. \A kind \in SecondsKinds : Value(kind, ck)' \in Nat
  BY <1>3, NumbersNext DEF Numbers, NumbersAt
<1>6. \A kind \in {"active", "failed"} : kind \in SecondsKinds /\ "active_failed" \in SecondsKinds
  BY DEF SecondsKinds
<1>7. ReportedInv(ck)'
  BY <1>2, <1>5, <1>6 DEF ReportedInv
<1> QED
  BY <1>4, <1>7

(***************************************************************************)
(* Scrapes that read the series one by one, in any order and at any pace   *)
(* against the additions of Inc.apply, are ordered: from one to the next   *)
(* no kind of seconds goes back and the active failed seconds are among    *)
(* the active and the failed ones; within one the excess is bounded by the *)
(* increments that were in the hands of Apply meanwhile. For any traffic,  *)
(* any number of CPUs and ConnKeys, any of the faults, and any number of   *)
(* scrapes.                                                                *)
(***************************************************************************)
THEOREM ScrapesAreOrdered == ScrapeSpec => []ScrapesOrdered
<1>1. ScrapeInit => ScrapeInv
  <2> SUFFICES ASSUME ScrapeInit PROVE ScrapeInv
    OBVIOUS
  <2>1. /\ scraping = FALSE /\ during = NoIncs /\ sample = EmptyMap /\ reported = EmptyMap
        /\ counters = [kind \in Kinds |-> EmptyMap]
    BY DEF ScrapeInit, Init, MetricsInit
  <2>2. \A kind \in SecondsKinds : \A ck \in ConnKey :
          In(sample, kind, ck) = 0 /\ In(reported, kind, ck) = 0 /\ Value(kind, ck) = 0
    BY <2>1, EmptyMapType DEF In, Value, SecondsKinds, Kinds
  <2>3. ScrapeTypeOK
    <3>1. scraping \in BOOLEAN /\ during \in [ConnKey -> Nat]
      BY <2>1 DEF NoIncs
    <3> QED
      BY <2>2, <3>1 DEF ScrapeTypeOK
  <2>4. \A ck \in ConnKey : SettledInv(ck) /\ DuringInv(ck)
    BY <2>1 DEF SettledInv, DuringInv, Settled
  <2>5. \A ck \in ConnKey : ReportedInv(ck)
    BY <2>2 DEF ReportedInv, SecondsKinds
  <2> QED
    BY <2>3, <2>4, <2>5 DEF ScrapeInv
<1>2. /\ TypeInv /\ TypeInv' /\ CounterInv /\ ScrapeInv /\ [ScrapeNext]_<<vars, scrapeVars>>
      => ScrapeInv'
  <2> SUFFICES ASSUME TypeInv, TypeInv', CounterInv, ScrapeInv, [ScrapeNext]_<<vars, scrapeVars>>
               PROVE  ScrapeInv'
    OBVIOUS
  <2>1. CASE UNCHANGED <<vars, scrapeVars>>
    <3>1. UNCHANGED <<scraping, unread, sample, reported, during, counters, applying, step>>
      BY <2>1 DEF vars, scrapeVars, metricVars
    <3> QED
      BY <3>1 DEF ScrapeInv, ScrapeTypeOK, ReportedInv, SettledInv, DuringInv, Settled, In,
           Value, Total, Pending, BeingApplied
  <2> QED
    BY <2>1, StartStep, ReadStep, EndStep, RunningStep, RestartedStep DEF ScrapeNext
<1>3. TypeInv /\ CounterInv /\ ScrapeInv => ScrapesOrdered
  <2> SUFFICES ASSUME TypeInv, CounterInv, ScrapeInv, NEW ck \in ConnKey,
                      NEW kind \in {"active", "failed"},
                      Settled(kind, ck), Settled("active_failed", ck)
               PROVE  In(sample, "active_failed", ck) <= In(sample, kind, ck) + during[ck]
    BY DEF ScrapesOrdered, ScrapeInv, SettledInv
  <2>1. kind \in SecondsKinds /\ "active_failed" \in SecondsKinds
    BY DEF SecondsKinds
  <2>2. /\ In(sample, "active_failed", ck) <= Value("active_failed", ck)
        /\ Value("active_failed", ck) <= Total("active_failed", ck)
        /\ Total("active_failed", ck) <= In(sample, kind, ck) + during[ck]
    BY <2>1, OrderedNow DEF ScrapeInv, SettledInv
  <2>3. /\ In(sample, "active_failed", ck) \in Nat /\ Value("active_failed", ck) \in Nat
        /\ Total("active_failed", ck) \in Int /\ In(sample, kind, ck) + during[ck] \in Nat
    BY <2>1, NumbersOf DEF ScrapeInv, NumbersAt
  <2> QED
    BY <2>2, <2>3
<1> QED
  BY <1>1, <1>2, <1>3, ScrapedIsExporter, TypeInvariant, CounterInvariant, PTL DEF ScrapeSpec
=============================================================================
