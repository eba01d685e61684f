---------------------------- MODULE Audit_proofs ----------------------------
(***************************************************************************)
(* Theorems about the pipeline with the history variables of Audit. The    *)
(* buckets of the stats map: a bucket belongs to one tick, for any number  *)
(* of CPUs and with any of the faults; and with one CPU and a stats map    *)
(* that can be read, the annotation of a tick is exact. The connections    *)
(* that the filter counts when it runs on one CPU: under which ConnKey it  *)
(* counts them, when it calls one successful, and how often it counts one. *)
(***************************************************************************)
EXTENDS Audit, Exporter_proofs

-----------------------------------------------------------------------------
(* The history variables do not change what the exporter does: what holds  *)
(* of every behaviour of Exporter holds of those of Audit.                 *)
LEMMA AuditIsExporter == AuditSpec => Spec
<1>1. AuditInit => Init
  BY DEF AuditInit
<1>2. [AuditNext]_<<vars, auditVars>> => [Next]_vars
  BY DEF AuditNext
<1> QED
  BY <1>1, <1>2, PTL DEF AuditSpec, Spec

-----------------------------------------------------------------------------
(* Emptying a bucket.                                                      *)

(* A step of the filter writes to the bucket of its clock value only.      *)
LEMMA BucketWritten ==
  ASSUME TypeInv, NEW c \in CPUs, CpuStep(c) \/ Deliver(c),
         NEW b \in Buckets, stats'[b] # stats[b]
  PROVE  b = bucketOf(c) /\ (StatsAdd(c) \/ StatsInsert(c))
<1>1. stats = [x \in Buckets |-> stats[x]]
  BY DEF TypeInv, TypeOK, MapsTypeOK
<1>2. CASE StatsAdd(c)
  BY <1>1, <1>2 DEF StatsAdd
<1>3. CASE StatsInsert(c)
  BY <1>1, <1>3 DEF StatsInsert
<1>4. CASE ~(StatsAdd(c) \/ StatsInsert(c))
  BY <1>4 DEF CpuStep, Deliver, Ignore, Receive, NextSocket, Start, NewConnection, Lookup,
       SynAck, Psh, Bytes, Rst, Fin, StatsClock, StatsFind, StatsDelete, mapVars
<1> QED
  BY <1>2, <1>3, <1>4

(* So it leaves the bucket to be drained as it is.                         *)
LEMMA DrainedUntouched ==
  ASSUME TypeInv, ClockInv, NEW c \in CPUs, CpuStep(c) \/ Deliver(c)
  PROVE  stats'[statsKey] = stats[statsKey]
<1> SUFFICES ASSUME stats'[statsKey] # stats[statsKey] PROVE FALSE
  OBVIOUS
<1>1. statsKey \in Buckets
  BY StatsSecondsAssumption DEF statsKey, Buckets, TypeInv, TypeOK, TrackTypeOK
<1>2. statsKey = bucketOf(c) /\ (StatsAdd(c) \/ StatsInsert(c))
  BY <1>1, BucketWritten
<1>3. HoldsClock(c)
  BY <1>2 DEF StatsAdd, StatsInsert, HoldsClock
<1> QED
  BY <1>2, <1>3, WritersElsewhere

(* What is still to be read from the bucket being drained, to be deleted   *)
(* from it, and that it is empty after both loops unless the first failed. *)
DrainInv ==
  LET left == DOMAIN stats[statsKey] IN
  /\ tpc = "stats" => left \subseteq todo \cup DOMAIN statsValuesAtKey
  /\ tpc = "cleanup" /\ ~iterErr => left \subseteq todo
  /\ tpc \in {"account", "send", "advance"} => left = {}

(* Every step of the exporter preserves it: the filter writes elsewhere.   *)
LEMMA DrainStep ==
  ASSUME TypeInv, ClockInv, DrainInv, [Next]_vars
  PROVE  DrainInv'
<1>b. statsKey \in Buckets
  BY StatsSecondsAssumption DEF statsKey, Buckets, TypeInv, TypeOK, TrackTypeOK
<1>1. ASSUME NEW c \in CPUs, CaptureAction(c) \/ DeliverAction(c)
      PROVE  DrainInv'
  <2>1. UNCHANGED <<tpc, todo, statsValuesAtKey, iterErr, currentTickerClock>>
    BY <1>1 DEF CaptureAction, DeliverAction, trackVars, loopVars
  <2>2. stats'[statsKey] = stats[statsKey]
    BY <1>1, DrainedUntouched DEF CaptureAction, DeliverAction
  <2> QED
    BY <2>1, <2>2 DEF DrainInv, statsKey
<1>2. ASSUME NEW k \in todo, DeleteStats(k)
      PROVE  DrainInv'
  <2>1. DOMAIN stats'[statsKey] = DOMAIN stats[statsKey] \ {k}
    BY <1>2, <1>b DEF DeleteStats, TypeInv, TypeOK, MapsTypeOK, MapDelete
  <2> QED
    BY <1>2, <2>1 DEF DeleteStats, DrainInv, statsKey
<1>3. ASSUME NEW k \in todo, CollectStats(k)
      PROVE  DrainInv'
  BY <1>3 DEF CollectStats, DrainInv, statsKey, mapVars, MapPut
<1>4. CASE StatsLookup \/ CollectEnd \/ CleanupEnd
  BY <1>4 DEF StatsLookup, CollectEnd, CleanupEnd, EndOfBody, DrainInv, statsKey, mapVars
<1>5. ASSUME NEW k \in todo, Account(k)
      PROVE  DrainInv'
  BY <1>5 DEF Account, DrainInv, statsKey, mapVars
<1>6. CASE SendInc \/ ExpireAction
  BY <1>6 DEF SendInc, Send, ExpireAction, Expire, DrainInv, statsKey, mapVars
<1>7. CASE tpc' \in {"idle", "scan", "purge", "panicked"}
  BY <1>7 DEF DrainInv
<1>8. CASE UNCHANGED <<tpc, todo, statsValuesAtKey, iterErr, currentTickerClock, stats>>
  BY <1>8 DEF DrainInv, statsKey
<1> QED
  BY <1>1, <1>2, <1>3, <1>4, <1>5, <1>6, <1>7, <1>8
     DEF Next, Rest, vars, SecondAction, Second, TrackAction, TrackStep, Tick, ScanConnection,
         PurgeConnection, ScanError, ScanEnd, StatsLookupError, ApplyAction, AdvanceAction,
         Advance, Restart, EndOfBody, mapVars, trackVars, loopVars

(* It holds throughout.                                                    *)
LEMMA DrainInvariant == Spec => []DrainInv
<1>1. Init => DrainInv
  BY DEF Init, TrackInit, DrainInv
<1>2. TypeInv /\ ClockInv /\ DrainInv /\ [Next]_vars => DrainInv'
  BY DrainStep
<1> QED
  BY <1>1, <1>2, TypeInvariant, ClockInvariant, PTL DEF Spec

-----------------------------------------------------------------------------
(* A bucket belongs to one tick.                                           *)

(* The clock values of the writes that a bucket holds: congruent to it,    *)
(* not from the future, and at most as old as the oldest tick kept.        *)
StampInv ==
  \A b \in Buckets :
    /\ stats[b] = EmptyMap => stamps[b] = {}
    /\ \A t \in stamps[b] :
         /\ t \in Nat /\ t % STATS_SECONDS_COUNT = b
         /\ t <= ticker_clock
         /\ currentTickerClock - t <= STATS_SECONDS_COUNT - 1

(* Writes that are older than any tick but the oldest are not in a bucket  *)
(* that has been drained.                                                  *)
LEMMA DrainedStamps ==
  ASSUME TypeInv, ClockInv, DrainInv, StampInv, tpc \in {"account", "send", "advance"},
         NEW b \in Buckets, NEW t \in stamps[b]
  PROVE  currentTickerClock - t < STATS_SECONDS_COUNT - 1
<1> DEFINE a == currentTickerClock + 1
           n == STATS_SECONDS_COUNT
<1>1. /\ a \in Nat /\ n \in Nat \ {0} /\ t \in Nat
      /\ currentTickerClock \in Nat /\ currentTickerClock - t <= n - 1
  BY StatsSecondsAssumption DEF StampInv, TypeInv, TypeOK, TrackTypeOK
<1>2. SUFFICES ASSUME t = a - n PROVE FALSE
  BY <1>1
<1> HIDE DEF a, n
<1> a \in Int
  BY <1>1
<1>3. (a - n) % n = a % n
  BY <1>1, ResiduesAgree
<1>4. b = statsKey
  BY <1>2, <1>3 DEF StampInv, statsKey, a, n
<1>5. DOMAIN stats[b] = {} /\ IsMap(stats[b], ConnKey, sni_stats_t)
  BY <1>4 DEF DrainInv, TypeInv, TypeOK, MapsTypeOK
<1>6. stats[b] = EmptyMap
  BY <1>5 DEF IsMap, EmptyMap
<1> QED
  BY <1>6 DEF StampInv

(* Every step preserves it.                                                *)
LEMMA StampStep ==
  ASSUME TypeInv, ClockInv, DrainInv, StampInv, [AuditNext]_<<vars, auditVars>>
  PROVE  StampInv'
<1> DEFINE T == currentTickerClock
           n == STATS_SECONDS_COUNT
<1>t. T \in Nat /\ n \in Nat \ {0} /\ ticker_clock \in Nat /\ ticker_clock <= T
  BY StatsSecondsAssumption DEF TypeInv, TypeOK, TrackTypeOK, MapsTypeOK, ClockInv
<1>1. CASE UNCHANGED <<vars, auditVars>>
  BY <1>1 DEF vars, auditVars, mapVars, trackVars, StampInv
<1>2. CASE AuditNext /\ ~Alive
  <2>1. stamps' = [b \in Buckets |-> {}]
    BY <1>2 DEF AuditNext, AuditReset
  <2> QED
    BY <2>1 DEF StampInv
<1>3. CASE AuditNext /\ Alive
  <2>1. /\ Next
        /\ stamps' = [b \in Buckets |->
             IF stats'[b] = EmptyMap THEN {}
             ELSE stamps[b] \cup {cpu[c].clock : c \in {x \in Writing : bucketOf(x) = b}}]
    BY <1>3 DEF AuditNext, AuditStep
  <2>2. \/ T' = T /\ ticker_clock' = ticker_clock
        \/ AdvanceAction
    BY <1>3, <2>1 DEF Next, Alive, Rest, Restart, vars, SecondAction, Second, TrackAction, TrackStep,
         CaptureAction, DeliverAction, CpuStep, Deliver, Ignore, Receive, NextSocket, Start,
         NewConnection, Lookup, SynAck, Psh, Bytes, Rst, Fin, StatsClock, StatsFind, StatsAdd,
         StatsInsert, StatsDelete,
         Tick, ScanConnection, PurgeConnection, CollectStats, DeleteStats, Account,
         ScanError, ScanEnd, StatsLookup, StatsLookupError, CollectEnd, CleanupEnd,
         SendInc, Send, ApplyAction, ExpireAction, Expire, mapVars, trackVars
  <2>3. SUFFICES ASSUME NEW b \in Buckets, NEW t \in stamps'[b]
                 PROVE  /\ t \in Nat /\ t % n = b /\ t <= ticker_clock'
                        /\ T' - t <= n - 1
    BY <2>1 DEF StampInv
  <2>4. CASE t \in stamps[b]
    <3>1. t \in Nat /\ t % n = b /\ t <= ticker_clock /\ T - t <= n - 1
      BY <2>4 DEF StampInv
    <3>2. CASE AdvanceAction
      <4>1. T - t < n - 1
        BY <2>4, <3>2, DrainedStamps DEF AdvanceAction, Advance
      <4>2. T' = T + 1 /\ (ticker_clock' = T + 1 \/ ticker_clock' = ticker_clock)
        BY <3>2 DEF AdvanceAction, Advance
      <4> QED
        BY <1>t, <3>1, <4>1, <4>2
    <3> QED
      BY <2>2, <3>1, <3>2
  <2>5. CASE t \notin stamps[b]
    <3>1. PICK c \in Writing : bucketOf(c) = b /\ t = cpu[c].clock
      BY <2>1, <2>5
    <3>2. c \in CPUs /\ HoldsClock(c) /\ cpu' # cpu
      BY <3>1 DEF Writing, Moving, HoldsClock
    <3>3. T' = T /\ ticker_clock' = ticker_clock
      BY <2>2, <3>2 DEF AdvanceAction, captureVars
    <3>4. t \in Nat /\ t <= ticker_clock /\ T - t < n - 1
      BY <3>1, <3>2, WritersElsewhere
    <3>5. t % n = b
      BY <3>1 DEF bucketOf
    <3> QED
      BY <1>t, <3>3, <3>4, <3>5
  <2> QED
    BY <2>4, <2>5
<1> QED
  BY <1>1, <1>2, <1>3

(***************************************************************************)
(* However many CPUs write, whatever system call fails and however far the *)
(* clock in the kernel lags behind, a bucket only holds connections of one *)
(* tick, and is empty again before the filter comes round to it: two       *)
(* numbers that are both congruent to the bucket and among the last        *)
(* STATS_SECONDS_COUNT ticks are equal.                                    *)
(***************************************************************************)
THEOREM BucketsAreTicks == AuditSpec => []OneTickPerBucket
<1>1. AuditInit => StampInv
  BY DEF AuditInit, StampInv
<1>2. TypeInv /\ ClockInv /\ DrainInv /\ StampInv /\ [AuditNext]_<<vars, auditVars>> => StampInv'
  BY StampStep
<1>3. TypeInv /\ ClockInv /\ DrainInv /\ StampInv => OneTickPerBucket
  <2> SUFFICES ASSUME TypeInv, ClockInv, DrainInv, StampInv,
                      NEW b \in Buckets, NEW t \in stamps[b], NEW u \in stamps[b]
               PROVE  u = t
    BY DrainedStamps DEF OneTickPerBucket, StampInv
  <2> DEFINE n == STATS_SECONDS_COUNT
             T == currentTickerClock
  <2>1. /\ n \in Nat \ {0} /\ T \in Nat /\ ticker_clock \in Nat /\ ticker_clock <= T
        /\ t \in Nat /\ t <= ticker_clock /\ T - t <= n - 1
        /\ u \in Nat /\ u <= ticker_clock /\ T - u <= n - 1
    BY StatsSecondsAssumption DEF TypeInv, TypeOK, TrackTypeOK, MapsTypeOK, ClockInv, StampInv
  <2>2. t % n = u % n
    BY DEF StampInv
  <2> HIDE DEF n, T
  <2> t \in Int /\ u \in Int
    BY <2>1
  <2>3. ASSUME t < u PROVE FALSE
    <3>1. u - t < n
      BY <2>1, <2>3
    <3> QED
      BY <2>1, <2>2, <2>3, <3>1, ResiduesDiffer
  <2>4. ASSUME u < t PROVE FALSE
    <3>1. t - u < n
      BY <2>1, <2>4
    <3> QED
      BY <2>1, <2>2, <2>4, <3>1, ResiduesDiffer
  <2> QED
    BY <2>1, <2>3, <2>4
<1> QED
  BY <1>1, <1>2, <1>3, AuditIsExporter, TypeInvariant, ClockInvariant, DrainInvariant, PTL
     DEF AuditSpec

-----------------------------------------------------------------------------
(* The copy of the bucket.                                                 *)

(* The copy that TrackConnections makes of a bucket agrees with it, and    *)
(* the increment is taken from the copy.                                   *)
CopyInv ==
  /\ tpc \in {"idle", "scan", "purge"} => statsValuesAtKey = EmptyMap
  /\ tpc = "stats" =>
       \A k \in DOMAIN statsValuesAtKey :
         k \in DOMAIN stats[statsKey] /\ statsValuesAtKey[k] = stats[statsKey][k]
  /\ tpc = "send" =>
       /\ inc.key \in DOMAIN statsValuesAtKey
       /\ inc.successful = succeeded_connections(inc.key)
       /\ inc.rejected = failed_connections(inc.key)

(* Every step of the exporter preserves it.                                *)
LEMMA CopyStep ==
  ASSUME TypeInv, ClockInv, CopyInv, [Next]_vars
  PROVE  CopyInv'
<1>b. statsKey \in Buckets
  BY StatsSecondsAssumption DEF statsKey, Buckets, TypeInv, TypeOK, TrackTypeOK
<1>1. ASSUME NEW c \in CPUs, CaptureAction(c) \/ DeliverAction(c)
      PROVE  CopyInv'
  <2>1. UNCHANGED <<tpc, todo, statsValuesAtKey, inc, currentTickerClock>>
    BY <1>1 DEF CaptureAction, DeliverAction, trackVars, loopVars
  <2>2. stats'[statsKey] = stats[statsKey]
    BY <1>1, DrainedUntouched DEF CaptureAction, DeliverAction
  <2> QED
    BY <2>1, <2>2 DEF CopyInv, statsKey, succeeded_connections, failed_connections
<1>2. ASSUME NEW k \in todo, CollectStats(k)
      PROVE  CopyInv'
  BY <1>2 DEF CollectStats, CopyInv, statsKey, mapVars, MapPut
<1>3. CASE StatsLookup
  BY <1>3, EmptyMapType DEF StatsLookup, CopyInv
<1>4. ASSUME NEW k \in todo, Account(k)
      PROVE  CopyInv'
  <2>1. /\ DOMAIN staleConnections(k) = {} /\ k \in DOMAIN statsValuesAtKey
        /\ succeeded_connections(k) \in Nat /\ failed_connections(k) \in Nat
        /\ previousFailed(k) \in BOOLEAN
    BY <1>4, CountsType DEF Account, TypeInv, TypeOK, NoOldConnections, staleConnections
  <2>2. /\ inc'.key = k /\ inc'.successful = succeeded_connections(k)
        /\ inc'.rejected = failed_connections(k)
    BY <1>4, <2>1, AccountWithoutStale DEF Account
  <2> QED
    BY <1>4, <2>1, <2>2 DEF Account, CopyInv, succeeded_connections, failed_connections
<1>5. CASE EndOfBody
  BY <1>5 DEF EndOfBody, CopyInv
<1>6. CASE tpc' \in {"scan", "purge"} /\ tpc \in {"idle", "scan", "purge"}
           /\ UNCHANGED statsValuesAtKey
  BY <1>6 DEF CopyInv
<1>7. CASE tpc' \in {"cleanup", "account", "advance", "panicked"}
  BY <1>7 DEF CopyInv
<1>8. CASE UNCHANGED <<tpc, statsValuesAtKey, inc, currentTickerClock, stats>>
  BY <1>8 DEF CopyInv, statsKey, succeeded_connections, failed_connections
<1>9. CASE TrackAction
  BY <1>2, <1>3, <1>4, <1>5, <1>6, <1>7, <1>9
     DEF TrackAction, TrackStep, Tick, ScanConnection, PurgeConnection, DeleteStats, ScanError,
         ScanEnd, StatsLookupError, CollectEnd, CleanupEnd, loopVars
<1>10. CASE SecondAction \/ ApplyAction \/ UNCHANGED vars
  BY <1>8, <1>10 DEF SecondAction, Second, ApplyAction, vars, mapVars, trackVars, loopVars
<1>11. CASE SendInc \/ ExpireAction
  BY <1>7, <1>11 DEF SendInc, Send, ExpireAction, Expire, loopVars
<1>12. CASE AdvanceAction \/ Restart
  BY <1>5, <1>12 DEF AdvanceAction, Advance, Restart
<1> QED
  BY <1>1, <1>9, <1>10, <1>11, <1>12 DEF Next, Rest

(* It holds throughout.                                                    *)
LEMMA CopyInvariant == Spec => []CopyInv
<1>1. Init => CopyInv
  BY EmptyMapType DEF Init, TrackInit, CopyInv
<1>2. TypeInv /\ ClockInv /\ CopyInv /\ [Next]_vars => CopyInv'
  BY CopyStep
<1> QED
  BY <1>1, <1>2, TypeInvariant, ClockInvariant, PTL DEF Spec

(* Without a fault of the stats map, its iteration does not fail.          *)
LEMMA NoIterErr ==
  ASSUME "stats" \notin Faults
  PROVE  Spec => []~iterErr
<1>1. Init => ~iterErr
  BY DEF Init, TrackInit
<1>2. ~iterErr /\ [Next]_vars => ~iterErr'
  BY DEF Next, Rest, vars, CaptureAction, DeliverAction, SecondAction, Second, TrackAction, TrackStep,
       Tick, ScanConnection, PurgeConnection, CollectStats, DeleteStats, Account, ScanError,
       ScanEnd, StatsLookup, StatsLookupError, CollectEnd, CleanupEnd, SendInc, Send, ApplyAction,
       ExpireAction, Expire, AdvanceAction, Advance, Restart, EndOfBody, trackVars, loopVars
<1> QED
  BY <1>1, <1>2, PTL DEF Spec

-----------------------------------------------------------------------------
(* With one CPU, every call of add_connection_to_stats is recorded.        *)

(* Between its lookup and its write a run has its bucket to itself.        *)
EntryInv(c) ==
  LET id == elem[cpu[c].conn].id IN
  /\ cpu[c].pc = "stats_add" => cpu[c].entry = id /\ id \in DOMAIN stats[bucketOf(c)]
  /\ cpu[c].pc = "stats_insert" => id \notin DOMAIN stats[bucketOf(c)]

(* What is recorded for a tick: its bucket, or the copy of the bucket once *)
(* that has been taken.                                                    *)
Content(t) ==
  IF t = oldestTick /\ tpc \in {"cleanup", "account", "send", "advance", "panicked"}
  THEN statsValuesAtKey ELSE stats[t % STATS_SECONDS_COUNT]

Recorded(t, ck) == IF ck \in DOMAIN Content(t) THEN Content(t)[ck] ELSE NoStats

(* The run has read the clock for a call and has not recorded it yet.      *)
InHand(c, t, ck) ==
  /\ cpu[c].pc \in {"stats_find", "stats_add", "stats_insert"}
  /\ cpu[c].clock = t /\ elem[cpu[c].conn].id = ck

(* The calls of a ConnKey at a tick are the recorded ones and the one in   *)
(* hand, unless the bucket has been filled by others.                      *)
Balanced(c, t, ck) ==
  \/ CallsAt(t, ck) = IF InHand(c, t, ck) THEN AddOne(Recorded(t, ck), cpu[c].success)
                                          ELSE Recorded(t, ck)
  \/ ck \notin DOMAIN Content(t) /\ ~(Cardinality(DOMAIN Content(t)) < MAX_SERVER_COUNT)

LedgerInv(c) ==
  /\ \A t \in Int : \A ck \in ConnKey :
       <<t, ck>> \in DOMAIN ledger => oldestTick <= t /\ t <= ticker_clock
  /\ \A t \in oldestTick .. currentTickerClock : \A ck \in ConnKey : Balanced(c, t, ck)

(* The only ways into the part of add_connection_to_stats that holds a     *)
(* clock value.                                                            *)
LEMMA StatsLabels ==
  ASSUME TypeInv, NEW c \in CPUs, CpuStep(c) \/ Deliver(c), ~StatsClock(c), ~StatsFind(c)
  PROVE  cpu'[c].pc \notin {"stats_find", "stats_add", "stats_insert"}
<1> DEFINE Outside(label) == label \notin {"stats_find", "stats_add", "stats_insert"}
<1>0. cpu \in [CPUs -> Run] /\ RunOK(cpu[c], DOMAIN elem)
  BY DEF TypeInv, TypeOK, CaptureTypeOK
<1>1. ASSUME NEW label, Goto(c, label), Outside(label)
      PROVE  Outside(cpu'[c].pc)
  BY <1>0, <1>1, EndOfRunType DEF Goto, Run
<1>2. ASSUME NEW p, NEW left, Start(c, p, left)
      PROVE  Outside(cpu'[c].pc)
  BY <1>0, <1>2 DEF Start, IdleRun
<1>3. /\ Outside(FromSynAck(cpu[c].pkt)) /\ Outside(FromPsh(cpu[c].pkt))
      /\ Outside(FromRst(cpu[c].pkt))
  BY DEF FromSynAck, FromPsh, FromRst, FromFin
<1>4. CASE Deliver(c)
  <2>1. PICK p \in Packets : Ignore(c, p) \/ Receive(c, p)
    BY <1>4 DEF Deliver
  <2> QED
    BY <1>2, <2>1 DEF Ignore, Receive, NoFrame
<1>5. CASE NextSocket(c)
  BY <1>2, <1>5 DEF NextSocket
<1>6. CASE NewConnection(c) \/ StatsAdd(c) \/ StatsInsert(c)
  BY <1>0, <1>6 DEF NewConnection, StatsAdd, StatsInsert, Run
<1>7. CASE Lookup(c)
  BY <1>0, <1>3, <1>7, EndOfRunType DEF Lookup, Run
<1>8. CASE Rst(c) \/ Fin(c)
  BY <1>0, <1>8 DEF Rst, Fin, Call, Run
<1>9. CASE SynAck(c) \/ Bytes(c)
  BY <1>1, <1>3, <1>9 DEF SynAck, Bytes
<1>10. CASE Psh(c)
  BY <1>0, <1>1, <1>10 DEF Psh, Call, Run
<1>11. CASE StatsDelete(c)
  BY <1>0, <1>1, <1>11 DEF StatsDelete, RunOK
<1> QED
  BY <1>4, <1>5, <1>6, <1>7, <1>8, <1>9, <1>10, <1>11 DEF CpuStep

(* A run that is alone finds its bucket as it left it.                     *)
LEMMA EntryStep ==
  ASSUME TypeInv, ClockInv, NEW c \in CPUs, CPUs = {c}, EntryInv(c), [Next]_vars
  PROVE  EntryInv(c)'
<1>0. /\ cpu \in [CPUs -> Run] /\ RunOK(cpu[c], DOMAIN elem)
      /\ stats = [b \in Buckets |-> stats[b]]
  BY DEF TypeInv, TypeOK, CaptureTypeOK, MapsTypeOK
<1>b. bucketOf(c) \in Buckets /\ statsKey \in Buckets
  BY <1>0, StatsSecondsAssumption
     DEF bucketOf, statsKey, Run, Buckets, TypeInv, TypeOK, TrackTypeOK
<1>1. CASE StatsFind(c)
  BY <1>0, <1>1 DEF StatsFind, EntryInv, bucketOf, mapVars, Run
<1>2. CASE cpu'[c].pc \notin {"stats_add", "stats_insert"}
  BY <1>2 DEF EntryInv
<1>3. CASE (CpuStep(c) \/ Deliver(c)) /\ ~StatsFind(c)
  BY <1>0, <1>2, <1>3, StatsLabels DEF StatsClock, Run
<1>5. ASSUME UNCHANGED <<cpu, elem>>, \A b \in Buckets : b # statsKey => stats'[b] = stats[b]
      PROVE  EntryInv(c)'
  <2>1. cpu[c].pc \in {"stats_add", "stats_insert"} => stats'[bucketOf(c)] = stats[bucketOf(c)]
    BY <1>5, <1>b, WritersElsewhere DEF HoldsClock
  <2> QED
    BY <1>5, <2>1 DEF EntryInv, bucketOf
<1>6. CASE TrackAction
  <2>1. ASSUME NEW k \in todo, DeleteStats(k)
        PROVE  UNCHANGED elem /\ \A b \in Buckets : b # statsKey => stats'[b] = stats[b]
    BY <1>0, <2>1 DEF DeleteStats
  <2>2. UNCHANGED elem /\ \A b \in Buckets : b # statsKey => stats'[b] = stats[b]
    BY <1>6, <2>1
       DEF TrackAction, TrackStep, Tick, ScanConnection, PurgeConnection, CollectStats, Account,
           ScanError, ScanEnd, StatsLookup, StatsLookupError, CollectEnd, CleanupEnd, mapVars
  <2> QED
    BY <1>5, <1>6, <2>2 DEF TrackAction, captureVars
<1>7. CASE Restart
  BY <1>2, <1>7 DEF Restart, IdleRun
<1>8. CASE SecondAction \/ SendInc \/ ApplyAction \/ ExpireAction \/ AdvanceAction \/ UNCHANGED vars
  BY <1>5, <1>8 DEF SecondAction, Second, SendInc, Send, ApplyAction, ExpireAction, Expire,
       AdvanceAction, Advance, vars, mapVars, captureVars
<1> QED
  BY <1>1, <1>3, <1>6, <1>7, <1>8 DEF Next, Rest, CaptureAction, DeliverAction

(* The ticks that are kept are in different buckets, the oldest one in the *)
(* bucket that is drained.                                                 *)
LEMMA TicksApart ==
  ASSUME TypeInv, NEW t \in oldestTick .. currentTickerClock,
         NEW u \in oldestTick .. currentTickerClock, t # u
  PROVE  t % STATS_SECONDS_COUNT # u % STATS_SECONDS_COUNT
<1> DEFINE n == STATS_SECONDS_COUNT
<1>1. /\ n \in Nat \ {0} /\ currentTickerClock \in Nat
      /\ t \in Int /\ u \in Int /\ t - u < n /\ u - t < n /\ (t < u \/ u < t)
  BY StatsSecondsAssumption DEF oldestTick, TypeInv, TypeOK, TrackTypeOK
<1> HIDE DEF n
<1> t \in Int /\ u \in Int
  BY <1>1
<1>2. t % n # u % n
  BY <1>1, ResiduesDiffer
<1> QED
  BY <1>2 DEF n

LEMMA OldestBucket ==
  ASSUME TypeInv
  PROVE  /\ oldestTick % STATS_SECONDS_COUNT = statsKey /\ statsKey \in Buckets
         /\ oldestTick \in Int /\ currentTickerClock \in Int
         /\ oldestTick \in oldestTick .. currentTickerClock
         /\ \A t \in Int : t % STATS_SECONDS_COUNT \in Buckets
<1> DEFINE n == STATS_SECONDS_COUNT
           a == currentTickerClock + 1
<1>1. n \in Nat \ {0} /\ currentTickerClock \in Nat
  BY StatsSecondsAssumption DEF TypeInv, TypeOK, TrackTypeOK
<1> a \in Int
  BY <1>1
<1>2. /\ a % n \in 0 .. n - 1 /\ \A t \in Int : t % n \in 0 .. n - 1
      /\ a - n \in a - n .. currentTickerClock
  BY <1>1
<1> HIDE DEF n, a
<1>3. (a - n) % n = a % n
  BY <1>1, ResiduesAgree
<1> QED
  BY <1>1, <1>2, <1>3 DEF n, a, oldestTick, statsKey, Buckets

(* What a step does to the ledger, when there is one CPU.                  *)
LEMMA LedgerAfter ==
  ASSUME NEW c \in CPUs, CPUs = {c}, AuditStep
  PROVE  LET id == elem[cpu[c].conn].id
             clocks == cpu[c].pc = "stats_clock" /\ cpu'[c].pc = "stats_find" IN
         ledger' = IF clocks
                   THEN MapPut(ledger, <<ticker_clock, id>>,
                               AddOne(CallsAt(ticker_clock, id), cpu[c].success))
                   ELSE IF currentTickerClock' # currentTickerClock
                   THEN MapRestrict(ledger, {e \in DOMAIN ledger : e[1] # oldestTick})
                   ELSE ledger
<1> DEFINE clocks == cpu[c].pc = "stats_clock" /\ cpu'[c].pc = "stats_find"
<1>1. CASE clocks
  <2>1. Clocking = {c}
    BY <1>1 DEF Clocking, Moving
  <2>2. Caller = c
    BY <2>1 DEF Caller
  <2> QED
    BY <1>1, <2>1, <2>2 DEF AuditStep
<1>2. CASE ~clocks
  <2>1. Clocking = {}
    BY <1>2 DEF Clocking, Moving
  <2> QED
    BY <1>2, <2>1 DEF AuditStep
<1> QED
  BY <1>1, <1>2

(* A step that leaves the ledger, what is recorded and the call in hand as *)
(* they are leaves the balance as it is.                                   *)
LEMMA LedgerSame ==
  ASSUME TypeInv, NEW c, LedgerInv(c),
         UNCHANGED <<ledger, currentTickerClock, ticker_clock>>,
         \A t \in oldestTick .. currentTickerClock : Content(t)' = Content(t),
         \A t \in oldestTick .. currentTickerClock, ck \in ConnKey :
           InHand(c, t, ck)' <=> InHand(c, t, ck),
         cpu[c].pc \in {"stats_find", "stats_add", "stats_insert"} =>
           cpu'[c].success = cpu[c].success
  PROVE  LedgerInv(c)'
<1>1. UNCHANGED oldestTick
  BY DEF oldestTick
<1>2. ASSUME NEW t \in oldestTick .. currentTickerClock, NEW ck \in ConnKey
      PROVE  Balanced(c, t, ck)'
  <2>1. /\ Content(t)' = Content(t) /\ Recorded(t, ck)' = Recorded(t, ck)
        /\ CallsAt(t, ck)' = CallsAt(t, ck)
    BY DEF Recorded, CallsAt
  <2>2. /\ InHand(c, t, ck)' <=> InHand(c, t, ck)
        /\ InHand(c, t, ck) => cpu'[c].success = cpu[c].success
    BY DEF InHand
  <2>3. Balanced(c, t, ck)
    BY DEF LedgerInv
  <2> QED
    BY <2>1, <2>2, <2>3 DEF Balanced
<1> QED
  BY <1>1, <1>2 DEF LedgerInv

(* The steps of the goroutines do not touch the run.                       *)
LEMMA InHandKept ==
  ASSUME NEW c, NEW t, NEW ck, UNCHANGED <<cpu, elem>>
  PROVE  InHand(c, t, ck)' <=> InHand(c, t, ck)
BY DEF InHand

(* The steps of the filter: the clock is read for a call, ...              *)
LEMMA LedgerClock ==
  ASSUME TypeInv, ClockInv, NEW c \in CPUs, CPUs = {c}, LedgerInv(c),
         StatsClock(c), UNCHANGED trackVars, AuditStep
  PROVE  LedgerInv(c)'
<1> DEFINE id == elem[cpu[c].conn].id
<1>0. cpu \in [CPUs -> Run] /\ ticker_clock \in Int /\ ticker_clock <= currentTickerClock
  BY DEF TypeInv, TypeOK, CaptureTypeOK, MapsTypeOK, ClockInv
<1>o. oldestTick \in Int /\ oldestTick <= ticker_clock
  BY StatsSecondsAssumption, BoundsAssumption, SeparationAssumption
     DEF oldestTick, ClockInv, TypeInv, TypeOK, MapsTypeOK, TrackTypeOK
<1>1. /\ cpu[c].pc = "stats_clock" /\ cpu'[c].pc = "stats_find"
      /\ cpu'[c].clock = ticker_clock /\ cpu'[c].conn = cpu[c].conn
      /\ cpu'[c].success = cpu[c].success /\ UNCHANGED mapVars
  BY <1>0 DEF StatsClock, Run
<1>2. ledger' = MapPut(ledger, <<ticker_clock, id>>,
                       AddOne(CallsAt(ticker_clock, id), cpu[c].success))
  BY <1>1, LedgerAfter
<1>3. UNCHANGED <<currentTickerClock, ticker_clock, oldestTick, tpc, statsValuesAtKey, stats, elem>>
  BY <1>1 DEF trackVars, loopVars, mapVars, oldestTick
<1>4. ASSUME NEW t \in Int, NEW ck \in ConnKey, <<t, ck>> \in DOMAIN ledger'
      PROVE  oldestTick <= t /\ t <= ticker_clock
  <2>1. <<t, ck>> \in DOMAIN ledger \/ t = ticker_clock
    BY <1>2, <1>4 DEF MapPut
  <2> QED
    BY <1>0, <1>o, <2>1 DEF LedgerInv
<1>5. ASSUME NEW t \in oldestTick .. currentTickerClock, NEW ck \in ConnKey
      PROVE  Balanced(c, t, ck)'
  <2>1. Content(t)' = Content(t) /\ Recorded(t, ck)' = Recorded(t, ck)
    BY <1>3 DEF Content, Recorded
  <2>2. ~InHand(c, t, ck) /\ (InHand(c, t, ck)' <=> t = ticker_clock /\ ck = id)
    BY <1>1, <1>3 DEF InHand
  <2>3. Balanced(c, t, ck)
    BY DEF LedgerInv
  <2>4. CASE t = ticker_clock /\ ck = id
    <3>1. CallsAt(t, ck)' = AddOne(CallsAt(t, ck), cpu[c].success)
      BY <1>2, <2>4 DEF CallsAt, MapPut
    <3> QED
      BY <1>1, <2>1, <2>2, <2>3, <2>4, <3>1 DEF Balanced
  <2>5. CASE ~(t = ticker_clock /\ ck = id)
    <3>1. CallsAt(t, ck)' = CallsAt(t, ck)
      BY <1>2, <2>5 DEF CallsAt, MapPut
    <3> QED
      BY <2>1, <2>2, <2>3, <2>5, <3>1 DEF Balanced
  <2> QED
    BY <2>4, <2>5
<1> QED
  BY <1>3, <1>4, <1>5 DEF LedgerInv

(* ... the call is recorded, ...                                           *)
LEMMA LedgerWrite ==
  ASSUME TypeInv, ClockInv, NEW c \in CPUs, CPUs = {c}, EntryInv(c), LedgerInv(c),
         StatsAdd(c) \/ StatsInsert(c), UNCHANGED trackVars, AuditStep
  PROVE  LedgerInv(c)'
<1> DEFINE id == elem[cpu[c].conn].id
           u == cpu[c].clock
           b == bucketOf(c)
           m == BucketUpdate(stats[b], id, AddOne(Recorded(u, id), cpu[c].success))
<1>0. /\ cpu \in [CPUs -> Run] /\ stats = [x \in Buckets |-> stats[x]]
      /\ \A x \in Buckets : IsMap(stats[x], ConnKey, sni_stats_t)
  BY DEF TypeInv, TypeOK, CaptureTypeOK, MapsTypeOK
<1>1. /\ cpu[c].pc \in {"stats_add", "stats_insert"} /\ cpu'[c].pc = "stats_delete"
      /\ UNCHANGED <<connections, elem, ticker_clock>>
  BY <1>0 DEF StatsAdd, StatsInsert, Run
<1>2. UNCHANGED <<currentTickerClock, ticker_clock, oldestTick, tpc, statsValuesAtKey, elem>>
  BY <1>1 DEF trackVars, loopVars, oldestTick
<1>3. ledger' = ledger
  BY <1>1, <1>2, LedgerAfter
<1>4. u \in Nat /\ u \in oldestTick .. currentTickerClock /\ u # oldestTick
  <2>1. /\ u \in Nat /\ u <= ticker_clock /\ ticker_clock <= currentTickerClock
        /\ currentTickerClock - u < STATS_SECONDS_COUNT - 1
    BY <1>1, WritersElsewhere DEF HoldsClock
  <2>2. ticker_clock \in Nat /\ currentTickerClock \in Nat /\ STATS_SECONDS_COUNT \in Nat
    BY StatsSecondsAssumption DEF TypeInv, TypeOK, MapsTypeOK, TrackTypeOK
  <2> QED
    BY <2>1, <2>2 DEF oldestTick
<1>5. Content(u) = stats[b] /\ b \in Buckets /\ b = u % STATS_SECONDS_COUNT
  BY <1>4, OldestBucket DEF Content, bucketOf
<1>6. stats' = [stats EXCEPT ![b] = m]
  <2>1. CASE StatsAdd(c)
    <3>1. cpu[c].entry = id /\ id \in DOMAIN stats[b]
      BY <2>1 DEF StatsAdd, EntryInv
    <3>2. Recorded(u, id) = stats[b][id]
      BY <1>5, <3>1 DEF Recorded
    <3>3. m = [stats[b] EXCEPT ![id] = AddOne(stats[b][id], cpu[c].success)]
      BY <1>0, <1>5, <3>1, <3>2 DEF BucketUpdate, MapPut, IsMap
    <3>4. stats' = [stats EXCEPT ![b] = [stats[b] EXCEPT ![id] = AddOne(stats[b][id], cpu[c].success)]]
      BY <1>0, <1>5, <2>1, <3>1 DEF StatsAdd, IsMap
    <3> QED
      BY <3>3, <3>4
  <2>2. CASE StatsInsert(c)
    <3>1. id \notin DOMAIN stats[b]
      BY <2>2 DEF StatsInsert, EntryInv
    <3>2. Recorded(u, id) = NoStats
      BY <1>5, <3>1 DEF Recorded
    <3>3. BucketUpdate(stats[b], id, NewStats(cpu[c].success)) = m
      BY <3>2 DEF NewStats
    <3> QED
      BY <1>0, <1>5, <2>2, <3>3 DEF StatsInsert
  <2> QED
    BY <2>1, <2>2
<1>7. ASSUME NEW t, t = u
      PROVE  Content(t)' = m
  BY <1>0, <1>2, <1>4, <1>5, <1>6, <1>7 DEF Content
<1> HIDE DEF b, u
<1>8. ASSUME NEW t \in oldestTick .. currentTickerClock, NEW ck \in ConnKey
      PROVE  Balanced(c, t, ck)'
  <2>1. CallsAt(t, ck)' = CallsAt(t, ck) /\ ~InHand(c, t, ck)'
    BY <1>1, <1>3 DEF CallsAt, InHand
  <2>2. Balanced(c, t, ck)
    BY DEF LedgerInv
  <2>3. CASE t # u
    <3>1. t % STATS_SECONDS_COUNT # b
      BY <1>4, <1>5, <2>3, TicksApart
    <3>2. Content(t)' = Content(t)
      BY <1>0, <1>2, <1>6, <3>1 DEF Content
    <3>3. Recorded(t, ck)' = Recorded(t, ck) /\ ~InHand(c, t, ck)
      BY <2>3, <3>2 DEF Recorded, InHand, u
    <3> QED
      BY <2>1, <2>2, <3>2, <3>3 DEF Balanced
  <2>4. CASE t = u
    <3>1. InHand(c, t, ck) <=> ck = id
      BY <1>1, <2>4 DEF InHand, u
    <3>2. CASE id \notin DOMAIN stats[b] /\ ~(Cardinality(DOMAIN stats[b]) < MAX_SERVER_COUNT)
      <4>1. Content(t)' = Content(t) /\ Content(t) = stats[b]
        BY <1>5, <1>7, <2>4, <3>2, BucketUpdateCases
      <4>2. Recorded(t, ck)' = Recorded(t, ck)
        BY <4>1 DEF Recorded
      <4>3. CASE ck = id
        BY <3>2, <4>1, <4>3 DEF Balanced
      <4>4. CASE ck # id
        BY <2>1, <2>2, <3>1, <4>1, <4>2, <4>4 DEF Balanced
      <4> QED
        BY <4>3, <4>4
    <3>3. CASE id \in DOMAIN stats[b] \/ Cardinality(DOMAIN stats[b]) < MAX_SERVER_COUNT
      <4>1. /\ Content(t)' = MapPut(stats[b], id, AddOne(Recorded(t, id), cpu[c].success))
            /\ Content(t) = stats[b]
        BY <1>5, <1>7, <2>4, <3>3, BucketUpdateCases
      <4>2. CASE ck = id
        <5>1. Recorded(t, ck)' = AddOne(Recorded(t, ck), cpu[c].success)
          BY <4>1, <4>2 DEF Recorded, MapPut
        <5>2. CallsAt(t, ck) = AddOne(Recorded(t, ck), cpu[c].success)
          BY <2>2, <3>1, <3>3, <4>1, <4>2 DEF Balanced
        <5> QED
          BY <2>1, <5>1, <5>2 DEF Balanced
      <4>3. CASE ck # id
        <5>1. /\ Recorded(t, ck)' = Recorded(t, ck)
              /\ ck \in DOMAIN Content(t)' <=> ck \in DOMAIN Content(t)
          BY <4>1, <4>3 DEF Recorded, MapPut
        <5>2. CASE CallsAt(t, ck) = Recorded(t, ck)
          BY <2>1, <5>1, <5>2 DEF Balanced
        <5>3. CASE ck \notin DOMAIN stats[b] /\ ~(Cardinality(DOMAIN stats[b]) < MAX_SERVER_COUNT)
          <6>1. DOMAIN Content(t)' = DOMAIN Content(t)
            BY <3>3, <4>1, <5>3 DEF MapPut
          <6> QED
            BY <4>1, <5>3, <6>1 DEF Balanced
        <5> QED
          BY <2>2, <3>1, <4>1, <4>3, <5>2, <5>3 DEF Balanced
      <4> QED
        BY <4>2, <4>3
    <3> QED
      BY <3>2, <3>3
  <2> QED
    BY <2>3, <2>4
<1> QED
  BY <1>2, <1>3, <1>8 DEF LedgerInv

(* ... and nothing else concerns the ledger.                               *)
LEMMA LedgerCapture ==
  ASSUME TypeInv, ClockInv, NEW c \in CPUs, CPUs = {c}, EntryInv(c), LedgerInv(c),
         CpuStep(c) \/ Deliver(c), UNCHANGED trackVars, AuditStep
  PROVE  LedgerInv(c)'
<1>0. cpu \in [CPUs -> Run] /\ stats = [x \in Buckets |-> stats[x]]
  BY DEF TypeInv, TypeOK, CaptureTypeOK, MapsTypeOK
<1>1. CASE StatsClock(c)
  BY <1>1, LedgerClock
<1>2. CASE StatsAdd(c) \/ StatsInsert(c)
  BY <1>2, LedgerWrite
<1>3. CASE ~StatsClock(c) /\ ~StatsAdd(c) /\ ~StatsInsert(c)
  <2>1. UNCHANGED <<stats, ticker_clock>>
    BY <1>3 DEF CpuStep, Deliver, Ignore, Receive, NextSocket, Start, NewConnection, Lookup,
         SynAck, Psh, Bytes, Rst, Fin, StatsFind, StatsDelete, mapVars
  <2>2. UNCHANGED <<currentTickerClock, oldestTick, tpc, statsValuesAtKey>>
    BY DEF trackVars, loopVars, oldestTick
  <2>3. \A t \in oldestTick .. currentTickerClock : Content(t)' = Content(t)
    BY <2>1, <2>2 DEF Content
  <2>4. CASE StatsFind(c)
    <3>1. /\ cpu[c].pc = "stats_find" /\ cpu'[c].pc \in {"stats_add", "stats_insert"}
          /\ cpu'[c].clock = cpu[c].clock /\ cpu'[c].conn = cpu[c].conn
          /\ cpu'[c].success = cpu[c].success /\ elem' = elem
      BY <1>0, <2>4 DEF StatsFind, mapVars, Run
    <3>2. ledger' = ledger
      BY <2>2, <3>1, LedgerAfter
    <3>3. \A t \in oldestTick .. currentTickerClock, ck \in ConnKey :
            InHand(c, t, ck)' <=> InHand(c, t, ck)
      BY <3>1 DEF InHand
    <3> QED
      BY <2>1, <2>2, <2>3, <3>1, <3>2, <3>3, LedgerSame
  <2>5. CASE ~StatsFind(c)
    <3>1. cpu'[c].pc \notin {"stats_find", "stats_add", "stats_insert"}
      BY <1>3, <2>5, StatsLabels
    <3>2. cpu[c].pc \notin {"stats_find", "stats_add", "stats_insert"}
      BY <1>3, <2>5 DEF CpuStep, Deliver, Ignore, Receive, NoFrame, NextSocket, NewConnection,
           Lookup, SynAck, Psh, Bytes, Rst, Fin, StatsDelete
    <3>3. ledger' = ledger
      BY <2>2, <3>1, LedgerAfter
    <3>4. \A t \in oldestTick .. currentTickerClock, ck \in ConnKey :
            InHand(c, t, ck)' <=> InHand(c, t, ck)
      BY <3>1, <3>2 DEF InHand
    <3> QED
      BY <2>1, <2>2, <2>3, <3>2, <3>3, <3>4, LedgerSame
  <2> QED
    BY <2>4, <2>5
<1> QED
  BY <1>1, <1>2, <1>3

(* The steps of the goroutines before the clock advances: the copy takes   *)
(* the place of the bucket when it is complete.                            *)
LEMMA LedgerTrack ==
  ASSUME TypeInv, DrainInv, CopyInv, ~iterErr, ~iterErr',
         NEW c \in CPUs, CPUs = {c}, LedgerInv(c), AuditStep,
         SecondAction \/ TrackAction \/ SendInc \/ ApplyAction \/ ExpireAction
  PROVE  LedgerInv(c)'
<1> DEFINE Late == {"cleanup", "account", "send", "advance", "panicked"}
<1>0. /\ stats = [x \in Buckets |-> stats[x]]
      /\ IsMap(stats[statsKey], ConnKey, sni_stats_t)
      /\ IsMap(statsValuesAtKey, ConnKey, sni_stats_t)
  BY OldestBucket DEF TypeInv, TypeOK, MapsTypeOK, TrackTypeOK
<1>1. UNCHANGED <<cpu, elem, ticker_clock, currentTickerClock>>
  <2>1. CASE TrackAction
    BY <2>1 DEF TrackAction, TrackStep, Tick, ScanConnection, PurgeConnection, CollectStats,
         DeleteStats, Account, ScanError, ScanEnd, StatsLookup, StatsLookupError, CollectEnd,
         CleanupEnd, mapVars, captureVars
  <2>2. CASE SecondAction \/ SendInc \/ ApplyAction \/ ExpireAction
    BY <2>2 DEF SecondAction, Second, SendInc, Send, ApplyAction, ExpireAction, Expire,
         mapVars, captureVars, trackVars
  <2> QED
    BY <2>1, <2>2
<1>2. UNCHANGED oldestTick /\ ledger' = ledger
  <2>1. ~(cpu[c].pc = "stats_clock" /\ cpu'[c].pc = "stats_find")
    BY <1>1
  <2> QED
    BY <1>1, <2>1, LedgerAfter DEF oldestTick
<1>3. SUFFICES ASSUME NEW t \in oldestTick .. currentTickerClock
               PROVE  Content(t)' = Content(t)
  BY <1>1, <1>2, LedgerSame, InHandKept
<1>4. CASE UNCHANGED stats /\ tpc \notin Late /\ tpc' \notin Late
  BY <1>2, <1>4 DEF Content
<1>5. CASE UNCHANGED <<stats, statsValuesAtKey>> /\ tpc \in Late /\ tpc' \in Late
  BY <1>2, <1>5 DEF Content
<1>6. CASE UNCHANGED <<stats, statsValuesAtKey, tpc>>
  BY <1>2, <1>6 DEF Content
<1>7. ASSUME NEW k \in todo, DeleteStats(k)
      PROVE  Content(t)' = Content(t)
  <2>1. /\ UNCHANGED <<statsValuesAtKey, tpc>> /\ tpc = "cleanup"
        /\ \A b \in Buckets : b # statsKey => stats'[b] = stats[b]
    BY <1>0, <1>7 DEF DeleteStats
  <2>2. CASE t = oldestTick
    BY <1>2, <2>1, <2>2 DEF Content
  <2>3. CASE t # oldestTick
    <3>1. t % STATS_SECONDS_COUNT \in Buckets /\ t % STATS_SECONDS_COUNT # statsKey
      BY <2>3, OldestBucket, TicksApart
    <3> QED
      BY <1>2, <2>1, <2>3, <3>1 DEF Content
  <2> QED
    BY <2>2, <2>3
<1>8. CASE CollectEnd
  <2>1. /\ UNCHANGED <<stats, statsValuesAtKey>> /\ tpc = "stats" /\ tpc' = "cleanup" /\ todo = {}
    BY <1>8 DEF CollectEnd, mapVars
  <2>2. statsValuesAtKey = stats[statsKey]
    <3>1. DOMAIN statsValuesAtKey = DOMAIN stats[statsKey]
      BY <2>1 DEF DrainInv, CopyInv
    <3>2. \A k \in DOMAIN statsValuesAtKey : statsValuesAtKey[k] = stats[statsKey][k]
      BY <2>1 DEF CopyInv
    <3> QED
      BY <1>0, <3>1, <3>2 DEF IsMap
  <2> QED
    BY <1>2, <2>1, <2>2, OldestBucket DEF Content
<1>9. CASE CleanupEnd
  BY <1>5, <1>9 DEF CleanupEnd, mapVars, loopVars
<1>10. CASE TrackAction
  BY <1>4, <1>5, <1>7, <1>8, <1>9, <1>10
     DEF TrackAction, TrackStep, Tick, ScanConnection, PurgeConnection, CollectStats, Account,
         ScanError, ScanEnd, StatsLookup, StatsLookupError, EndOfBody, mapVars
<1>11. CASE SecondAction \/ ApplyAction
  BY <1>6, <1>11 DEF SecondAction, Second, ApplyAction, mapVars, trackVars, loopVars
<1>12. CASE SendInc \/ ExpireAction
  BY <1>5, <1>12 DEF SendInc, Send, ExpireAction, Expire, mapVars, loopVars
<1> QED
  BY <1>10, <1>11, <1>12

(* The clock advances: the oldest tick is forgotten, and the bucket that   *)
(* has been drained is that of the new tick.                               *)
LEMMA LedgerAdvance ==
  ASSUME TypeInv, ClockInv, DrainInv, NEW c \in CPUs, CPUs = {c}, LedgerInv(c),
         AdvanceAction, AuditStep
  PROVE  LedgerInv(c)'
<1> DEFINE T == currentTickerClock
<1>0. T \in Nat /\ ticker_clock \in Nat /\ ticker_clock <= T /\ oldestTick \in Int
  BY OldestBucket DEF TypeInv, TypeOK, MapsTypeOK, TrackTypeOK, ClockInv
<1>1. /\ UNCHANGED <<cpu, elem, stats>> /\ T' = T + 1 /\ tpc = "advance" /\ tpc' = "idle"
      /\ ticker_clock' \in {ticker_clock, T + 1}
  BY DEF AdvanceAction, Advance, EndOfBody, captureVars
<1>2. oldestTick' = oldestTick + 1
  BY <1>0, <1>1, StatsSecondsAssumption DEF oldestTick
<1>3. ledger' = MapRestrict(ledger, {e \in DOMAIN ledger : e[1] # oldestTick})
  BY <1>0, <1>1, LedgerAfter
<1>4. ASSUME NEW t \in Int, NEW ck \in ConnKey, <<t, ck>> \in DOMAIN ledger'
      PROVE  oldestTick' <= t /\ t <= ticker_clock'
  <2>1. <<t, ck>> \in DOMAIN ledger /\ t # oldestTick
    BY <1>3, <1>4 DEF MapRestrict
  <2>2. oldestTick <= t /\ t <= ticker_clock
    BY <2>1 DEF LedgerInv
  <2> QED
    BY <1>0, <1>1, <1>2, <2>1, <2>2
<1>5. ASSUME NEW t \in (oldestTick .. T)', NEW ck \in ConnKey
      PROVE  Balanced(c, t, ck)'
  <2>1. Content(t)' = stats[t % STATS_SECONDS_COUNT]
    BY <1>1 DEF Content
  <2>2. InHand(c, t, ck)' <=> InHand(c, t, ck)
    BY <1>1, InHandKept
  <2>3. CASE t \in oldestTick .. T /\ t # oldestTick
    <3>1. Content(t)' = Content(t) /\ Recorded(t, ck)' = Recorded(t, ck)
      BY <2>1, <2>3 DEF Content, Recorded
    <3>2. CallsAt(t, ck)' = CallsAt(t, ck)
      BY <1>3, <2>3 DEF CallsAt, MapRestrict
    <3>3. Balanced(c, t, ck)
      BY <2>3 DEF LedgerInv
    <3> QED
      BY <1>1, <2>2, <3>1, <3>2, <3>3 DEF Balanced
  <2>4. CASE t = T + 1
    <3>1. Content(t)' = stats[statsKey] /\ DOMAIN stats[statsKey] = {}
      BY <1>1, <2>1, <2>4 DEF statsKey, DrainInv
    <3>2. Recorded(t, ck)' = NoStats
      BY <3>1 DEF Recorded
    <3>3. <<t, ck>> \notin DOMAIN ledger'
      <4>1. t \in Int /\ ~(t <= ticker_clock)
        BY <1>0, <2>4
      <4> QED
        BY <1>3, <4>1 DEF LedgerInv, MapRestrict
    <3>4. ~InHand(c, t, ck)
      <4> SUFFICES ASSUME InHand(c, t, ck) PROVE FALSE
        OBVIOUS
      <4>1. cpu[c].clock \in Nat /\ cpu[c].clock <= ticker_clock
        BY WritersElsewhere DEF InHand, HoldsClock
      <4> QED
        BY <1>0, <2>4, <4>1 DEF InHand
    <3> QED
      BY <2>2, <3>2, <3>3, <3>4 DEF Balanced, CallsAt
  <2> QED
    BY <1>0, <1>1, <1>2, <2>3, <2>4
<1> QED
  BY <1>4, <1>5 DEF LedgerInv

(* The inductive invariant behind SecondsExact.                            *)
ExactInv(c) == CopyInv /\ EntryInv(c) /\ LedgerInv(c)

(* It holds at the start, and after a restart.                             *)
LEMMA ExactStart ==
  ASSUME NEW c \in CPUs, Init, ledger = EmptyMap
  PROVE  ExactInv(c)
<1>1. /\ tpc = "idle" /\ ~iterErr /\ statsValuesAtKey = EmptyMap
      /\ cpu[c].pc = "idle" /\ stats = [b \in Buckets |-> EmptyMap]
      /\ currentTickerClock = 0
  BY DEF Init, TrackInit, CaptureInit, MapsInit, IdleRun
<1>2. CopyInv /\ EntryInv(c)
  BY <1>1 DEF CopyInv, EntryInv
<1>3. ASSUME NEW t \in oldestTick .. currentTickerClock, NEW ck \in ConnKey
      PROVE  Balanced(c, t, ck)
  <2>1. t % STATS_SECONDS_COUNT \in Buckets
    BY <1>1, StatsSecondsAssumption DEF Buckets
  <2>2. DOMAIN Content(t) = {} /\ ~InHand(c, t, ck)
    BY <1>1, <2>1, EmptyMapType DEF Content, InHand
  <2> QED
    BY <2>2, EmptyMapType DEF Balanced, Recorded, CallsAt
<1>4. LedgerInv(c)
  BY <1>3, EmptyMapType DEF LedgerInv
<1> QED
  BY <1>2, <1>4 DEF ExactInv

(* Every step preserves it.                                                *)
LEMMA ExactStep ==
  ASSUME TypeInv, ClockInv, DrainInv, NEW c \in CPUs, CPUs = {c}, ~iterErr, ~iterErr',
         ExactInv(c), [AuditNext]_<<vars, auditVars>>
  PROVE  ExactInv(c)'
<1>1. CASE UNCHANGED <<vars, auditVars>>
  <2>1. /\ UNCHANGED <<ledger, currentTickerClock, ticker_clock, cpu, elem, tpc, stats,
                       statsValuesAtKey, iterErr, inc>>
    BY <1>1 DEF vars, auditVars, mapVars, captureVars, trackVars, loopVars
  <2>2. \A t \in oldestTick .. currentTickerClock : Content(t)' = Content(t)
    BY <2>1 DEF Content, oldestTick
  <2>3. LedgerInv(c)'
    BY <2>1, <2>2, LedgerSame, InHandKept DEF ExactInv
  <2>4. CopyInv' /\ EntryInv(c)'
    BY <1>1, CopyStep, EntryStep DEF ExactInv
  <2> QED
    BY <2>3, <2>4 DEF ExactInv
<1>2. CASE AuditNext /\ ~Alive
  <2>1. Restart /\ ledger' = EmptyMap
    BY <1>2, PanickedRestarts DEF AuditNext, AuditReset
  <2>2. Init'
    BY <2>1, RestartInit
  <2>3. (Init /\ ledger = EmptyMap => ExactInv(c))'
    BY ExactStart, PTL
  <2> QED
    BY <2>1, <2>2, <2>3
<1>3. CASE AuditNext /\ Alive
  <2>1. Next /\ AuditStep
    BY <1>3 DEF AuditNext
  <2>2. CopyInv' /\ EntryInv(c)'
    BY <2>1, CopyStep, EntryStep DEF ExactInv
  <2>3. LedgerInv(c)'
    <3>1. CASE CaptureAction(c) \/ DeliverAction(c)
      BY <2>1, <3>1, LedgerCapture DEF ExactInv, CaptureAction, DeliverAction
    <3>2. CASE SecondAction \/ TrackAction \/ SendInc \/ ApplyAction \/ ExpireAction
      BY <2>1, <3>2, LedgerTrack DEF ExactInv
    <3>3. CASE AdvanceAction
      BY <2>1, <3>3, LedgerAdvance DEF ExactInv
    <3>4. CASE UNCHANGED vars
      <4>1. UNCHANGED <<currentTickerClock, ticker_clock, cpu, elem, tpc, stats, statsValuesAtKey>>
        BY <3>4 DEF vars, mapVars, captureVars, trackVars, loopVars
      <4>2. ledger' = ledger
        <5>1. ~(cpu[c].pc = "stats_clock" /\ cpu'[c].pc = "stats_find")
          BY <4>1
        <5> QED
          BY <2>1, <4>1, <5>1, LedgerAfter
      <4>3. \A t \in oldestTick .. currentTickerClock : Content(t)' = Content(t)
        BY <4>1 DEF Content, oldestTick
      <4> QED
        BY <4>1, <4>2, <4>3, LedgerSame, InHandKept DEF ExactInv
    <3> QED
      BY <1>3, <2>1, <3>1, <3>2, <3>3, <3>4 DEF Next, Rest, Restart
  <2> QED
    BY <2>2, <2>3 DEF ExactInv
<1> QED
  BY <1>1, <1>2, <1>3

(* It says that the annotation is exact.                                   *)
LEMMA ExactImplies ==
  ASSUME TypeInv, ClockInv, NEW c \in CPUs, ExactInv(c)
  PROVE  SecondsExact
<1>1. ASSUME tpc \in {"account", "send"}, NEW ck \in ConnKey
      PROVE  \/ CallsAt(oldestTick, ck) = IF ck \in DOMAIN statsValuesAtKey
                                          THEN statsValuesAtKey[ck] ELSE NoStats
             \/ /\ ck \notin DOMAIN statsValuesAtKey
                /\ ~(Cardinality(DOMAIN statsValuesAtKey) < MAX_SERVER_COUNT)
  <2>1. Content(oldestTick) = statsValuesAtKey
    BY <1>1 DEF Content
  <2>2. ~InHand(c, oldestTick, ck)
    <3> SUFFICES ASSUME InHand(c, oldestTick, ck) PROVE FALSE
      OBVIOUS
    <3>1. cpu[c].clock \in Nat /\ currentTickerClock - cpu[c].clock < STATS_SECONDS_COUNT - 1
      BY WritersElsewhere DEF InHand, HoldsClock
    <3>2. currentTickerClock \in Nat /\ STATS_SECONDS_COUNT \in Nat
      BY StatsSecondsAssumption DEF TypeInv, TypeOK, TrackTypeOK
    <3> QED
      BY <3>1, <3>2 DEF InHand, oldestTick
  <2>3. Balanced(c, oldestTick, ck)
    BY OldestBucket DEF ExactInv, LedgerInv
  <2> QED
    BY <2>1, <2>2, <2>3 DEF Balanced, Recorded
<1>2. ASSUME tpc = "send"
      PROVE  /\ inc.successful = CallsAt(oldestTick, inc.key).succeeded_connections
             /\ inc.rejected = CallsAt(oldestTick, inc.key).failed_connections
  <2>1. inc.key \in DOMAIN statsValuesAtKey /\ inc.key \in ConnKey
    BY <1>2 DEF ExactInv, CopyInv, TypeInv, TypeOK, TrackTypeOK, Inc
  <2>2. CallsAt(oldestTick, inc.key) = statsValuesAtKey[inc.key]
    BY <1>1, <1>2, <2>1
  <2> QED
    BY <1>2, <2>1, <2>2
       DEF ExactInv, CopyInv, succeeded_connections, failed_connections
<1>3. ASSUME tpc = "account", NEW ck \in ConnKey
      PROVE  CallsAt(oldestTick, ck) = NoStats \/ ck \in sniSet
               \/ ~(Cardinality(sniSet) < MAX_SERVER_COUNT)
  <2>1. sniSet = DOMAIN statsValuesAtKey
    BY <1>3 DEF sniSet, TypeInv, NoOldConnections
  <2> QED
    BY <1>1, <1>3, <2>1
<1> QED
  BY <1>2, <1>3 DEF SecondsExact

(***************************************************************************)
(* With one CPU and a stats map that can be read, whatever else fails: the *)
(* connections that TrackConnections reports for a ConnKey at a tick are   *)
(* exactly the calls of add_connection_to_stats for it at the tick that    *)
(* lies STATS_SECONDS_COUNT - 1 ticks back; none is lost on the way        *)
(* through the bucket, none is reported at another tick or twice. Two CPUs *)
(* may replace each other's entry (see the run failures_kept), and an      *)
(* error while the bucket is read loses what is deleted after it.          *)
(***************************************************************************)
THEOREM AnnotationsAreExact ==
  ASSUME NEW c \in CPUs, CPUs = {c}, "stats" \notin Faults
  PROVE  AuditSpec => []SecondsExact
<1>1. AuditInit => ExactInv(c)
  BY ExactStart DEF AuditInit
<1>2. TypeInv /\ ClockInv /\ DrainInv /\ ~iterErr /\ ~iterErr' /\ ExactInv(c)
        /\ [AuditNext]_<<vars, auditVars>> => ExactInv(c)'
  BY ExactStep
<1>3. TypeInv /\ ClockInv /\ ExactInv(c) => SecondsExact
  BY ExactImplies
<1> QED
  BY <1>1, <1>2, <1>3, AuditIsExporter, TypeInvariant, ClockInvariant, DrainInvariant,
     NoIterErr, PTL DEF AuditSpec

-----------------------------------------------------------------------------
(* The ConnKey a connection is counted under.                              *)

(* What a step does to the calls, when there is one CPU.                   *)
LEMMA CallsAfter ==
  ASSUME NEW c \in CPUs, CPUs = {c}, AuditStep
  PROVE  DOMAIN calls' = IF cpu[c].pc = "stats_clock" /\ cpu'[c].pc = "stats_find"
                         THEN DOMAIN calls \cup {elem[cpu[c].conn].id} ELSE DOMAIN calls
<1>1. CASE cpu[c].pc = "stats_clock" /\ cpu'[c].pc = "stats_find"
  <2>1. Clocking = {c}
    BY <1>1 DEF Clocking, Moving
  <2>2. Caller = c
    BY <2>1 DEF Caller
  <2> QED
    BY <1>1, <2>1, <2>2 DEF AuditStep, MapPut
<1>2. CASE ~(cpu[c].pc = "stats_clock" /\ cpu'[c].pc = "stats_find")
  <2>1. Clocking = {}
    BY <1>2 DEF Clocking, Moving
  <2> QED
    BY <1>2, <2>1 DEF AuditStep
<1> QED
  BY <1>1, <1>2

(***************************************************************************)
(* A name that comes after another one of the same endpoints is not left   *)
(* as a mixture of both: it is at least as long (the filter does not clear *)
(* the rest of a longer name), or there is only one.                       *)
(***************************************************************************)
NoMixtures ==
  \A p, q \in Packets :
    KeyOf(p) = KeyOf(q) /\ q.parse_sni # NoSni =>
      Overlay(p.parse_sni, q.parse_sni) = q.parse_sni

(* A ConnKey of a connection: its own addresses, and a name that was sent  *)
(* in one of its own frames, or none.                                      *)
OwnId(k, id) ==
  /\ id.sourceIP = k.source.ip /\ id.destIP = k.dest.ip
  /\ \E p \in Packets : KeyOf(p) = k /\ id.sni \in {NoSni, p.parse_sni}

NameInv(c) ==
  /\ \A k \in DOMAIN connections : OwnId(k, ElemOf(k).id)
  /\ Holding(c) => OwnId(KeyOf(cpu[c].pkt), elem[cpu[c].conn].id)

(* What a run writes to the element it holds leaves it an own ConnKey.     *)
LEMMA OwnIdKept ==
  ASSUME TypeInv, NEW c \in CPUs, NoMixtures, NameInv(c), CpuStep(c), Holding(c)
  PROVE  OwnId(KeyOf(cpu[c].pkt), elem'[cpu[c].conn].id)
<1> DEFINE s == cpu[c].conn
           k == KeyOf(cpu[c].pkt)
<1>0. /\ s \in DOMAIN elem /\ elem[s] \in tuple_data_t /\ cpu[c].pkt \in Packets
      /\ OwnId(k, elem[s].id)
  BY DEF Holding, NameInv, TypeInv, TypeOK, CaptureTypeOK, RunOK, MapsTypeOK, IsMap
<1>1. CASE elem'[s].id = elem[s].id
  BY <1>0, <1>1
<1>2. CASE SynAck(c) \/ Rst(c) \/ Fin(c)
  BY <1>0, <1>1, <1>2 DEF SynAck, Rst, Fin, tuple_data_t
<1>3. CASE Bytes(c)
  <2>1. elem'[s] = Carried(elem[s], cpu[c].pkt.len)
    BY <1>0, <1>3 DEF Bytes
  <2>2. elem'[s].id = elem[s].id
    BY <1>0, <2>1 DEF Carried, tuple_data_t
  <2> QED
    BY <1>1, <2>2
<1>4. CASE Psh(c)
  <2>1. CASE elem' = elem
    BY <1>1, <2>1
  <2>2. CASE elem' # elem
    <3> DEFINE name == cpu[c].pkt.parse_sni
    <3>1. /\ name # NoSni
          /\ elem' = [elem EXCEPT ![s].id.sni = Overlay(@, name), ![s].state = SNI_RECEIVED]
      BY <1>4, <2>2 DEF Psh
    <3>2. elem'[s].id = [elem[s].id EXCEPT !.sni = Overlay(@, name)]
      BY <1>0, <3>1 DEF tuple_data_t
    <3>3. PICK p \in Packets : KeyOf(p) = k /\ elem[s].id.sni \in {NoSni, p.parse_sni}
      BY <1>0 DEF OwnId
    <3>4. name \in Sni /\ elem[s].id \in ConnKey
      BY <1>0, PacketsAssumption DEF Packet, tuple_data_t
    <3>5. Overlay(elem[s].id.sni, name) = name
      BY <1>0, <3>1, <3>3, <3>4, SniAssumption DEF NoMixtures
    <3>6. /\ elem'[s].id.sourceIP = elem[s].id.sourceIP /\ elem'[s].id.destIP = elem[s].id.destIP
          /\ elem'[s].id.sni = name
      BY <3>2, <3>4, <3>5 DEF ConnKey
    <3> QED
      BY <1>0, <3>6 DEF OwnId
  <2> QED
    BY <2>1, <2>2
<1>5. CASE ~(SynAck(c) \/ Rst(c) \/ Fin(c) \/ Bytes(c) \/ Psh(c) \/ NewConnection(c))
  BY <1>0, <1>1, <1>5, ElementWritten
<1>6. ~NewConnection(c)
  BY DEF NewConnection, Holding
<1> QED
  BY <1>2, <1>3, <1>4, <1>5, <1>6

LEMMA NameStep ==
  ASSUME TypeInv, NEW c \in CPUs, CPUs = {c}, SlotInv(c), NoMixtures, NameInv(c), [Next]_vars
  PROVE  NameInv(c)'
<1>1. CASE CaptureAction(c) \/ DeliverAction(c)
  <2>0. CpuStep(c) \/ Deliver(c)
    BY <1>1 DEF CaptureAction, DeliverAction
  <2>1. CASE NewConnection(c)
    <3>1. ~Holding(c)' /\ cpu[c].pkt \in Packets
      BY <2>1 DEF NewConnection, Holding, TypeInv, TypeOK, CaptureTypeOK, Run, RunOK
    <3>2. \A clock : OwnId(KeyOf(cpu[c].pkt), NewTupleData(cpu[c].pkt, clock).id)
      BY <3>1 DEF OwnId, NewTupleData, IdOf
    <3>3. ASSUME NEW k \in DOMAIN connections'
          PROVE  OwnId(k, ElemOf(k)'.id)
      BY <2>1, <3>2, NewConnectionStores DEF NameInv
    <3> QED
      BY <3>1, <3>3 DEF NameInv
  <2>2. CASE ~NewConnection(c)
    <3>1. Holding(c) => CpuStep(c)
      BY <2>0 DEF Deliver, Ignore, Receive, NoFrame, Holding
    <3>2. ASSUME NEW k \in DOMAIN connections'
          PROVE  OwnId(k, ElemOf(k)'.id)
      <4>1. k \in DOMAIN connections /\ connections'[k] = connections[k]
        BY <2>0, <2>2, FirstPacketKept
      <4>2. connections[k] \in DOMAIN elem
        BY <4>1 DEF TypeInv, TypeOK, MapsTypeOK, IsMap
      <4>3. CASE elem'[connections[k]] = elem[connections[k]]
        BY <4>1, <4>3 DEF NameInv, ElemOf
      <4>4. CASE elem'[connections[k]] # elem[connections[k]]
        <5>1. connections[k] = cpu[c].conn /\ Holding(c)
          BY <2>0, <2>2, <4>2, <4>4, ElementWritten
        <5>2. k = KeyOf(cpu[c].pkt)
          BY <4>1, <5>1 DEF SlotInv
        <5> QED
          BY <3>1, <4>1, <5>1, <5>2, OwnIdKept DEF ElemOf
      <4> QED
        BY <4>3, <4>4
    <3>3. ASSUME Holding(c)'
          PROVE  OwnId(KeyOf(cpu'[c].pkt), elem'[cpu'[c].conn].id)
      <4>1. CASE Lookup(c) /\ KeyOf(cpu[c].pkt) \in DOMAIN connections
                   /\ cpu'[c].conn = connections[KeyOf(cpu[c].pkt)]
        <5>1. elem' = elem /\ cpu'[c].pkt = cpu[c].pkt
          BY <2>0, <3>3, <4>1, RunFlow DEF Lookup, mapVars
        <5> QED
          BY <4>1, <5>1 DEF NameInv, ElemOf
      <4>2. CASE Holding(c) /\ cpu'[c].conn = cpu[c].conn
        BY <2>0, <3>1, <3>3, <4>2, RunFlow, OwnIdKept
      <4> QED
        BY <2>0, <3>3, <4>1, <4>2, RunFlow
    <3> QED
      BY <3>2, <3>3 DEF NameInv
  <2> QED
    BY <2>1, <2>2
<1>2. ASSUME UNCHANGED <<elem, cpu>>,
             \A k \in DOMAIN connections' :
               k \in DOMAIN connections /\ connections'[k] = connections[k]
      PROVE  NameInv(c)'
  BY <1>2 DEF NameInv, ElemOf, Holding
<1>3. CASE UNCHANGED vars
  BY <1>2, <1>3 DEF vars, mapVars, captureVars
<1>4. CASE Next /\ ~Alive
  BY <1>4, PanickedRestarts, EmptyMapType DEF Restart, IdleRun, NameInv, Holding
<1> QED
  BY <1>1, <1>2, <1>3, <1>4, GoroutinesDelete

LEMMA AttributionStep ==
  ASSUME TypeInv, NEW c \in CPUs, CPUs = {c}, NameInv(c), Attribution,
         [AuditNext]_<<vars, auditVars>>
  PROVE  Attribution'
<1>1. CASE UNCHANGED <<vars, auditVars>>
  BY <1>1 DEF auditVars, Attribution
<1>2. CASE AuditNext /\ ~Alive
  BY <1>2, EmptyMapType DEF AuditNext, AuditReset, Attribution
<1>3. CASE AuditNext /\ Alive
  <2>1. AuditStep
    BY <1>3 DEF AuditNext
  <2>2. cpu[c].pc = "stats_clock" => OwnId(KeyOf(cpu[c].pkt), elem[cpu[c].conn].id)
    BY DEF NameInv, Holding
  <2>3. ASSUME NEW ck \in DOMAIN calls'
        PROVE  \E p \in Packets :
                 /\ KeyOf(p).source.ip = ck.sourceIP /\ KeyOf(p).dest.ip = ck.destIP
                 /\ ck.sni \in {NoSni, p.parse_sni}
    BY <2>1, <2>2, CallsAfter DEF Attribution, OwnId
  <2> QED
    BY <2>3 DEF Attribution
<1> QED
  BY <1>1, <1>2, <1>3

(***************************************************************************)
(* With one CPU, whatever fails: a connection is counted under its own     *)
(* addresses and a name sent in its own frames, also when its tuple or the *)
(* element of the full map had another connection before, provided that    *)
(* the names sent by the same endpoints do not get shorter.                *)
(***************************************************************************)
THEOREM CountedUnderOwnName ==
  ASSUME NEW c \in CPUs, CPUs = {c}, NoMixtures
  PROVE  AuditSpec => []Attribution
<1>1. AuditInit => NameInv(c) /\ Attribution
  BY EmptyMapType
     DEF AuditInit, Init, MapsInit, CaptureInit, IdleRun, NameInv, Holding, Attribution
<1>2. TypeInv /\ SlotInv(c) /\ NameInv(c) /\ [Next]_vars => NameInv(c)'
  BY NameStep
<1>3. TypeInv /\ NameInv(c) /\ Attribution /\ [AuditNext]_<<vars, auditVars>> => Attribution'
  BY AttributionStep
<1>4. [AuditNext]_<<vars, auditVars>> => [Next]_vars
  BY DEF AuditNext
<1> QED
  BY <1>1, <1>2, <1>3, <1>4, AuditIsExporter, TypeInvariant, SlotInvariant, PTL DEF AuditSpec

-----------------------------------------------------------------------------
(* When a connection is called successful.                                 *)

(* The only ways into add_connection_to_stats.                             *)
LEMMA CallFlow ==
  ASSUME TypeInv, NEW c \in CPUs, CpuStep(c) \/ Deliver(c), cpu'[c].pc = "stats_clock"
  PROVE  \/ /\ Psh(c) /\ cpu[c].pc = "psh" /\ cpu'[c].ret = "bytes" /\ elem' = elem
            /\ elem[cpu[c].conn].state = SNI_RECEIVED /\ EnoughTraffic(elem[cpu[c].conn])
         \/ Rst(c) /\ cpu[c].pc = "rst" /\ cpu'[c].ret \in {"fin", "idle"}
         \/ Fin(c) /\ cpu[c].pc = "fin" /\ cpu'[c].ret = "idle"
<1>0. /\ cpu \in [CPUs -> Run] /\ cpu[c] \in Run /\ RunOK(cpu[c], DOMAIN elem)
  BY DEF TypeInv, TypeOK, CaptureTypeOK
<1>1. ASSUME NEW label, Goto(c, label)
      PROVE  label = "stats_clock"
  BY <1>1, GotoLabel
<1>2. ASSUME NEW p, NEW left, Start(c, p, left)
      PROVE  FALSE
  BY <1>0, <1>2 DEF Start, IdleRun
<1>3. \A p : FromSynAck(p) # "stats_clock" /\ FromPsh(p) # "stats_clock"
               /\ FromRst(p) # "stats_clock" /\ FromFin(p) \in {"fin", "idle"}
  BY DEF FromSynAck, FromPsh, FromRst, FromFin
<1>4. CASE Deliver(c)
  <2>1. PICK p \in Packets : Ignore(c, p) \/ Receive(c, p)
    BY <1>4 DEF Deliver
  <2> QED
    BY <1>2, <2>1 DEF Ignore, Receive, NoFrame
<1>5. CASE NextSocket(c)
  BY <1>2, <1>5 DEF NextSocket
<1>6. CASE NewConnection(c) \/ StatsAdd(c) \/ StatsInsert(c) \/ StatsClock(c)
  BY <1>0, <1>6 DEF NewConnection, StatsAdd, StatsInsert, StatsClock, Run
<1>7. CASE StatsFind(c)
  BY <1>0, <1>7 DEF StatsFind, Run
<1>8. CASE Lookup(c)
  BY <1>0, <1>3, <1>8, EndOfRunIs DEF Lookup, Run
<1>9. CASE SynAck(c) \/ Bytes(c)
  BY <1>1, <1>3, <1>9 DEF SynAck, Bytes
<1>10. CASE StatsDelete(c)
  BY <1>0, <1>1, <1>10 DEF StatsDelete, RunOK
<1>11. CASE Psh(c)
  BY <1>0, <1>1, <1>11 DEF Psh, Call, Run
<1>12. CASE Rst(c)
  BY <1>0, <1>3, <1>12 DEF Rst, Call, Run
<1>13. CASE Fin(c)
  BY <1>0, <1>13 DEF Fin, Call, Run
<1> QED
  BY <1>4, <1>5, <1>6, <1>7, <1>8, <1>9, <1>10, <1>11, <1>12, <1>13 DEF CpuStep

(* When every frame reaches one socket, none is left.                      *)
LEMMA OneSocket ==
  ASSUME TypeInv, NEW c \in CPUs, Copies \subseteq {1}, cpu[c].left = 0,
         CpuStep(c) \/ Deliver(c)
  PROVE  cpu'[c].left = 0
<1>0. /\ cpu \in [CPUs -> Run] /\ cpu[c] \in Run /\ RunOK(cpu[c], DOMAIN elem)
  BY DEF TypeInv, TypeOK, CaptureTypeOK
<1>1. ASSUME NEW label, Goto(c, label)
      PROVE  cpu'[c].left = 0
  <2>1. CASE label = "idle"
    BY <1>0, <1>1, <2>1, GotoRun, EndOfRunIs
  <2>2. CASE label # "idle"
    BY <1>0, <1>1, <2>2, GotoRun DEF Run
  <2> QED
    BY <2>1, <2>2
<1>2. ASSUME NEW success, NEW ret, Call(c, success, ret)
      PROVE  cpu'[c].left = 0
  BY <1>0, <1>2 DEF Call, Run
<1>3. CASE Deliver(c)
  <2>1. PICK p \in Packets : Ignore(c, p) \/ Receive(c, p)
    BY <1>3 DEF Deliver
  <2>2. CASE Receive(c, p)
    <3>1. Start(c, p, 0)
      BY <2>2 DEF Receive
    <3> QED
      BY <1>0, <3>1 DEF Start, IdleRun
  <2> QED
    BY <2>1, <2>2 DEF Ignore
<1>4. CASE NewConnection(c) \/ StatsClock(c) \/ StatsAdd(c) \/ StatsInsert(c)
  BY <1>0, <1>4 DEF NewConnection, StatsClock, StatsAdd, StatsInsert, Run
<1>5. CASE Lookup(c)
  BY <1>0, <1>5, EndOfRunIs DEF Lookup, Run
<1>6. CASE StatsFind(c)
  BY <1>0, <1>6 DEF StatsFind, Run
<1>7. CASE SynAck(c) \/ Psh(c) \/ Bytes(c) \/ Rst(c) \/ Fin(c) \/ StatsDelete(c)
  BY <1>1, <1>2, <1>7 DEF SynAck, Psh, Bytes, Rst, Fin, StatsDelete
<1> QED
  BY <1>0, <1>3, <1>4, <1>5, <1>6, <1>7 DEF CpuStep, NextSocket, Run

(* The counters of an element are backed by what the wire has carried for  *)
(* its key since the SYN.                                                  *)
Backed(traffic, k, d) ==
  /\ k \in DOMAIN traffic /\ traffic[k] \in [packets : Nat, bytes : Nat]
  /\ d.num_packets <= traffic[k].packets
  /\ d.total_data_bytes <= traffic[k].bytes

TrafficInv(c) ==
  /\ cpu[c].left = 0
  /\ \A k \in DOMAIN connections : Backed(carried, k, ElemOf(k))
  /\ Holding(c) => Backed(carried, KeyOf(cpu[c].pkt), elem[cpu[c].conn])
  /\ cpu[c].pc = "stats_clock" /\ cpu[c].ret = "bytes" => EnoughTraffic(elem[cpu[c].conn])

(* What a step does to the traffic, when there is one CPU and one socket.  *)
LEMMA CarriedIs ==
  ASSUME NEW c \in CPUs, CPUs = {c}, cpu[c].left = 0, AuditStep
  PROVE  LET key == KeyOf(cpu[c].pkt) IN
         /\ Stored(c) => carried' = MapPut(carried, key, NoTraffic)
         /\ Carrying(c) => carried' = MapPut(carried, key,
              [packets |-> carried[key].packets + 1, bytes |-> carried[key].bytes + cpu[c].pkt.len])
         /\ ~Stored(c) /\ ~Carrying(c) => carried' = carried
<1>1. ~(Stored(c) /\ Carrying(c)) /\ LastCopy(c)
  BY DEF Stored, Carrying, Moving, LastCopy
<1>2. ASSUME Stored(c) \/ Carrying(c)
      PROVE  carried' = CarriedAfter(c)
  <2>1. (CHOOSE d \in CPUs : Stored(d) \/ Carrying(d)) = c
    BY <1>2
  <2>2. \E d \in CPUs : Stored(d) \/ (Carrying(d) /\ LastCopy(d))
    BY <1>1, <1>2
  <2> QED
    BY <2>1, <2>2 DEF AuditStep
<1>3. ASSUME ~Stored(c), ~Carrying(c)
      PROVE  carried' = carried
  <2>1. ~ \E d \in CPUs : Stored(d) \/ (Carrying(d) /\ LastCopy(d))
    BY <1>3
  <2> QED
    BY <2>1 DEF AuditStep
<1> QED
  BY <1>1, <1>2, <1>3 DEF CarriedAfter

(* What a run adds to the element it holds, the wire has carried.          *)
LEMMA BackedKept ==
  ASSUME TypeInv, NEW c \in CPUs, CPUs = {c}, TrafficInv(c), CpuStep(c), AuditStep, Holding(c)
  PROVE  Backed(carried', KeyOf(cpu[c].pkt), elem'[cpu[c].conn])
<1> DEFINE s == cpu[c].conn
           k == KeyOf(cpu[c].pkt)
<1>0. /\ s \in DOMAIN elem /\ elem[s] \in tuple_data_t /\ cpu[c].pkt \in Packets
      /\ Backed(carried, k, elem[s])
  BY DEF Holding, TrafficInv, TypeInv, TypeOK, CaptureTypeOK, RunOK, MapsTypeOK, IsMap
<1>1. ~Stored(c) /\ ~NewConnection(c) /\ ~Lookup(c)
  BY DEF Stored, Moving, NewConnection, Lookup, Holding
<1>2. CASE Bytes(c)
  <2>1. cpu'[c].pc # "bytes" /\ cpu'[c].pc \in Labels /\ cpu[c].pc = "bytes"
    <3>1. Goto(c, FromRst(cpu[c].pkt)) /\ FromRst(cpu[c].pkt) \in {"rst", "fin", "idle"}
      BY <1>2 DEF Bytes, FromRst, FromFin
    <3> QED
      BY <1>2, <3>1, GotoLabel DEF Bytes, Labels
  <2>2. Carrying(c)
    BY <2>1 DEF Carrying, Moving
  <2>3. carried' = MapPut(carried, k, [packets |-> carried[k].packets + 1,
                                       bytes |-> carried[k].bytes + cpu[c].pkt.len])
    BY <2>2, CarriedIs DEF TrafficInv
  <2>4. elem'[s] = Carried(elem[s], cpu[c].pkt.len)
    BY <1>0, <1>2 DEF Bytes
  <2>5. cpu[c].pkt.len \in Nat /\ cpu[c].pkt.len % 65536 <= cpu[c].pkt.len
          /\ cpu[c].pkt.len % 65536 \in Nat
    BY <1>0, PacketsAssumption DEF Packet
  <2>6. /\ elem'[s].num_packets = elem[s].num_packets + 1
        /\ elem'[s].total_data_bytes = elem[s].total_data_bytes + (cpu[c].pkt.len % 65536)
        /\ elem[s].num_packets \in Nat /\ elem[s].total_data_bytes \in Nat
    BY <1>0, <2>4 DEF Carried, tuple_data_t
  <2>7. /\ k \in DOMAIN carried'
        /\ carried'[k] = [packets |-> carried[k].packets + 1,
                          bytes |-> carried[k].bytes + cpu[c].pkt.len]
    BY <2>3 DEF MapPut
  <2> QED
    BY <1>0, <2>5, <2>6, <2>7 DEF Backed
<1>3. CASE ~Bytes(c)
  <2>1. ~Carrying(c)
    <3>1. cpu[c].pc # "bytes"
      BY <1>3 DEF CpuStep, NextSocket, NewConnection, Lookup, SynAck, Psh, Rst, Fin,
           StatsClock, StatsFind, StatsAdd, StatsInsert, StatsDelete
    <3> QED
      BY <3>1 DEF Carrying, Moving
  <2>2. carried' = carried
    BY <1>1, <2>1, CarriedIs DEF TrafficInv
  <2>3. /\ elem'[s].num_packets = elem[s].num_packets
        /\ elem'[s].total_data_bytes = elem[s].total_data_bytes
    <3>1. CASE SynAck(c) \/ Rst(c) \/ Fin(c)
      BY <1>0, <3>1 DEF SynAck, Rst, Fin, tuple_data_t
    <3>2. CASE Psh(c)
      BY <1>0, <3>2 DEF Psh, tuple_data_t
    <3>3. CASE elem'[s] = elem[s]
      BY <3>3
    <3> QED
      BY <1>0, <1>1, <1>3, <3>1, <3>2, <3>3, ElementWritten
  <2> QED
    BY <1>0, <2>2, <2>3 DEF Backed
<1> QED
  BY <1>2, <1>3

LEMMA TrafficCapture ==
  ASSUME TypeInv, NEW c \in CPUs, CPUs = {c}, Copies \subseteq {1}, SlotInv(c), TrafficInv(c),
         CpuStep(c) \/ Deliver(c), AuditStep
  PROVE  TrafficInv(c)'
<1>0. cpu'[c].left = 0
  BY OneSocket DEF TrafficInv
<1>1. CASE NewConnection(c)
  <2>1. cpu[c].pc = "syn" /\ cpu'[c].pc = "lookup"
    BY <1>1 DEF NewConnection, TypeInv, TypeOK, CaptureTypeOK, Run
  <2>2. ~Carrying(c)
    BY <2>1 DEF Carrying, Moving
  <2>3. KeyOf(cpu[c].pkt) \in DOMAIN connections' => Stored(c)
    BY <2>1 DEF Stored, Moving
  <2>4. ASSUME NEW k \in DOMAIN connections'
        PROVE  Backed(carried', k, ElemOf(k)')
    <3>1. CASE k # KeyOf(cpu[c].pkt) /\ k \in DOMAIN connections /\ ElemOf(k)' = ElemOf(k)
      <4>1. Backed(carried, k, ElemOf(k))
        BY <3>1 DEF TrafficInv
      <4>2. carried' = carried \/ carried' = MapPut(carried, KeyOf(cpu[c].pkt), NoTraffic)
        BY <2>2, CarriedIs DEF TrafficInv
      <4> QED
        BY <3>1, <4>1, <4>2 DEF Backed, MapPut
    <3>2. CASE k = KeyOf(cpu[c].pkt) /\ ElemOf(k)' = NewTupleData(cpu[c].pkt, cpu[c].clock)
      <4>1. carried' = MapPut(carried, k, NoTraffic)
        BY <2>3, <3>2, CarriedIs DEF TrafficInv
      <4>2. ElemOf(k)'.num_packets = 0 /\ ElemOf(k)'.total_data_bytes = 0
        BY <3>2 DEF NewTupleData
      <4>3. k \in DOMAIN carried' /\ carried'[k] = [packets |-> 0, bytes |-> 0]
        BY <4>1 DEF MapPut, NoTraffic
      <4> QED
        BY <4>2, <4>3 DEF Backed
    <3> QED
      BY <1>1, <3>1, <3>2, NewConnectionStores
  <2> QED
    BY <1>0, <2>1, <2>4 DEF TrafficInv, Holding
<1>2. CASE ~NewConnection(c)
  <2>1. Holding(c) => CpuStep(c)
    BY DEF Deliver, Ignore, Receive, NoFrame, Holding
  <2>2. ~Stored(c)
    <3>1. cpu[c].pc # "syn"
      BY <1>2 DEF CpuStep, NextSocket, Lookup, SynAck, Psh, Bytes, Rst, Fin, StatsClock,
           StatsFind, StatsAdd, StatsInsert, StatsDelete, Deliver, Ignore, Receive, NoFrame
    <3> QED
      BY <3>1 DEF Stored, Moving
  <2>3. ASSUME NEW k \in DOMAIN connections
        PROVE  Backed(carried', k, ElemOf(k))
    <3> DEFINE key == KeyOf(cpu[c].pkt)
    <3>1. Backed(carried, k, ElemOf(k)) /\ ElemOf(k) \in tuple_data_t
      BY DEF TrafficInv, ElemOf, TypeInv, TypeOK, MapsTypeOK, IsMap
    <3>2. CASE ~Carrying(c)
      BY <2>2, <3>1, <3>2, CarriedIs DEF TrafficInv
    <3>3. CASE Carrying(c)
      <4>1. carried' = MapPut(carried, key, [packets |-> carried[key].packets + 1,
                                             bytes |-> carried[key].bytes + cpu[c].pkt.len])
        BY <3>3, CarriedIs DEF TrafficInv
      <4>2. cpu[c].pkt.len \in Nat
        BY <3>3, PacketsAssumption
           DEF Carrying, Moving, TypeInv, TypeOK, CaptureTypeOK, RunOK, Packet
      <4>3. CASE k # key
        BY <3>1, <4>1, <4>3 DEF Backed, MapPut
      <4>4. CASE k = key
        <5>1. /\ k \in DOMAIN carried'
              /\ carried'[k] = [packets |-> carried[k].packets + 1,
                                bytes |-> carried[k].bytes + cpu[c].pkt.len]
          BY <4>1, <4>4 DEF MapPut
        <5> QED
          BY <3>1, <4>2, <5>1 DEF Backed, tuple_data_t
      <4> QED
        BY <4>3, <4>4
    <3> QED
      BY <3>2, <3>3
  <2>4. ASSUME NEW k \in DOMAIN connections'
        PROVE  Backed(carried', k, ElemOf(k)')
    <3>1. k \in DOMAIN connections /\ connections'[k] = connections[k]
      BY <1>2, FirstPacketKept
    <3>2. connections[k] \in DOMAIN elem
      BY <3>1 DEF TypeInv, TypeOK, MapsTypeOK, IsMap
    <3>3. CASE Holding(c) /\ connections[k] = cpu[c].conn
      <4>1. k = KeyOf(cpu[c].pkt)
        BY <3>1, <3>3 DEF SlotInv
      <4> QED
        BY <2>1, <3>1, <3>3, <4>1, BackedKept DEF ElemOf
    <3>4. CASE ~(Holding(c) /\ connections[k] = cpu[c].conn)
      <4>1. elem'[connections[k]] = elem[connections[k]]
        BY <1>2, <3>2, <3>4, ElementWritten
      <4>2. ElemOf(k)' = ElemOf(k)
        BY <3>1, <4>1 DEF ElemOf
      <4> QED
        BY <2>3, <3>1, <4>2
    <3> QED
      BY <3>3, <3>4
  <2>5. ASSUME Holding(c)'
        PROVE  Backed(carried', KeyOf(cpu'[c].pkt), elem'[cpu'[c].conn])
    <3>1. CASE Lookup(c) /\ KeyOf(cpu[c].pkt) \in DOMAIN connections
                 /\ cpu'[c].conn = connections[KeyOf(cpu[c].pkt)]
      <4>1. elem' = elem /\ cpu'[c].pkt = cpu[c].pkt
        BY <2>5, <3>1, RunFlow DEF Lookup, mapVars
      <4> QED
        BY <2>3, <3>1, <4>1 DEF ElemOf
    <3>2. CASE Holding(c) /\ cpu'[c].conn = cpu[c].conn
      BY <2>1, <2>5, <3>2, RunFlow, BackedKept
    <3> QED
      BY <2>5, <3>1, <3>2, RunFlow
  <2>6. ASSUME cpu'[c].pc = "stats_clock", cpu'[c].ret = "bytes"
        PROVE  EnoughTraffic(elem'[cpu'[c].conn])
    <3>1. elem' = elem /\ EnoughTraffic(elem[cpu[c].conn]) /\ cpu[c].pc = "psh"
      BY <2>6, CallFlow
    <3>2. cpu'[c].conn = cpu[c].conn
      BY <2>6, <3>1, RunFlow DEF Holding, Lookup
    <3> QED
      BY <3>1, <3>2
  <2> QED
    BY <1>0, <2>4, <2>5, <2>6 DEF TrafficInv, EnoughTraffic
<1> QED
  BY <1>1, <1>2

LEMMA TrafficStart ==
  ASSUME Init, NEW c \in CPUs
  PROVE  TrafficInv(c)
BY EmptyMapType DEF Init, MapsInit, CaptureInit, IdleRun, TrafficInv, Holding

LEMMA TrafficStep ==
  ASSUME TypeInv, NEW c \in CPUs, CPUs = {c}, Copies \subseteq {1}, SlotInv(c), TrafficInv(c),
         [AuditNext]_<<vars, auditVars>>
  PROVE  TrafficInv(c)'
<1>1. ASSUME UNCHANGED <<elem, cpu, carried>>,
             \A k \in DOMAIN connections' :
               k \in DOMAIN connections /\ connections'[k] = connections[k]
      PROVE  TrafficInv(c)'
  BY <1>1 DEF TrafficInv, Holding, ElemOf, Backed, EnoughTraffic
<1>2. CASE UNCHANGED <<vars, auditVars>>
  BY <1>1, <1>2 DEF vars, auditVars, mapVars, captureVars
<1>3. CASE AuditNext /\ ~Alive
  BY <1>3, PanickedRestarts, EmptyMapType DEF AuditNext, Restart, IdleRun, TrafficInv, Holding
<1>4. CASE AuditNext /\ Alive
  <2>1. Next /\ AuditStep
    BY <1>4 DEF AuditNext
  <2>2. CASE CaptureAction(c) \/ DeliverAction(c)
    BY <2>1, <2>2, TrafficCapture DEF CaptureAction, DeliverAction
  <2>3. CASE ~(CaptureAction(c) \/ DeliverAction(c))
    <3>1. /\ UNCHANGED <<elem, cpu>>
          /\ \A k \in DOMAIN connections' :
               k \in DOMAIN connections /\ connections'[k] = connections[k]
      BY <1>4, <2>1, <2>3, GoroutinesDelete
    <3>2. ~Stored(c) /\ ~Carrying(c)
      BY <3>1 DEF Stored, Carrying, Moving
    <3>3. carried' = carried
      BY <2>1, <3>2, CarriedIs DEF TrafficInv
    <3> QED
      BY <1>1, <3>1, <3>3
  <2> QED
    BY <2>2, <2>3
<1> QED
  BY <1>2, <1>3, <1>4

LEMMA TrafficImplies ==
  ASSUME TypeInv, NEW c \in CPUs, CPUs = {c}, TrafficInv(c)
  PROVE  SuccessByTraffic
<1> SUFFICES ASSUME cpu[c].pc = "stats_clock", cpu[c].ret = "bytes"
             PROVE  \/ carried[KeyOf(cpu[c].pkt)].packets > CONN_MIN_NUM_OF_PACKETS
                    \/ carried[KeyOf(cpu[c].pkt)].bytes > CONN_MIN_DATA_BYTES
  BY DEF SuccessByTraffic
<1>1. /\ EnoughTraffic(elem[cpu[c].conn])
      /\ Backed(carried, KeyOf(cpu[c].pkt), elem[cpu[c].conn])
  BY DEF TrafficInv, Holding
<1>2. elem[cpu[c].conn] \in tuple_data_t
  BY DEF TypeInv, TypeOK, CaptureTypeOK, RunOK, MapsTypeOK, IsMap
<1> QED
  BY <1>1, <1>2, ThresholdAssumption DEF EnoughTraffic, Backed, tuple_data_t

(***************************************************************************)
(* With one CPU and one socket per frame, whatever fails: a connection     *)
(* that is called successful while it is open has carried more packets or  *)
(* more bytes than the minimum of types.h, on the wire and since its own   *)
(* SYN, although tuples and elements are used again and the length of a    *)
(* frame is cut to 16 bits. A frame that reaches several sockets counts    *)
(* several times (see the run duplicates).                                 *)
(***************************************************************************)
THEOREM SuccessNeedsTraffic ==
  ASSUME NEW c \in CPUs, CPUs = {c}, Copies \subseteq {1}
  PROVE  AuditSpec => []SuccessByTraffic
<1>1. AuditInit => TrafficInv(c)
  BY TrafficStart DEF AuditInit
<1>2. TypeInv /\ SlotInv(c) /\ TrafficInv(c) /\ [AuditNext]_<<vars, auditVars>> => TrafficInv(c)'
  BY TrafficStep
<1>3. TypeInv /\ TrafficInv(c) => SuccessByTraffic
  BY TrafficImplies
<1> QED
  BY <1>1, <1>2, <1>3, AuditIsExporter, TypeInvariant, SlotInvariant, PTL DEF AuditSpec

-----------------------------------------------------------------------------
(* How often a connection is counted.                                      *)

IsSyn(p) == p.syn /\ ~p.ack

(* A label of the run goes with a flag of its frame; and as long as a SYN  *)
(* has not got beyond its data, its own element is as it was stored.       *)
FrameInv(c) ==
  LET r == cpu[c] IN
  /\ r.pc = "syn" => IsSyn(r.pkt)
  /\ r.pc = "synack" => ~IsSyn(r.pkt)
  /\ r.pc = "rst" => r.pkt.rst
  /\ r.pc = "fin" \/ r.ret = "fin" => r.pkt.fin
  /\ r.pc = "lookup" /\ IsSyn(r.pkt) /\ KeyOf(r.pkt) \in DOMAIN connections =>
       ElemOf(KeyOf(r.pkt)).state = SYN_RECEIVED
  /\ r.pc = "psh" /\ IsSyn(r.pkt) => elem[r.conn].state = SYN_RECEIVED

(* A run goes on to a label for which its frame has the flag.              *)
LEMMA FrameGoto ==
  ASSUME TypeInv, NEW c \in CPUs, NEW label, Goto(c, label), FrameInv(c),
         label \in {"psh", "bytes", "rst", "fin", "idle"},
         label = "psh" => ~IsSyn(cpu[c].pkt),
         label = "rst" => cpu[c].pkt.rst,
         label = "fin" => cpu[c].pkt.fin
  PROVE  FrameInv(c)'
<1>0. cpu[c] \in Run
  BY DEF TypeInv, TypeOK, CaptureTypeOK
<1>1. CASE label = "idle"
  <2>1. cpu'[c].pc = "idle" /\ cpu'[c].ret = "idle"
    BY <1>0, <1>1, GotoRun, EndOfRunIs
  <2> QED
    BY <2>1 DEF FrameInv
<1>2. CASE label # "idle"
  <2>1. cpu'[c].pkt = cpu[c].pkt /\ cpu'[c].ret = cpu[c].ret
    BY <1>0, <1>2, GotoRun DEF Run
  <2> QED
    BY <2>1, GotoLabel DEF FrameInv
<1> QED
  BY <1>1, <1>2

LEMMA FrameCapture ==
  ASSUME TypeInv, NEW c \in CPUs, FrameInv(c), CpuStep(c) \/ Deliver(c)
  PROVE  FrameInv(c)'
<1>0. /\ cpu \in [CPUs -> Run] /\ cpu[c] \in Run /\ RunOK(cpu[c], DOMAIN elem)
  BY DEF TypeInv, TypeOK, CaptureTypeOK
<1>1. ASSUME NEW p, NEW left, Start(c, p, left)
      PROVE  FrameInv(c)'
  <2>1. CASE IsSyn(p)
    <3>1. cpu'[c].pc = "syn" /\ cpu'[c].pkt = p /\ cpu'[c].ret = "idle"
      BY <1>0, <1>1, <2>1 DEF Start, IdleRun, IsSyn
    <3> QED
      BY <2>1, <3>1 DEF FrameInv
  <2>2. CASE ~IsSyn(p)
    <3>1. cpu'[c].pc = "lookup" /\ cpu'[c].pkt = p /\ cpu'[c].ret = "idle"
      BY <1>0, <1>1, <2>2 DEF Start, IdleRun, IsSyn
    <3> QED
      BY <2>2, <3>1 DEF FrameInv
  <2> QED
    BY <2>1, <2>2
<1>2. ASSUME NEW success, NEW ret, Call(c, success, ret), ret = "fin" => cpu[c].pkt.fin
      PROVE  FrameInv(c)'
  <2>1. cpu'[c].pc = "stats_clock" /\ cpu'[c].pkt = cpu[c].pkt /\ cpu'[c].ret = ret
    BY <1>0, <1>2 DEF Call, Run
  <2> QED
    BY <1>2, <2>1 DEF FrameInv
<1>3. ASSUME NEW p
      PROVE  /\ FromSynAck(p) \in {"synack", "psh", "rst", "fin", "idle"}
             /\ FromPsh(p) \in {"psh", "rst", "fin", "idle"}
             /\ FromRst(p) \in {"rst", "fin", "idle"} /\ FromFin(p) \in {"fin", "idle"}
             /\ FromSynAck(p) = "synack" => ~IsSyn(p)
             /\ FromSynAck(p) = "rst" \/ FromPsh(p) = "rst" \/ FromRst(p) = "rst" => p.rst
             /\ FromSynAck(p) = "fin" \/ FromPsh(p) = "fin" \/ FromRst(p) = "fin"
                  \/ FromFin(p) = "fin" => p.fin
  BY DEF FromSynAck, FromPsh, FromRst, FromFin, IsSyn
<1>4. CASE Deliver(c)
  <2>1. PICK p \in Packets : Ignore(c, p) \/ Receive(c, p)
    BY <1>4 DEF Deliver
  <2>2. CASE Ignore(c, p)
    BY <2>2 DEF Ignore, NoFrame, mapVars, FrameInv
  <2> QED
    BY <1>1, <2>1, <2>2 DEF Receive
<1>5. CASE NextSocket(c)
  BY <1>1, <1>5 DEF NextSocket
<1>6. CASE NewConnection(c)
  <2>1. /\ cpu'[c].pc = "lookup" /\ cpu'[c].pkt = cpu[c].pkt /\ cpu'[c].ret = cpu[c].ret
    BY <1>0, <1>6 DEF NewConnection, Run
  <2>2. KeyOf(cpu[c].pkt) \in DOMAIN connections' =>
          ElemOf(KeyOf(cpu[c].pkt))'.state = SYN_RECEIVED
    <3> SUFFICES ASSUME NEW k \in DOMAIN connections', k = KeyOf(cpu[c].pkt)
                 PROVE  elem'[connections'[k]].state = SYN_RECEIVED
      BY <2>1 DEF ElemOf
    <3>1. ElemOf(k)' = NewTupleData(cpu[c].pkt, cpu[c].clock)
      BY <1>6, NewConnectionStores
    <3> QED
      BY <3>1 DEF ElemOf, NewTupleData
  <2> QED
    BY <2>1, <2>2 DEF FrameInv
<1>7. CASE Lookup(c)
  <2> DEFINE p == cpu[c].pkt
             k == KeyOf(p)
  <2>1. CASE Found(Find(k)) /\ FromSynAck(p) # "idle"
    <3>1. cpu'[c] = [cpu[c] EXCEPT !.pc = FromSynAck(p), !.conn = Find(k)]
      BY <1>0, <1>7, <2>1 DEF Lookup
    <3>2. /\ cpu'[c].pc = FromSynAck(p) /\ cpu'[c].conn = Find(k)
          /\ cpu'[c].pkt = p /\ cpu'[c].ret = cpu[c].ret
      BY <1>0, <3>1 DEF Run
    <3>3. k \in DOMAIN connections /\ Find(k) = connections[k] /\ elem' = elem
      BY <1>7, <2>1 DEF Found, Find, Lookup, mapVars
    <3>4. IsSyn(p) => elem[connections[k]].state = SYN_RECEIVED
      BY <1>7, <3>3 DEF FrameInv, Lookup, ElemOf
    <3> QED
      BY <1>3, <3>2, <3>3, <3>4 DEF FrameInv
  <2>2. CASE ~(Found(Find(k)) /\ FromSynAck(p) # "idle")
    <3>1. cpu'[c] = EndOfRun(cpu[c])
      BY <1>0, <1>7, <2>2 DEF Lookup
    <3>2. cpu'[c].pc = "idle" /\ cpu'[c].ret = "idle"
      BY <1>0, <3>1, EndOfRunIs
    <3> QED
      BY <3>2 DEF FrameInv
  <2> QED
    BY <2>1, <2>2
<1>8. CASE SynAck(c)
  <2>1. ~IsSyn(cpu[c].pkt) /\ Goto(c, FromPsh(cpu[c].pkt))
    BY <1>8 DEF SynAck, FrameInv
  <2> QED
    BY <1>3, <2>1, FrameGoto
<1>9. CASE Psh(c)
  BY <1>2, <1>9, FrameGoto DEF Psh
<1>10. CASE Bytes(c)
  BY <1>3, <1>10, FrameGoto DEF Bytes
<1>11. CASE Rst(c) \/ Fin(c)
  BY <1>2, <1>3, <1>11 DEF Rst, Fin
<1>12. CASE StatsDelete(c)
  BY <1>0, <1>12, FrameGoto DEF StatsDelete, RunOK, FrameInv
<1>13. CASE StatsClock(c) \/ StatsAdd(c) \/ StatsInsert(c)
  <2>1. /\ cpu'[c].pc \in {"stats_find", "stats_delete"}
        /\ cpu'[c].pkt = cpu[c].pkt /\ cpu'[c].ret = cpu[c].ret
    BY <1>0, <1>13 DEF StatsClock, StatsAdd, StatsInsert, Run
  <2> QED
    BY <2>1 DEF FrameInv
<1>14. CASE StatsFind(c)
  <2>1. /\ cpu'[c].pc \in {"stats_add", "stats_insert"}
        /\ cpu'[c].pkt = cpu[c].pkt /\ cpu'[c].ret = cpu[c].ret
    BY <1>0, <1>14 DEF StatsFind, Run
  <2> QED
    BY <2>1 DEF FrameInv
<1> QED
  BY <1>4, <1>5, <1>6, <1>7, <1>8, <1>9, <1>10, <1>11, <1>12, <1>13, <1>14 DEF CpuStep

(* With one CPU it holds throughout: nobody else writes to the element.    *)
LEMMA FrameInvariant ==
  ASSUME NEW c \in CPUs, CPUs = {c}
  PROVE  Spec => []FrameInv(c)
<1>1. Init => FrameInv(c)
  BY DEF Init, CaptureInit, IdleRun, FrameInv
<1>2. ASSUME TypeInv, FrameInv(c), [Next]_vars
      PROVE  FrameInv(c)'
  <2>1. ASSUME UNCHANGED <<elem, cpu>>,
               \A k \in DOMAIN connections' :
                 k \in DOMAIN connections /\ connections'[k] = connections[k]
        PROVE  FrameInv(c)'
    BY <1>2, <2>1 DEF FrameInv, ElemOf
  <2>2. CASE CaptureAction(c) \/ DeliverAction(c)
    BY <1>2, <2>2, FrameCapture DEF CaptureAction, DeliverAction
  <2>3. CASE Next /\ ~Alive
    BY <2>3, PanickedRestarts DEF Restart, IdleRun, FrameInv
  <2>4. CASE UNCHANGED vars
    BY <2>1, <2>4 DEF vars, mapVars, captureVars
  <2> QED
    BY <1>2, <2>1, <2>2, <2>3, <2>4, GoroutinesDelete
<1> QED
  BY <1>1, <1>2, TypeInvariant, PTL DEF Spec

InStats(c) ==
  cpu[c].pc \in {"stats_clock", "stats_find", "stats_add", "stats_insert", "stats_delete"}

(***************************************************************************)
(* The frames that have counted a connection and the entries of the map,   *)
(* together, are no more than the frames that have opened one. The entry   *)
(* of the frame being processed is on one side only: once the frame has    *)
(* counted it, it is about to be deleted; before that the frame owns one,  *)
(* even if TrackConnections has deleted it meanwhile. A frame that has     *)
(* counted leaves no entry of its key behind.                              *)
(***************************************************************************)
OpenInv(c) ==
  LET keys   == DOMAIN connections
      p      == cpu[c].pkt
      others == Cardinality(keys \ {KeyOf(p)})
  IN
  /\ opened \in Nat /\ closers \in Nat /\ IsFiniteSet(keys)
  /\ c \in counting \/ c \in opening => ~NoFrame(c)
  /\ c \notin counting => closers + Cardinality(keys) <= opened
  /\ c \notin counting /\ (c \in opening \/ Holding(c)) => closers + 1 + others <= opened
  /\ c \in counting =>
       /\ closers + others <= opened
       /\ cpu[c].pc = "idle" => KeyOf(p) \notin keys
       /\ ~IsSyn(p) /\ ~InStats(c) => KeyOf(p) \notin keys
       /\ IsSyn(p) => p.rst \/ p.fin

(* What a step does to the frames, when there is one CPU.                  *)
LEMMA FramesAfter ==
  ASSUME NEW c \in CPUs, CPUs = {c}, AuditStep, opened \in Nat, closers \in Nat
  PROVE  /\ opened' = opened + (IF Stored(c) /\ c \notin opening THEN 1 ELSE 0)
         /\ closers' = closers + (IF c \in Calling /\ c \notin counting THEN 1 ELSE 0)
         /\ c \in opening' <=> (c \in opening \/ Stored(c)) /\ ~NoFrame(c)'
         /\ c \in counting' <=> (c \in counting \/ c \in Calling) /\ ~NoFrame(c)'
<1>1. opened' = opened + (IF Stored(c) /\ c \notin opening THEN 1 ELSE 0)
  <2> DEFINE S == {d \in CPUs : Stored(d)} \ opening
  <2>1. S = IF Stored(c) /\ c \notin opening THEN {c} ELSE {}
    OBVIOUS
  <2>2. Cardinality(S) = IF Stored(c) /\ c \notin opening THEN 1 ELSE 0
    BY <2>1, FS_EmptySet, FS_Singleton
  <2> QED
    BY <2>2 DEF AuditStep
<1>2. closers' = closers + (IF c \in Calling /\ c \notin counting THEN 1 ELSE 0)
  <2> DEFINE S == Calling \ counting
  <2>1. S = IF c \in Calling /\ c \notin counting THEN {c} ELSE {}
    BY DEF Calling, Moving
  <2>2. Cardinality(S) = IF c \in Calling /\ c \notin counting THEN 1 ELSE 0
    BY <2>1, FS_EmptySet, FS_Singleton
  <2> QED
    BY <2>2 DEF AuditStep
<1>3. /\ opening' = {d \in CPUs : (d \in opening \/ Stored(d)) /\ ~NoFrame(d)'}
      /\ counting' = {d \in CPUs : (d \in counting \/ d \in Calling) /\ ~NoFrame(d)'}
  BY DEF AuditStep
<1>4. /\ c \in opening' <=> (c \in opening \/ Stored(c)) /\ ~NoFrame(c)'
      /\ c \in counting' <=> (c \in counting \/ c \in Calling) /\ ~NoFrame(c)'
  BY <1>3
<1> QED
  BY <1>1, <1>2, <1>4

(* Sizes of sets of keys.                                                  *)
LEMMA Sizes ==
  ASSUME NEW S, IsFiniteSet(S), NEW T, T \subseteq S, NEW k
  PROVE  /\ IsFiniteSet(T) /\ Cardinality(S) \in Nat /\ Cardinality(T) \in Nat
         /\ Cardinality(T) <= Cardinality(S)
         /\ Cardinality(S \ {k}) \in Nat /\ Cardinality(T \ {k}) \in Nat
         /\ Cardinality(T \ {k}) <= Cardinality(S \ {k})
         /\ k \in S => Cardinality(S) = Cardinality(S \ {k}) + 1
         /\ k \notin T => Cardinality(T) = Cardinality(T \ {k})
         /\ Cardinality(T) <= Cardinality(T \ {k}) + 1
<1>1. IsFiniteSet(T) /\ Cardinality(T) <= Cardinality(S)
  BY FS_Subset
<1>2. IsFiniteSet(S \ {k}) /\ IsFiniteSet(T \ {k})
  BY <1>1, FS_RemoveElement
<1>3. Cardinality(T \ {k}) <= Cardinality(S \ {k})
  <2>1. T \ {k} \in SUBSET (S \ {k})
    OBVIOUS
  <2> QED
    BY <1>2, <2>1, FS_Subset
<1>4. /\ Cardinality(S) \in Nat /\ Cardinality(T) \in Nat
      /\ Cardinality(S \ {k}) \in Nat /\ Cardinality(T \ {k}) \in Nat
  BY <1>1, <1>2, FS_CardinalityType
<1>5. /\ Cardinality(S \ {k}) = IF k \in S THEN Cardinality(S) - 1 ELSE Cardinality(S)
      /\ Cardinality(T \ {k}) = IF k \in T THEN Cardinality(T) - 1 ELSE Cardinality(T)
  BY <1>1, FS_RemoveElement
<1> QED
  BY <1>1, <1>3, <1>4, <1>5

(* A step that stays with its frame, or ends it, and adds no entry.        *)
LEMMA OpenSameFrame ==
  ASSUME NEW c \in CPUs, CPUs = {c}, OpenInv(c), AuditStep, ~Stored(c),
         NoFrame(c)' \/ cpu'[c].pkt = cpu[c].pkt,
         DOMAIN connections' \subseteq DOMAIN connections,
         Holding(c)' => Holding(c) \/ KeyOf(cpu[c].pkt) \in DOMAIN connections,
         c \in Calling => Holding(c) /\ (IsSyn(cpu[c].pkt) => cpu[c].pkt.rst \/ cpu[c].pkt.fin),
         c \in counting \/ c \in Calling =>
           /\ cpu'[c].pc = "idle" => KeyOf(cpu[c].pkt) \notin DOMAIN connections'
           /\ ~IsSyn(cpu[c].pkt) /\ ~InStats(c)' => KeyOf(cpu[c].pkt) \notin DOMAIN connections'
  PROVE  OpenInv(c)'
<1> DEFINE S == DOMAIN connections
           T == DOMAIN connections'
           k == KeyOf(cpu[c].pkt)
<1>0. opened \in Nat /\ closers \in Nat /\ IsFiniteSet(S)
  BY DEF OpenInv
<1>1. /\ IsFiniteSet(T) /\ Cardinality(S) \in Nat /\ Cardinality(T) \in Nat
      /\ Cardinality(T) <= Cardinality(S)
      /\ Cardinality(S \ {k}) \in Nat /\ Cardinality(T \ {k}) \in Nat
      /\ Cardinality(T \ {k}) <= Cardinality(S \ {k})
      /\ k \in S => Cardinality(S) = Cardinality(S \ {k}) + 1
      /\ k \notin T => Cardinality(T) = Cardinality(T \ {k})
  BY <1>0, Sizes
<1> DEFINE s == Cardinality(S)
           t == Cardinality(T)
           sk == Cardinality(S \ {k})
           tk == Cardinality(T \ {k})
<1> HIDE DEF s, t, sk, tk
<1>2. /\ s \in Nat /\ t \in Nat /\ sk \in Nat /\ tk \in Nat /\ t <= s /\ tk <= sk
      /\ k \in S => s = sk + 1
      /\ k \notin T => t = tk
  BY <1>1 DEF s, t, sk, tk
<1>3. /\ c \notin counting => closers + s <= opened
      /\ c \notin counting /\ (c \in opening \/ Holding(c)) => closers + 1 + sk <= opened
      /\ c \in counting => closers + sk <= opened
  BY DEF OpenInv, s, sk
<1>4. /\ opened' = opened /\ opened' \in Nat /\ closers' \in Nat
      /\ closers' = closers + (IF c \in Calling /\ c \notin counting THEN 1 ELSE 0)
      /\ c \in opening' <=> c \in opening /\ ~NoFrame(c)'
      /\ c \in counting' <=> (c \in counting \/ c \in Calling) /\ ~NoFrame(c)'
  BY <1>0, FramesAfter
<1>5. NoFrame(c)' => cpu'[c].pc = "idle" /\ ~Holding(c)'
  BY DEF NoFrame, Holding
<1>6. c \notin counting' => closers' + t <= opened'
  <2>1. CASE c \notin counting /\ c \notin Calling
    BY <1>0, <1>2, <1>3, <1>4, <2>1
  <2>2. CASE (c \in counting \/ c \in Calling) /\ NoFrame(c)'
    <3>1. t = tk
      BY <1>2, <1>5, <2>2
    <3> QED
      BY <1>0, <1>2, <1>3, <1>4, <2>2, <3>1
  <2> QED
    BY <1>4, <2>1, <2>2
<1>7. c \notin counting' /\ (c \in opening' \/ Holding(c)') => closers' + 1 + tk <= opened'
  BY <1>0, <1>2, <1>3, <1>4, <1>5
<1>8. c \in counting' => closers' + tk <= opened'
  BY <1>0, <1>2, <1>3, <1>4
<1>9. c \in counting' =>
        /\ cpu'[c].pkt = cpu[c].pkt
        /\ cpu'[c].pc = "idle" => k \notin T
        /\ ~IsSyn(cpu[c].pkt) /\ ~InStats(c)' => k \notin T
        /\ IsSyn(cpu[c].pkt) => cpu[c].pkt.rst \/ cpu[c].pkt.fin
  BY <1>4 DEF OpenInv
<1>10. c \in opening' \/ Holding(c)' => cpu'[c].pkt = cpu[c].pkt
  BY <1>4, <1>5
<1> QED
  BY <1>1, <1>4, <1>6, <1>7, <1>8, <1>9, <1>10 DEF OpenInv, t, tk

(* A SYN is stored, or refused by a full map.                              *)
LEMMA OpenStore ==
  ASSUME TypeInv, NEW c \in CPUs, CPUs = {c}, FrameInv(c), OpenInv(c), AuditStep,
         NewConnection(c)
  PROVE  OpenInv(c)'
<1> DEFINE S == DOMAIN connections
           k == KeyOf(cpu[c].pkt)
<1>1. /\ cpu[c].pc = "syn" /\ cpu'[c].pc = "lookup" /\ cpu'[c].pkt = cpu[c].pkt
      /\ IsSyn(cpu[c].pkt)
  BY DEF NewConnection, TypeInv, TypeOK, CaptureTypeOK, Run, FrameInv
<1>2. /\ c \notin Calling /\ ~NoFrame(c)' /\ ~Holding(c)'
      /\ Stored(c) <=> k \in DOMAIN connections'
  BY <1>1 DEF Calling, Moving, NoFrame, Holding, Stored
<1>3. CASE DOMAIN connections' = S /\ ~Stored(c)
  BY <1>1, <1>2, <1>3, OpenSameFrame
<1>4. CASE DOMAIN connections' = S \cup {k}
  <2> DEFINE T == DOMAIN connections'
             n == Cardinality(S)
             t == Cardinality(T)
             m == Cardinality(S \ {k})
  <2>0. opened \in Nat /\ closers \in Nat /\ IsFiniteSet(S)
    BY DEF OpenInv
  <2>1. IsFiniteSet(T) /\ T \ {k} = S \ {k} /\ k \in T
    BY <1>4, <2>0, FS_AddElement
  <2>2. Cardinality(T) = Cardinality(T \ {k}) + 1
    BY <2>1, Sizes
  <2> HIDE DEF n, t, m
  <2>3. n \in Nat /\ m \in Nat /\ m <= n /\ t = m + 1
    <3>1. Cardinality(S \ {k}) \in Nat /\ Cardinality(S) \in Nat
            /\ Cardinality(S \ {k}) <= Cardinality(S)
      <4>1. S \ {k} \subseteq S
        OBVIOUS
      <4> QED
        BY <2>0, <4>1, Sizes
    <3> QED
      BY <2>1, <2>2, <3>1 DEF n, t, m
  <2>4. /\ c \notin counting => closers + n <= opened
        /\ c \notin counting /\ c \in opening => closers + 1 + m <= opened
        /\ c \in counting => closers + m <= opened
    BY DEF OpenInv, n, m
  <2>5. /\ opened' = opened + (IF c \notin opening THEN 1 ELSE 0)
        /\ closers' = closers /\ c \in opening' /\ (c \in counting' <=> c \in counting)
    <3>1. Stored(c)
      BY <1>2, <2>1
    <3> QED
      BY <1>2, <2>0, <3>1, FramesAfter
  <2>6. opened' \in Nat /\ closers' \in Nat
    BY <2>0, <2>5
  <2>7. /\ c \notin counting' => closers' + t <= opened'
        /\ c \notin counting' => closers' + 1 + m <= opened'
        /\ c \in counting' => closers' + m <= opened'
    BY <2>0, <2>3, <2>4, <2>5
  <2>8. c \in counting' => (IsSyn(cpu[c].pkt) => cpu[c].pkt.rst \/ cpu[c].pkt.fin)
    BY <2>5 DEF OpenInv
  <2> QED
    BY <1>1, <1>2, <2>1, <2>6, <2>7, <2>8 DEF OpenInv, t, m
<1>5. DOMAIN connections' = S \cup {k} \/ (DOMAIN connections' = S /\ k \notin S)
  <2> DEFINE d == NewTupleData(cpu[c].pkt, cpu[c].clock)
  <2> HIDE DEF d, k
  <2>1. ConnectionsUpdate(k, d)
    BY DEF NewConnection, d, k
  <2> QED
    BY <2>1 DEF ConnectionsUpdate, MapPut
<1> QED
  BY <1>2, <1>3, <1>4, <1>5

(* The steps of a run.                                                     *)
LEMMA OpenCapture ==
  ASSUME TypeInv, NEW c \in CPUs, CPUs = {c}, FrameInv(c), OpenInv(c), AuditStep,
         CpuStep(c) \/ Deliver(c)
  PROVE  OpenInv(c)'
<1> DEFINE S == DOMAIN connections
           p == cpu[c].pkt
           k == KeyOf(p)
<1>0. /\ cpu \in [CPUs -> Run] /\ cpu[c] \in Run /\ RunOK(cpu[c], DOMAIN elem)
  BY DEF TypeInv, TypeOK, CaptureTypeOK
<1>1. ASSUME NEW label, Goto(c, label)
      PROVE  NoFrame(c)' \/ cpu'[c].pkt = p
  <2>1. CASE label = "idle"
    <3>1. /\ cpu'[c].pc = "idle" /\ cpu'[c].left = cpu[c].left
          /\ cpu[c].left > 0 => cpu'[c].pkt = p
      BY <1>0, <1>1, <2>1, GotoRun, EndOfRunIs
    <3> QED
      BY <1>0, <3>1 DEF NoFrame, Run
  <2>2. CASE label # "idle"
    BY <1>0, <1>1, <2>2, GotoRun DEF Run
  <2> QED
    BY <2>1, <2>2
<1>2. c \in counting /\ ~InStats(c) /\ ~IsSyn(p) => k \notin S
  BY DEF OpenInv
<1>3. c \in counting /\ IsSyn(p) => p.rst \/ p.fin
  BY DEF OpenInv
<1>4. p.rst \/ p.fin => FromRst(p) # "idle" /\ FromSynAck(p) # "idle"
  BY DEF FromRst, FromFin, FromSynAck, FromPsh
<1>5. CASE NewConnection(c)
  BY <1>5, OpenStore
<1>6. ASSUME ~NewConnection(c)
      PROVE  ~Stored(c)
  <2>1. cpu[c].pc # "syn"
    BY <1>6 DEF CpuStep, NextSocket, Lookup, SynAck, Psh, Bytes, Rst, Fin, StatsClock,
         StatsFind, StatsAdd, StatsInsert, StatsDelete, Deliver, Ignore, Receive, NoFrame
  <2> QED
    BY <2>1 DEF Stored, Moving
<1>7. ASSUME NEW q, NEW left, Start(c, q, left)
      PROVE  /\ cpu'[c].pkt = q /\ cpu'[c].pc \in {"syn", "lookup"} /\ UNCHANGED connections
  BY <1>0, <1>7 DEF Start, IdleRun, mapVars
<1>8. CASE NextSocket(c)
  <2>1. /\ cpu[c].pc = "idle" /\ cpu'[c].pkt = p /\ cpu'[c].pc \in {"syn", "lookup"}
        /\ UNCHANGED connections
    BY <1>7, <1>8 DEF NextSocket
  <2>2. ~Stored(c) /\ c \notin Calling /\ ~Holding(c)'
    BY <2>1 DEF Stored, Calling, Moving, Holding
  <2>3. c \in counting => k \notin S
    BY <2>1 DEF OpenInv
  <2> QED
    BY <2>1, <2>2, <2>3, OpenSameFrame
<1>9. CASE Deliver(c)
  <2>1. PICK q \in Packets : Ignore(c, q) \/ Receive(c, q)
    BY <1>9 DEF Deliver
  <2>2. /\ NoFrame(c) /\ cpu[c].pc = "idle" /\ UNCHANGED connections
        /\ NoFrame(c)' \/ cpu'[c].pc \in {"syn", "lookup"}
    BY <1>7, <2>1 DEF Ignore, Receive, NoFrame, mapVars
  <2>3. c \notin counting /\ c \notin opening /\ ~Stored(c) /\ c \notin Calling /\ ~Holding(c)'
    BY <2>2 DEF OpenInv, Stored, Calling, Moving, Holding, NoFrame
  <2>4. opened' = opened /\ closers' = closers /\ c \notin opening' /\ c \notin counting'
    <3>1. opened \in Nat /\ closers \in Nat
      BY DEF OpenInv
    <3> QED
      BY <2>3, <3>1, FramesAfter
  <2> QED
    BY <2>2, <2>3, <2>4 DEF OpenInv
<1>10. CASE Lookup(c)
  <2>1. /\ cpu[c].pc = "lookup" /\ UNCHANGED connections /\ ~NewConnection(c)
    BY <1>10 DEF Lookup, NewConnection, mapVars
  <2>2. c \notin Calling
    BY <2>1 DEF Calling, Moving
  <2>3. CASE Found(Find(k)) /\ FromSynAck(p) # "idle"
    <3>1. cpu'[c] = [cpu[c] EXCEPT !.pc = FromSynAck(p), !.conn = Find(k)]
      BY <1>0, <1>10, <2>3 DEF Lookup
    <3>2. cpu'[c].pkt = p /\ cpu'[c].pc = FromSynAck(p)
      BY <1>0, <3>1 DEF Run
    <3>3. k \in S
      BY <2>3 DEF Found, Find
    <3>4. c \in counting => IsSyn(p)
      BY <1>2, <2>1, <3>3 DEF InStats
    <3> QED
      BY <1>6, <2>1, <2>2, <2>3, <3>2, <3>3, <3>4, OpenSameFrame
  <2>4. CASE ~(Found(Find(k)) /\ FromSynAck(p) # "idle")
    <3>1. cpu'[c] = EndOfRun(cpu[c])
      BY <1>0, <1>10, <2>4 DEF Lookup
    <3>2. /\ cpu'[c].pc = "idle" /\ cpu'[c].left = cpu[c].left
          /\ cpu[c].left > 0 => cpu'[c].pkt = p
      BY <1>0, <3>1, EndOfRunIs
    <3>3. NoFrame(c)' \/ cpu'[c].pkt = p
      BY <1>0, <3>2 DEF NoFrame, Run
    <3>4. ~Holding(c)'
      BY <3>2 DEF Holding
    <3>5. c \in counting => k \notin S
      <4>1. CASE ~IsSyn(p)
        BY <1>2, <2>1, <4>1 DEF InStats
      <4>2. CASE IsSyn(p) /\ c \in counting
        <5>1. Find(k) = Null
          BY <1>3, <1>4, <2>4, <4>2 DEF Found
        <5>2. \A x \in S : connections[x] # Null
          BY NullAssumption DEF TypeInv, TypeOK, MapsTypeOK, IsMap
        <5> QED
          BY <5>1, <5>2 DEF Find
      <4> QED
        BY <4>1, <4>2
    <3> QED
      BY <1>6, <2>1, <2>2, <3>2, <3>3, <3>4, <3>5, OpenSameFrame
  <2> QED
    BY <2>3, <2>4
<1>11. ASSUME cpu'[c].pc = "stats_clock"
       PROVE  OpenInv(c)'
  <2>1. /\ Holding(c) /\ ~NewConnection(c)
        /\ Psh(c) \/ Rst(c) \/ Fin(c)
    BY <1>11, CallFlow DEF Holding, NewConnection
  <2>2. UNCHANGED connections /\ InStats(c)' /\ Holding(c)'
    BY <1>11, <2>1 DEF Psh, Rst, Fin, InStats, Holding
  <2>3. cpu'[c].pkt = p
    BY <2>2, RunFlow
  <2>4. IsSyn(p) => p.rst \/ p.fin
    BY <1>11, CallFlow DEF FrameInv, SNI_RECEIVED, SYN_RECEIVED
  <2> QED
    BY <1>6, <1>11, <2>1, <2>2, <2>3, <2>4, OpenSameFrame
<1>12. ASSUME cpu'[c].pc # "stats_clock"
       PROVE  c \notin Calling
  BY <1>12 DEF Calling, Moving
<1>13. ASSUME NEW label, Goto(c, label), Holding(c), ~InStats(c), label # "stats_clock",
              UNCHANGED connections, label = "idle" /\ c \in counting => ~IsSyn(p)
       PROVE  OpenInv(c)'
  <2>1. cpu'[c].pc = label
    BY <1>13, GotoLabel
  <2>2. c \notin Calling /\ ~Stored(c)
    BY <1>12, <1>13, <2>1 DEF Stored, Moving, Holding
  <2> QED
    BY <1>1, <1>2, <1>13, <2>1, <2>2, OpenSameFrame
<1>14. CASE SynAck(c)
  <2>1. ~IsSyn(p) /\ Holding(c) /\ ~InStats(c)
    BY <1>14 DEF SynAck, FrameInv, Holding, InStats
  <2>2. FromPsh(p) # "stats_clock"
    BY DEF FromPsh, FromRst, FromFin
  <2> QED
    BY <1>13, <1>14, <2>1, <2>2 DEF SynAck
<1>15. CASE Psh(c) /\ cpu'[c].pc # "stats_clock"
  <2>1. Holding(c) /\ ~InStats(c) /\ UNCHANGED connections
    BY <1>15 DEF Psh, Holding, InStats
  <2>2. Goto(c, "bytes")
    BY <1>0, <1>15 DEF Psh, Call, Run
  <2> QED
    BY <1>13, <2>1, <2>2
<1>16. CASE Bytes(c)
  <2>1. Holding(c) /\ ~InStats(c)
    BY <1>16 DEF Bytes, Holding, InStats
  <2>2. FromRst(p) # "stats_clock"
    BY DEF FromRst, FromFin
  <2> QED
    BY <1>3, <1>4, <1>13, <1>16, <2>1, <2>2 DEF Bytes
<1>17. CASE (Rst(c) \/ Fin(c)) /\ cpu'[c].pc # "stats_clock"
  BY <1>0, <1>17 DEF Rst, Fin, Call, Run
<1>18. CASE StatsClock(c) \/ StatsFind(c) \/ StatsAdd(c) \/ StatsInsert(c)
  <2>1. Holding(c) /\ UNCHANGED connections /\ ~NewConnection(c)
    BY <1>18 DEF StatsClock, StatsFind, StatsAdd, StatsInsert, Holding, NewConnection, mapVars
  <2>2. cpu'[c].pc \in {"stats_find", "stats_add", "stats_insert", "stats_delete"}
    <3>1. CASE StatsFind(c)
      BY <1>0, <3>1 DEF StatsFind, Run
    <3>2. CASE StatsClock(c) \/ StatsAdd(c) \/ StatsInsert(c)
      BY <1>0, <3>2 DEF StatsClock, StatsAdd, StatsInsert, Run
    <3> QED
      BY <1>18, <3>1, <3>2
  <2>3. InStats(c)' /\ Holding(c)' /\ cpu'[c].pc # "idle"
    BY <2>2 DEF InStats, Holding
  <2>4. cpu'[c].pkt = p
    BY <2>3, RunFlow
  <2> QED
    BY <1>6, <1>12, <2>1, <2>2, <2>3, <2>4, OpenSameFrame
<1>19. CASE StatsDelete(c)
  <2>1. Holding(c) /\ ~NewConnection(c) /\ DOMAIN connections' = S \ {k}
    BY <1>19 DEF StatsDelete, CountedKey, MapDelete, Holding, NewConnection
  <2>2. Goto(c, cpu[c].ret) /\ cpu[c].ret # "stats_clock"
    BY <1>0, <1>19 DEF StatsDelete, RunOK
  <2>3. c \notin Calling
    BY <1>12, <2>2, GotoLabel
  <2> QED
    BY <1>1, <1>6, <2>1, <2>2, <2>3, OpenSameFrame
<1> QED
  BY <1>5, <1>8, <1>9, <1>10, <1>11, <1>14, <1>15, <1>16, <1>17, <1>18, <1>19 DEF CpuStep

LEMMA OpenStart ==
  ASSUME NEW c \in CPUs, Init, opened = 0, opening = {}, closers = 0, counting = {}
  PROVE  OpenInv(c)
<1>1. DOMAIN connections = {} /\ cpu[c].pc = "idle"
  BY EmptyMapType DEF Init, MapsInit, CaptureInit, IdleRun
<1>2. IsFiniteSet({}) /\ Cardinality({}) = 0
  BY FS_EmptySet
<1> QED
  BY <1>1, <1>2 DEF OpenInv, Holding

LEMMA OpenStep ==
  ASSUME TypeInv, NEW c \in CPUs, CPUs = {c}, FrameInv(c), OpenInv(c),
         [AuditNext]_<<vars, auditVars>>
  PROVE  OpenInv(c)'
<1>1. CASE UNCHANGED <<vars, auditVars>>
  <2>1. UNCHANGED <<connections, cpu, opened, opening, closers, counting>>
    BY <1>1 DEF vars, auditVars, mapVars, captureVars
  <2> QED
    BY <2>1 DEF OpenInv, NoFrame, Holding, InStats
<1>2. CASE AuditNext /\ ~Alive
  <2>1. /\ Init' /\ opened' = 0 /\ opening' = {} /\ closers' = 0 /\ counting' = {}
    BY <1>2, PanickedRestarts, RestartInit DEF AuditNext, AuditReset
  <2>2. (Init /\ opened = 0 /\ opening = {} /\ closers = 0 /\ counting = {} => OpenInv(c))'
    BY OpenStart, PTL
  <2> QED
    BY <2>1, <2>2
<1>3. CASE AuditNext /\ Alive
  <2>1. Next /\ AuditStep
    BY <1>3 DEF AuditNext
  <2>2. CASE CaptureAction(c) \/ DeliverAction(c)
    BY <2>1, <2>2, OpenCapture DEF CaptureAction, DeliverAction
  <2>3. CASE ~(CaptureAction(c) \/ DeliverAction(c))
    <3>1. UNCHANGED cpu /\ DOMAIN connections' \subseteq DOMAIN connections
      BY <1>3, <2>1, <2>3, GoroutinesDelete
    <3>2. ~Stored(c) /\ c \notin Calling /\ (InStats(c)' <=> InStats(c))
            /\ (Holding(c)' <=> Holding(c))
      BY <3>1 DEF Stored, Calling, Moving, InStats, Holding
    <3>3. c \in counting =>
            /\ cpu[c].pc = "idle" => KeyOf(cpu[c].pkt) \notin DOMAIN connections
            /\ ~IsSyn(cpu[c].pkt) /\ ~InStats(c) => KeyOf(cpu[c].pkt) \notin DOMAIN connections
      BY DEF OpenInv
    <3> QED
      BY <2>1, <3>1, <3>2, <3>3, OpenSameFrame
  <2> QED
    BY <2>2, <2>3
<1> QED
  BY <1>1, <1>2, <1>3

(***************************************************************************)
(* With one CPU, whatever fails, however many sockets a frame reaches and  *)
(* however the goroutine's deletions fall between the steps of a run: the  *)
(* frames that count a connection are never more than the frames that have *)
(* opened one, so no connection is counted by two frames.                  *)
(***************************************************************************)
THEOREM CountedOnce ==
  ASSUME NEW c \in CPUs, CPUs = {c}
  PROVE  AuditSpec => []CountedByOnePacket
<1>1. AuditInit => OpenInv(c)
  BY OpenStart DEF AuditInit
<1>2. TypeInv /\ FrameInv(c) /\ OpenInv(c) /\ [AuditNext]_<<vars, auditVars>> => OpenInv(c)'
  BY OpenStep
<1>3. OpenInv(c) => CountedByOnePacket
  <2> SUFFICES ASSUME OpenInv(c) PROVE closers <= opened
    BY DEF CountedByOnePacket
  <2> DEFINE S == DOMAIN connections
             k == KeyOf(cpu[c].pkt)
  <2>1. opened \in Nat /\ closers \in Nat /\ IsFiniteSet(S)
    BY DEF OpenInv
  <2>2. Cardinality(S) \in Nat /\ Cardinality(S \ {k}) \in Nat
    BY <2>1, Sizes
  <2>3. closers + Cardinality(S) <= opened \/ closers + Cardinality(S \ {k}) <= opened
    BY DEF OpenInv
  <2> QED
    BY <2>1, <2>2, <2>3
<1> QED
  BY <1>1, <1>2, <1>3, AuditIsExporter, TypeInvariant, FrameInvariant, PTL DEF AuditSpec
=============================================================================
