------------------------------ MODULE Exporter ------------------------------
(***************************************************************************)
(* The pipeline of connectivity-exporter: packets are turned into bucket   *)
(* entries by the filter in the kernel (Capture), buckets into increments  *)
(* by the goroutine TrackConnections, increments into Prometheus counters  *)
(* by the goroutine Apply (Metrics). The first two share the eBPF maps,    *)
(* the last two an unbuffered channel.                                     *)
(***************************************************************************)
EXTENDS Capture, TrackConnections, Metrics

vars == <<mapVars, captureVars, trackVars, metricVars>>

(***************************************************************************)
(* The buckets outnumber the ticks for which a write may be late: the      *)
(* updates of the clock that fail in a row, the one update that may fall   *)
(* into a run of the filter, and the bucket being drained. With the real   *)
(* 20 buckets, that is 17 failures in a row.                               *)
(***************************************************************************)
ASSUME SeparationAssumption == MaxLag + 2 < STATS_SECONDS_COUNT

ASSUME NullIncAssumption == Null \notin Inc

MetricsTypeOK ==
  /\ counters = [kind \in Kinds |-> counters[kind]]
  /\ \A kind \in Kinds : IsMap(counters[kind], ConnKey, Nat)
  /\ applying \in Inc \cup {Null}
  /\ step \in 0 .. 5

TypeOK == MapsTypeOK /\ CaptureTypeOK /\ TrackTypeOK /\ MetricsTypeOK

Init == MapsInit /\ CaptureInit /\ TrackInit /\ MetricsInit

Alive == tpc # "panicked"

-----------------------------------------------------------------------------
CaptureAction(c) ==
  /\ Alive
  /\ CpuStep(c)
  /\ UNCHANGED <<trackVars, metricVars>>

DeliverAction(c) ==
  /\ Alive
  /\ Deliver(c)
  /\ UNCHANGED <<trackVars, metricVars>>

SecondAction ==
  /\ Alive
  /\ Second
  /\ UNCHANGED <<captureVars, metricVars>>

TrackAction == TrackStep /\ UNCHANGED <<captureVars, metricVars>>

(* The rendezvous on the channel incs.                                     *)
SendInc == Send /\ ReceiveInc(inc) /\ UNCHANGED captureVars

ApplyAction == Alive /\ ApplyNext /\ UNCHANGED <<mapVars, captureVars, trackVars>>

(* deleteExpiredSNIs: the names and their series are forgotten.            *)
ExpireAction ==
  /\ Expire
  /\ DeleteMetrics(expiredSNIs)
  /\ UNCHANGED <<captureVars, applying, step>>

(* A run of the filter takes microseconds and the clock advances once per  *)
(* second: at most one update of the clock falls into a run after the run  *)
(* has read it.                                                            *)
AdvanceAction ==
  /\ \A c \in CPUs : HoldsClock(c) => cpu[c].clock = ticker_clock
  /\ Advance
  /\ UNCHANGED <<captureVars, metricVars>>

(* The panic of a goroutine ends the process, and with it the maps and the *)
(* counters; Kubernetes starts the container again.                        *)
Restart ==
  /\ ~Alive
  /\ connections' = EmptyMap /\ elem' = EmptyMap
  /\ stats' = [b \in Buckets |-> EmptyMap] /\ ticker_clock' = 0
  /\ cpu' = [c \in CPUs |-> IdleRun] /\ seen' = 0
  /\ EndOfBody /\ ticks' = 0 /\ now' = 0 /\ currentTickerClock' = 0
  /\ previousFailedSecond' = EmptyMap /\ snis' = EmptyMap
  /\ counters' = [kind \in Kinds |-> EmptyMap] /\ applying' = Null /\ step' = 0

(* The bounds of the model are reached and all the work is done.           *)
Quiescent ==
  /\ seen >= MaxPackets /\ now = MaxSeconds
  /\ \A c \in CPUs : NoFrame(c)
  /\ tpc = "idle" /\ ticks = 0 /\ applying = Null

Rest == Quiescent /\ UNCHANGED vars

Next ==
  \/ \E c \in CPUs : CaptureAction(c) \/ DeliverAction(c)
  \/ SecondAction \/ TrackAction \/ SendInc \/ ApplyAction
  \/ ExpireAction \/ AdvanceAction
  \/ Restart \/ Rest

Spec == Init /\ [][Next]_vars

(***************************************************************************)
(* A run of the filter is not preempted for good; both goroutines are      *)
(* scheduled; the ticker ticks. Nothing makes packets arrive.              *)
(***************************************************************************)
Fairness ==
  /\ \A c \in CPUs : WF_vars(CaptureAction(c))
  /\ WF_vars(SecondAction) /\ WF_vars(TrackAction) /\ WF_vars(SendInc)
  /\ WF_vars(ApplyAction) /\ WF_vars(ExpireAction) /\ WF_vars(AdvanceAction)
  /\ WF_vars(Restart)

FairSpec == Spec /\ Fairness

-----------------------------------------------------------------------------
(***************************************************************************)
(* How the state of the exporter is read as one of the abstract module     *)
(* Seconds. An annotation counts as made when the Inc is handed over on    *)
(* the channel: the additions that Inc.apply has still to make are part of *)
(* the totals, and the Inc that TrackConnections waits to send is not.     *)
(***************************************************************************)
Pending(kind, ck) ==
  IF applying # Null /\ applying.key = ck /\ (\E n \in step + 1 .. 6 : ApplyOrder[n] = kind)
  THEN applying[kind] ELSE 0

Total(kind, ck) == Value(kind, ck) + Pending(kind, ck)

Counted == DOMAIN counters["active"] \cup (IF applying = Null THEN {} ELSE {applying.key})

totals ==
  [ck \in Counted |->
     [active |-> Total("active", ck), failed |-> Total("failed", ck),
      active_failed |-> Total("active_failed", ck), successful |-> Total("successful", ck),
      rejected |-> Total("rejected", ck),
      rejected_by_client |-> Total("rejected_by_client", ck)]]

annotated ==
  IF tpc = "send" THEN sniSet \ (todo \cup {inc.key})
  ELSE IF tpc \in {"account", "advance"} THEN sniSet \ todo ELSE {}

Abstract == INSTANCE Seconds WITH elapsed <- currentTickerClock

-----------------------------------------------------------------------------
(* Properties.                                                             *)

(***************************************************************************)
(* The exporter implements Seconds: through the buckets, the copies, the   *)
(* channel and the additions one at a time, a ConnKey is annotated at most *)
(* once per tick of TrackConnections, with one whole annotation that its   *)
(* connections of one second justify, and no counter ever goes back while  *)
(* the process runs.                                                       *)
(***************************************************************************)
AnnotatesSeconds == Abstract!SecondsSpec

(***************************************************************************)
(* The bucket that getOldestStatsAndCleanup reads and deletes is never one *)
(* that a run of the filter is about to write to, although the filter may  *)
(* hold a clock value that is out of date and the clock in the kernel may  *)
(* lag behind: the wrap-around modulo STATS_SECONDS_COUNT is far enough.   *)
(***************************************************************************)
DrainNotLive ==
  tpc \in {"stats", "cleanup"} =>
    \A c \in CPUs :
      cpu[c].pc \in {"stats_find", "stats_add", "stats_insert"} => bucketOf(c) # statsKey

(***************************************************************************)
(* README.md: "In every counted failed second, there was at least one      *)
(* failed connection attempt by a user or there weren't any successful     *)
(* connection attempts since the last failure." Between two increments     *)
(* every failed second is backed by a rejected connection of the same      *)
(* ConnKey, every active second by some connection of it, and a ConnKey    *)
(* with a rejected connection has an active failed second.                 *)
(***************************************************************************)
SecondsBacked ==
  \A ck \in UNION {DOMAIN counters[kind] : kind \in Kinds} :
    applying = Null \/ applying.key # ck =>
      /\ Value("failed", ck) <= Value("rejected", ck)
      /\ Value("active", ck) <= Value("successful", ck) + Value("rejected", ck)
      /\ Value("rejected", ck) > 0 => Value("active_failed", ck) > 0

(***************************************************************************)
(* No connection stays in the connections map for more than                *)
(* STATS_SECONDS_COUNT + 1 ticks after its first packet: it has been       *)
(* counted, or TrackConnections has taken it out, even if the filter used  *)
(* a clock value that was out of date for it and the scan has failed.      *)
(***************************************************************************)
BoundedAge ==
  tpc = "idle" =>
    \A k \in DOMAIN connections :
      currentTickerClock <=
        elem[connections[k]].ticker_clock_first_packet + STATS_SECONDS_COUNT + 1

(***************************************************************************)
(* The goroutine TrackConnections finishes the work of a tick and comes    *)
(* back for the next one, unless an old connection ends the process: the   *)
(* loops over shared maps come to their end although the filter goes on    *)
(* writing to them, and the unbuffered channel, whose receiver is busy     *)
(* with six additions at a time, never blocks it for good.                 *)
(***************************************************************************)
TickCompletes == (tpc # "idle" /\ Alive) ~> (tpc = "idle" \/ ~Alive)

(***************************************************************************)
(* A failure in a bucket ends up in the failed seconds of its ConnKey,     *)
(* provided that as many seconds as there are buckets still pass, and that *)
(* no old connection ends the process before.                              *)
(***************************************************************************)
FailedIn(b, ck) == ck \in DOMAIN stats[b] /\ stats[b][ck].failed_connections > 0

FailureReported ==
  \A ck \in ConnKey :
    (\E b \in Buckets : FailedIn(b, ck)) /\ now + STATS_SECONDS_COUNT <= MaxSeconds
      ~> Value("failed", ck) > 0 \/ ~Alive

-----------------------------------------------------------------------------
(* What the documentation says and the code does not do.                   *)

(***************************************************************************)
(* packet.go: TrackConnections "tracks the connections in connections map  *)
(* which are older than 20 seconds and updates the prometheus inc counters *)
(* as per data received from the map". It survives finding one.            *)
(***************************************************************************)
OldConnectionsAccounted == DOMAIN oldConnections # {} => Alive

(***************************************************************************)
(* README.md: a second is failed "if there were no connection attempts and *)
(* the preceding bucket was assessed as failed". A ConnKey that was last   *)
(* assessed as failed is assessed again in every tick, with or without     *)
(* connections.                                                            *)
(***************************************************************************)
FailureCarriedOver ==
  tpc = "advance" =>
    \A ck \in DOMAIN previousFailedSecond : previousFailedSecond[ck] => ck \in sniSet

(***************************************************************************)
(* packet.go: "Expire metrics if the last update is older than the metric  *)
(* expiration". No series of a name that deleteExpiredSNIs forgets is left *)
(* behind.                                                                 *)
(***************************************************************************)
ExpiryDeletes ==
  [][tpc = "account" /\ tpc' = "advance" =>
       \A kind \in Kinds : \A ck \in DOMAIN counters'[kind] : ck.sni \notin expiredSNIs]_vars
=============================================================================
