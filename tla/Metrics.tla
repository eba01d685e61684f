------------------------------ MODULE Metrics -------------------------------
(***************************************************************************)
(* The Prometheus counters of metrics/types.go, and the goroutine Apply of *)
(* metrics/metrics.go that adds the increments it receives to them. The    *)
(* six additions of one metrics.Inc are steps of their own: the reads of a *)
(* scrape (module Scrape) may come between any two of them.                *)
(***************************************************************************)
EXTENDS Maps, Sequences

VARIABLES
  counters,   \* kind -> ConnKey -> Nat: connectivity_exporter_*_total
  applying,   \* the metrics.Inc being applied
  step        \* how many of its six additions are done

metricVars == <<counters, applying, step>>

(***************************************************************************)
(* A deliberately wrong ApplyOrder.                                        *)
(***************************************************************************)
ApplyOrderActiveFailedFirst ==
  <<"active_failed", "active", "failed", "successful", "rejected", "rejected_by_client">>

(* The order of the additions in Inc.apply.                                *)
ApplyOrder ==
  <<"active", "failed", "active_failed", "successful", "rejected", "rejected_by_client">>

Kinds == {"active", "failed", "active_failed", "successful", "rejected", "rejected_by_client"}

MetricsInit ==
  /\ counters = [kind \in Kinds |-> EmptyMap]
  /\ applying = Null
  /\ step = 0

(* The value of a series at this moment; 0 for one that does not exist.    *)
Value(kind, ck) == IF ck \in DOMAIN counters[kind] THEN counters[kind][ck] ELSE 0

-----------------------------------------------------------------------------
(* case i := <-incs                                                        *)
ReceiveInc(i) ==
  /\ applying = Null
  /\ applying' = i
  /\ step' = 0
  /\ UNCHANGED counters

(* seconds.WithLabelValues(...).Add(...) and the like; a series that does  *)
(* not exist is created.                                                   *)
ApplyNext ==
  /\ applying # Null
  /\ LET kind == ApplyOrder[step + 1] IN
       counters' = [counters EXCEPT ![kind] =
                      MapPut(@, applying.key, Value(kind, applying.key) + applying[kind])]
  /\ IF step = 5 THEN applying' = Null /\ step' = 0
                 ELSE step' = step + 1 /\ UNCHANGED applying

-----------------------------------------------------------------------------
(***************************************************************************)
(* DeleteLabelValues (external: client_golang) deletes the series whose    *)
(* label values are the ones given, and nothing when their number is not   *)
(* that of the labels: kind, sni, source_ip and dest_ip. DeleteMetrics     *)
(* gives the kind and the server name.                                     *)
(***************************************************************************)
labels == <<"kind", "sni", "source_ip", "dest_ip">>

DeleteLabelValues(series, values, matching) ==
  IF Len(values) = Len(labels) THEN MapRestrict(series, DOMAIN series \ matching) ELSE series

DeleteMetrics(names) ==
  counters' = [kind \in Kinds |->
    DeleteLabelValues(counters[kind], <<"kind", "sni">>,
                      {ck \in DOMAIN counters[kind] : ck.sni \in names})]
=============================================================================
