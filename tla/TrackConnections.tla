-------------------------- MODULE TrackConnections --------------------------
(***************************************************************************)
(* The goroutine TrackConnections (packet/packet.go). On every tick it     *)
(* reads the connections map for connections that are old, deletes them,   *)
(* drains the oldest bucket of the stats map, sends one metrics.Inc per    *)
(* ConnKey to the metrics goroutine, expires server names, and advances    *)
(* the clock that the packet filter reads. Each system call on a shared    *)
(* map is a step of its own.                                               *)
(***************************************************************************)
EXTENDS Maps

CONSTANTS
  Faults,       \* which of "scan", "stats", "put", "slow" may happen
  MaxLag,       \* bound on consecutive failures to update tickerClockMap
  MaxSeconds,   \* bound on the number of seconds that pass
  Expiration    \* metrics.Expiration, in seconds

VARIABLES
  tpc,                   \* where the goroutine is
  ticks,                 \* 1 when the channel of the ticker holds a tick
  now,                   \* wall clock, in seconds
  currentTickerClock,
  todo,                  \* keys still to be visited by the current loop
  oldConnections,        \* tuple_key_t -> tupleData
  statsValuesAtKey,      \* ConnKey -> sni_stats_t
  iterErr,               \* innerEntries.Err() # nil
  inc,                   \* the metrics.Inc being sent
  previousFailedSecond,  \* ConnKey -> BOOLEAN
  snis                   \* State.snis: server name -> time it was first seen

loopVars == <<todo, oldConnections, statsValuesAtKey, iterErr, inc>>

trackVars == <<tpc, ticks, now, currentTickerClock, loopVars, previousFailedSecond, snis>>

ASSUME FaultsAssumption == Faults \subseteq {"scan", "stats", "put", "slow"}

ASSUME BoundsAssumption == MaxLag \in Nat /\ MaxSeconds \in Nat /\ Expiration \in Nat

-----------------------------------------------------------------------------
(***************************************************************************)
(* A deliberately wrong statsKey: the bucket being written.                *)
(***************************************************************************)
statsKeyLive == currentTickerClock % STATS_SECONDS_COUNT

(* The inner map read and cleaned up in this tick. The code has the number *)
(* 20 here, which is the STATS_SECONDS_COUNT of types.h at this commit.    *)
statsKey == (currentTickerClock + 1) % STATS_SECONDS_COUNT

(* metrics.Inc                                                             *)
Inc == [key : ConnKey, active : Nat, failed : Nat, active_failed : Nat,
        successful : Nat, rejected : Nat, rejected_by_client : Nat]

TrackLabels == {"idle", "scan", "purge", "stats", "cleanup",
                "account", "send", "advance", "panicked"}

TrackTypeOK ==
  /\ tpc \in TrackLabels
  /\ ticks \in {0, 1}
  /\ now \in Nat
  /\ currentTickerClock \in Nat
  /\ IsMap(oldConnections, tuple_key_t, tuple_data_t)
  /\ IsMap(statsValuesAtKey, ConnKey, sni_stats_t)
  /\ tpc \in {"scan", "purge"} => todo \subseteq tuple_key_t
  /\ tpc \in {"stats", "cleanup", "account", "send"} => todo \subseteq ConnKey
  /\ iterErr \in BOOLEAN
  /\ inc \in Inc \cup {Null}
  /\ tpc = "send" => inc \in Inc
  /\ IsMap(previousFailedSecond, ConnKey, BOOLEAN)
  /\ IsMap(snis, Sni, Nat)

TrackInit ==
  /\ tpc = "idle" /\ ticks = 0 /\ now = 0 /\ currentTickerClock = 0
  /\ todo = {} /\ oldConnections = EmptyMap /\ statsValuesAtKey = EmptyMap
  /\ iterErr = FALSE /\ inc = Null
  /\ previousFailedSecond = EmptyMap /\ snis = EmptyMap

(***************************************************************************)
(* A deliberately wrong EndOfBody: the values read from the bucket stay    *)
(* for the next tick.                                                      *)
(***************************************************************************)
EndOfBodyKeepsStats ==
  /\ tpc' = "idle"
  /\ todo' = {} /\ oldConnections' = EmptyMap /\ UNCHANGED statsValuesAtKey
  /\ iterErr' = FALSE /\ inc' = Null

(* `continue', and the end of the loop body: the loop variables are gone.  *)
EndOfBody ==
  /\ tpc' = "idle"
  /\ todo' = {} /\ oldConnections' = EmptyMap /\ statsValuesAtKey' = EmptyMap
  /\ iterErr' = FALSE /\ inc' = Null

-----------------------------------------------------------------------------
(***************************************************************************)
(* A second passes (external: time.Ticker). The channel holds one tick; a  *)
(* tick that finds it full is dropped. Unless the "slow" fault is allowed, *)
(* the work of a tick is done before the next one.                         *)
(***************************************************************************)
Second ==
  /\ now < MaxSeconds
  /\ "slow" \in Faults \/ (tpc = "idle" /\ ticks = 0)
  /\ now' = now + 1
  /\ ticks' = 1
  /\ UNCHANGED <<tpc, currentTickerClock, loopVars, previousFailedSecond, snis, mapVars>>

(* case <-ticks: start to iterate over the connections map.                *)
Tick ==
  /\ tpc = "idle" /\ ticks = 1
  /\ ticks' = 0
  /\ tpc' = "scan"
  /\ todo' = DOMAIN connections
  /\ UNCHANGED <<now, currentTickerClock, oldConnections, statsValuesAtKey,
                 iterErr, inc, previousFailedSecond, snis, mapVars>>

(***************************************************************************)
(* A deliberately wrong ScanConnection: the iteration does not move on.    *)
(***************************************************************************)
ScanConnectionAgain(k) ==
  /\ tpc = "scan" /\ k \in todo
  /\ UNCHANGED <<trackVars, mapVars>>

(* Visit one connection, if it is still there.                             *)
ScanConnection(k) ==
  /\ tpc = "scan" /\ k \in todo
  /\ todo' = todo \ {k}
  /\ oldConnections' =
       IF /\ k \in DOMAIN connections
          /\ isConnectionOld(elem[connections[k]].ticker_clock_first_packet,
                             currentTickerClock, STATS_SECONDS_COUNT)
       THEN MapPut(oldConnections, k, elem[connections[k]])
       ELSE oldConnections
  /\ UNCHANGED <<tpc, ticks, now, currentTickerClock, statsValuesAtKey, iterErr,
                 inc, previousFailedSecond, snis, mapVars>>

(* connections.Err() # nil: skip the tick, the clock included.             *)
ScanError ==
  /\ tpc = "scan" /\ "scan" \in Faults
  /\ EndOfBody
  /\ UNCHANGED <<ticks, now, currentTickerClock, previousFailedSecond, snis, mapVars>>

ScanEnd ==
  /\ tpc = "scan" /\ todo = {}
  /\ tpc' = "purge"
  /\ todo' = DOMAIN oldConnections
  /\ UNCHANGED <<ticks, now, currentTickerClock, oldConnections, statsValuesAtKey,
                 iterErr, inc, previousFailedSecond, snis, mapVars>>

(* Delete by key whatever the tuple holds now.                             *)
PurgeConnection(k) ==
  /\ tpc = "purge" /\ k \in todo
  /\ todo' = todo \ {k}
  /\ connections' = MapDelete(connections, k)
  /\ UNCHANGED <<tpc, ticks, now, currentTickerClock, oldConnections,
                 statsValuesAtKey, iterErr, inc, previousFailedSecond, snis,
                 elem, stats, ticker_clock>>

(* getOldestStatsAndCleanup: look up the inner map and start to iterate.   *)
StatsLookup ==
  /\ tpc = "purge" /\ todo = {}
  /\ tpc' = "stats"
  /\ todo' = DOMAIN stats[statsKey]
  /\ UNCHANGED <<ticks, now, currentTickerClock, oldConnections, statsValuesAtKey,
                 iterErr, inc, previousFailedSecond, snis, mapVars>>

(* The lookup of the inner map fails: skip the tick, the clock included.   *)
StatsLookupError ==
  /\ tpc = "purge" /\ todo = {} /\ "stats" \in Faults
  /\ EndOfBody
  /\ UNCHANGED <<ticks, now, currentTickerClock, previousFailedSecond, snis, mapVars>>

(* Visit one entry of the bucket, if it is still there.                    *)
CollectStats(k) ==
  /\ tpc = "stats" /\ k \in todo
  /\ todo' = todo \ {k}
  /\ statsValuesAtKey' = IF k \in DOMAIN stats[statsKey]
                         THEN MapPut(statsValuesAtKey, k, stats[statsKey][k])
                         ELSE statsValuesAtKey
  /\ UNCHANGED <<tpc, ticks, now, currentTickerClock, oldConnections, iterErr,
                 inc, previousFailedSecond, snis, mapVars>>

(* The iteration ends, or fails midway; what was read is deleted next.     *)
CollectEnd ==
  /\ tpc = "stats"
  /\ \/ todo = {} /\ UNCHANGED iterErr
     \/ "stats" \in Faults /\ iterErr' = TRUE
  /\ tpc' = "cleanup"
  /\ todo' = DOMAIN statsValuesAtKey
  /\ UNCHANGED <<ticks, now, currentTickerClock, oldConnections, statsValuesAtKey,
                 inc, previousFailedSecond, snis, mapVars>>

DeleteStats(k) ==
  /\ tpc = "cleanup" /\ k \in todo
  /\ todo' = todo \ {k}
  /\ stats' = [stats EXCEPT ![statsKey] = MapDelete(@, k)]
  /\ UNCHANGED <<tpc, ticks, now, currentTickerClock, oldConnections,
                 statsValuesAtKey, iterErr, inc, previousFailedSecond, snis,
                 connections, elem, ticker_clock>>

(***************************************************************************)
(* The addresses of an old connection are written by PutUint32 into        *)
(* net.IP{}, a slice without bytes, which panics: with an old connection   *)
(* in hand the goroutine never gets to sending increments.                 *)
(***************************************************************************)
lenIP == 0

PutUint32Panics == lenIP < 4

ConnKeyOf(k, data) ==
  [sourceIP |-> k.source.ip, destIP |-> k.dest.ip, sni |-> data.id.sni]

(* The union of the ConnKeys of the old connections and of the bucket.     *)
sniSet == {ConnKeyOf(k, oldConnections[k]) : k \in DOMAIN oldConnections}
            \cup DOMAIN statsValuesAtKey

(* Only now is the error of the iteration looked at: what was deleted from *)
(* the bucket is then lost, and so are the old connections.                *)
CleanupEnd ==
  /\ tpc = "cleanup" /\ todo = {}
  /\ \/ /\ iterErr
        /\ EndOfBody
     \/ /\ ~iterErr /\ DOMAIN oldConnections # {} /\ PutUint32Panics
        /\ tpc' = "panicked"
        /\ UNCHANGED loopVars
     \/ /\ ~iterErr /\ (DOMAIN oldConnections = {} \/ ~PutUint32Panics)
        /\ tpc' = "account"
        /\ todo' = sniSet
        /\ UNCHANGED <<oldConnections, statsValuesAtKey, iterErr, inc>>
  /\ UNCHANGED <<ticks, now, currentTickerClock, previousFailedSecond, snis, mapVars>>

(* The states of the old connections of a ConnKey.                         *)
staleConnections(ck) ==
  [k \in {x \in DOMAIN oldConnections : ConnKeyOf(x, oldConnections[x]) = ck}
     |-> oldConnections[k].state]

succeeded_connections(ck) ==
  IF ck \in DOMAIN statsValuesAtKey THEN statsValuesAtKey[ck].succeeded_connections ELSE 0

failed_connections(ck) ==
  IF ck \in DOMAIN statsValuesAtKey THEN statsValuesAtKey[ck].failed_connections ELSE 0

previousFailed(ck) ==
  ck \in DOMAIN previousFailedSecond /\ previousFailedSecond[ck]

(* Annotate the second for one ConnKey. The time kept for its server name  *)
(* is that of the first tick with this name.                               *)
Account(ck) ==
  /\ tpc = "account" /\ ck \in todo
  /\ inc' = accountForConnections(ck, previousFailed(ck), staleConnections(ck),
                                  succeeded_connections(ck), failed_connections(ck))
  /\ previousFailedSecond' =
       MapPut(previousFailedSecond, ck,
              failedSecond(previousFailed(ck), staleConnections(ck),
                           succeeded_connections(ck), failed_connections(ck)))
  /\ snis' = IF ck.sni \in DOMAIN snis THEN snis ELSE MapPut(snis, ck.sni, now)
  /\ todo' = todo \ {ck}
  /\ tpc' = "send"
  /\ UNCHANGED <<ticks, now, currentTickerClock, oldConnections, statsValuesAtKey,
                 iterErr, mapVars>>

(* incs <- inc; the receiver is the goroutine of module Metrics.           *)
Send ==
  /\ tpc = "send"
  /\ tpc' = "account"
  /\ inc' = Null
  /\ UNCHANGED <<ticks, now, currentTickerClock, todo, oldConnections,
                 statsValuesAtKey, iterErr, previousFailedSecond, snis, mapVars>>

(* The names deleteExpiredSNIs forgets.                                    *)
expiredSNIs == {name \in DOMAIN snis : snis[name] + Expiration < now}

Expire ==
  /\ tpc = "account" /\ todo = {}
  /\ tpc' = "advance"
  /\ snis' = MapRestrict(snis, DOMAIN snis \ expiredSNIs)
  /\ UNCHANGED <<ticks, now, currentTickerClock, loopVars, previousFailedSecond, mapVars>>

(***************************************************************************)
(* Advance the clock, and tell the packet filter. When that fails the own  *)
(* counter has advanced and the one in the kernel has not.                 *)
(***************************************************************************)
Advance ==
  /\ tpc = "advance"
  /\ EndOfBody
  /\ currentTickerClock' = currentTickerClock + 1
  /\ \/ ticker_clock' = currentTickerClock + 1
     \/ /\ "put" \in Faults /\ currentTickerClock + 1 - ticker_clock <= MaxLag
        /\ UNCHANGED ticker_clock
  /\ UNCHANGED <<ticks, now, previousFailedSecond, snis, connections, elem, stats>>

-----------------------------------------------------------------------------
(* The steps that do not involve the metrics goroutine and its counters.   *)
TrackStep ==
  \/ Tick
  \/ \E k \in todo : ScanConnection(k) \/ PurgeConnection(k) \/ CollectStats(k)
                     \/ DeleteStats(k) \/ Account(k)
  \/ ScanError \/ ScanEnd \/ StatsLookup \/ StatsLookupError
  \/ CollectEnd \/ CleanupEnd
=============================================================================
