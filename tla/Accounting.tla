----------------------------- MODULE Accounting -----------------------------
(***************************************************************************)
(* How one second of one ConnKey is annotated: accountForConnections of    *)
(* packet/packet.go, and the enumeration of connection states it reads     *)
(* (tuple_data_t.state in packet/c/types.h, mirrored in packet/bpf.go).    *)
(* The module has no state: these are the functions of the code.           *)
(***************************************************************************)
EXTENDS Integers, FiniteSets

SYN_RECEIVED       == "SYN_RECEIVED"
SYNACK_RECEIVED    == "SYNACK_RECEIVED"
SNI_RECEIVED       == "SNI_RECEIVED"
RST_SENT_BY_CLIENT == "RST_SENT_BY_CLIENT"
RST_SENT_BY_SERVER == "RST_SENT_BY_SERVER"
FIN_RECEIVED       == "FIN_RECEIVED"

connState == {SYN_RECEIVED, SYNACK_RECEIVED, SNI_RECEIVED,
              RST_SENT_BY_CLIENT, RST_SENT_BY_SERVER, FIN_RECEIVED}

(***************************************************************************)
(* A deliberately wrong isConnectionOld, off by one second.                *)
(***************************************************************************)
isConnectionOldOffByOne(first, current, statsSeconds) ==
  current > statsSeconds + first + 1

(***************************************************************************)
(* A connection is old once more than STATS_SECONDS_COUNT ticks have       *)
(* passed since its first packet.                                          *)
(***************************************************************************)
isConnectionOld(first, current, statsSeconds) ==
  current > statsSeconds + first

(***************************************************************************)
(* The number of stale connections in one of the given states. The stale   *)
(* connections of a ConnKey are a function from their tuples to their      *)
(* states, so that two connections in the same state count twice.          *)
(***************************************************************************)
StaleIn(stale, states) ==
  Cardinality({k \in DOMAIN stale : stale[k] \in states})

Bit(b) == IF b THEN 1 ELSE 0

activeSecond(stale, succeeded, failed) ==
  DOMAIN stale # {} \/ succeeded > 0 \/ failed > 0

(***************************************************************************)
(* A deliberately wrong activeFailedSecond that leaves out the failures    *)
(* that the packet filter has counted.                                     *)
(***************************************************************************)
activeFailedSecondOfStale(stale, failed) ==
  \E k \in DOMAIN stale : stale[k] \in {SYN_RECEIVED, SYNACK_RECEIVED, RST_SENT_BY_SERVER}

(* Another one, off by one: no failure is enough.                          *)
activeFailedSecondFromZero(stale, failed) == failed >= 0

activeFailedSecond(stale, failed) ==
  \/ \E k \in DOMAIN stale :
       stale[k] \in {SYN_RECEIVED, SYNACK_RECEIVED, RST_SENT_BY_SERVER}
  \/ failed > 0

(***************************************************************************)
(* A deliberately wrong failedSecond: the carry is not restricted to       *)
(* seconds without traffic, so a failure never ends.                       *)
(***************************************************************************)
failedSecondSticky(previousFailedSecond, stale, succeeded, failed) ==
  previousFailedSecond \/ activeFailedSecond(stale, failed)

(***************************************************************************)
(* The second failed if it carries the failure from before, or if there is *)
(* a new failure.                                                          *)
(***************************************************************************)
failedSecond(previousFailedSecond, stale, succeeded, failed) ==
  \/ previousFailedSecond /\ ~activeSecond(stale, succeeded, failed)
  \/ activeFailedSecond(stale, failed)

(***************************************************************************)
(* The increments computed for one ConnKey in one tick: the metrics.Inc    *)
(* built by accountForConnections, with the fields named as the counter    *)
(* kinds that Inc.apply adds them to.                                      *)
(***************************************************************************)
accountForConnections(connKey, previousFailedSecond, stale, succeeded, failed) ==
  [key                |-> connKey,
   active             |-> Bit(activeSecond(stale, succeeded, failed)),
   failed             |-> Bit(failedSecond(previousFailedSecond, stale, succeeded, failed)),
   active_failed      |-> Bit(activeFailedSecond(stale, failed)),
   successful         |-> StaleIn(stale, {SNI_RECEIVED}) + succeeded,
   rejected           |-> StaleIn(stale, {RST_SENT_BY_SERVER}) + failed,
   rejected_by_client |-> StaleIn(stale, {RST_SENT_BY_CLIENT})]
=============================================================================
