------------------------------ MODULE Seconds -------------------------------
(***************************************************************************)
(* What the exporter promises to those who read its counters, without the  *)
(* filter, the maps, the buckets, the goroutines and the channel: time is  *)
(* cut into seconds, a ConnKey is annotated at most once in each of them,  *)
(* all of the annotation at once, and as its connections of that second    *)
(* say. Exporter implements it, see AnnotatesSeconds there.                *)
(***************************************************************************)
EXTENDS Integers

CONSTANT ConnKey

VARIABLES
  totals,      \* ConnKey -> its counters by kind, for those annotated so far
  annotated,   \* the ConnKeys that the current second has been annotated for
  elapsed      \* number of seconds that are over

secondsVars == <<totals, annotated, elapsed>>

Zero == [active |-> 0, failed |-> 0, active_failed |-> 0,
         successful |-> 0, rejected |-> 0, rejected_by_client |-> 0]

SecondsInit ==
  /\ totals = [ck \in {} |-> Zero]
  /\ annotated = {}
  /\ elapsed = 0

(***************************************************************************)
(* A second in which s connections of a ConnKey succeeded and f failed, at *)
(* least one of them in all: an active second, and a failed one if f > 0.  *)
(* No failure is carried into a second without connections, and the        *)
(* connections that the client resets count as successful.                 *)
(***************************************************************************)
PlusSecond(t, s, f) ==
  LET hasFailed == IF f > 0 THEN 1 ELSE 0 IN
  [active        |-> t.active + 1,
   failed        |-> t.failed + hasFailed,
   active_failed |-> t.active_failed + hasFailed,
   successful    |-> t.successful + s,
   rejected      |-> t.rejected + f,
   rejected_by_client |-> t.rejected_by_client]

TotalsOf(ck) == IF ck \in DOMAIN totals THEN totals[ck] ELSE Zero

Annotate(ck) ==
  LET s == totals'[ck].successful - TotalsOf(ck).successful
      f == totals'[ck].rejected - TotalsOf(ck).rejected
  IN
  /\ ck \notin annotated
  /\ annotated' = annotated \cup {ck}
  /\ DOMAIN totals' = DOMAIN totals \cup {ck}
  /\ s >= 0 /\ f >= 0 /\ s + f > 0
  /\ totals' = [k \in DOMAIN totals \cup {ck} |->
                  IF k = ck THEN PlusSecond(TotalsOf(ck), s, f) ELSE totals[k]]
  /\ UNCHANGED elapsed

NextSecond ==
  /\ elapsed' = elapsed + 1
  /\ annotated' = {}
  /\ UNCHANGED totals

(* The process has ended and starts again, with all its counters at zero.  *)
StartAgain ==
  /\ elapsed' = 0
  /\ annotated' = {}
  /\ totals' = [ck \in {} |-> Zero]

SecondsNext == (\E ck \in ConnKey : Annotate(ck)) \/ NextSecond \/ StartAgain

SecondsSpec == SecondsInit /\ [][SecondsNext]_secondsVars
=============================================================================
