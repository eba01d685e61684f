------------------------------- MODULE Audit --------------------------------
(***************************************************************************)
(* Exporter with history variables that follow every connection from the   *)
(* SYN through the buckets to the counters. They are derived from the      *)
(* steps of Exporter, never read by them, and no code corresponds to them. *)
(***************************************************************************)
EXTENDS Exporter, Functions

VARIABLES
  opened,     \* number of frames whose SYN has been stored
  opening,    \* CPUs whose current frame is one of them
  carried,    \* tuple -> the frames with data since then, each counted once
  closers,    \* number of frames that counted a connection
  counting,   \* CPUs whose current frame has counted a connection
  calls,      \* ConnKey -> calls of add_connection_to_stats, by outcome
  ledger,     \* the same by tick and ConnKey, for the ticks not annotated yet
  stamps      \* bucket -> clock values of the writes it holds

auditVars == <<opened, opening, carried, closers, counting, calls, ledger, stamps>>

CallsOf(ck) == IF ck \in DOMAIN calls THEN calls[ck] ELSE NoStats

CallsAt(tick, ck) ==
  IF <<tick, ck>> \in DOMAIN ledger THEN ledger[<<tick, ck>>] ELSE NoStats

(* The tick whose bucket TrackConnections drains: the oldest one kept.     *)
oldestTick == currentTickerClock + 1 - STATS_SECONDS_COUNT

NoTraffic == [packets |-> 0, bytes |-> 0]

AuditInit ==
  /\ Init
  /\ opened = 0 /\ opening = {} /\ carried = EmptyMap /\ closers = 0 /\ counting = {}
  /\ calls = EmptyMap /\ ledger = EmptyMap /\ stamps = [b \in Buckets |-> {}]

-----------------------------------------------------------------------------
(* The CPUs that make a step from one label to another in this transition. *)
Moving(from, to) == {c \in CPUs : cpu[c].pc \in from /\ cpu'[c].pc \in to}

Stored(c) == c \in Moving({"syn"}, {"lookup"}) /\ KeyOf(cpu[c].pkt) \in DOMAIN connections'

Carrying(c) == c \in Moving({"bytes"}, Labels \ {"bytes"})

LastCopy(c) == cpu[c].left = 0

(* What a tuple has carried after a step of a CPU that is in its frame.    *)
CarriedAfter(c) ==
  LET key == KeyOf(cpu[c].pkt) IN
  IF Stored(c) THEN MapPut(carried, key, NoTraffic)
  ELSE MapPut(carried, key, [packets |-> carried[key].packets + 1,
                             bytes   |-> carried[key].bytes + cpu[c].pkt.len])

Calling  == Moving({"psh", "rst", "fin"}, {"stats_clock"})
Clocking == Moving({"stats_clock"}, {"stats_find"})
Writing  == Moving({"stats_add", "stats_insert"}, {"stats_delete"})

(* The CPU that reads the clock for a call of add_connection_to_stats.     *)
Caller == CHOOSE c \in Clocking : TRUE

AuditStep ==
  /\ opened' = opened + Cardinality({c \in CPUs : Stored(c)} \ opening)
  /\ opening' = {c \in CPUs : (c \in opening \/ Stored(c)) /\ ~NoFrame(c)'}
  /\ carried' = IF \E c \in CPUs : Stored(c) \/ (Carrying(c) /\ LastCopy(c))
                THEN CarriedAfter(CHOOSE c \in CPUs : Stored(c) \/ Carrying(c))
                ELSE carried
  /\ closers' = closers + Cardinality(Calling \ counting)
  /\ counting' = {c \in CPUs : (c \in counting \/ c \in Calling) /\ ~NoFrame(c)'}
  /\ calls' = IF Clocking = {} THEN calls
              ELSE LET ck == elem[cpu[Caller].conn].id
                   IN  MapPut(calls, ck, AddOne(CallsOf(ck), cpu[Caller].success))
  /\ ledger' = IF Clocking # {}
               THEN LET ck == elem[cpu[Caller].conn].id
                    IN  MapPut(ledger, <<ticker_clock, ck>>,
                               AddOne(CallsAt(ticker_clock, ck), cpu[Caller].success))
               ELSE IF currentTickerClock' # currentTickerClock
               THEN MapRestrict(ledger, {e \in DOMAIN ledger : e[1] # oldestTick})
               ELSE ledger
  /\ stamps' = [b \in Buckets |->
       IF stats'[b] = EmptyMap THEN {}
       ELSE stamps[b] \cup {cpu[c].clock : c \in {x \in Writing : bucketOf(x) = b}}]

AuditReset ==
  /\ opened' = 0 /\ opening' = {} /\ carried' = EmptyMap /\ closers' = 0 /\ counting' = {}
  /\ calls' = EmptyMap /\ ledger' = EmptyMap /\ stamps' = [b \in Buckets |-> {}]

AuditNext ==
  /\ Next
  /\ IF Alive THEN AuditStep ELSE AuditReset

AuditSpec == AuditInit /\ [][AuditNext]_<<vars, auditVars>>

-----------------------------------------------------------------------------
(***************************************************************************)
(* Where the calls of add_connection_to_stats for a ConnKey are: in a run  *)
(* of the filter that has read the clock, in a bucket, in the copy of the  *)
(* bucket that TrackConnections holds, in the Inc it sends, in the Inc     *)
(* being applied, in a counter.                                            *)
(***************************************************************************)
Outcomes == {"succeeded_connections", "failed_connections"}

KindOf(o) == IF o = "succeeded_connections" THEN "successful" ELSE "rejected"

(* The runs that have read the clock for a call and have not recorded it.  *)
Recording(o) ==
  {c \in CPUs :
    /\ cpu[c].pc \in {"stats_find", "stats_add", "stats_insert"}
    /\ cpu[c].success = (o = "succeeded_connections")}

InRuns(ck, o) == Cardinality({c \in Recording(o) : elem[cpu[c].conn].id = ck})

Copied(ck) ==
  \/ tpc = "cleanup" /\ ck \in DOMAIN statsValuesAtKey
  \/ tpc \in {"account", "send"} /\ ck \in todo

(* What has been copied and is about to be deleted counts in the copy.     *)
InBucket(b, ck, o) ==
  IF ck \in DOMAIN stats[b] /\ ~(tpc = "cleanup" /\ b = statsKey /\ Copied(ck))
  THEN stats[b][ck][o] ELSE 0

InBuckets(ck, o) == SumFunction([b \in Buckets |-> InBucket(b, ck, o)])

InCopy(ck, o) ==
  IF Copied(ck) /\ ck \in DOMAIN statsValuesAtKey THEN statsValuesAtKey[ck][o] ELSE 0

InInc(ck, o) == IF inc # Null /\ inc.key = ck THEN inc[KindOf(o)] ELSE 0

Kept(ck, o) ==
  InBuckets(ck, o) + InCopy(ck, o) + InInc(ck, o) + Total(KindOf(o), ck)

Places(ck, o) == InRuns(ck, o) + Kept(ck, o)

KnownKeys ==
  DOMAIN calls \cup (UNION {DOMAIN stats[b] : b \in Buckets}) \cup DOMAIN statsValuesAtKey
    \cup {i.key : i \in {inc, applying} \ {Null}}
    \cup (UNION {DOMAIN counters[kind] : kind \in Kinds})

(***************************************************************************)
(* With one CPU, no failing system call and room in the maps, every call   *)
(* of add_connection_to_stats is in exactly one place of the pipeline, and *)
(* so reaches its own counter exactly once: the hand-overs from the filter *)
(* to the bucket, to the copy that is made before the bucket is emptied,   *)
(* to the Inc and to the counters neither lose nor repeat one.             *)
(***************************************************************************)
NothingLost ==
  Alive => \A ck \in KnownKeys, o \in Outcomes : Places(ck, o) = CallsOf(ck)[o]

(***************************************************************************)
(* Whatever fails, and however the CPUs interleave, the pipeline never     *)
(* holds more than what the filter has decided to count: a bucket that is  *)
(* read and cleaned up in parts, or again after an error, adds nothing.    *)
(***************************************************************************)
NothingInvented ==
  Alive => \A o \in Outcomes :
    Cardinality(Recording(o)) + SumFunction([ck \in KnownKeys |-> Kept(ck, o)])
      <= SumFunction([ck \in KnownKeys |-> CallsOf(ck)[o]])

(***************************************************************************)
(* A bucket only ever holds the connections of one tick, the one it is     *)
(* named after, and is emptied STATS_SECONDS_COUNT - 1 ticks after it:     *)
(* before the filter comes round to it again.                              *)
(***************************************************************************)
OneTickPerBucket ==
  \A b \in Buckets : \A t \in stamps[b] :
    /\ stamps[b] = {t}
    /\ t % STATS_SECONDS_COUNT = b
    /\ currentTickerClock - t <= STATS_SECONDS_COUNT - 1
    /\ tpc \in {"account", "send", "advance"} =>
         currentTickerClock - t < STATS_SECONDS_COUNT - 1

(***************************************************************************)
(* With one CPU and a stats map that can be read, the annotation of a tick *)
(* is exact: the connections of a ConnKey that it reports are those the    *)
(* filter counted at that tick, STATS_SECONDS_COUNT - 1 ticks before, no   *)
(* other tick's and none twice, and a ConnKey with connections is only     *)
(* left out when MAX_SERVER_COUNT others have filled the bucket.           *)
(***************************************************************************)
SecondsExact ==
  /\ tpc = "send" =>
       LET counted == CallsAt(oldestTick, inc.key) IN
       /\ inc.successful = counted.succeeded_connections
       /\ inc.rejected = counted.failed_connections
  /\ tpc = "account" =>
       \A ck \in ConnKey :
         CallsAt(oldestTick, ck) = NoStats \/ ck \in sniSet
           \/ ~(Cardinality(sniSet) < MAX_SERVER_COUNT)

(***************************************************************************)
(* With one CPU, a connection is counted by one frame, however many of the *)
(* sockets see the frame and whatever fails: counting it takes it out of   *)
(* the connections map, and what comes after finds nothing.                *)
(***************************************************************************)
CountedByOnePacket == closers <= opened

(***************************************************************************)
(* types.h: CONN_MIN_NUM_OF_PACKETS and CONN_MIN_DATA_BYTES are the minimum *)
(* number of packets and of data bytes "that should be sent/received" for  *)
(* a connection "in order to treat the connection as successful". With one *)
(* CPU, a connection that is called successful while it is open has        *)
(* carried more than one of them, on the wire and since its own SYN.       *)
(***************************************************************************)
SuccessByTraffic ==
  \A c \in CPUs :
    cpu[c].pc = "stats_clock" /\ cpu[c].ret = "bytes" =>
      LET traffic == carried[KeyOf(cpu[c].pkt)] IN
      \/ traffic.packets > CONN_MIN_NUM_OF_PACKETS
      \/ traffic.bytes > CONN_MIN_DATA_BYTES

(***************************************************************************)
(* With one CPU, a connection is counted under the addresses of its own    *)
(* endpoints and under a name its own client has sent (or under none), even *)
(* though tuples, and the elements of full maps, are used again.           *)
(***************************************************************************)
Attribution ==
  \A ck \in DOMAIN calls :
    \E p \in Packets :
      /\ KeyOf(p).source.ip = ck.sourceIP /\ KeyOf(p).dest.ip = ck.destIP
      /\ ck.sni \in {NoSni, p.parse_sni}

(***************************************************************************)
(* README.md: "any failed connection attempt by a user will be reported as *)
(* a failed second". Once a failure has been counted for a ConnKey, some   *)
(* failure of it is in the pipeline or in its counter.                     *)
(***************************************************************************)
FailuresKept ==
  Alive => \A ck \in DOMAIN calls :
    calls[ck].failed_connections > 0 => Places(ck, "failed_connections") > 0
=============================================================================
