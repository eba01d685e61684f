--------------------------- MODULE Exporter_proofs --------------------------
(***************************************************************************)
(* Theorems about Exporter, for any traffic, any number of CPUs, buckets   *)
(* and map entries, and any of the faults: the types, the bucket that is   *)
(* drained, and how long an entry may stay in the connections map. Last,   *)
(* when there is one CPU, whose entry the element is that a run of the     *)
(* filter holds.                                                           *)
(***************************************************************************)
EXTENDS Exporter, FiniteSetTheorems, TLAPS

-----------------------------------------------------------------------------
(* Partial functions.                                                      *)

(* The empty map has every map type.                                       *)
LEMMA EmptyMapType ==
  ASSUME NEW K, NEW V
  PROVE  IsMap(EmptyMap, K, V) /\ DOMAIN EmptyMap = {}
BY DEF IsMap, EmptyMap

(* Putting a key keeps the type of a map, and adds the key.                *)
LEMMA MapPutType ==
  ASSUME NEW K, NEW V, NEW m, IsMap(m, K, V), NEW k \in K, NEW v \in V
  PROVE  /\ IsMap(MapPut(m, k, v), K, V)
         /\ DOMAIN MapPut(m, k, v) = DOMAIN m \cup {k}
BY DEF IsMap, MapPut

(* Deleting a key keeps the type of a map.                                 *)
LEMMA MapDeleteType ==
  ASSUME NEW K, NEW V, NEW m, IsMap(m, K, V), NEW k
  PROVE  IsMap(MapDelete(m, k), K, V) /\ DOMAIN MapDelete(m, k) = DOMAIN m \ {k}
BY DEF IsMap, MapDelete

(* Restricting a map to some of its keys keeps its type.                   *)
LEMMA MapRestrictType ==
  ASSUME NEW K, NEW V, NEW m, IsMap(m, K, V), NEW D, D \subseteq DOMAIN m
  PROVE  IsMap(MapRestrict(m, D), K, V) /\ DOMAIN MapRestrict(m, D) = D
BY DEF IsMap, MapRestrict

(* An update of a bucket, refused or not, keeps its type.                  *)
LEMMA BucketUpdateType ==
  ASSUME NEW K, NEW V, NEW m, IsMap(m, K, V), NEW k \in K, NEW v \in V
  PROVE  IsMap(BucketUpdate(m, k, v), K, V)
BY MapPutType DEF BucketUpdate

(* It puts the key unless it is new and the bucket is full.                *)
LEMMA BucketUpdateCases ==
  ASSUME NEW m, NEW k, NEW v
  PROVE  /\ k \in DOMAIN m \/ Cardinality(DOMAIN m) < MAX_SERVER_COUNT =>
              BucketUpdate(m, k, v) = MapPut(m, k, v)
         /\ k \notin DOMAIN m /\ ~(Cardinality(DOMAIN m) < MAX_SERVER_COUNT) =>
              BucketUpdate(m, k, v) = m
BY Zenon DEF BucketUpdate

-----------------------------------------------------------------------------
(* Arithmetic.                                                             *)

(* Two numbers less than n apart are in different residue classes of n:    *)
(* the reason why the drained bucket is not one being written.             *)
LEMMA ResiduesDiffer ==
  ASSUME NEW n \in Nat \ {0}, NEW a \in Int, NEW b \in Int, b < a, a - b < n
  PROVE  a % n # b % n
<1> SUFFICES ASSUME a % n = b % n PROVE FALSE
  OBVIOUS
<1> DEFINE p == a \div n
           q == b \div n
           r == a % n
<1>1. p \in Int /\ q \in Int /\ r \in 0 .. n - 1 /\ a = n * p + r /\ b = n * q + r
  OBVIOUS
<1> HIDE DEF p, q, r
<1>2. a - b = n * (p - q)
  BY <1>1
<1>3. CASE p - q >= 1
  <2>1. n * (p - q) >= n
    BY <1>1, <1>3
  <2> QED
    BY <2>1, <1>2
<1>4. CASE p - q <= 0
  <2>1. n * (p - q) <= 0
    BY <1>1, <1>4
  <2> QED
    BY <2>1, <1>2
<1> QED
  BY <1>1, <1>3, <1>4

(* A number and the one n before it are in the same residue class: the     *)
(* bucket being drained is the one of the oldest tick kept.                *)
LEMMA ResiduesAgree ==
  ASSUME NEW n \in Nat \ {0}, NEW a \in Int
  PROVE  (a - n) % n = a % n
<1> DEFINE p == a \div n
           r == a % n
           q == (a - n) \div n
           t == (a - n) % n
<1>1. /\ p \in Int /\ r \in 0 .. n - 1 /\ a = n * p + r
      /\ q \in Int /\ t \in 0 .. n - 1 /\ a - n = n * q + t
  OBVIOUS
<1> HIDE DEF p, q, r, t
<1>2. r - t = n * (1 + q - p)
  BY <1>1
<1>3. CASE 1 + q - p >= 1
  <2>1. n * (1 + q - p) >= n
    BY <1>1, <1>3
  <2> QED
    BY <2>1, <1>1, <1>2
<1>4. CASE 1 + q - p <= -1
  <2>1. n * (1 + q - p) <= -n
    BY <1>1, <1>4
  <2> QED
    BY <2>1, <1>1, <1>2
<1>5. CASE 1 + q - p = 0
  BY <1>1, <1>2, <1>5 DEF r, t
<1> QED
  BY <1>1, <1>3, <1>4, <1>5

-----------------------------------------------------------------------------
(* Types.                                                                  *)

(* What a frame is turned into has the type of the maps it goes to.        *)
LEMMA PacketTypes ==
  ASSUME NEW p \in Packets
  PROVE  /\ p \in Packet
         /\ KeyOf(p) \in tuple_key_t
         /\ \A clock \in Nat : NewTupleData(p, clock) \in tuple_data_t
         /\ FromFin(p) \in Labels /\ FromRst(p) \in Labels
         /\ FromPsh(p) \in Labels /\ FromSynAck(p) \in Labels
         /\ FromSynAck(p) \notin {"syn", "lookup", "stats_add"}
         /\ FromPsh(p) \notin {"syn", "lookup", "stats_add"}
         /\ FromRst(p) \notin {"syn", "lookup", "stats_add"}
         /\ FromFin(p) \in {"fin", "idle"}
<1>1. p \in Packet
  BY PacketsAssumption
<1>2. KeyOf(p) \in tuple_key_t
  BY <1>1 DEF Packet, KeyOf, tuple_key_t
<1>3. ASSUME NEW clock \in Nat
      PROVE  NewTupleData(p, clock) \in tuple_data_t
  BY <1>2, SniAssumption
     DEF NewTupleData, IdOf, tuple_data_t, tuple_key_t, Endpoint, ConnKey, connState, SYN_RECEIVED
<1>4. /\ FromFin(p) \in Labels /\ FromRst(p) \in Labels
      /\ FromPsh(p) \in Labels /\ FromSynAck(p) \in Labels
      /\ FromSynAck(p) \notin {"syn", "lookup", "stats_add"}
      /\ FromPsh(p) \notin {"syn", "lookup", "stats_add"}
      /\ FromRst(p) \notin {"syn", "lookup", "stats_add"}
      /\ FromFin(p) \in {"fin", "idle"}
  BY DEF FromFin, FromRst, FromPsh, FromSynAck, Labels
<1> QED
  BY <1>1, <1>2, <1>3, <1>4

(* Adding one to an entry of a bucket keeps its type.                      *)
LEMMA AddOneType ==
  ASSUME NEW s \in sni_stats_t, NEW success \in BOOLEAN
  PROVE  AddOne(s, success) \in sni_stats_t
BY DEF AddOne, sni_stats_t

(* So does counting a segment for a connection.                            *)
LEMMA CarriedType ==
  ASSUME NEW d \in tuple_data_t, NEW len \in Nat
  PROVE  Carried(d, len) \in tuple_data_t
<1> DEFINE n == d.num_packets + 1
           t == d.total_data_bytes + (len % 65536)
<1>1. n \in Nat /\ t \in Nat
  BY DEF tuple_data_t
<1> HIDE DEF n, t
<1>2. [d EXCEPT !.num_packets = n, !.total_data_bytes = t] \in tuple_data_t
  BY <1>1 DEF tuple_data_t
<1> QED
  BY <1>2 DEF Carried, n, t

(* The initial state, and the one after a restart, are well typed.         *)
LEMMA InitType == Init => TypeOK
<1> SUFFICES ASSUME Init PROVE TypeOK
  OBVIOUS
<1> USE DEF Init
<1>1. MapsTypeOK
  BY EmptyMapType, Z3 DEF MapsInit, MapsTypeOK
<1>2. CaptureTypeOK
  BY DEF CaptureInit, CaptureTypeOK, RunOK, Run, IdleRun, Labels
<1>3. TrackTypeOK
  BY EmptyMapType DEF TrackInit, TrackTypeOK, TrackLabels
<1>4. MetricsTypeOK
  BY EmptyMapType DEF MetricsInit, MetricsTypeOK
<1> QED
  BY <1>1, <1>2, <1>3, <1>4 DEF TypeOK

(* A step of one CPU that leaves it in a well-formed run, and takes no     *)
(* element away, preserves the type of the filter's state.                 *)
LEMMA RunUpdate ==
  ASSUME CaptureTypeOK, NEW c \in CPUs, NEW r \in Run, RunOK(r, DOMAIN elem'),
         cpu' = [cpu EXCEPT ![c] = r],
         DOMAIN elem \subseteq DOMAIN elem', seen' \in Nat
  PROVE  CaptureTypeOK'
<1>1. cpu' \in [CPUs -> Run]
  BY DEF CaptureTypeOK
<1>2. ASSUME NEW d \in CPUs
      PROVE  RunOK(cpu'[d], DOMAIN elem')
  <2>1. CASE d = c
    BY <2>1 DEF CaptureTypeOK, RunOK
  <2>2. CASE d # c
    BY <2>2 DEF CaptureTypeOK, RunOK
  <2> QED
    BY <2>1, <2>2
<1> QED
  BY <1>1, <1>2 DEF CaptureTypeOK

(* The filter returns.                                                     *)
LEMMA EndOfRunType ==
  ASSUME NEW r \in Run, NEW elements, NEW others, RunOK(r, elements)
  PROVE  /\ EndOfRun(r) \in Run /\ RunOK(EndOfRun(r), others)
         /\ EndOfRun(r).pc = "idle"
<1>1. CASE r.left = 0
  BY <1>1 DEF EndOfRun, IdleRun, Run, RunOK, Labels
<1>2. CASE r.left # 0
  <2>1. r.pkt \in Packets /\ r.left \in Nat
    BY <1>2 DEF RunOK, Run
  <2> QED
    BY <1>2, <2>1 DEF EndOfRun, IdleRun, Run, RunOK, Labels
<1> QED
  BY <1>1, <1>2

(* The filter starts on a frame.                                           *)
LEMMA StartType ==
  ASSUME MapsTypeOK, CaptureTypeOK, NEW c \in CPUs, NEW p \in Packets, NEW left \in Nat,
         Start(c, p, left)
  PROVE  MapsTypeOK' /\ CaptureTypeOK'
<1> DEFINE r == IF p.syn /\ ~p.ack
                THEN [IdleRun EXCEPT !.pc = "syn", !.pkt = p, !.left = left, !.clock = ticker_clock]
                ELSE [IdleRun EXCEPT !.pc = "lookup", !.pkt = p, !.left = left]
<1>1. MapsTypeOK' /\ elem' = elem
  BY DEF Start, MapsTypeOK, mapVars
<1>2. r \in Run /\ RunOK(r, DOMAIN elem')
  BY DEF MapsTypeOK, Run, RunOK, IdleRun, Labels
<1>3. cpu' = [cpu EXCEPT ![c] = r] /\ seen' \in Nat
  BY DEF Start, CaptureTypeOK
<1> QED
  BY <1>1, <1>2, <1>3, RunUpdate

(* Goto, from a label at which the connection has been found.              *)
LEMMA GotoType ==
  ASSUME CaptureTypeOK, NEW c \in CPUs, NEW label \in Labels,
         label \notin {"syn", "lookup", "stats_add"},
         cpu[c].pc \notin {"idle", "syn", "lookup"}, Goto(c, label),
         DOMAIN elem \subseteq DOMAIN elem', seen' = seen
  PROVE  CaptureTypeOK'
<1> DEFINE r == IF label = "idle" THEN EndOfRun(cpu[c]) ELSE [cpu[c] EXCEPT !.pc = label]
<1>1. cpu[c] \in Run /\ RunOK(cpu[c], DOMAIN elem)
  BY DEF CaptureTypeOK
<1>2. r \in Run
  BY <1>1, EndOfRunType DEF Run, Labels
<1>3. RunOK(r, DOMAIN elem')
  <2>1. CASE label = "idle"
    BY <1>1, <2>1, EndOfRunType
  <2>2. CASE label # "idle"
    BY <1>1, <2>2 DEF RunOK, Run
  <2> QED
    BY <2>1, <2>2
<1>4. cpu' = [cpu EXCEPT ![c] = r]
  BY DEF Goto, CaptureTypeOK
<1> QED
  BY <1>2, <1>3, <1>4, RunUpdate DEF CaptureTypeOK

(* The call of add_connection_to_stats, from such a label.                 *)
LEMMA CallType ==
  ASSUME CaptureTypeOK, NEW c \in CPUs, NEW success \in BOOLEAN,
         NEW ret \in {"idle", "bytes", "fin"},
         cpu[c].pc \notin {"idle", "syn", "lookup"}, Call(c, success, ret),
         DOMAIN elem \subseteq DOMAIN elem', seen' = seen
  PROVE  CaptureTypeOK'
<1> DEFINE r == [cpu[c] EXCEPT !.pc = "stats_clock", !.success = success, !.ret = ret]
<1>1. cpu[c] \in Run /\ RunOK(cpu[c], DOMAIN elem)
  BY DEF CaptureTypeOK
<1>2. r \in Run
  BY <1>1 DEF Run, Labels
<1>3. RunOK(r, DOMAIN elem')
  BY <1>1 DEF RunOK, Run
<1>4. cpu' = [cpu EXCEPT ![c] = r]
  BY DEF Call, CaptureTypeOK
<1> QED
  BY <1>2, <1>3, <1>4, RunUpdate DEF CaptureTypeOK

(* Writing through the pointer into `connections'.                         *)
LEMMA ElemUpdate ==
  ASSUME MapsTypeOK, NEW s \in DOMAIN elem, NEW d \in tuple_data_t,
         elem' = [elem EXCEPT ![s] = d],
         UNCHANGED <<connections, stats, ticker_clock>>
  PROVE  MapsTypeOK' /\ DOMAIN elem' = DOMAIN elem
BY DEF MapsTypeOK, IsMap

(* Writing to one bucket.                                                  *)
LEMMA StatsUpdate ==
  ASSUME MapsTypeOK, NEW b \in Buckets, NEW m, IsMap(m, ConnKey, sni_stats_t),
         stats' = [stats EXCEPT ![b] = m],
         UNCHANGED <<connections, elem, ticker_clock>>
  PROVE  MapsTypeOK'
<1>1. stats' = [x \in Buckets |-> stats'[x]]
  BY DEF MapsTypeOK
<1>2. ASSUME NEW x \in Buckets
      PROVE  IsMap(stats'[x], ConnKey, sni_stats_t)
  BY DEF MapsTypeOK
<1> QED
  BY <1>1, <1>2 DEF MapsTypeOK, IsMap

(* Every step of a run of the filter preserves the types of its own state  *)
(* and of the maps.                                                        *)
LEMMA CpuStepType ==
  ASSUME MapsTypeOK, CaptureTypeOK, NEW c \in CPUs, CpuStep(c)
  PROVE  MapsTypeOK' /\ CaptureTypeOK'
<1> DEFINE p == cpu[c].pkt
           conn == cpu[c].conn
<1>0. cpu[c] \in Run /\ RunOK(cpu[c], DOMAIN elem) /\ seen \in Nat
  BY DEF CaptureTypeOK
<1>b. bucketOf(c) \in Buckets
  BY <1>0, StatsSecondsAssumption DEF bucketOf, Run, Buckets
<1>d. ASSUME cpu[c].pc \notin {"idle", "syn", "lookup"}
      PROVE  p \in Packets /\ conn \in DOMAIN elem /\ elem[conn] \in tuple_data_t
  BY <1>0, <1>d DEF RunOK, MapsTypeOK, IsMap
<1>1. CASE NewConnection(c)
  <2> DEFINE d == NewTupleData(p, cpu[c].clock)
             key == KeyOf(p)
  <2>1. p \in Packets /\ key \in tuple_key_t /\ d \in tuple_data_t
    BY <1>0, <1>1, PacketTypes DEF NewConnection, RunOK, Run
  <2> HIDE DEF d, key
  <2>2. MapsTypeOK' /\ DOMAIN elem \subseteq DOMAIN elem'
    <3>1. CASE \E s \in FreeSlots : /\ elem' = MapPut(elem, s, d)
                                    /\ connections' = MapPut(connections, key, s)
      <4>1. PICK s \in FreeSlots : /\ elem' = MapPut(elem, s, d)
                                  /\ connections' = MapPut(connections, key, s)
        BY <3>1
      <4>a. s \in Slots
        BY DEF FreeSlots
      <4>b. IsMap(elem, Slots, tuple_data_t)
        BY DEF MapsTypeOK
      <4>2. IsMap(elem', Slots, tuple_data_t) /\ DOMAIN elem' = DOMAIN elem \cup {s}
        <5>1. d \in tuple_data_t
          BY <2>1
        <5>2. /\ IsMap(MapPut(elem, s, d), Slots, tuple_data_t)
              /\ DOMAIN MapPut(elem, s, d) = DOMAIN elem \cup {s}
          BY <4>a, <4>b, <5>1, MapPutType
        <5> QED
          BY <4>1, <5>2
      <4>3. IsMap(connections, tuple_key_t, DOMAIN elem')
        BY <4>2 DEF MapsTypeOK, IsMap
      <4>4. IsMap(connections', tuple_key_t, DOMAIN elem')
        BY <4>1, <4>2, <4>3, <2>1, MapPutType
      <4> QED
        BY <4>2, <4>4, <1>1 DEF MapsTypeOK, NewConnection
    <3>2. CASE UNCHANGED <<elem, connections>>
      BY <3>2, <1>1 DEF MapsTypeOK, NewConnection
    <3> QED
      BY <3>1, <3>2, <1>1 DEF NewConnection, ConnectionsUpdate, d, key
  <2>3. CaptureTypeOK'
    <3> DEFINE r == [cpu[c] EXCEPT !.pc = "lookup", !.clock = 0]
    <3>1. r \in Run /\ RunOK(r, DOMAIN elem')
      BY <1>0, <2>1 DEF Run, RunOK, Labels
    <3>2. cpu' = [cpu EXCEPT ![c] = r] /\ seen' \in Nat
      BY <1>0, <1>1 DEF NewConnection, CaptureTypeOK
    <3> QED
      BY <2>2, <3>1, <3>2, RunUpdate
  <2> QED
    BY <2>2, <2>3
<1>2. CASE Lookup(c)
  <2>1. MapsTypeOK' /\ elem' = elem
    BY <1>2 DEF Lookup, MapsTypeOK, mapVars
  <2> DEFINE found == Find(KeyOf(p))
             next == FromSynAck(p)
             r == IF Found(found) /\ next # "idle"
                  THEN [cpu[c] EXCEPT !.pc = next, !.conn = found]
                  ELSE EndOfRun(cpu[c])
  <2>2. p \in Packets
    BY <1>0, <1>2 DEF Lookup, RunOK
  <2>3. next \in Labels /\ next \notin {"syn", "lookup", "stats_add"}
    BY <2>2, PacketTypes
  <2>4. Found(found) => found \in DOMAIN elem /\ found \in Slots
    BY DEF Found, Find, MapsTypeOK, IsMap
  <2> HIDE DEF found, next
  <2>5. r \in Run
    BY <1>0, <2>3, <2>4, EndOfRunType DEF Run
  <2>6. RunOK(r, DOMAIN elem')
    <3>1. CASE Found(found) /\ next # "idle"
      BY <1>0, <2>1, <2>2, <2>3, <2>4, <3>1 DEF Run, RunOK
    <3>2. CASE ~(Found(found) /\ next # "idle")
      BY <1>0, <3>2, EndOfRunType
    <3> QED
      BY <3>1, <3>2
  <2>7. cpu' = [cpu EXCEPT ![c] = r] /\ seen' \in Nat
    BY <1>0, <1>2 DEF Lookup, CaptureTypeOK, Bit, found, next
  <2> QED
    BY <2>1, <2>5, <2>6, <2>7, RunUpdate
<1>3. CASE SynAck(c)
  <2>1. p \in Packets /\ conn \in DOMAIN elem /\ elem[conn] \in tuple_data_t
    BY <1>3, <1>d DEF SynAck
  <2>2. [elem[conn] EXCEPT !.state = SYNACK_RECEIVED] \in tuple_data_t
    BY <2>1 DEF tuple_data_t, connState
  <2>3. MapsTypeOK' /\ DOMAIN elem' = DOMAIN elem
    BY <1>3, <2>1, <2>2, ElemUpdate DEF SynAck
  <2>4. FromPsh(p) \in Labels /\ FromPsh(p) \notin {"syn", "lookup", "stats_add"}
    BY <2>1, PacketTypes
  <2> QED
    BY <1>3, <2>3, <2>4, GotoType DEF SynAck
<1>4. CASE Psh(c)
  <2>1. p \in Packets /\ conn \in DOMAIN elem /\ elem[conn] \in tuple_data_t
    BY <1>4, <1>d DEF Psh
  <2>2. CASE UNCHANGED elem
    <3>1. MapsTypeOK'
      BY <1>4, <2>2 DEF Psh, MapsTypeOK
    <3>2. Call(c, TRUE, "bytes") \/ Goto(c, "bytes")
      BY <1>4 DEF Psh
    <3>3. cpu[c].pc \notin {"idle", "syn", "lookup"} /\ seen' = seen
      BY <1>4 DEF Psh
    <3>4. CaptureTypeOK'
      BY <2>2, <3>2, <3>3, GotoType, CallType DEF Labels
    <3> QED
      BY <3>1, <3>4
  <2>3. CASE elem' # elem
    <3> DEFINE sni == Overlay(elem[conn].id.sni, p.parse_sni)
               d == [elem[conn] EXCEPT !.id.sni = sni, !.state = SNI_RECEIVED]
    <3>1. sni \in Sni
      BY <2>1, PacketTypes, SniAssumption DEF Packet, tuple_data_t, ConnKey
    <3> HIDE DEF sni
    <3>2. d \in tuple_data_t
      BY <2>1, <3>1 DEF tuple_data_t, ConnKey, connState
    <3>3. elem' = [elem EXCEPT ![conn] = d] /\ Goto(c, "bytes")
      BY <1>4, <2>3, <2>1 DEF Psh, sni, MapsTypeOK, IsMap
    <3>4. MapsTypeOK' /\ DOMAIN elem' = DOMAIN elem
      BY <1>4, <2>1, <3>2, <3>3, ElemUpdate DEF Psh
    <3> QED
      BY <1>4, <3>3, <3>4, GotoType DEF Psh, Labels
  <2> QED
    BY <2>2, <2>3
<1>5. CASE Bytes(c)
  <2>1. p \in Packets /\ conn \in DOMAIN elem /\ elem[conn] \in tuple_data_t
    BY <1>5, <1>d DEF Bytes
  <2>2. p.len \in Nat
    BY <2>1, PacketTypes DEF Packet
  <2>3. Carried(elem[conn], p.len) \in tuple_data_t
    BY <2>1, <2>2, CarriedType
  <2>4. elem' = [elem EXCEPT ![conn] = Carried(elem[conn], p.len)]
    BY <1>5 DEF Bytes
  <2>5. MapsTypeOK' /\ DOMAIN elem' = DOMAIN elem
    BY <1>5, <2>1, <2>3, <2>4, ElemUpdate DEF Bytes
  <2>6. FromRst(p) \in Labels /\ FromRst(p) \notin {"syn", "lookup", "stats_add"}
    BY <2>1, PacketTypes
  <2> QED
    BY <1>5, <2>5, <2>6, GotoType DEF Bytes
<1>6. CASE Rst(c)
  <2>1. p \in Packets /\ conn \in DOMAIN elem /\ elem[conn] \in tuple_data_t
    BY <1>6, <1>d DEF Rst
  <2> DEFINE state == IF server_to_client(p) THEN RST_SENT_BY_SERVER ELSE RST_SENT_BY_CLIENT
  <2>2. [elem[conn] EXCEPT !.state = state] \in tuple_data_t
    BY <2>1 DEF tuple_data_t, connState
  <2>3. MapsTypeOK' /\ DOMAIN elem' = DOMAIN elem
    BY <1>6, <2>1, <2>2, ElemUpdate DEF Rst
  <2>4. FromFin(p) \in {"idle", "bytes", "fin"} /\ (~server_to_client(p)) \in BOOLEAN
    BY <2>1, PacketTypes DEF server_to_client
  <2> QED
    BY <1>6, <2>3, <2>4, CallType DEF Rst
<1>7. CASE Fin(c)
  <2>1. p \in Packets /\ conn \in DOMAIN elem /\ elem[conn] \in tuple_data_t
    BY <1>7, <1>d DEF Fin
  <2>2. [elem[conn] EXCEPT !.state = FIN_RECEIVED] \in tuple_data_t
    BY <2>1 DEF tuple_data_t, connState
  <2>3. MapsTypeOK' /\ DOMAIN elem' = DOMAIN elem
    BY <1>7, <2>1, <2>2, ElemUpdate DEF Fin
  <2> QED
    BY <1>7, <2>3, CallType DEF Fin
<1>8. CASE StatsClock(c)
  <2> DEFINE r == [cpu[c] EXCEPT !.pc = "stats_find", !.clock = ticker_clock]
  <2>1. MapsTypeOK' /\ elem' = elem
    BY <1>8 DEF StatsClock, MapsTypeOK, mapVars
  <2>2. r \in Run /\ RunOK(r, DOMAIN elem')
    BY <1>0, <1>8, <2>1 DEF StatsClock, MapsTypeOK, Run, RunOK, Labels
  <2>3. cpu' = [cpu EXCEPT ![c] = r] /\ seen' \in Nat
    BY <1>0, <1>8 DEF StatsClock, CaptureTypeOK
  <2> QED
    BY <2>1, <2>2, <2>3, RunUpdate
<1>9. CASE StatsFind(c)
  <2> DEFINE id == elem[conn].id
             r == IF id \in DOMAIN stats[bucketOf(c)]
                  THEN [cpu[c] EXCEPT !.pc = "stats_add", !.entry = id]
                  ELSE [cpu[c] EXCEPT !.pc = "stats_insert"]
  <2>1. MapsTypeOK' /\ elem' = elem
    BY <1>9 DEF StatsFind, MapsTypeOK, mapVars
  <2>2. id \in ConnKey
    BY <1>9, <1>d DEF StatsFind, tuple_data_t
  <2> HIDE DEF id
  <2>3. r \in Run /\ RunOK(r, DOMAIN elem')
    BY <1>0, <1>9, <2>1, <2>2 DEF StatsFind, Run, RunOK, Labels
  <2>4. cpu' = [cpu EXCEPT ![c] = r] /\ seen' \in Nat
    BY <1>0, <1>9 DEF StatsFind, CaptureTypeOK, id
  <2> QED
    BY <2>1, <2>3, <2>4, RunUpdate
<1>10. CASE StatsAdd(c)
  <2> DEFINE b == bucketOf(c)
             k == cpu[c].entry
             r == [cpu[c] EXCEPT !.pc = "stats_delete", !.entry = Null, !.clock = 0]
  <2>1. MapsTypeOK'
    <3>1. CASE k \in DOMAIN stats[b]
      <4> DEFINE m == [stats[b] EXCEPT ![k] = AddOne(stats[b][k], cpu[c].success)]
      <4>1. stats[b][k] \in sni_stats_t /\ cpu[c].success \in BOOLEAN
        BY <1>0, <1>b, <3>1 DEF MapsTypeOK, IsMap, Run
      <4>2. AddOne(stats[b][k], cpu[c].success) \in sni_stats_t
        BY <4>1, AddOneType
      <4>3. IsMap(m, ConnKey, sni_stats_t)
        BY <1>b, <3>1, <4>2 DEF MapsTypeOK, IsMap
      <4>4. stats' = [stats EXCEPT ![b] = m]
        BY <1>10, <1>b, <3>1 DEF StatsAdd, MapsTypeOK, IsMap
      <4> HIDE DEF m, b
      <4> QED
        BY <1>10, <1>b, <4>3, <4>4, StatsUpdate DEF StatsAdd, b
    <3>2. CASE k \notin DOMAIN stats[b]
      BY <1>10, <3>2 DEF StatsAdd, MapsTypeOK
    <3> QED
      BY <3>1, <3>2
  <2>2. r \in Run /\ RunOK(r, DOMAIN elem')
    BY <1>0, <1>10 DEF StatsAdd, Run, RunOK, Labels
  <2>3. cpu' = [cpu EXCEPT ![c] = r] /\ seen' \in Nat /\ elem' = elem
    BY <1>0, <1>10 DEF StatsAdd, CaptureTypeOK
  <2> QED
    BY <2>1, <2>2, <2>3, RunUpdate
<1>11. CASE StatsInsert(c)
  <2> DEFINE v == NewStats(cpu[c].success)
             m == BucketUpdate(stats[bucketOf(c)], elem[conn].id, v)
             r == [cpu[c] EXCEPT !.pc = "stats_delete", !.clock = 0]
  <2>1. v \in sni_stats_t
    BY <1>0, AddOneType DEF Run, NewStats, NoStats, sni_stats_t
  <2>2. elem[conn].id \in ConnKey
    BY <1>11, <1>d DEF StatsInsert, tuple_data_t
  <2> HIDE DEF v
  <2>3. IsMap(m, ConnKey, sni_stats_t)
    BY <1>b, <2>1, <2>2, BucketUpdateType DEF MapsTypeOK
  <2>4. stats' = [stats EXCEPT ![bucketOf(c)] = m]
    BY <1>11, <1>b DEF StatsInsert, MapsTypeOK, v
  <2> HIDE DEF m
  <2>5. MapsTypeOK'
    BY <1>11, <1>b, <2>3, <2>4, StatsUpdate DEF StatsInsert
  <2>6. r \in Run /\ RunOK(r, DOMAIN elem')
    BY <1>0, <1>11 DEF StatsInsert, Run, RunOK, Labels
  <2>7. cpu' = [cpu EXCEPT ![c] = r] /\ seen' \in Nat /\ elem' = elem
    BY <1>0, <1>11 DEF StatsInsert, CaptureTypeOK
  <2> QED
    BY <2>5, <2>6, <2>7, RunUpdate
<1>12. CASE StatsDelete(c)
  <2>1. IsMap(connections', tuple_key_t, DOMAIN elem)
    BY <1>12, MapDeleteType DEF StatsDelete, MapsTypeOK
  <2>2. MapsTypeOK' /\ elem' = elem
    BY <1>12, <2>1 DEF StatsDelete, MapsTypeOK
  <2>3. cpu[c].ret \in Labels /\ cpu[c].ret \notin {"syn", "lookup", "stats_add"}
    BY <1>0 DEF RunOK, Labels
  <2> QED
    BY <1>12, <2>2, <2>3, GotoType DEF StatsDelete
<1>13. CASE NextSocket(c)
  <2>1. p \in Packets /\ cpu[c].left - 1 \in Nat
    BY <1>0, <1>13 DEF NextSocket, RunOK, Run
  <2> QED
    BY <1>13, <2>1, StartType DEF NextSocket
<1> QED
  BY <1>1, <1>2, <1>3, <1>4, <1>5, <1>6, <1>7, <1>8, <1>9, <1>10, <1>11, <1>12, <1>13
     DEF CpuStep

(* The arrival of a frame.                                                 *)
LEMMA DeliverType ==
  ASSUME MapsTypeOK, CaptureTypeOK, NEW c \in CPUs, Deliver(c)
  PROVE  MapsTypeOK' /\ CaptureTypeOK'
<1>1. PICK p \in Packets : Ignore(c, p) \/ Receive(c, p)
  BY DEF Deliver
<1>2. CASE Ignore(c, p)
  BY <1>2 DEF Ignore, mapVars, MapsTypeOK, CaptureTypeOK
<1>3. CASE Receive(c, p)
  <2>1. PICK n \in Copies : Start(c, p, n - 1)
    BY <1>3 DEF Receive
  <2>2. n - 1 \in Nat
    BY CopiesAssumption
  <2> QED
    BY <2>1, <2>2, StartType
<1> QED
  BY <1>1, <1>2, <1>3

-----------------------------------------------------------------------------
(* The goroutine TrackConnections.                                         *)

(***************************************************************************)
(* accountForConnections is only reached without old connections, because  *)
(* one of them makes the goroutine panic before. TypeOK is not inductive   *)
(* without this: the counts of stale connections are cardinalities.        *)
(***************************************************************************)
NoOldConnections ==
  tpc \in {"account", "send"} =>
    DOMAIN oldConnections = {} /\ todo \subseteq DOMAIN statsValuesAtKey

(* Without old connections, the increment is made of the two counts only.  *)
LEMMA AccountWithoutStale ==
  ASSUME NEW ck, NEW previous \in BOOLEAN, NEW stale, DOMAIN stale = {},
         NEW s \in Nat, NEW f \in Nat
  PROVE  accountForConnections(ck, previous, stale, s, f) =
           [key |-> ck, active |-> Bit(s > 0 \/ f > 0),
            failed |-> Bit((previous /\ ~(s > 0 \/ f > 0)) \/ f > 0),
            active_failed |-> Bit(f > 0),
            successful |-> s, rejected |-> f, rejected_by_client |-> 0]
<1>1. \A states : StaleIn(stale, states) = 0
  BY FS_EmptySet DEF StaleIn
<1>2. activeSecond(stale, s, f) <=> (s > 0 \/ f > 0)
  BY DEF activeSecond
<1>3. activeFailedSecond(stale, f) <=> f > 0
  BY DEF activeFailedSecond
<1>4. failedSecond(previous, stale, s, f) <=>
        ((previous /\ ~(s > 0 \/ f > 0)) \/ f > 0)
  BY <1>2, <1>3 DEF failedSecond
<1>b. /\ Bit(activeSecond(stale, s, f)) = Bit(s > 0 \/ f > 0)
      /\ Bit(failedSecond(previous, stale, s, f)) =
           Bit((previous /\ ~(s > 0 \/ f > 0)) \/ f > 0)
      /\ Bit(activeFailedSecond(stale, f)) = Bit(f > 0)
  BY <1>2, <1>3, <1>4 DEF Bit
<1>5. /\ StaleIn(stale, {SNI_RECEIVED}) + s = s
      /\ StaleIn(stale, {RST_SENT_BY_SERVER}) + f = f
      /\ StaleIn(stale, {RST_SENT_BY_CLIENT}) = 0
  BY <1>1
<1> QED
  BY <1>5, <1>b, Zenon DEF accountForConnections

(* The counts read from a copied bucket are numbers.                       *)
LEMMA CountsType ==
  ASSUME TrackTypeOK, NEW ck
  PROVE  /\ succeeded_connections(ck) \in Nat
         /\ failed_connections(ck) \in Nat
         /\ previousFailed(ck) \in BOOLEAN
BY DEF TrackTypeOK, IsMap, sni_stats_t, succeeded_connections, failed_connections,
       previousFailed

(* The end of a loop body leaves well-typed loop variables.                *)
LEMMA EndOfBodyType ==
  ASSUME TrackTypeOK, EndOfBody, now' \in Nat, ticks' \in {0, 1},
         currentTickerClock' \in Nat, UNCHANGED <<previousFailedSecond, snis>>
  PROVE  TrackTypeOK' /\ NoOldConnections'
BY EmptyMapType DEF TrackTypeOK, EndOfBody, TrackLabels, NoOldConnections

(* Every step of the goroutine by itself preserves the types.              *)
LEMMA TrackStepType ==
  ASSUME MapsTypeOK, TrackTypeOK, NoOldConnections, TrackStep
  PROVE  MapsTypeOK' /\ TrackTypeOK' /\ NoOldConnections' /\ elem' = elem
<1>0. statsKey \in Buckets
  BY StatsSecondsAssumption DEF statsKey, Buckets, TrackTypeOK
<1>1. CASE Tick
  BY <1>1 DEF Tick, MapsTypeOK, IsMap, TrackTypeOK, NoOldConnections, TrackLabels, mapVars
<1>2. ASSUME NEW k \in todo, ScanConnection(k)
      PROVE  MapsTypeOK' /\ TrackTypeOK' /\ NoOldConnections' /\ elem' = elem
  <2>1. k \in tuple_key_t /\ IsMap(oldConnections, tuple_key_t, tuple_data_t)
    BY <1>2 DEF ScanConnection, TrackTypeOK
  <2>2. k \in DOMAIN connections => elem[connections[k]] \in tuple_data_t
    BY DEF MapsTypeOK, IsMap
  <2>3. IsMap(oldConnections', tuple_key_t, tuple_data_t)
    BY <1>2, <2>1, <2>2, MapPutType DEF ScanConnection
  <2> QED
    BY <1>2, <2>3 DEF ScanConnection, MapsTypeOK, TrackTypeOK, NoOldConnections, mapVars
<1>3. ASSUME NEW k \in todo, PurgeConnection(k)
      PROVE  MapsTypeOK' /\ TrackTypeOK' /\ NoOldConnections' /\ elem' = elem
  <2>1. IsMap(connections', tuple_key_t, DOMAIN elem)
    BY <1>3, MapDeleteType DEF PurgeConnection, MapsTypeOK
  <2> QED
    BY <1>3, <2>1 DEF PurgeConnection, MapsTypeOK, TrackTypeOK, NoOldConnections
<1>4. ASSUME NEW k \in todo, CollectStats(k)
      PROVE  MapsTypeOK' /\ TrackTypeOK' /\ NoOldConnections' /\ elem' = elem
  <2>1. k \in ConnKey /\ IsMap(statsValuesAtKey, ConnKey, sni_stats_t)
    BY <1>4 DEF CollectStats, TrackTypeOK
  <2>2. k \in DOMAIN stats[statsKey] => stats[statsKey][k] \in sni_stats_t
    BY <1>0 DEF MapsTypeOK, IsMap
  <2>3. IsMap(statsValuesAtKey', ConnKey, sni_stats_t)
    BY <1>4, <2>1, <2>2, MapPutType DEF CollectStats
  <2> QED
    BY <1>4, <2>3 DEF CollectStats, MapsTypeOK, TrackTypeOK, NoOldConnections, mapVars
<1>5. ASSUME NEW k \in todo, DeleteStats(k)
      PROVE  MapsTypeOK' /\ TrackTypeOK' /\ NoOldConnections' /\ elem' = elem
  <2> DEFINE m == MapDelete(stats[statsKey], k)
  <2>1. IsMap(m, ConnKey, sni_stats_t)
    BY <1>0, MapDeleteType DEF MapsTypeOK
  <2>2. stats' = [stats EXCEPT ![statsKey] = m]
    BY <1>5, <1>0 DEF DeleteStats, MapsTypeOK
  <2> HIDE DEF m
  <2>3. MapsTypeOK'
    BY <1>5, <1>0, <2>1, <2>2, StatsUpdate DEF DeleteStats
  <2> QED
    BY <1>5, <2>3 DEF DeleteStats, TrackTypeOK, NoOldConnections
<1>6. ASSUME NEW k \in todo, Account(k)
      PROVE  MapsTypeOK' /\ TrackTypeOK' /\ NoOldConnections' /\ elem' = elem
  <2>1. k \in ConnKey /\ k.sni \in Sni /\ DOMAIN staleConnections(k) = {}
    BY <1>6 DEF Account, TrackTypeOK, ConnKey, NoOldConnections, staleConnections
  <2>2. inc' \in Inc
    <3>1. /\ succeeded_connections(k) \in Nat /\ failed_connections(k) \in Nat
          /\ previousFailed(k) \in BOOLEAN
      BY CountsType
    <3> QED
      BY <1>6, <2>1, <3>1, AccountWithoutStale DEF Account, Inc, Bit
  <2>3. IsMap(previousFailedSecond', ConnKey, BOOLEAN)
    <3>1. IsMap(previousFailedSecond, ConnKey, BOOLEAN)
      BY DEF TrackTypeOK
    <3> DEFINE v == failedSecond(previousFailed(k), staleConnections(k),
                                 succeeded_connections(k), failed_connections(k))
    <3>2. v \in BOOLEAN
      BY DEF failedSecond
    <3> HIDE DEF v
    <3>3. IsMap(MapPut(previousFailedSecond, k, v), ConnKey, BOOLEAN)
      BY <2>1, <3>1, <3>2, MapPutType
    <3> QED
      BY <1>6, <3>3 DEF Account, v
  <2>4. IsMap(snis', Sni, Nat)
    BY <1>6, <2>1, MapPutType DEF Account, TrackTypeOK
  <2> QED
    BY <1>6, <2>2, <2>3, <2>4
       DEF Account, MapsTypeOK, TrackTypeOK, NoOldConnections, TrackLabels, mapVars
<1>7. CASE ScanError \/ StatsLookupError
  BY <1>7, EndOfBodyType
     DEF ScanError, StatsLookupError, TrackTypeOK, MapsTypeOK, mapVars
<1>8. CASE ScanEnd
  BY <1>8 DEF ScanEnd, MapsTypeOK, IsMap, TrackTypeOK, NoOldConnections, TrackLabels, mapVars
<1>9. CASE StatsLookup
  <2>1. DOMAIN stats[statsKey] \subseteq ConnKey
    BY <1>0 DEF MapsTypeOK, IsMap
  <2> QED
    BY <1>9, <2>1
       DEF StatsLookup, MapsTypeOK, TrackTypeOK, NoOldConnections, TrackLabels, mapVars
<1>10. CASE CollectEnd
  <2>1. DOMAIN statsValuesAtKey \subseteq ConnKey
    BY DEF TrackTypeOK, IsMap
  <2> QED
    BY <1>10, <2>1
       DEF CollectEnd, MapsTypeOK, TrackTypeOK, NoOldConnections, TrackLabels, mapVars
<1>11. CASE CleanupEnd
  <2>0. MapsTypeOK' /\ elem' = elem
    BY <1>11 DEF CleanupEnd, MapsTypeOK, mapVars
  <2>1. CASE EndOfBody
    BY <1>11, <2>0, <2>1, EndOfBodyType DEF CleanupEnd, TrackTypeOK
  <2>2. CASE tpc' = "panicked" /\ UNCHANGED loopVars
    BY <1>11, <2>0, <2>2 DEF CleanupEnd, TrackTypeOK, TrackLabels, NoOldConnections, loopVars
  <2>3. CASE /\ ~iterErr /\ (DOMAIN oldConnections = {} \/ ~PutUint32Panics)
             /\ tpc' = "account" /\ todo' = sniSet
             /\ UNCHANGED <<oldConnections, statsValuesAtKey, iterErr, inc>>
    <3>1. DOMAIN oldConnections = {}
      BY <2>3 DEF PutUint32Panics, lenIP
    <3>2. sniSet = DOMAIN statsValuesAtKey
      BY <3>1 DEF sniSet
    <3>3. DOMAIN statsValuesAtKey \subseteq ConnKey
      BY DEF TrackTypeOK, IsMap
    <3> QED
      BY <1>11, <2>0, <2>3, <3>1, <3>2, <3>3
         DEF CleanupEnd, TrackTypeOK, TrackLabels, NoOldConnections
  <2> QED
    BY <1>11, <2>1, <2>2, <2>3 DEF CleanupEnd
<1> QED
  BY <1>1, <1>2, <1>3, <1>4, <1>5, <1>6, <1>7, <1>8, <1>9, <1>10, <1>11 DEF TrackStep

-----------------------------------------------------------------------------
(* The counters.                                                           *)

(* An addition to a counter keeps the types.                               *)
LEMMA ApplyNextType ==
  ASSUME MetricsTypeOK, ApplyNext
  PROVE  MetricsTypeOK'
<1> DEFINE kind == ApplyOrder[step + 1]
           v == Value(kind, applying.key) + applying[kind]
           m == MapPut(counters[kind], applying.key, v)
<1>1. applying \in Inc
  BY DEF ApplyNext, MetricsTypeOK
<1>2. kind \in Kinds /\ applying[kind] \in Nat /\ applying.key \in ConnKey
  <2>1. step \in {0, 1, 2, 3, 4, 5}
    BY DEF MetricsTypeOK
  <2> QED
    BY <1>1, <2>1 DEF ApplyOrder, Kinds, Inc
<1>3. counters' = [counters EXCEPT ![kind] = m]
  BY DEF ApplyNext
<1> HIDE DEF kind
<1>4. IsMap(counters[kind], ConnKey, Nat)
  BY <1>2 DEF MetricsTypeOK
<1>5. Value(kind, applying.key) \in Nat
  BY <1>4 DEF Value, IsMap
<1>6. v \in Nat
  BY <1>2, <1>5
<1> HIDE DEF v
<1>7. IsMap(m, ConnKey, Nat)
  BY <1>2, <1>4, <1>6, MapPutType
<1> HIDE DEF m
<1>8. counters' = [k \in Kinds |-> counters'[k]]
  BY <1>3 DEF MetricsTypeOK
<1>9. ASSUME NEW k \in Kinds
      PROVE  IsMap(counters'[k], ConnKey, Nat)
  BY <1>2, <1>3, <1>7 DEF MetricsTypeOK
<1>10. applying' \in Inc \cup {Null} /\ step' \in 0 .. 5
  BY <1>1 DEF ApplyNext, MetricsTypeOK
<1> QED
  BY <1>8, <1>9, <1>10 DEF MetricsTypeOK

(* Two label values for four labels: DeleteMetrics deletes nothing.        *)
LEMMA DeleteMetricsDeletesNothing ==
  ASSUME MetricsTypeOK, NEW names, DeleteMetrics(names)
  PROVE  counters' = counters
<1>1. ASSUME NEW series, NEW matching
      PROVE  DeleteLabelValues(series, <<"kind", "sni">>, matching) = series
  <2>1. Len(<<"kind", "sni">>) # Len(labels)
    BY DEF labels
  <2> QED
    BY <2>1, Zenon DEF DeleteLabelValues
<1>2. counters' = [kind \in Kinds |-> counters[kind]]
  BY <1>1, Zenon DEF DeleteMetrics
<1> QED
  BY <1>2 DEF MetricsTypeOK

-----------------------------------------------------------------------------
(* The whole pipeline.                                                     *)

(* A process that has panicked does nothing but start again.               *)
LEMMA PanickedRestarts ==
  ASSUME Next, ~Alive
  PROVE  Restart
BY DEF Next, Rest, Quiescent, Alive, CaptureAction, DeliverAction, SecondAction, TrackAction,
       TrackStep, Tick, ScanConnection, PurgeConnection, CollectStats, DeleteStats, Account,
       ScanError, ScanEnd, StatsLookup, StatsLookupError, CollectEnd, CleanupEnd, SendInc, Send,
       ApplyAction, ExpireAction, Expire, AdvanceAction, Advance

(* The state after a restart is an initial state.                          *)
LEMMA RestartInit == Restart => Init'
BY Zenon DEF Restart, EndOfBody, Init, MapsInit, CaptureInit, TrackInit, MetricsInit

(* The invariant that is inductive.                                        *)
TypeInv == TypeOK /\ NoOldConnections

(* It holds at the start.                                                  *)
LEMMA TypeStart == Init => TypeInv
BY InitType DEF TypeInv, Init, TrackInit, NoOldConnections

(* Every step of the exporter preserves it.                                *)
LEMMA TypeStep ==
  ASSUME TypeInv, [Next]_vars
  PROVE  TypeInv'
<1> USE DEF TypeInv, TypeOK
<1>1. ASSUME NEW c \in CPUs, CaptureAction(c) \/ DeliverAction(c)
      PROVE  TypeInv'
  <2>1. MapsTypeOK' /\ CaptureTypeOK'
    BY <1>1, CpuStepType, DeliverType DEF CaptureAction, DeliverAction
  <2>2. UNCHANGED <<trackVars, metricVars>>
    BY <1>1 DEF CaptureAction, DeliverAction
  <2>3. TrackTypeOK' /\ NoOldConnections'
    BY <2>2 DEF trackVars, loopVars, TrackTypeOK, NoOldConnections
  <2>4. MetricsTypeOK'
    BY <2>2 DEF metricVars, MetricsTypeOK
  <2> QED
    BY <2>1, <2>3, <2>4
<1>2. CASE SecondAction
  <2>1. MapsTypeOK' /\ CaptureTypeOK'
    BY <1>2 DEF SecondAction, Second, mapVars, captureVars, MapsTypeOK, CaptureTypeOK
  <2>2. TrackTypeOK' /\ NoOldConnections'
    BY <1>2 DEF SecondAction, Second, loopVars, TrackTypeOK, NoOldConnections
  <2>3. MetricsTypeOK'
    BY <1>2 DEF SecondAction, metricVars, MetricsTypeOK
  <2> QED
    BY <2>1, <2>2, <2>3
<1>3. CASE TrackAction
  <2>1. MapsTypeOK' /\ TrackTypeOK' /\ NoOldConnections' /\ elem' = elem
    BY <1>3, TrackStepType DEF TrackAction
  <2>2. CaptureTypeOK'
    BY <1>3, <2>1 DEF TrackAction, captureVars, CaptureTypeOK
  <2>3. MetricsTypeOK'
    BY <1>3 DEF TrackAction, metricVars, MetricsTypeOK
  <2> QED
    BY <2>1, <2>2, <2>3
<1>4. CASE SendInc
  <2>1. MapsTypeOK' /\ CaptureTypeOK'
    BY <1>4 DEF SendInc, Send, mapVars, captureVars, MapsTypeOK, CaptureTypeOK
  <2>2. TrackTypeOK' /\ NoOldConnections'
    BY <1>4 DEF SendInc, Send, TrackTypeOK, NoOldConnections, TrackLabels
  <2>3. MetricsTypeOK'
    BY <1>4 DEF SendInc, Send, ReceiveInc, TrackTypeOK, MetricsTypeOK
  <2> QED
    BY <2>1, <2>2, <2>3
<1>5. CASE ApplyAction
  <2>1. MapsTypeOK' /\ CaptureTypeOK'
    BY <1>5 DEF ApplyAction, mapVars, captureVars, MapsTypeOK, CaptureTypeOK
  <2>2. TrackTypeOK' /\ NoOldConnections'
    BY <1>5 DEF ApplyAction, trackVars, loopVars, TrackTypeOK, NoOldConnections
  <2> QED
    BY <1>5, <2>1, <2>2, ApplyNextType DEF ApplyAction
<1>6. CASE ExpireAction
  <2>1. MapsTypeOK' /\ CaptureTypeOK'
    BY <1>6 DEF ExpireAction, Expire, mapVars, captureVars, MapsTypeOK, CaptureTypeOK
  <2>2. IsMap(snis', Sni, Nat)
    BY <1>6, MapRestrictType DEF ExpireAction, Expire, TrackTypeOK
  <2>3. TrackTypeOK' /\ NoOldConnections'
    BY <1>6, <2>2 DEF ExpireAction, Expire, loopVars, TrackTypeOK, NoOldConnections, TrackLabels
  <2>4. counters' = counters
    BY <1>6, DeleteMetricsDeletesNothing DEF ExpireAction
  <2>5. MetricsTypeOK'
    BY <1>6, <2>4 DEF ExpireAction, MetricsTypeOK
  <2> QED
    BY <2>1, <2>3, <2>5
<1>7. CASE AdvanceAction
  <2>1. MapsTypeOK' /\ CaptureTypeOK'
    BY <1>7 DEF AdvanceAction, Advance, captureVars, MapsTypeOK, CaptureTypeOK, TrackTypeOK
  <2>2. TrackTypeOK' /\ NoOldConnections'
    BY <1>7, EndOfBodyType DEF AdvanceAction, Advance, TrackTypeOK
  <2>3. MetricsTypeOK'
    BY <1>7 DEF AdvanceAction, metricVars, MetricsTypeOK
  <2> QED
    BY <2>1, <2>2, <2>3
<1>8. CASE Restart
  <2>1. (Init => TypeInv)'
    BY TypeStart, PTL
  <2> QED
    BY <1>8, <2>1, RestartInit
<1>9. CASE UNCHANGED vars
  BY <1>9 DEF vars, mapVars, captureVars, trackVars, loopVars, metricVars, MapsTypeOK,
              CaptureTypeOK, TrackTypeOK, MetricsTypeOK, NoOldConnections
<1> QED
  BY <1>1, <1>2, <1>3, <1>4, <1>5, <1>6, <1>7, <1>8, <1>9 DEF Next, Rest

(* It holds throughout.                                                    *)
LEMMA TypeInvariant == Spec => []TypeInv
<1>1. TypeInv /\ [Next]_vars => TypeInv'
  BY TypeStep
<1> QED
  BY <1>1, TypeStart, PTL DEF Spec

(***************************************************************************)
(* In every state of the exporter every variable has its type: the filter  *)
(* never follows a pointer to an element that was not handed out, never    *)
(* writes to a bucket that does not exist, and every increment in flight   *)
(* is complete.                                                            *)
(***************************************************************************)
THEOREM TypeCorrect == Spec => []TypeOK
<1>1. TypeInv => TypeOK
  BY DEF TypeInv
<1> QED
  BY <1>1, TypeInvariant, PTL

-----------------------------------------------------------------------------
(* The wrap-around of the buckets.                                         *)

(***************************************************************************)
(* How far the three clocks are apart: the one of TrackConnections, the    *)
(* one in the kernel, and the values that runs of the filter have read and *)
(* not used yet.                                                           *)
(***************************************************************************)
ClockInv ==
  /\ ticker_clock <= currentTickerClock
  /\ currentTickerClock - ticker_clock <= MaxLag
  /\ \A c \in CPUs : HoldsClock(c) =>
       /\ cpu[c].clock <= ticker_clock
       /\ currentTickerClock - cpu[c].clock <= MaxLag + 1

(* A step of one CPU that reads the clock, keeps the value it has read or  *)
(* is done with it.                                                        *)
LEMMA ClockOfRun ==
  ASSUME TypeInv, ClockInv, NEW c \in CPUs,
         UNCHANGED <<ticker_clock, currentTickerClock>>,
         \A d \in CPUs : d # c => cpu'[d] = cpu[d],
         \/ cpu'[c].pc \notin {"syn", "stats_find", "stats_add", "stats_insert"}
         \/ cpu'[c].clock = ticker_clock
         \/ HoldsClock(c) /\ cpu'[c].clock = cpu[c].clock
  PROVE  ClockInv'
<1>1. ticker_clock \in Nat /\ currentTickerClock \in Nat /\ MaxLag \in Nat
  BY BoundsAssumption DEF TypeInv, TypeOK, MapsTypeOK, TrackTypeOK
<1>2. ASSUME NEW d \in CPUs,
             cpu'[d].pc \in {"syn", "stats_find", "stats_add", "stats_insert"}
      PROVE  /\ cpu'[d].clock <= ticker_clock
             /\ currentTickerClock - cpu'[d].clock <= MaxLag + 1
  <2>1. CASE d # c
    BY <1>2, <2>1 DEF ClockInv, HoldsClock
  <2>2. CASE d = c
    BY <1>1, <1>2, <2>2 DEF ClockInv, HoldsClock
  <2> QED
    BY <2>1, <2>2
<1> QED
  BY <1>2 DEF ClockInv, HoldsClock

(* The steps of the filter.                                                *)
LEMMA ClockCapture ==
  ASSUME TypeInv, ClockInv, NEW c \in CPUs, CpuStep(c) \/ Deliver(c),
         UNCHANGED currentTickerClock
  PROVE  ClockInv'
<1> DEFINE p == cpu[c].pkt
<1>0. cpu \in [CPUs -> Run] /\ RunOK(cpu[c], DOMAIN elem)
  BY DEF TypeInv, TypeOK, CaptureTypeOK
<1>1. ASSUME NEW label, Goto(c, label),
             label \notin {"syn", "stats_find", "stats_add", "stats_insert"},
             UNCHANGED ticker_clock
      PROVE  ClockInv'
  <2>1. \A d \in CPUs : d # c => cpu'[d] = cpu[d]
    BY <1>0, <1>1 DEF Goto
  <2>2. cpu'[c].pc \notin {"syn", "stats_find", "stats_add", "stats_insert"}
    BY <1>0, <1>1, EndOfRunType DEF Goto, Run
  <2> QED
    BY <1>1, <2>1, <2>2, ClockOfRun
<1>s. ASSUME NEW q, NEW left, Start(c, q, left)
      PROVE  ClockInv'
  <2>1. UNCHANGED ticker_clock /\ \A d \in CPUs : d # c => cpu'[d] = cpu[d]
    BY <1>0, <1>s DEF Start, mapVars
  <2>2. \/ cpu'[c].pc \notin {"syn", "stats_find", "stats_add", "stats_insert"}
        \/ cpu'[c].clock = ticker_clock
    BY <1>0, <1>s DEF Start, IdleRun
  <2> QED
    BY <2>1, <2>2, ClockOfRun
<1>2. ASSUME NEW success, NEW ret, Call(c, success, ret), UNCHANGED ticker_clock
      PROVE  ClockInv'
  BY <1>0, <1>2, ClockOfRun DEF Call, Run
<1>3. FromSynAck(p) \notin {"syn", "stats_find", "stats_add", "stats_insert"}
  BY DEF FromSynAck, FromPsh, FromRst, FromFin
<1>4. /\ FromPsh(p) \notin {"syn", "stats_find", "stats_add", "stats_insert"}
      /\ FromRst(p) \notin {"syn", "stats_find", "stats_add", "stats_insert"}
  BY DEF FromPsh, FromRst, FromFin
<1>5. CASE Deliver(c)
  <2>1. PICK q \in Packets : Ignore(c, q) \/ Receive(c, q)
    BY <1>5 DEF Deliver
  <2>2. CASE Ignore(c, q)
    BY <2>2 DEF Ignore, mapVars, ClockInv, HoldsClock
  <2>3. CASE Receive(c, q)
    BY <1>s, <2>3 DEF Receive
  <2> QED
    BY <2>1, <2>2, <2>3
<1>6. CASE NewConnection(c)
  BY <1>0, <1>6, ClockOfRun DEF NewConnection, Run
<1>7. CASE Lookup(c)
  <2>1. UNCHANGED ticker_clock /\ \A d \in CPUs : d # c => cpu'[d] = cpu[d]
    BY <1>0, <1>7 DEF Lookup, mapVars
  <2>2. cpu'[c].pc \notin {"syn", "stats_find", "stats_add", "stats_insert"}
    BY <1>0, <1>3, <1>7, EndOfRunType DEF Lookup, Run
  <2> QED
    BY <2>1, <2>2, ClockOfRun
<1>8. CASE SynAck(c)
  BY <1>1, <1>4, <1>8 DEF SynAck
<1>9. CASE Psh(c)
  BY <1>1, <1>2, <1>9 DEF Psh
<1>10. CASE Bytes(c)
  BY <1>1, <1>4, <1>10 DEF Bytes
<1>11. CASE Rst(c)
  BY <1>2, <1>11 DEF Rst
<1>12. CASE Fin(c)
  BY <1>2, <1>12 DEF Fin
<1>13. CASE StatsClock(c)
  BY <1>0, <1>13, ClockOfRun DEF StatsClock, Run, mapVars
<1>14. CASE StatsFind(c)
  <2>1. UNCHANGED ticker_clock /\ \A d \in CPUs : d # c => cpu'[d] = cpu[d]
    BY <1>0, <1>14 DEF StatsFind, mapVars
  <2>2. HoldsClock(c) /\ cpu'[c].clock = cpu[c].clock
    BY <1>0, <1>14 DEF StatsFind, HoldsClock, Run
  <2> QED
    BY <2>1, <2>2, ClockOfRun
<1>15. CASE StatsAdd(c)
  BY <1>0, <1>15, ClockOfRun DEF StatsAdd, Run
<1>16. CASE StatsInsert(c)
  BY <1>0, <1>16, ClockOfRun DEF StatsInsert, Run
<1>17. CASE StatsDelete(c)
  BY <1>0, <1>1, <1>17 DEF StatsDelete, RunOK
<1>18. CASE NextSocket(c)
  BY <1>s, <1>18 DEF NextSocket
<1> QED
  BY <1>5, <1>6, <1>7, <1>8, <1>9, <1>10, <1>11, <1>12, <1>13, <1>14, <1>15, <1>16, <1>17, <1>18
     DEF CpuStep

(* Every step of the exporter preserves the distances.                     *)
LEMMA ClockStep ==
  ASSUME TypeInv, ClockInv, [Next]_vars
  PROVE  ClockInv'
<1>1. ASSUME NEW c \in CPUs, CaptureAction(c) \/ DeliverAction(c)
      PROVE  ClockInv'
  BY <1>1, ClockCapture DEF CaptureAction, DeliverAction, trackVars
<1>2. CASE AdvanceAction
  <2>1. /\ ticker_clock \in Nat /\ currentTickerClock \in Nat /\ MaxLag \in Nat
        /\ \A c \in CPUs : cpu[c].clock \in Nat
    BY BoundsAssumption DEF TypeInv, TypeOK, MapsTypeOK, TrackTypeOK, CaptureTypeOK, Run
  <2>2. cpu' = cpu /\ currentTickerClock' = currentTickerClock + 1
    BY <1>2 DEF AdvanceAction, Advance, captureVars
  <2>3. /\ ticker_clock' <= currentTickerClock'
        /\ currentTickerClock' - ticker_clock' <= MaxLag
        /\ ticker_clock <= ticker_clock'
    BY <1>2, <2>1, <2>2 DEF AdvanceAction, Advance, ClockInv
  <2>4. ASSUME NEW c \in CPUs, HoldsClock(c)
        PROVE  /\ cpu[c].clock <= ticker_clock'
               /\ currentTickerClock' - cpu[c].clock <= MaxLag + 1
    <3>1. cpu[c].clock = ticker_clock
      BY <1>2, <2>4 DEF AdvanceAction
    <3> QED
      BY <2>1, <2>2, <2>3, <3>1 DEF ClockInv
  <2> QED
    BY <2>2, <2>3, <2>4 DEF ClockInv, HoldsClock
<1>3. CASE Restart
  BY <1>3, BoundsAssumption DEF Restart, ClockInv, HoldsClock, IdleRun
<1>4. CASE SecondAction \/ TrackAction \/ SendInc \/ ApplyAction \/ ExpireAction
           \/ UNCHANGED vars
  <2>1. UNCHANGED <<ticker_clock, currentTickerClock, cpu>>
    BY <1>4 DEF SecondAction, Second, TrackAction, TrackStep, Tick, ScanConnection,
         PurgeConnection, CollectStats, DeleteStats, Account, ScanError, ScanEnd,
         StatsLookup, StatsLookupError, CollectEnd, CleanupEnd, SendInc, Send, ApplyAction,
         ExpireAction, Expire, vars, mapVars, captureVars, trackVars
  <2> QED
    BY <2>1 DEF ClockInv, HoldsClock
<1> QED
  BY <1>1, <1>2, <1>3, <1>4 DEF Next, Rest

(* They hold throughout.                                                   *)
LEMMA ClockInvariant == Spec => []ClockInv
<1>1. Init => ClockInv
  BY BoundsAssumption
     DEF Init, MapsInit, CaptureInit, TrackInit, ClockInv, HoldsClock, IdleRun
<1>2. TypeInv /\ ClockInv /\ [Next]_vars => ClockInv'
  BY ClockStep
<1> QED
  BY <1>1, <1>2, TypeInvariant, PTL DEF Spec

(* A clock value that a run holds is less than STATS_SECONDS_COUNT - 1     *)
(* ticks old, so its bucket is not the one to be drained.                  *)
LEMMA WritersElsewhere ==
  ASSUME TypeInv, ClockInv, NEW c \in CPUs, HoldsClock(c)
  PROVE  /\ bucketOf(c) # statsKey
         /\ cpu[c].clock \in Nat /\ cpu[c].clock <= ticker_clock
         /\ ticker_clock <= currentTickerClock
         /\ currentTickerClock - cpu[c].clock < STATS_SECONDS_COUNT - 1
<1> DEFINE a == currentTickerClock + 1
           b == cpu[c].clock
           n == STATS_SECONDS_COUNT
<1>1. a \in Nat /\ b \in Nat /\ n \in Nat \ {0}
  BY StatsSecondsAssumption DEF TypeInv, TypeOK, TrackTypeOK, CaptureTypeOK, Run
<1>2. /\ b <= ticker_clock /\ ticker_clock <= currentTickerClock
      /\ currentTickerClock - b <= MaxLag + 1
  BY DEF ClockInv
<1>3. ticker_clock \in Nat /\ currentTickerClock \in Nat /\ MaxLag \in Nat
  BY BoundsAssumption DEF TypeInv, TypeOK, MapsTypeOK, TrackTypeOK
<1>4. b < a /\ a - b < n
  BY <1>1, <1>2, <1>3, SeparationAssumption
<1>5. currentTickerClock - b < n - 1
  BY <1>1, <1>2, <1>3, SeparationAssumption
<1> HIDE DEF a, b, n
<1> a \in Int /\ b \in Int
  BY <1>1
<1>6. a % n # b % n
  BY <1>1, <1>4, ResiduesDiffer
<1> QED
  BY <1>1, <1>2, <1>5, <1>6 DEF bucketOf, statsKey, a, b, n

(***************************************************************************)
(* The bucket that is being drained is not one that a run of the filter is *)
(* about to write to, for any number of CPUs and of buckets and with any   *)
(* of the faults, as long as the clock in the kernel misses fewer than     *)
(* STATS_SECONDS_COUNT - 2 updates in a row.                               *)
(***************************************************************************)
THEOREM DrainSafe == Spec => []DrainNotLive
<1>1. TypeInv /\ ClockInv => DrainNotLive
  BY WritersElsewhere DEF DrainNotLive, HoldsClock
<1> QED
  BY <1>1, TypeInvariant, ClockInvariant, PTL

-----------------------------------------------------------------------------
(* What one step of the filter does to the entries of the map.             *)

(* The value a key of the map points to.                                   *)
ElemOf(k) == elem[connections[k]]

(* A SYN is stored under its own key and in an element no key points to:   *)
(* every other key keeps its value.                                        *)
LEMMA NewConnectionStores ==
  ASSUME TypeInv, NEW c \in CPUs, NewConnection(c),
         NEW k \in DOMAIN connections'
  PROVE  \/ /\ k # KeyOf(cpu[c].pkt) /\ k \in DOMAIN connections
            /\ connections'[k] = connections[k] /\ ElemOf(k)' = ElemOf(k)
         \/ /\ k = KeyOf(cpu[c].pkt) /\ connections'[k] \in FreeSlots
            /\ ElemOf(k)' = NewTupleData(cpu[c].pkt, cpu[c].clock)
<1> DEFINE key == KeyOf(cpu[c].pkt)
           d == NewTupleData(cpu[c].pkt, cpu[c].clock)
<1> HIDE DEF key, d
<1>0. ConnectionsUpdate(key, d)
  BY DEF NewConnection, key, d
<1>1. CASE UNCHANGED <<elem, connections>> /\ key \notin DOMAIN connections
  BY <1>1 DEF ElemOf, key
<1>2. ASSUME NEW s \in FreeSlots, elem' = MapPut(elem, s, d),
             connections' = MapPut(connections, key, s)
      PROVE  \/ /\ k # key /\ k \in DOMAIN connections
                /\ connections'[k] = connections[k] /\ ElemOf(k)' = ElemOf(k)
             \/ k = key /\ connections'[k] \in FreeSlots /\ ElemOf(k)' = d
  <2>1. CASE k = key
    BY <1>2, <2>1 DEF ElemOf, MapPut
  <2>2. CASE k # key
    <3>1. k \in DOMAIN connections /\ connections'[k] = connections[k]
      BY <1>2, <2>2 DEF MapPut
    <3>2. connections[k] # s /\ connections[k] \in DOMAIN elem
      BY <1>2, <3>1 DEF FreeSlots, TypeInv, TypeOK, MapsTypeOK, IsMap
    <3> QED
      BY <1>2, <2>2, <3>1, <3>2 DEF ElemOf, MapPut
  <2> QED
    BY <2>1, <2>2
<1> QED
  BY <1>0, <1>1, <1>2 DEF ConnectionsUpdate, key, d

(* No other step of the filter adds a key, moves one to another element,   *)
(* or changes the clock value a connection was stored with.                *)
LEMMA FirstPacketKept ==
  ASSUME TypeInv, NEW c \in CPUs, CpuStep(c) \/ Deliver(c), ~NewConnection(c),
         NEW k \in DOMAIN connections'
  PROVE  /\ k \in DOMAIN connections /\ connections'[k] = connections[k]
         /\ ElemOf(k)'.ticker_clock_first_packet = ElemOf(k).ticker_clock_first_packet
<1> DEFINE first(s) == elem[s].ticker_clock_first_packet
           Goal == /\ k \in DOMAIN connections /\ connections'[k] = connections[k]
                   /\ first(connections[k])' = first(connections[k])
<1> SUFFICES Goal
  BY DEF ElemOf
<1>0. /\ cpu[c] \in Run /\ RunOK(cpu[c], DOMAIN elem)
      /\ elem \in [DOMAIN elem -> tuple_data_t]
      /\ k \in DOMAIN connections => connections[k] \in DOMAIN elem
  BY DEF TypeInv, TypeOK, CaptureTypeOK, MapsTypeOK, IsMap
<1>1. ASSUME UNCHANGED <<connections, elem>>
      PROVE  Goal
  BY <1>1
<1>2. ASSUME UNCHANGED connections, cpu[c].conn \in DOMAIN elem, NEW d,
             elem' = [elem EXCEPT ![cpu[c].conn] = d],
             d.ticker_clock_first_packet = first(cpu[c].conn)
      PROVE  Goal
  BY <1>0, <1>2
<1>3. cpu[c].pc \notin {"idle", "syn", "lookup"} =>
        cpu[c].conn \in DOMAIN elem /\ elem[cpu[c].conn] \in tuple_data_t
  BY <1>0 DEF RunOK
<1>4. CASE StatsDelete(c)
  BY <1>4 DEF StatsDelete, MapDelete
<1>5. CASE SynAck(c)
  BY <1>2, <1>3, <1>5 DEF SynAck, tuple_data_t
<1>6. CASE Psh(c)
  BY <1>1, <1>2, <1>3, <1>6 DEF Psh, tuple_data_t
<1>7. CASE Bytes(c)
  BY <1>2, <1>3, <1>7 DEF Bytes, Carried, tuple_data_t
<1>8. CASE Rst(c)
  BY <1>2, <1>3, <1>8 DEF Rst, tuple_data_t
<1>9. CASE Fin(c)
  BY <1>2, <1>3, <1>9 DEF Fin, tuple_data_t
<1>10. CASE Deliver(c) \/ NextSocket(c) \/ Lookup(c) \/ StatsClock(c) \/ StatsFind(c)
            \/ StatsAdd(c) \/ StatsInsert(c)
  BY <1>1, <1>10
     DEF Deliver, Ignore, Receive, NextSocket, Start, Lookup, StatsClock, StatsFind,
         StatsAdd, StatsInsert, mapVars
<1> QED
  BY <1>4, <1>5, <1>6, <1>7, <1>8, <1>9, <1>10 DEF CpuStep

-----------------------------------------------------------------------------
(* How long an entry stays.                                                *)

(* Where TrackConnections is when an entry of the map is older than        *)
(* STATS_SECONDS_COUNT ticks: it is still to be found or to be deleted.    *)
ToBeDeleted(k) ==
  \/ tpc = "idle"
  \/ tpc = "scan" /\ (k \in todo \/ k \in DOMAIN oldConnections)
  \/ tpc = "purge" /\ k \in todo

AgeInv ==
  \A k \in DOMAIN connections :
    LET first == ElemOf(k).ticker_clock_first_packet IN
    /\ currentTickerClock <= first + STATS_SECONDS_COUNT + 1
    /\ currentTickerClock > first + STATS_SECONDS_COUNT => ToBeDeleted(k)

(* Every step of the exporter preserves it.                                *)
LEMMA AgeStep ==
  ASSUME TypeInv, ClockInv, AgeInv, [Next]_vars
  PROVE  AgeInv'
<1> DEFINE T == currentTickerClock
           N == STATS_SECONDS_COUNT
           first(k) == ElemOf(k).ticker_clock_first_packet
           Fresh(k) == T <= first(k) + N + 1 /\ (T > first(k) + N => ToBeDeleted(k))
<1>t. /\ T \in Nat /\ N \in Nat
      /\ \A k \in DOMAIN connections : first(k) \in Nat
  BY StatsSecondsAssumption
     DEF TypeInv, TypeOK, MapsTypeOK, IsMap, TrackTypeOK, tuple_data_t, ElemOf
<1>h. \A k \in DOMAIN connections : Fresh(k)
  BY DEF AgeInv
<1>s. SUFFICES ASSUME NEW k \in DOMAIN connections'
               PROVE  Fresh(k)'
  BY DEF AgeInv
<1>1. ASSUME NEW c \in CPUs, CaptureAction(c) \/ DeliverAction(c)
      PROVE  Fresh(k)'
  <2>1. UNCHANGED <<tpc, currentTickerClock, todo, oldConnections>>
    BY <1>1 DEF CaptureAction, DeliverAction, trackVars, loopVars
  <2>2. CASE NewConnection(c)
    <3>1. CASE k \in DOMAIN connections /\ ElemOf(k)' = ElemOf(k)
      BY <1>h, <2>1, <3>1 DEF ToBeDeleted
    <3>2. CASE ElemOf(k)' = NewTupleData(cpu[c].pkt, cpu[c].clock)
      <4>1. first(k)' = cpu[c].clock /\ HoldsClock(c)
        BY <2>2, <3>2 DEF NewTupleData, NewConnection, HoldsClock
      <4>2. T - cpu[c].clock <= MaxLag + 1 /\ cpu[c].clock \in Nat /\ MaxLag \in Nat
        BY <4>1, BoundsAssumption DEF ClockInv, TypeInv, TypeOK, CaptureTypeOK, Run
      <4>3. T <= cpu[c].clock + N
        BY <1>t, <4>2, SeparationAssumption
      <4> QED
        BY <1>t, <2>1, <4>1, <4>2, <4>3
    <3> QED
      BY <2>2, <3>1, <3>2, NewConnectionStores
  <2>3. CASE ~NewConnection(c)
    <3>1. k \in DOMAIN connections /\ first(k)' = first(k)
      BY <1>1, <2>3, FirstPacketKept DEF CaptureAction, DeliverAction
    <3> QED
      BY <1>h, <2>1, <3>1 DEF ToBeDeleted
  <2> QED
    BY <2>2, <2>3
<1>2. CASE Restart
  BY <1>2, EmptyMapType DEF Restart
<1>3. ASSUME NEW j \in todo, PurgeConnection(j)
      PROVE  Fresh(k)'
  <2>1. k \in DOMAIN connections /\ k # j /\ connections'[k] = connections[k]
    BY <1>3 DEF PurgeConnection, MapDelete
  <2> QED
    BY <1>3, <1>h, <2>1 DEF PurgeConnection, ToBeDeleted, ElemOf
<1>4. ASSUME UNCHANGED <<connections, elem>>
      PROVE  k \in DOMAIN connections /\ first(k)' = first(k)
  BY <1>4 DEF ElemOf
<1>5. CASE AdvanceAction
  <2>1. /\ UNCHANGED <<connections, elem>> /\ tpc = "advance" /\ tpc' = "idle"
        /\ T' = T + 1
    BY <1>5 DEF AdvanceAction, Advance, EndOfBody
  <2>2. k \in DOMAIN connections /\ first(k)' = first(k)
    BY <1>4, <2>1
  <2>3. T <= first(k) + N
    BY <1>t, <1>h, <2>1, <2>2 DEF ToBeDeleted
  <2> QED
    BY <1>t, <2>1, <2>2, <2>3 DEF ToBeDeleted
<1>6. ASSUME NEW j \in todo, ScanConnection(j)
      PROVE  Fresh(k)'
  <2>1. UNCHANGED <<connections, elem, currentTickerClock, tpc>> /\ todo' = todo \ {j}
    BY <1>6 DEF ScanConnection, mapVars
  <2>2. k \in DOMAIN connections /\ first(k)' = first(k)
    BY <1>4, <2>1
  <2>3. DOMAIN oldConnections \subseteq DOMAIN oldConnections'
    BY <1>6 DEF ScanConnection, MapPut
  <2>4. k = j /\ T > first(k) + N => k \in DOMAIN oldConnections'
    BY <1>6, <1>t, <2>2 DEF ScanConnection, MapPut, isConnectionOld, ElemOf
  <2> QED
    BY <1>6, <1>h, <2>1, <2>2, <2>3, <2>4 DEF ScanConnection, ToBeDeleted
<1>7. CASE \/ SecondAction \/ SendInc \/ ApplyAction \/ ExpireAction \/ UNCHANGED vars
           \/ TrackAction /\ ~(\E j \in todo : PurgeConnection(j) \/ ScanConnection(j))
  <2>1. UNCHANGED <<connections, elem, currentTickerClock>>
    <3>1. CASE TrackAction /\ ~(\E j \in todo : PurgeConnection(j) \/ ScanConnection(j))
      BY <3>1 DEF TrackAction, TrackStep, Tick, CollectStats, DeleteStats, Account, ScanError,
           ScanEnd, StatsLookup, StatsLookupError, CollectEnd, CleanupEnd, mapVars
    <3>2. CASE SecondAction \/ SendInc \/ ApplyAction \/ ExpireAction \/ UNCHANGED vars
      BY <3>2 DEF SecondAction, Second, SendInc, Send, ApplyAction, ExpireAction, Expire,
           vars, mapVars, trackVars
    <3> QED
      BY <1>7, <3>1, <3>2
  <2>2. k \in DOMAIN connections /\ first(k)' = first(k)
    BY <1>4, <2>1
  <2>3. ToBeDeleted(k) => ToBeDeleted(k)'
    BY <1>7, <2>2
       DEF SecondAction, Second, TrackAction, TrackStep, Tick, CollectStats, DeleteStats,
         Account, ScanError, ScanEnd, StatsLookup, StatsLookupError, CollectEnd, CleanupEnd,
         SendInc, Send, ApplyAction, ExpireAction, Expire, EndOfBody, ToBeDeleted,
         vars, trackVars, loopVars
  <2> QED
    BY <1>h, <2>1, <2>2, <2>3
<1> QED
  BY <1>1, <1>2, <1>3, <1>5, <1>6, <1>7 DEF Next, Rest, TrackAction

(***************************************************************************)
(* An entry of the connections map is never older than                     *)
(* STATS_SECONDS_COUNT + 1 ticks when TrackConnections waits for the next  *)
(* one, whatever fails and however many CPUs run the filter: an entry that *)
(* gets old is seen by the scan of the next tick, or the clock stands      *)
(* still until a scan succeeds.                                            *)
(***************************************************************************)
THEOREM ConnectionsAreYoung == Spec => []BoundedAge
<1>1. Init => AgeInv
  BY EmptyMapType DEF Init, MapsInit, AgeInv
<1>2. TypeInv /\ ClockInv /\ AgeInv /\ [Next]_vars => AgeInv'
  BY AgeStep
<1>3. AgeInv => BoundedAge
  BY DEF AgeInv, BoundedAge, ElemOf
<1> QED
  BY <1>1, <1>2, <1>3, TypeInvariant, ClockInvariant, PTL DEF Spec

-----------------------------------------------------------------------------
(* A run of the filter and the element it has found.                       *)

(* The run has looked its connection up and holds the pointer.             *)
Holding(c) == cpu[c].pc \notin {"idle", "syn", "lookup"}

(* Goto either moves on with the same frame and pointer, or ends the run.  *)
LEMMA GotoRun ==
  ASSUME TypeInv, NEW c \in CPUs, NEW label, Goto(c, label)
  PROVE  /\ label # "idle" => cpu'[c] = [cpu[c] EXCEPT !.pc = label]
         /\ label = "idle" => cpu'[c] = EndOfRun(cpu[c])
BY DEF Goto, TypeInv, TypeOK, CaptureTypeOK

LEMMA GotoLabel ==
  ASSUME TypeInv, NEW c \in CPUs, NEW label, Goto(c, label)
  PROVE  cpu'[c].pc = label
<1>1. CASE label = "idle"
  <2>1. cpu'[c] = EndOfRun(cpu[c])
    BY <1>1, GotoRun
  <2> QED
    BY <1>1, <2>1 DEF EndOfRun, IdleRun
<1>2. CASE label # "idle"
  <2>1. cpu[c] \in Run
    BY DEF TypeInv, TypeOK, CaptureTypeOK
  <2>2. cpu'[c] = [cpu[c] EXCEPT !.pc = label]
    BY <1>2, GotoRun
  <2> QED
    BY <2>1, <2>2 DEF Run
<1> QED
  BY <1>1, <1>2

(* The end of a run: the frame stays for the sockets that are left.        *)
LEMMA EndOfRunIs ==
  ASSUME NEW r \in Run
  PROVE  /\ EndOfRun(r).pc = "idle" /\ EndOfRun(r).left = r.left
         /\ EndOfRun(r).ret = "idle" /\ (r.left > 0 => EndOfRun(r).pkt = r.pkt)
BY DEF EndOfRun, IdleRun, Run

(* A run that holds a pointer has got it from the lookup of its own key,   *)
(* in this step or before.                                                 *)
LEMMA RunFlow ==
  ASSUME TypeInv, NEW c \in CPUs, CpuStep(c) \/ Deliver(c), Holding(c)'
  PROVE  /\ cpu'[c].pkt = cpu[c].pkt /\ cpu[c].pkt \in Packets
         /\ \/ /\ Lookup(c) /\ KeyOf(cpu[c].pkt) \in DOMAIN connections
               /\ cpu'[c].conn = connections[KeyOf(cpu[c].pkt)]
            \/ /\ Holding(c) /\ cpu'[c].conn = cpu[c].conn
<1>0. /\ cpu \in [CPUs -> Run] /\ cpu[c] \in Run /\ RunOK(cpu[c], DOMAIN elem)
  BY DEF TypeInv, TypeOK, CaptureTypeOK
<1>1. ASSUME NEW label, Goto(c, label), Holding(c)
      PROVE  cpu'[c].pkt = cpu[c].pkt /\ cpu'[c].conn = cpu[c].conn
  <2>1. label # "idle"
    BY <1>0, <1>1, GotoRun, EndOfRunIs DEF Holding
  <2> QED
    BY <1>0, <1>1, <2>1, GotoRun DEF Run
<1>2. ASSUME NEW success, NEW ret, Call(c, success, ret)
      PROVE  cpu'[c].pkt = cpu[c].pkt /\ cpu'[c].conn = cpu[c].conn
  BY <1>0, <1>2 DEF Call, Run
<1>3. ASSUME NEW p, NEW left, Start(c, p, left)
      PROVE  ~Holding(c)'
  BY <1>0, <1>3 DEF Start, Holding, IdleRun
<1>4. Holding(c) => cpu[c].pkt \in Packets
  BY <1>0 DEF Holding, RunOK
<1>5. CASE Deliver(c)
  <2>1. PICK p \in Packets : Ignore(c, p) \/ Receive(c, p)
    BY <1>5 DEF Deliver
  <2> QED
    BY <1>3, <2>1 DEF Ignore, Receive, NoFrame, Holding
<1>6. CASE NextSocket(c)
  BY <1>3, <1>6 DEF NextSocket
<1>7. CASE NewConnection(c)
  BY <1>0, <1>7 DEF NewConnection, Holding, Run
<1>8. CASE Lookup(c)
  <2> DEFINE key == KeyOf(cpu[c].pkt)
  <2>1. Found(Find(key)) /\ cpu'[c] = [cpu[c] EXCEPT !.pc = FromSynAck(cpu[c].pkt), !.conn = Find(key)]
    BY <1>0, <1>8, EndOfRunIs DEF Lookup, Holding
  <2>2. key \in DOMAIN connections /\ Find(key) = connections[key]
    BY <2>1 DEF Found, Find
  <2>3. cpu[c].pkt \in Packets
    BY <1>0, <1>8 DEF Lookup, RunOK
  <2> QED
    BY <1>0, <1>8, <2>1, <2>2, <2>3 DEF Run
<1>9. CASE SynAck(c) \/ Psh(c) \/ Bytes(c) \/ Rst(c) \/ Fin(c) \/ StatsDelete(c)
  <2>1. Holding(c)
    BY <1>9 DEF SynAck, Psh, Bytes, Rst, Fin, StatsDelete, Holding
  <2> QED
    <3>1. cpu'[c].pkt = cpu[c].pkt /\ cpu'[c].conn = cpu[c].conn
      BY <1>1, <1>2, <1>9, <2>1 DEF SynAck, Psh, Bytes, Rst, Fin, StatsDelete
    <3> QED
      BY <1>4, <2>1, <3>1
<1>10. CASE StatsClock(c) \/ StatsFind(c) \/ StatsAdd(c) \/ StatsInsert(c)
  <2>1. Holding(c)
    BY <1>10 DEF StatsClock, StatsFind, StatsAdd, StatsInsert, Holding
  <2>2. CASE StatsFind(c)
    BY <1>0, <1>4, <2>1, <2>2 DEF StatsFind, Run
  <2>3. CASE StatsClock(c) \/ StatsAdd(c) \/ StatsInsert(c)
    BY <1>0, <1>4, <2>1, <2>3 DEF StatsClock, StatsAdd, StatsInsert, Run
  <2> QED
    BY <1>10, <2>2, <2>3
<1> QED
  BY <1>5, <1>6, <1>7, <1>8, <1>9, <1>10 DEF CpuStep

(* A step that does not store a SYN writes to the element it holds only,   *)
(* and at these labels only.                                               *)
LEMMA ElementWritten ==
  ASSUME TypeInv, NEW c \in CPUs, CpuStep(c) \/ Deliver(c), ~NewConnection(c),
         NEW s \in DOMAIN elem, elem'[s] # elem[s]
  PROVE  /\ s = cpu[c].conn /\ Holding(c)
         /\ SynAck(c) \/ Psh(c) \/ Bytes(c) \/ Rst(c) \/ Fin(c)
<1>1. CASE SynAck(c)
  BY <1>1 DEF SynAck, Holding
<1>2. CASE Psh(c)
  BY <1>2 DEF Psh, Holding
<1>3. CASE Bytes(c)
  BY <1>3 DEF Bytes, Holding
<1>4. CASE Rst(c) \/ Fin(c)
  BY <1>4 DEF Rst, Fin, Holding
<1>5. CASE ~(SynAck(c) \/ Psh(c) \/ Bytes(c) \/ Rst(c) \/ Fin(c))
  BY <1>5 DEF CpuStep, Deliver, Ignore, Receive, NextSocket, Start, Lookup, StatsClock,
       StatsFind, StatsAdd, StatsInsert, StatsDelete, mapVars
<1> QED
  BY <1>1, <1>2, <1>3, <1>4, <1>5

(* The goroutines write to no element; they only take keys away.           *)
LEMMA GoroutinesDelete ==
  ASSUME [Next]_vars, Alive, ~(\E c \in CPUs : CaptureAction(c) \/ DeliverAction(c))
  PROVE  /\ UNCHANGED <<elem, cpu>>
         /\ \A k \in DOMAIN connections' :
              k \in DOMAIN connections /\ connections'[k] = connections[k]
<1>1. CASE TrackAction
  <2>1. ASSUME NEW j \in todo, PurgeConnection(j)
        PROVE  /\ UNCHANGED elem
               /\ \A k \in DOMAIN connections' :
                    k \in DOMAIN connections /\ connections'[k] = connections[k]
    BY <2>1 DEF PurgeConnection, MapDelete
  <2>2. ASSUME ~(\E j \in todo : PurgeConnection(j))
        PROVE  UNCHANGED <<elem, connections>>
    BY <1>1, <2>2
       DEF TrackAction, TrackStep, Tick, ScanConnection, CollectStats, DeleteStats, Account,
           ScanError, ScanEnd, StatsLookup, StatsLookupError, CollectEnd, CleanupEnd, mapVars
  <2> QED
    BY <1>1, <2>1, <2>2 DEF TrackAction, captureVars
<1>2. CASE SecondAction \/ SendInc \/ ApplyAction \/ ExpireAction \/ AdvanceAction \/ UNCHANGED vars
  BY <1>2 DEF SecondAction, Second, SendInc, Send, ApplyAction, ExpireAction, Expire,
       AdvanceAction, Advance, vars, mapVars, captureVars
<1> QED
  BY <1>1, <1>2 DEF Next, Rest, Restart

(***************************************************************************)
(* Two keys never share an element, and a run that is alone on the machine *)
(* shares the element it holds with no other key.                          *)
(***************************************************************************)
SlotInv(c) ==
  /\ \A j, k \in DOMAIN connections : connections[j] = connections[k] => j = k
  /\ Holding(c) => \A k \in DOMAIN connections :
       connections[k] = cpu[c].conn => k = KeyOf(cpu[c].pkt)

LEMMA SlotStart ==
  ASSUME Init, NEW c \in CPUs
  PROVE  SlotInv(c)
BY EmptyMapType DEF Init, MapsInit, CaptureInit, IdleRun, SlotInv, Holding

LEMMA SlotStep ==
  ASSUME TypeInv, NEW c \in CPUs, CPUs = {c}, SlotInv(c), [Next]_vars
  PROVE  SlotInv(c)'
<1>1. ASSUME UNCHANGED cpu,
             \A k \in DOMAIN connections' :
               k \in DOMAIN connections /\ connections'[k] = connections[k]
      PROVE  SlotInv(c)'
  BY <1>1 DEF SlotInv, Holding
<1>2. CASE CaptureAction(c) \/ DeliverAction(c)
  <2>0. CpuStep(c) \/ Deliver(c)
    BY <1>2 DEF CaptureAction, DeliverAction
  <2>1. CASE NewConnection(c)
    <3>1. ~Holding(c)'
      BY <2>1 DEF NewConnection, Holding, TypeInv, TypeOK, CaptureTypeOK, Run
    <3>2. ASSUME NEW j \in DOMAIN connections', NEW k \in DOMAIN connections',
                 connections'[j] = connections'[k]
          PROVE  j = k
      BY <2>1, <3>2, NewConnectionStores DEF SlotInv, FreeSlots
    <3> QED
      BY <3>1, <3>2 DEF SlotInv
  <2>2. CASE ~NewConnection(c)
    <3>1. \A k \in DOMAIN connections' :
            k \in DOMAIN connections /\ connections'[k] = connections[k]
      BY <2>0, <2>2, FirstPacketKept
    <3>2. ASSUME Holding(c)', NEW k \in DOMAIN connections', connections'[k] = cpu'[c].conn
          PROVE  k = KeyOf(cpu'[c].pkt)
      BY <2>0, <3>1, <3>2, RunFlow DEF SlotInv
    <3> QED
      BY <3>1, <3>2 DEF SlotInv
  <2> QED
    BY <2>1, <2>2
<1>3. CASE ~Alive /\ Next
  <2>1. Restart
    BY <1>3, PanickedRestarts
  <2> QED
    BY <2>1, EmptyMapType DEF Restart, IdleRun, SlotInv, Holding
<1>4. CASE UNCHANGED vars
  BY <1>1, <1>4 DEF vars, mapVars, captureVars
<1> QED
  BY <1>1, <1>2, <1>3, <1>4, GoroutinesDelete

(* With one CPU it holds throughout.                                       *)
LEMMA SlotInvariant ==
  ASSUME NEW c \in CPUs, CPUs = {c}
  PROVE  Spec => []SlotInv(c)
<1>1. Init => SlotInv(c)
  BY SlotStart
<1>2. TypeInv /\ SlotInv(c) /\ [Next]_vars => SlotInv(c)'
  BY SlotStep
<1> QED
  BY <1>1, <1>2, TypeInvariant, PTL DEF Spec
=============================================================================
