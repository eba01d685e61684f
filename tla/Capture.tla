------------------------------ MODULE Capture -------------------------------
(***************************************************************************)
(* The socket filter capture_packets (packet/c/cap.c), run by the kernel   *)
(* for every frame, on any number of CPUs at once. One run is a sequence   *)
(* of steps between which other CPUs and the user-space tracker may step:  *)
(* every helper call on a shared map, and every write through the `conn'   *)
(* pointer, is a step of its own.                                          *)
(***************************************************************************)
EXTENDS Maps

CONSTANTS
  CPUs,                     \* CPUs that run the filter concurrently
  Packets,                  \* the frames the network may deliver
  MaxPackets,               \* bound on the number of runs that find a connection
  Copies,                   \* how many sockets with the filter a frame may reach
  ConfigCidrs,              \* addresses that match an entry of config_cidrs
  ConfigPorts,              \* keys of config_ports
  CONN_MIN_NUM_OF_PACKETS,
  CONN_MIN_DATA_BYTES

VARIABLES
  cpu,    \* CPU -> the run of the filter it is in
  seen    \* number of runs so far that found a connection

captureVars == <<cpu, seen>>

(***************************************************************************)
(* A frame: whether it is a complete IPv4 TCP frame, its endpoints, its    *)
(* flags, the length of its payload, and the server name that parse_sni    *)
(* reads in the payload (NoSni when it returns 0).                         *)
(***************************************************************************)
Packet ==
  [tcp : BOOLEAN, src : Endpoint, dst : Endpoint,
   syn : BOOLEAN, ack : BOOLEAN, psh : BOOLEAN, rst : BOOLEAN, fin : BOOLEAN,
   len : Nat, parse_sni : Sni]

ASSUME CPUsAssumption == IsFiniteSet(CPUs)

ASSUME PacketsAssumption == Packets \subseteq Packet

ASSUME CopiesAssumption == Copies \subseteq Nat \ {0}

ASSUME ThresholdAssumption ==
  CONN_MIN_NUM_OF_PACKETS \in Nat /\ CONN_MIN_DATA_BYTES \in Nat

ASSUME NullAssumption == Null \notin Packet /\ Null \notin Slots /\ Null \notin ConnKey

-----------------------------------------------------------------------------
(***************************************************************************)
(* A frame is looked at if it is TCP, one of its addresses is configured   *)
(* and one of its ports is.                                                *)
(***************************************************************************)
Captured(p) ==
  /\ p.tcp
  /\ p.src.ip \in ConfigCidrs \/ p.dst.ip \in ConfigCidrs
  /\ p.src.port \in ConfigPorts \/ p.dst.port \in ConfigPorts

server_to_client(p) == p.src.port \in ConfigPorts

(* The key of a connection has the client as its source.                   *)
KeyOf(p) ==
  IF server_to_client(p) THEN [source |-> p.dst, dest |-> p.src]
                         ELSE [source |-> p.src, dest |-> p.dst]

(* A deliberately wrong IdOf with the two addresses swapped.               *)
IdOfSwapped(p) ==
  [sourceIP |-> KeyOf(p).dest.ip, destIP |-> KeyOf(p).source.ip, sni |-> NoSni]

(* The ConnKey a connection starts with.                                   *)
IdOf(p) ==
  [sourceIP |-> KeyOf(p).source.ip, destIP |-> KeyOf(p).dest.ip, sni |-> NoSni]

(* The value stored for a SYN, at the clock value read.                    *)
NewTupleData(p, clock) ==
  [state |-> SYN_RECEIVED, id |-> IdOf(p), num_packets |-> 0, total_data_bytes |-> 0,
   ticker_clock_first_packet |-> clock]

(* A deliberately wrong EnoughTraffic that takes the minimum as enough.    *)
EnoughTrafficAtLeast(conn) ==
  \/ conn.num_packets >= CONN_MIN_NUM_OF_PACKETS
  \/ conn.total_data_bytes >= CONN_MIN_DATA_BYTES

(* Enough traffic to call a connection successful while it is still open.  *)
EnoughTraffic(conn) ==
  \/ conn.num_packets > CONN_MIN_NUM_OF_PACKETS
  \/ conn.total_data_bytes > CONN_MIN_DATA_BYTES

-----------------------------------------------------------------------------
(***************************************************************************)
(* A run of the filter on a CPU. The sockets that a frame reaches run the  *)
(* filter one after the other: that of index 0, bound to every interface,  *)
(* that of the interface, and those of the interfaces it passes through.   *)
(***************************************************************************)

Labels == {"idle", "syn", "lookup", "synack", "psh", "bytes", "rst", "fin",
           "stats_clock", "stats_find", "stats_add", "stats_insert", "stats_delete"}

Run ==
  [pc      : Labels,
   pkt     : Packets \cup {Null},
   conn    : Slots \cup {Null},    \* the pointer into `connections'
   clock   : Nat,                  \* the value of ticker_clock read last
   success : BOOLEAN,              \* successful_connection
   entry   : ConnKey \cup {Null},  \* the pointer s into a bucket
   ret     : Labels,               \* where add_connection_to_stats returns to
   left    : Nat]                  \* sockets that are still to see the frame

IdleRun == [pc |-> "idle", pkt |-> Null, conn |-> Null, clock |-> 0,
            success |-> TRUE, entry |-> Null, ret |-> "idle", left |-> 0]

(* The filter returns; the frame is kept for the sockets that are left.    *)
EndOfRun(r) ==
  IF r.left = 0 THEN IdleRun ELSE [IdleRun EXCEPT !.pkt = r.pkt, !.left = r.left]

(* The labels at which a clock value that was read is still to be used.    *)
HoldsClock(c) == cpu[c].pc \in {"syn", "stats_find", "stats_add", "stats_insert"}

(***************************************************************************)
(* A deliberately wrong bucketOf that leaves one bucket unused.            *)
(***************************************************************************)
bucketOfFewer(c) == cpu[c].clock % (STATS_SECONDS_COUNT - 1)

bucketOf(c) == cpu[c].clock % STATS_SECONDS_COUNT

(* The flags of the packet are looked at in this order.                    *)
FromFin(p)    == IF p.fin THEN "fin" ELSE "idle"
FromRst(p)    == IF p.rst THEN "rst" ELSE FromFin(p)
FromPsh(p)    == IF p.psh THEN "psh" ELSE FromRst(p)
FromSynAck(p) == IF p.syn /\ p.ack THEN "synack" ELSE FromPsh(p)

Goto(c, label) ==
  cpu' = [cpu EXCEPT ![c] = IF label = "idle" THEN EndOfRun(@) ELSE [@ EXCEPT !.pc = label]]

(* Enter add_connection_to_stats.                                          *)
Call(c, success, ret) ==
  cpu' = [cpu EXCEPT ![c].pc = "stats_clock", ![c].success = success, ![c].ret = ret]

(* What holds of a run, by where it is; elements: those handed out so far. *)
RunOK(r, elements) ==
  /\ r.pc # "idle" \/ r.left > 0 => r.pkt \in Packets
  /\ r.pc \notin {"idle", "syn", "lookup"} => r.conn \in elements
  /\ r.pc = "stats_add" => r.entry \in ConnKey
  /\ r.ret \in {"idle", "bytes", "fin"}

CaptureTypeOK ==
  /\ cpu \in [CPUs -> Run]
  /\ \A c \in CPUs : RunOK(cpu[c], DOMAIN elem)
  /\ seen \in Nat

CaptureInit ==
  /\ cpu = [c \in CPUs |-> IdleRun]
  /\ seen = 0

-----------------------------------------------------------------------------
NoFrame(c) == cpu[c].pc = "idle" /\ cpu[c].left = 0

(* A frame the filter is not concerned with: one of the early returns.     *)
Ignore(c, p) ==
  /\ NoFrame(c) /\ seen < MaxPackets
  /\ ~Captured(p)
  /\ UNCHANGED <<cpu, seen, mapVars>>

(* The filter starts on a frame; a SYN reads the clock for its connection. *)
Start(c, p, left) ==
  /\ cpu' = [cpu EXCEPT ![c] =
               IF p.syn /\ ~p.ack
               THEN [IdleRun EXCEPT !.pc = "syn", !.pkt = p, !.left = left, !.clock = ticker_clock]
               ELSE [IdleRun EXCEPT !.pc = "lookup", !.pkt = p, !.left = left]]
  /\ UNCHANGED <<seen, mapVars>>

(* A frame of interest, ...                                                *)
Receive(c, p) ==
  /\ NoFrame(c) /\ seen < MaxPackets
  /\ Captured(p)
  /\ \E n \in Copies : Start(c, p, n - 1)

(* ... and the same frame on the next socket.                              *)
NextSocket(c) ==
  /\ cpu[c].pc = "idle" /\ cpu[c].left > 0
  /\ Start(c, cpu[c].pkt, cpu[c].left - 1)

(* Store the new connection over whatever the tuple had before.            *)
NewConnection(c) ==
  /\ cpu[c].pc = "syn"
  /\ ConnectionsUpdate(KeyOf(cpu[c].pkt), NewTupleData(cpu[c].pkt, cpu[c].clock))
  /\ cpu' = [cpu EXCEPT ![c].pc = "lookup", ![c].clock = 0]
  /\ UNCHANGED <<stats, ticker_clock, seen>>

(* bpf_map_lookup_elem(&connections, key).                                 *)
Find(key) == IF key \in DOMAIN connections THEN connections[key] ELSE Null

(* A deliberately wrong Found: the pointer is not checked.                 *)
FoundUnchecked(conn) == TRUE

Found(conn) == conn # Null

(* Look the connection up; a packet of no known connection is dropped.     *)
Lookup(c) ==
  LET conn == Find(KeyOf(cpu[c].pkt)) next == FromSynAck(cpu[c].pkt) IN
  /\ cpu[c].pc = "lookup"
  /\ cpu' = [cpu EXCEPT ![c] =
               IF Found(conn) /\ next # "idle"
               THEN [@ EXCEPT !.pc = next, !.conn = conn]
               ELSE EndOfRun(@)]
  /\ seen' = seen + Bit(Found(conn))
  /\ UNCHANGED mapVars

SynAck(c) ==
  /\ cpu[c].pc = "synack"
  /\ elem' = [elem EXCEPT ![cpu[c].conn].state = SYNACK_RECEIVED]
  /\ Goto(c, FromPsh(cpu[c].pkt))
  /\ UNCHANGED <<connections, stats, ticker_clock, seen>>

(***************************************************************************)
(* A segment with data: count the connection once it has carried enough,   *)
(* or look for the server name. A name is written over the old one without *)
(* clearing what is left of that. The reads of the element, the writes of  *)
(* the bytes of the name and the write of the state are one step: what two *)
(* CPUs with such segments of one connection can mix is not modelled.      *)
(***************************************************************************)
Psh(c) ==
  LET conn == cpu[c].conn
      sni  == cpu[c].pkt.parse_sni
  IN
  /\ cpu[c].pc = "psh"
  /\ \/ /\ elem[conn].state = SNI_RECEIVED
        /\ IF EnoughTraffic(elem[conn]) THEN Call(c, TRUE, "bytes") ELSE Goto(c, "bytes")
        /\ UNCHANGED elem
     \/ /\ elem[conn].state # SNI_RECEIVED
        /\ elem' = IF sni = NoSni THEN elem
                   ELSE [elem EXCEPT ![conn].id.sni = Overlay(@, sni),
                                     ![conn].state = SNI_RECEIVED]
        /\ Goto(c, "bytes")
  /\ UNCHANGED <<connections, stats, ticker_clock, seen>>

(* The two atomic additions; the length is truncated to 16 bits.           *)
Carried(conn, len) ==
  [conn EXCEPT !.num_packets = conn.num_packets + 1,
               !.total_data_bytes = conn.total_data_bytes + (len % 65536)]

Bytes(c) ==
  /\ cpu[c].pc = "bytes"
  /\ elem' = [elem EXCEPT ![cpu[c].conn] = Carried(elem[cpu[c].conn], cpu[c].pkt.len)]
  /\ Goto(c, FromRst(cpu[c].pkt))
  /\ UNCHANGED <<connections, stats, ticker_clock, seen>>

(* A reset by the server is a failure, one by the client is not.           *)
Rst(c) ==
  LET fromServer == server_to_client(cpu[c].pkt) IN
  /\ cpu[c].pc = "rst"
  /\ elem' = [elem EXCEPT ![cpu[c].conn].state =
                IF fromServer THEN RST_SENT_BY_SERVER ELSE RST_SENT_BY_CLIENT]
  /\ Call(c, ~fromServer, FromFin(cpu[c].pkt))
  /\ UNCHANGED <<connections, stats, ticker_clock, seen>>

Fin(c) ==
  /\ cpu[c].pc = "fin"
  /\ elem' = [elem EXCEPT ![cpu[c].conn].state = FIN_RECEIVED]
  /\ Call(c, TRUE, "idle")
  /\ UNCHANGED <<connections, stats, ticker_clock, seen>>

-----------------------------------------------------------------------------
(* add_connection_to_stats, step by step.                                  *)

(* Read the clock that selects the bucket.                                 *)
StatsClock(c) ==
  /\ cpu[c].pc = "stats_clock"
  /\ cpu' = [cpu EXCEPT ![c].pc = "stats_find", ![c].clock = ticker_clock]
  /\ UNCHANGED <<mapVars, seen>>

(* Look the ConnKey up in the bucket. The key is read through `conn', which *)
(* by now may be an element that another connection uses.                  *)
StatsFind(c) ==
  LET id == elem[cpu[c].conn].id IN
  /\ cpu[c].pc = "stats_find"
  /\ cpu' = [cpu EXCEPT ![c] =
               IF id \in DOMAIN stats[bucketOf(c)]
               THEN [@ EXCEPT !.pc = "stats_add", !.entry = id]
               ELSE [@ EXCEPT !.pc = "stats_insert"]]
  /\ UNCHANGED <<mapVars, seen>>

AddOne(s, success) ==
  IF success THEN [s EXCEPT !.succeeded_connections = @ + 1]
             ELSE [s EXCEPT !.failed_connections = @ + 1]

(***************************************************************************)
(* The atomic addition. If the entry has been deleted in the meantime, it  *)
(* goes to an element that nobody reads. Entries of buckets are values and *)
(* no slots: when another CPU has replaced the entry with BPF_ANY, the     *)
(* code adds to the replaced element, and the addition is lost or goes to  *)
(* the next owner of the element; here it goes to the new entry. Only the  *)
(* upper bounds (NothingInvented) are stated for more than one CPU, and    *)
(* they count the addition either way.                                     *)
(***************************************************************************)
StatsAdd(c) ==
  LET k == cpu[c].entry IN
  /\ cpu[c].pc = "stats_add"
  /\ stats' = IF k \in DOMAIN stats[bucketOf(c)]
              THEN [stats EXCEPT ![bucketOf(c)][k] = AddOne(@, cpu[c].success)]
              ELSE stats
  /\ cpu' = [cpu EXCEPT ![c].pc = "stats_delete", ![c].entry = Null, ![c].clock = 0]
  /\ UNCHANGED <<connections, elem, ticker_clock, seen>>

NoStats == [succeeded_connections |-> 0, failed_connections |-> 0]

(* A deliberately wrong NewStats: an empty entry.                          *)
NewStatsEmpty(success) == NoStats

NewStats(success) == AddOne(NoStats, success)

(* The first connection of this ConnKey in this second. BPF_ANY replaces   *)
(* an entry that another CPU has created since the lookup.                 *)
StatsInsert(c) ==
  /\ cpu[c].pc = "stats_insert"
  /\ stats' = [stats EXCEPT ![bucketOf(c)] =
                 BucketUpdate(@, elem[cpu[c].conn].id, NewStats(cpu[c].success))]
  /\ cpu' = [cpu EXCEPT ![c].pc = "stats_delete", ![c].clock = 0]
  /\ UNCHANGED <<connections, elem, ticker_clock, seen>>

(* A deliberately wrong CountedKey: the packet's own direction.            *)
CountedKeyAsSent(p) == [source |-> p.src, dest |-> p.dst]

CountedKey(p) == KeyOf(p)

(* Always delete the connection after it has been counted.                 *)
StatsDelete(c) ==
  /\ cpu[c].pc = "stats_delete"
  /\ connections' = MapDelete(connections, CountedKey(cpu[c].pkt))
  /\ Goto(c, cpu[c].ret)
  /\ UNCHANGED <<elem, stats, ticker_clock, seen>>

-----------------------------------------------------------------------------
(* One step of the run that a CPU is in.                                   *)
CpuStep(c) ==
  \/ NextSocket(c) \/ NewConnection(c) \/ Lookup(c) \/ SynAck(c) \/ Psh(c) \/ Bytes(c)
  \/ Rst(c) \/ Fin(c)
  \/ StatsClock(c) \/ StatsFind(c) \/ StatsAdd(c) \/ StatsInsert(c) \/ StatsDelete(c)

Deliver(c) == \E p \in Packets : Ignore(c, p) \/ Receive(c, p)

CaptureNext == \E c \in CPUs : Deliver(c) \/ CpuStep(c)
=============================================================================
