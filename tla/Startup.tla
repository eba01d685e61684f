------------------------------ MODULE Startup -------------------------------
(***************************************************************************)
(* The start of the process, up to where its goroutines begin, and the end *)
(* of its data source: main (main.go), NewNetworkDataSource and Close      *)
(* (packet/packet.go), and what they call in packet/bpf.go. Every system   *)
(* call may fail; an error that the code does not log and skip ends the    *)
(* process (klog.Fatalf), without the deferred calls.                      *)
(***************************************************************************)
EXTENDS Integers, FiniteSets, Sequences

CONSTANTS
  Flags,                \* values of the flags -r and -p, split at the commas
  AddressBits,          \* length of an address (32)
  MAX_CONFIG,           \* max_entries of config_cidrs and config_ports (32)
  STATS_SECONDS_COUNT,  \* number of inner maps of `stats' (20)
  SOCKET_COUNT          \* len(ebpfAttachment.socketFD) (32)

VARIABLES
  main,           \* where main is
  pending,        \* the channel signals, of capacity one, holds a signal
  flags,          \* the flags of this process
  cidrs, ports,   \* the items that initCIDRMap and initPortMap have to visit
  config_cidrs,   \* eBPF map: the set of its cidr_keys
  config_ports,   \* eBPF map: the set of its ports
  innerMaps,      \* the buckets of `stats' that have an inner map
  coll,           \* the collection of programs and maps in the kernel
  sockets,        \* interface index -> the socket made for it
  iface           \* index of the loops over the sockets

startVars == <<flags, cidrs, ports, config_cidrs, config_ports, innerMaps,
               coll, sockets, iface>>

ASSUME StartupAssumption ==
  /\ AddressBits \in 0 .. 32 /\ MAX_CONFIG \in Nat
  /\ STATS_SECONDS_COUNT \in Nat \ {0} /\ SOCKET_COUNT \in Nat \ {0}

(***************************************************************************)
(* An item of -r: a network or an address, of IPv4, of IPv6, or of IPv4    *)
(* written as IPv6 ("mapped"), or any other text; size is the length of    *)
(* the IPv4 prefix. An item of -p: a decimal number, or any other text. An *)
(* address is the set of its bits that are one, the first bit being 0.     *)
(***************************************************************************)
Addresses == SUBSET (0 .. AddressBits - 1)

CidrItem ==
  [form : {"cidr4", "cidr6", "mapped_cidr", "ip4", "ip6", "mapped_ip", "other"},
   ip : Addresses, size : 0 .. AddressBits]

PortItem == [form : {"number", "other"}, n : Nat]

ASSUME FlagsAssumption ==
  \A f \in Flags : f.r \in Seq(CidrItem) /\ f.p \in Seq(PortItem)

AsSet(list) == {list[i] : i \in DOMAIN list}

-----------------------------------------------------------------------------
(* net.ParseCIDR (external) clears the bits behind the prefix.             *)
Masked(ip, size) == {b \in ip : b < size}

(***************************************************************************)
(* The cidr_key of an item, or none when it is not valid. To4 gives the    *)
(* address of a mapped network, but the mask still counts 96 more bits.    *)
(***************************************************************************)
parseIPSizeCIDR(h) ==
  CASE h.form = "cidr4"                -> {[ip |-> Masked(h.ip, h.size), prefixlen |-> h.size]}
    [] h.form = "mapped_cidr"          -> {[ip |-> Masked(h.ip, h.size), prefixlen |-> 96 + h.size]}
    [] h.form \in {"ip4", "mapped_ip"} -> {[ip |-> h.ip, prefixlen |-> AddressBits]}
    [] OTHER                           -> {}

(* strconv.ParseUint(p, 10, 16) (external), and the conversion to uint16.  *)
parsePort(p) == IF p.form = "number" /\ p.n < 65536 THEN {p.n} ELSE {}

(* Map.Put (external): a full map, and a trie for too long a prefix, refuse. *)
HasRoom(map, key) == key \in map \/ Cardinality(map) < MAX_CONFIG

-----------------------------------------------------------------------------
Starting == {"flags", "rlimit", "notify", "load", "cidrs", "ports", "stats", "attach", "go"}

Running == main \notin {"exited", "fatal", "killed"}

StartupTypeOK ==
  /\ main \in Starting \cup {"signals", "cancel", "wait", "close", "exited", "fatal", "killed"}
  /\ pending \in BOOLEAN
  /\ flags \in Flags
  /\ cidrs \subseteq AsSet(flags.r) /\ ports \subseteq AsSet(flags.p)
  /\ config_cidrs \subseteq UNION {parseIPSizeCIDR(h) : h \in AsSet(flags.r)}
  /\ config_ports \subseteq UNION {parsePort(p) : p \in AsSet(flags.p)}
  /\ innerMaps \in 0 .. STATS_SECONDS_COUNT
  /\ coll \in {"none", "loaded", "closed"}
  /\ sockets \in [0 .. SOCKET_COUNT - 1 -> {"none", "leaked", "open", "attached", "closed"}]
  /\ iface \in 0 .. SOCKET_COUNT

StartupInit ==
  /\ main = "flags" /\ pending = FALSE
  /\ flags \in Flags
  /\ cidrs = AsSet(flags.r) /\ ports = AsSet(flags.p)
  /\ config_cidrs = {} /\ config_ports = {} /\ innerMaps = 0
  /\ coll = "none"
  /\ sockets = [i \in 0 .. SOCKET_COUNT - 1 |-> "none"] /\ iface = 0

Goto(label) == main' = label /\ UNCHANGED pending

(***************************************************************************)
(* SIGINT or SIGTERM. It ends the process at once until signal.Notify has  *)
(* been called; from then on it is put into the channel, if that has room. *)
(***************************************************************************)
Signal ==
  /\ Running
  /\ IF main \in {"flags", "rlimit", "notify"}
     THEN main' = "killed" /\ UNCHANGED pending
     ELSE pending' = TRUE /\ UNCHANGED main
  /\ UNCHANGED startVars

(* An error: surplus arguments, Setrlimit, loading the collection and      *)
(* finding its maps and its program, creating or putting an inner map.     *)
StartupFatal ==
  /\ main \in {"flags", "rlimit", "load", "cidrs", "ports", "stats"}
  /\ Goto("fatal")
  /\ UNCHANGED startVars

ParseFlags == main = "flags" /\ Goto("rlimit") /\ UNCHANGED startVars

Setrlimit == main = "rlimit" /\ Goto("notify") /\ UNCHANGED startVars

Notify == main = "notify" /\ Goto("load") /\ UNCHANGED startVars

(* newEBPFConfig, with setupMaps.                                          *)
newEBPFConfig ==
  /\ main = "load"
  /\ Goto("cidrs")
  /\ coll' = "loaded"
  /\ UNCHANGED <<flags, cidrs, ports, config_cidrs, config_ports, innerMaps, sockets, iface>>

(* One item of the loop of initCIDRMap; an item that is not valid, or that *)
(* the map refuses, leaves only StartupFatal.                              *)
initCIDRMap(h) ==
  /\ main = "cidrs" /\ h \in cidrs
  /\ \E key \in parseIPSizeCIDR(h) :
       /\ HasRoom(config_cidrs, key) /\ key.prefixlen <= AddressBits
       /\ config_cidrs' = config_cidrs \cup {key}
  /\ cidrs' = cidrs \ {h}
  /\ UNCHANGED <<main, pending, flags, ports, config_ports, innerMaps, coll, sockets, iface>>

initPortMap(p) ==
  /\ main = "ports" /\ p \in ports
  /\ \E port \in parsePort(p) :
       /\ HasRoom(config_ports, port)
       /\ config_ports' = config_ports \cup {port}
  /\ ports' = ports \ {p}
  /\ UNCHANGED <<main, pending, flags, cidrs, config_cidrs, innerMaps, coll, sockets, iface>>

(* The inner map of the next bucket.                                       *)
initStatsMap ==
  /\ main = "stats" /\ innerMaps < STATS_SECONDS_COUNT
  /\ innerMaps' = innerMaps + 1
  /\ UNCHANGED <<main, pending, flags, cidrs, ports, config_cidrs, config_ports, coll,
                 sockets, iface>>

(***************************************************************************)
(* A deliberately wrong AfterLoop that attaches the program too early.     *)
(***************************************************************************)
AfterLoopAttachFirst(label) == IF label = "cidrs" THEN "ports" ELSE "attach"

(* The loops of NewNetworkDataSource come one after the other.             *)
AfterLoop(label) ==
  IF label = "cidrs" THEN "ports" ELSE IF label = "ports" THEN "stats" ELSE "attach"

EndOfLoop ==
  /\ \/ main = "cidrs" /\ cidrs = {}
     \/ main = "ports" /\ ports = {}
     \/ main = "stats" /\ innerMaps = STATS_SECONDS_COUNT
  /\ Goto(AfterLoop(main))
  /\ UNCHANGED startVars

(* What openRawSock may leave: no socket, one that cannot be bound, which  *)
(* stays open without anybody knowing it, or one that is returned.         *)
openRawSock == {"none", "leaked", "open"}

(* The socket of the next interface index. Errors are logged; a socket     *)
(* that SO_ATTACH_BPF fails for is kept without a program.                 *)
AttachSocket ==
  /\ main = "attach" /\ iface < SOCKET_COUNT
  /\ \E s \in openRawSock :
       \/ sockets' = [sockets EXCEPT ![iface] = s]
       \/ s = "open" /\ sockets' = [sockets EXCEPT ![iface] = "attached"]
  /\ iface' = iface + 1
  /\ UNCHANGED <<main, pending, flags, cidrs, ports, config_cidrs, config_ports, innerMaps, coll>>

AttachEnd ==
  /\ main = "attach" /\ iface = SOCKET_COUNT
  /\ Goto("go")
  /\ iface' = 0
  /\ UNCHANGED <<flags, cidrs, ports, config_cidrs, config_ports, innerMaps, coll, sockets>>

(* NetworkDataSource.Close: every socket that is known, ...                *)
CloseSocket ==
  /\ main = "close" /\ iface < SOCKET_COUNT
  /\ sockets' = [sockets EXCEPT ![iface] = IF @ \in {"open", "attached"} THEN "closed" ELSE @]
  /\ iface' = iface + 1
  /\ UNCHANGED <<main, pending, flags, cidrs, ports, config_cidrs, config_ports, innerMaps, coll>>

(* ... then the collection; main returns.                                  *)
CloseCollection ==
  /\ main = "close" /\ iface = SOCKET_COUNT
  /\ Goto("exited")
  /\ coll' = "closed"
  /\ UNCHANGED <<flags, cidrs, ports, config_cidrs, config_ports, innerMaps, sockets, iface>>

StartStep ==
  \/ ParseFlags \/ Setrlimit \/ Notify \/ newEBPFConfig
  \/ \E h \in cidrs : initCIDRMap(h)
  \/ \E p \in ports : initPortMap(p)
  \/ initStatsMap \/ EndOfLoop \/ AttachSocket \/ AttachEnd

CloseStep == CloseSocket \/ CloseCollection

-----------------------------------------------------------------------------
(* Properties.                                                             *)

(* The addresses that the lookup of the filter finds in config_cidrs.      *)
Matched == {ip \in Addresses : \E key \in config_cidrs : Masked(ip, key.prefixlen) = key.ip}

(* The addresses that an item means.                                       *)
Meant(h) ==
  CASE h.form \in {"cidr4", "mapped_cidr"} ->
         {ip \in Addresses : \A b \in 0 .. h.size - 1 : b \in ip <=> b \in h.ip}
    [] h.form \in {"ip4", "mapped_ip"} -> {h.ip}
    [] OTHER -> {}

(***************************************************************************)
(* A socket runs the filter only when the filter is fully configured: all  *)
(* the maps it uses exist, with every inner map of `stats', and it takes   *)
(* the addresses and ports of the flags, all of them and no other. There   *)
(* is no process that runs with a part of its configuration, with a text   *)
(* it did not understand, or with more than fits; and the sockets are      *)
(* closed before the maps at the end.                                      *)
(***************************************************************************)
AttachedIsConfigured ==
  (\E i \in DOMAIN sockets : sockets[i] = "attached") =>
    /\ coll = "loaded"
    /\ innerMaps = STATS_SECONDS_COUNT
    /\ Matched = UNION {Meant(h) : h \in AsSet(flags.r)}
    /\ AsSet(flags.p) = {[form |-> "number", n |-> port] : port \in config_ports}
=============================================================================
