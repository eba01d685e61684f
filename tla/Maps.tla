-------------------------------- MODULE Maps --------------------------------
(***************************************************************************)
(* The eBPF maps that the packet filter (packet/c/cap.c, in the kernel)    *)
(* and TrackConnections (packet/packet.go, in user space) share, with the  *)
(* types of packet/c/types.h that are stored in them.                      *)
(*                                                                         *)
(* An eBPF hash map is a function whose domain is the set of keys present. *)
(* The elements of `connections' are preallocated: a lookup returns a      *)
(* pointer to an element, the pointer stays usable after the key has been  *)
(* deleted, and a freed element is handed out again at once. Elements are  *)
(* therefore modelled as Slots of their own, to which a key points.        *)
(***************************************************************************)
EXTENDS Accounting

CONSTANTS
  IPs,                  \* IPv4 addresses that occur in the traffic
  Ports,                \* TCP ports that occur in the traffic
  Sni,                  \* server names, and what overlaying them can give
  NoSni,                \* the empty server name
  Overlay(_, _),        \* the name left when a new one is written over an old
  STATS_SECONDS_COUNT,  \* number of inner maps of `stats' (20)
  MAX_SERVER_COUNT,     \* max_entries of an inner map of `stats' (100)
  MAX_CONNECTIONS,      \* max_entries of `connections' (1024)
  Slots,                \* preallocated elements of `connections'
  Null                  \* no packet, no pointer, no increment

VARIABLES
  connections,   \* eBPF hash map: tuple_key_t -> slot
  elem,          \* slot -> tuple_data_t, for the slots handed out so far
  stats,         \* eBPF array of hash maps: bucket -> ConnKey -> sni_stats_t
  ticker_clock   \* eBPF array map with one counter

mapVars == <<connections, elem, stats, ticker_clock>>

ASSUME StatsSecondsAssumption == STATS_SECONDS_COUNT \in Nat \ {0}

ASSUME CapacityAssumption == MAX_SERVER_COUNT \in Nat /\ MAX_CONNECTIONS \in Nat

(* An address has 32 bits, and a server name a buffer of fixed length.     *)
ASSUME FiniteKeysAssumption == IsFiniteSet(IPs) /\ IsFiniteSet(Sni)

ASSUME SniAssumption ==
  /\ NoSni \in Sni
  /\ \A old, new \in Sni : Overlay(old, new) \in Sni
  /\ \A new \in Sni : Overlay(NoSni, new) = new /\ Overlay(new, new) = new

-----------------------------------------------------------------------------
(* Partial functions, as the maps of eBPF, of Go and of Prometheus are.    *)

EmptyMap == [x \in {} |-> x]

IsMap(m, K, V) == DOMAIN m \subseteq K /\ m \in [DOMAIN m -> V]

MapPut(m, k, v) == [x \in DOMAIN m \cup {k} |-> IF x = k THEN v ELSE m[x]]

MapDelete(m, k) == [x \in DOMAIN m \ {k} |-> m[x]]

MapRestrict(m, D) == [x \in D |-> m[x]]

-----------------------------------------------------------------------------
Endpoint == [ip : IPs, port : Ports]

tuple_key_t == [source : Endpoint, dest : Endpoint]

ConnKey == [sourceIP : IPs, destIP : IPs, sni : Sni]

tuple_data_t ==
  [state : connState, id : ConnKey, num_packets : Nat,
   total_data_bytes : Nat, ticker_clock_first_packet : Nat]

sni_stats_t == [succeeded_connections : Nat, failed_connections : Nat]

Buckets == 0 .. STATS_SECONDS_COUNT - 1

MapsTypeOK ==
  /\ IsMap(elem, Slots, tuple_data_t)
  /\ IsMap(connections, tuple_key_t, DOMAIN elem)
  /\ stats = [b \in Buckets |-> stats[b]]
  /\ \A b \in Buckets : IsMap(stats[b], ConnKey, sni_stats_t)
  /\ ticker_clock \in Nat

(***************************************************************************)
(* initStatsMap creates every inner map before the program is attached;    *)
(* the other maps start empty, the clock at zero.                          *)
(***************************************************************************)
MapsInit ==
  /\ connections = EmptyMap
  /\ elem = EmptyMap
  /\ stats = [b \in Buckets |-> EmptyMap]
  /\ ticker_clock = 0

-----------------------------------------------------------------------------
(***************************************************************************)
(* Helpers of the kernel (external), as the code in src/ uses them.        *)
(* An element no key points to is on the free list, or is the spare one a  *)
(* CPU keeps for replacing the value of a key that exists.                 *)
(***************************************************************************)
FreeSlots == Slots \ {connections[k] : k \in DOMAIN connections}

(***************************************************************************)
(* bpf_map_update_elem(&connections, key, value, BPF_ANY): a new element   *)
(* is filled and takes the place of the old one. A new key in a full map   *)
(* is refused, and the caller ignores the error.                           *)
(***************************************************************************)
ConnectionsUpdate(key, value) ==
  \/ /\ key \in DOMAIN connections \/ Cardinality(DOMAIN connections) < MAX_CONNECTIONS
     /\ \E s \in FreeSlots :
          /\ elem' = MapPut(elem, s, value)
          /\ connections' = MapPut(connections, key, s)
  \/ /\ key \notin DOMAIN connections
     /\ Cardinality(DOMAIN connections) >= MAX_CONNECTIONS
     /\ UNCHANGED <<elem, connections>>

(***************************************************************************)
(* bpf_map_update_elem(inner_map, key, value, BPF_ANY) on a bucket.        *)
(***************************************************************************)
BucketUpdate(bucket, key, value) ==
  IF key \in DOMAIN bucket \/ Cardinality(DOMAIN bucket) < MAX_SERVER_COUNT
  THEN MapPut(bucket, key, value)
  ELSE bucket
=============================================================================
