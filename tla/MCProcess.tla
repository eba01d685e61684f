----------------------------- MODULE MCProcess ------------------------------
(* Flags for the instances of Lifecycle, with addresses of three bits.     *)
EXTENDS Lifecycle

Cidr(form, ip, size) == [form |-> form, ip |-> ip, size |-> size]
Port(n)              == [form |-> "number", n |-> n]
OtherPort            == [form |-> "other", n |-> 0]

(***************************************************************************)
(* Networks that overlap or have bits behind the prefix, the network of    *)
(* all addresses, plain and mapped addresses, the greatest port; what is   *)
(* refused: a mapped network, IPv6, the empty text that an empty flag is   *)
(* split into, a port of 17 bits, and more items than the maps hold.       *)
(***************************************************************************)
MCFlags ==
  {[r |-> <<Cidr("cidr4", {0, 2}, 1), Cidr("ip4", {1}, 0)>>, p |-> <<Port(443), Port(65535)>>],
   [r |-> <<Cidr("cidr4", {0, 1}, 0), Cidr("mapped_ip", {0, 1}, 0), Cidr("cidr4", {2}, 0)>>,
    p |-> <<Port(0)>>]}
  \cup
  {[r |-> <<Cidr("ip4", {}, 0), Cidr("mapped_cidr", {0}, 1)>>, p |-> <<Port(443)>>],
   [r |-> <<Cidr("cidr6", {}, 0)>>, p |-> <<Port(443)>>],
   [r |-> <<Cidr("other", {}, 0)>>, p |-> <<Port(443)>>],
   [r |-> <<Cidr("ip4", {}, 0), Cidr("ip4", {2}, 0), Cidr("ip4", {1}, 0)>>, p |-> <<Port(443)>>],
   [r |-> <<Cidr("ip4", {}, 0)>>, p |-> <<Port(443), OtherPort>>],
   [r |-> <<Cidr("ip4", {}, 0)>>, p |-> <<Port(65536)>>],
   [r |-> <<Cidr("ip4", {}, 0)>>, p |-> <<Port(1), Port(2), Port(3)>>]}

OneFlag == {[r |-> <<Cidr("ip4", {1}, 0)>>, p |-> <<Port(443)>>]}
=============================================================================
