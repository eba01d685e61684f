----------------------------- MODULE MCExporter -----------------------------
(***************************************************************************)
(* Traffic for the instances of Exporter: a client and a server, and the   *)
(* frames of a connection that the filter tells apart. The second          *)
(* connection is that of another client, to another name.                  *)
(***************************************************************************)
EXTENDS Exporter, TLC

CONSTANTS client, client2, server, alpha, beta

(* A name written over a longer one leaves a mixture, unless they are the  *)
(* same; the names of the instances have the same length.                  *)
MCOverlay(old, new) == new

Frame(ip, name) ==
  [tcp |-> TRUE,
   src |-> [ip |-> ip, port |-> 50000], dst |-> [ip |-> server, port |-> 443],
   syn |-> FALSE, ack |-> TRUE, psh |-> FALSE, rst |-> FALSE, fin |-> FALSE,
   len |-> 0, parse_sni |-> name]

Reply(f) == [f EXCEPT !.src = f.dst, !.dst = f.src]

Syn(ip)         == [Frame(ip, NoSni) EXCEPT !.syn = TRUE, !.ack = FALSE]
SynAckOf(ip)    == [Reply(Frame(ip, NoSni)) EXCEPT !.syn = TRUE]
Hello(ip, name) == [Frame(ip, name) EXCEPT !.psh = TRUE, !.len = 2]
LastData(ip)    == [Reply(Frame(ip, NoSni)) EXCEPT !.psh = TRUE, !.len = 65536, !.fin = TRUE]
FinOf(ip)       == [Frame(ip, NoSni) EXCEPT !.fin = TRUE]
ClientRst(ip)   == [Frame(ip, NoSni) EXCEPT !.rst = TRUE]
ServerRst(ip)   == [Reply(Frame(ip, NoSni)) EXCEPT !.rst = TRUE]
Foreign         == [Frame(client, NoSni) EXCEPT !.tcp = FALSE]

OneConnection ==
  {Syn(client), SynAckOf(client), Hello(client, alpha), LastData(client), ServerRst(client), Foreign}

(* ... and a second client whose connection does not get far.              *)
TwoClients == OneConnection \cup {Syn(client2), ClientRst(client2)}

TwoConnections == {Syn(client), ServerRst(client), Syn(client2), Hello(client2, beta), FinOf(client2)}

ShortConnection == {Syn(client), ServerRst(client)}

RacingEnds == {Syn(client), FinOf(client), ServerRst(client)}

(* The names of the CPUs and of the elements of `connections' do not matter. *)
Symmetry == Permutations(CPUs) \cup Permutations(Slots)
=============================================================================
