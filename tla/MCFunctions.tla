---------------------------- MODULE MCFunctions -----------------------------
(***************************************************************************)
(* Inputs for the two pure parts of the code: the server name parser and   *)
(* the execution histogram. A behaviour is about one of them.              *)
(***************************************************************************)
EXTENDS SniParser, Histogram, TLC

VARIABLE about   \* the part that this behaviour is about

(* A name whose bytes all differ from the filler of the other fields.      *)
Name(n) == [i \in 1 .. n |-> 97 + (i % 26)]

Sni(n)   == [type |-> 0, name |-> Name(n), len |-> 0]
Other(n) == [type |-> 16, name |-> <<>>, len |-> n]

Others(k) == [i \in 1 .. k |-> Other(i % 3)]

Plain(extensions) ==
  [content |-> 22, type |-> 1, session |-> 0, ciphers |-> 2, compression |-> 1,
   extensions |-> extensions]

(* A name in the first, the last or the middle place, as the 20th and the  *)
(* 21st extension, at the limits of its length, and no name.               *)
MCHellos ==
  {Plain(<<Sni(3)>>), Plain(<<Other(2), Sni(3), Other(1)>>), Plain(<<Other(0), Other(300)>>),
   Plain(<<>>), Plain(Others(19) \o <<Sni(2)>>), Plain(Others(20) \o <<Sni(2)>>),
   Plain(<<Sni(0)>>), Plain(<<Sni(127)>>), Plain(<<Sni(128)>>), Plain(<<Sni(129), Other(1)>>),
   [Plain(<<Other(1), Sni(3)>>) EXCEPT !.session = 32, !.ciphers = 260, !.compression = 2],
   [Plain(<<Sni(3)>>) EXCEPT !.type = 2], [Plain(<<Sni(3)>>) EXCEPT !.content = 23]}

(* Zero, one, the powers of two at which bpf_log2 branches, and their      *)
(* neighbours; the greatest value of 32 bits.                              *)
MCDurations == {{}, {0, 1}, {2}, {7}, 0 .. 15, {16}, {30}, 0 .. 31}

(* The names of the CPUs do not matter.                                    *)
CPUSymmetry == Permutations(HistogramCPUs)

FunctionsInit ==
  /\ about \in {"parser", "histogram"}
  /\ SniInit /\ (about = "histogram" => hello = Plain(<<>>))
  /\ HistInit

FunctionsNext ==
  \/ about = "parser" /\ OneMoreByte /\ UNCHANGED <<about, histVars>>
  \/ about = "histogram" /\ HistNext /\ UNCHANGED <<about, sniVars>>

FunctionsSpec == FunctionsInit /\ [][FunctionsNext]_<<about, sniVars, histVars>>
=============================================================================
