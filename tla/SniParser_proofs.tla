-------------------------- MODULE SniParser_proofs --------------------------
(***************************************************************************)
(* Theorems about parse_sni, for every message of TLS with at most one     *)
(* server name, cut anywhere. The message is laid out field by field       *)
(* (WireIs, WireExtension) and loaded (LoadIs). After every round the loop *)
(* is either at the end of an extension of the message (OnTrack), or its   *)
(* next load fails (Lost): it then stops, and finds a name of length 0.    *)
(***************************************************************************)
EXTENDS SniParser, Sums_proofs, SequenceTheorems

-----------------------------------------------------------------------------
(* Induction over the natural numbers, and what it defines.                *)

(* A set that has 0 and with every number its successor has them all.      *)
LEMMA Counting ==
  ASSUME NEW G, 0 \in G, \A n \in Nat : n \in G => n + 1 \in G
  PROVE  \A n \in Nat : n \in G
<1> SUFFICES ASSUME NEW n \in Nat, n \notin G
             PROVE  FALSE
  OBVIOUS
<1> DEFINE B == {0 .. k : k \in (0 .. n) \ G}
<1>1. IsFiniteSet(0 .. n)
  <2>1. 0 \in Int /\ n \in Int
    OBVIOUS
  <2> QED
    BY <2>1, FS_Interval
<1>2. B \in SUBSET (SUBSET (0 .. n)) /\ B # {}
  OBVIOUS
<1>3. PICK T \in B : \A x \in T : T \ {x} \notin B
  <2> HIDE DEF B
  <2> QED
    BY <1>1, <1>2, SmallestSubset
<1>4. PICK k \in (0 .. n) \ G : T = 0 .. k
  BY <1>3
<1>5. k # 0 /\ k - 1 \in Nat /\ k \in T
  BY <1>4
<1>6. T \ {k} = 0 .. k - 1 /\ k - 1 \in 0 .. n
  BY <1>4, <1>5
<1>7. k - 1 \notin G
  BY <1>4, <1>5
<1>8. T \ {k} \in B
  BY <1>6, <1>7
<1> QED
  BY <1>3, <1>5, <1>8

(* A function may be defined from its value before.                        *)
Iterates(f, n, S, a, step) ==
  f \in [0 .. n -> S] /\ f[0] = a /\ \A i \in 1 .. n : f[i] = step[i][f[i - 1]]

LEMMA Recursion ==
  ASSUME NEW n \in Nat, NEW S, NEW a \in S, NEW step \in [1 .. n -> [S -> S]]
  PROVE  \E f : Iterates(f, n, S, a, step)
<1> DEFINE Def(f, m) == /\ f \in [0 .. m -> S] /\ f[0] = a
                        /\ \A i \in 1 .. m : f[i] = step[i][f[i - 1]]
           G == {m \in Nat : m <= n => \E f : Def(f, m)}
<1>1. 0 \in G
  <2>1. Def([i \in 0 .. 0 |-> a], 0)
    OBVIOUS
  <2> QED
    BY <2>1
<1>2. ASSUME NEW m \in Nat, m \in G
      PROVE  m + 1 \in G
  <2> SUFFICES ASSUME m + 1 <= n
               PROVE  \E f : Def(f, m + 1)
    OBVIOUS
  <2>1. PICK f : Def(f, m)
    BY <1>2
  <2> DEFINE g == [i \in 0 .. m + 1 |-> IF i <= m THEN f[i] ELSE step[m + 1][f[m]]]
  <2>2. f[m] \in S /\ step[m + 1] \in [S -> S] /\ step[m + 1][f[m]] \in S
    BY <2>1
  <2>3. g \in [0 .. m + 1 -> S] /\ g[0] = a
    BY <2>1, <2>2
  <2>4. ASSUME NEW i \in 1 .. m + 1
        PROVE  g[i] = step[i][g[i - 1]]
    <3>1. CASE i <= m
      BY <2>1, <3>1
    <3>2. CASE i = m + 1
      <4>1. g[i] = step[m + 1][f[m]] /\ g[i - 1] = f[m]
        BY <3>2
      <4> QED
        BY <3>2, <4>1
    <3> QED
      BY <3>1, <3>2
  <2> QED
    BY <2>3, <2>4
<1>3. n \in G
  <2> HIDE DEF G
  <2> QED
    BY <1>1, <1>2, Counting
<1> QED
  BY <1>3 DEF Iterates

(* A set of numbers has a least one.                                       *)
Least(i, T) == i \in T /\ \A j \in T : i <= j

LEMMA LeastExists ==
  ASSUME NEW T \in SUBSET Nat, T # {}
  PROVE  \E i \in Nat : Least(i, T)
<1> SUFFICES ASSUME \A i \in Nat : ~Least(i, T)
             PROVE  FALSE
  OBVIOUS
<1> DEFINE G == {n \in Nat : \A j \in Nat : j <= n => j \notin T}
<1>1. 0 \in G
  BY DEF Least
<1>2. ASSUME NEW n \in Nat, n \in G
      PROVE  n + 1 \in G
  <2>1. \A j \in Nat : j <= n => j \notin T
    BY <1>2
  <2>2. n + 1 \notin T
    <3> SUFFICES ASSUME n + 1 \in T
                 PROVE  FALSE
      OBVIOUS
    <3>1. \A j \in T : n + 1 <= j
      BY <2>1
    <3> QED
      BY <3>1 DEF Least
  <2>3. \A j \in Nat : j <= n + 1 => j <= n \/ j = n + 1
    OBVIOUS
  <2> QED
    BY <2>1, <2>2, <2>3
<1>3. \A n \in Nat : n \in G
  <2> HIDE DEF G
  <2> QED
    BY <1>1, <1>2, Counting
<1>4. PICK t \in T : TRUE
  OBVIOUS
<1>5. t \in Nat /\ t \in G /\ t <= t
  BY <1>3
<1> QED
  BY <1>5

(* The least one is the one that CHOOSE takes.                             *)
LEMMA LeastChosen ==
  ASSUME NEW T \in SUBSET Nat, NEW i, Least(i, T)
  PROVE  (CHOOSE k \in T : \A j \in T : k <= j) = i
<1>1. \A k \in T : (\A j \in T : k <= j) => k = i
  BY DEF Least
<1> QED
  BY <1>1 DEF Least

-----------------------------------------------------------------------------
(* Sequences of bytes.                                                     *)

(* The sequence w starts with s.                                           *)
Starts(s, w) == Len(s) <= Len(w) /\ \A i \in 1 .. Len(s) : w[i] = s[i]

(* It is s followed by t.                                                  *)
Joined(w, s, t) ==
  /\ w \in Seq(Nat) /\ Len(w) = Len(s) + Len(t) /\ Starts(s, w)
  /\ \A i \in 1 .. Len(t) : w[Len(s) + i] = t[i]
  /\ Len(s) \in Nat /\ Len(t) \in Nat

(* That is what \o makes of them.                                         *)
LEMMA Appended ==
  ASSUME NEW s \in Seq(Nat), NEW t \in Seq(Nat)
  PROVE  Joined(s \o t, s, t)
<1> DEFINE w == s \o t
<1>1. Len(s) \in Nat /\ Len(t) \in Nat
  BY LenProperties
<1>2. /\ w \in Seq(Nat) /\ Len(w) = Len(s) + Len(t)
      /\ \A i \in 1 .. Len(s) + Len(t) : w[i] = IF i <= Len(s) THEN s[i] ELSE t[i - Len(s)]
  BY ConcatProperties
<1> HIDE DEF w
<1>3. Starts(s, w)
  BY <1>1, <1>2 DEF Starts
<1>4. ASSUME NEW i \in 1 .. Len(t)
      PROVE  w[Len(s) + i] = t[i]
  <2>1. Len(s) + i \in 1 .. Len(s) + Len(t) /\ ~(Len(s) + i <= Len(s)) /\ Len(s) + i - Len(s) = i
    BY <1>1
  <2> QED
    BY <1>2, <2>1
<1> QED
  BY <1>1, <1>2, <1>3, <1>4 DEF Joined, w

(* A start of a start is a start.                                          *)
LEMMA StartsOfStarts ==
  ASSUME NEW s \in Seq(Nat), NEW t \in Seq(Nat), NEW w \in Seq(Nat), Starts(s, t), Starts(t, w)
  PROVE  Starts(s, w)
<1>1. Len(s) \in Nat /\ Len(t) \in Nat /\ Len(w) \in Nat
  BY LenProperties
<1> QED
  BY <1>1 DEF Starts

(* The sequences that the message is made of.                              *)
LEMMA FilledSeq ==
  ASSUME NEW n \in Nat, NEW f \in [1 .. n -> Nat]
  PROVE  f \in Seq(Nat) /\ Len(f) = n
<1>1. f \in Seq(Nat)
  OBVIOUS
<1> QED
  BY <1>1, LenProperties

LEMMA OpaqueSeq ==
  ASSUME NEW n \in Nat
  PROVE  Opaque(n) \in Seq(Nat) /\ Len(Opaque(n)) = n
<1>1. Opaque(n) \in [1 .. n -> Nat]
  BY DEF Opaque
<1> QED
  BY <1>1, FilledSeq

LEMMA OneByte ==
  ASSUME NEW b \in Nat
  PROVE  <<b>> \in Seq(Nat) /\ Len(<<b>>) = 1 /\ <<b>>[1] = b
OBVIOUS

LEMMA TwoBytes ==
  ASSUME NEW n \in Nat
  PROVE  /\ U16(n) \in Seq(Nat) /\ Len(U16(n)) = 2
         /\ U16(n)[1] \in Nat /\ U16(n)[2] \in Nat /\ 256 * U16(n)[1] + U16(n)[2] = n
<1>1. n \div 256 \in Nat /\ n % 256 \in Nat /\ 256 * (n \div 256) + (n % 256) = n
  OBVIOUS
<1>2. U16(n) = <<n \div 256, n % 256>>
  BY DEF U16
<1>3. U16(n) \in Seq(Nat) /\ Len(U16(n)) = 2 /\ U16(n)[1] = n \div 256 /\ U16(n)[2] = n % 256
  BY <1>1, <1>2
<1> QED
  BY <1>1, <1>3

(* The number in the two bytes of w after the first p.                     *)
Pair(w, p) == 256 * w[p + 1] + w[p + 2]

-----------------------------------------------------------------------------
(* The message on the wire.                                                *)

Fields == [type : Nat, name : Seq(Nat), len : Nat]

(* The content of an extension, with the name at its place.                *)
LEMMA ContentIs ==
  ASSUME NEW e \in Fields
  PROVE  /\ Content(e) \in Seq(Nat) /\ Len(Content(e)) \in Nat
         /\ e.type = 0 => /\ Len(Content(e)) = 5 + Len(e.name) /\ Pair(Content(e), 3) = Len(e.name)
                          /\ \A i \in 1 .. Len(e.name) : Content(e)[5 + i] = e.name[i]
<1>1. CASE e.type # 0
  <2>1. Content(e) = Opaque(e.len) /\ e.len \in Nat
    BY <1>1 DEF Content, Fields
  <2> QED
    BY <1>1, <2>1, OpaqueSeq
<1>2. CASE e.type = 0
  <2> DEFINE n == Len(e.name)
             c1 == U16(n + 3)
             c2 == c1 \o <<0>>
             c3 == c2 \o U16(n)
             c4 == c3 \o e.name
  <2>1. e.name \in Seq(Nat) /\ n \in Nat /\ n + 3 \in Nat
    BY LenProperties DEF Fields
  <2>2. Content(e) = c4
    BY <1>2 DEF Content
  <2>3. c1 \in Seq(Nat) /\ Len(c1) = 2
    BY <2>1, TwoBytes
  <2>4. <<0>> \in Seq(Nat) /\ Len(<<0>>) = 1
    OBVIOUS
  <2>5. c2 \in Seq(Nat) /\ Len(c2) = 3
    <3>1. Joined(c2, c1, <<0>>)
      BY <2>3, <2>4, Appended
    <3> HIDE DEF c1, c2
    <3> QED
      BY <2>3, <2>4, <3>1 DEF Joined
  <2>6. U16(n) \in Seq(Nat) /\ Len(U16(n)) = 2 /\ 256 * U16(n)[1] + U16(n)[2] = n
    BY <2>1, TwoBytes
  <2>7. c3 \in Seq(Nat) /\ Len(c3) = 5 /\ \A i \in 1 .. 2 : c3[3 + i] = U16(n)[i]
    <3>1. Joined(c3, c2, U16(n))
      BY <2>5, <2>6, Appended
    <3> HIDE DEF c2, c3, n
    <3> QED
      BY <2>5, <2>6, <3>1 DEF Joined
  <2>8. /\ c4 \in Seq(Nat) /\ Len(c4) = 5 + n /\ Starts(c3, c4)
        /\ \A i \in 1 .. n : c4[5 + i] = e.name[i]
    <3>1. Joined(c4, c3, e.name)
      BY <2>1, <2>7, Appended
    <3> HIDE DEF c3, c4
    <3> QED
      BY <2>1, <2>7, <3>1 DEF Joined
  <2>9. c4[4] = U16(n)[1] /\ c4[5] = U16(n)[2]
    <3>1. c3[4] = U16(n)[1] /\ c3[5] = U16(n)[2]
      <4>1. 1 \in 1 .. 2 /\ 2 \in 1 .. 2 /\ 3 + 1 = 4 /\ 3 + 2 = 5
        OBVIOUS
      <4> HIDE DEF c3, n
      <4> QED
        BY <2>7, <4>1
    <3>2. 4 \in 1 .. Len(c3) /\ 5 \in 1 .. Len(c3)
      BY <2>7
    <3> HIDE DEF c3, c4, n
    <3> QED
      BY <2>8, <3>1, <3>2 DEF Starts
  <2>10. Pair(c4, 3) = n
    <3>1. 3 + 1 = 4 /\ 3 + 2 = 5
      OBVIOUS
    <3> HIDE DEF c4, n
    <3> QED
      BY <2>6, <2>9, <3>1 DEF Pair
  <2> HIDE DEF c4
  <2> QED
    BY <2>1, <2>2, <2>8, <2>10
<1> QED
  BY <1>1, <1>2

(* The extension: type, length and content.                                *)
LEMMA ExtensionIs ==
  ASSUME NEW e \in Fields
  PROVE  /\ Extension(e) \in Seq(Nat) /\ Len(Extension(e)) = 4 + Len(Content(e))
         /\ Len(Content(e)) \in Nat
         /\ Pair(Extension(e), 0) = e.type /\ Pair(Extension(e), 2) = Len(Content(e))
         /\ e.type = 0 => /\ Len(Content(e)) = 5 + Len(e.name)
                          /\ Pair(Extension(e), 7) = Len(e.name)
                          /\ \A i \in 1 .. Len(e.name) : Extension(e)[9 + i] = e.name[i]
<1> DEFINE c == Content(e)
           n == Len(c)
           x1 == U16(e.type)
           y == U16(n)
           x2 == x1 \o y
           x3 == x2 \o c
<1>1. c \in Seq(Nat) /\ n \in Nat /\ e.type \in Nat
  BY ContentIs DEF Fields
<1>2. Extension(e) = x3
  BY DEF Extension
<1>3. x1 \in Seq(Nat) /\ Len(x1) = 2 /\ 256 * x1[1] + x1[2] = e.type
  BY <1>1, TwoBytes
<1> HIDE DEF c, n
<1>4. y \in Seq(Nat) /\ Len(y) = 2 /\ 256 * y[1] + y[2] = n
  BY <1>1, TwoBytes
<1> HIDE DEF x1, y
<1>5. /\ x2 \in Seq(Nat) /\ Len(x2) = 4 /\ Starts(x1, x2)
      /\ \A i \in 1 .. 2 : x2[2 + i] = y[i]
  <2>1. Joined(x2, x1, y)
    BY <1>3, <1>4, Appended
  <2> HIDE DEF x2
  <2> QED
    BY <1>3, <1>4, <2>1 DEF Joined
<1>6. x2[1] = x1[1] /\ x2[2] = x1[2] /\ x2[3] = y[1] /\ x2[4] = y[2]
  <2>1. 1 \in 1 .. 2 /\ 2 \in 1 .. 2 /\ 2 + 1 = 3 /\ 2 + 2 = 4
    OBVIOUS
  <2> HIDE DEF x2
  <2> QED
    BY <1>3, <1>5, <2>1 DEF Starts
<1> HIDE DEF x2
<1>7. /\ x3 \in Seq(Nat) /\ Len(x3) = 4 + n /\ Starts(x2, x3)
      /\ \A i \in 1 .. n : x3[4 + i] = c[i]
  <2>1. Joined(x3, x2, c)
    BY <1>1, <1>5, Appended
  <2> HIDE DEF x3
  <2> QED
    BY <1>1, <1>5, <2>1 DEF Joined, n
<1>8. x3[1] = x1[1] /\ x3[2] = x1[2] /\ x3[3] = y[1] /\ x3[4] = y[2]
  <2>1. 1 \in 1 .. 4 /\ 2 \in 1 .. 4 /\ 3 \in 1 .. 4 /\ 4 \in 1 .. 4
    OBVIOUS
  <2> HIDE DEF x3
  <2> QED
    BY <1>5, <1>6, <1>7, <2>1 DEF Starts
<1> HIDE DEF x3
<1>9. Pair(x3, 0) = e.type /\ Pair(x3, 2) = n
  <2>1. 0 + 1 = 1 /\ 0 + 2 = 2 /\ 2 + 1 = 3 /\ 2 + 2 = 4
    OBVIOUS
  <2> QED
    BY <1>3, <1>4, <1>8, <2>1 DEF Pair
<1>10. ASSUME e.type = 0
       PROVE  /\ n = 5 + Len(e.name) /\ Pair(x3, 7) = Len(e.name)
              /\ \A i \in 1 .. Len(e.name) : x3[9 + i] = e.name[i]
  <2>1. /\ n = 5 + Len(e.name) /\ Pair(c, 3) = Len(e.name)
        /\ \A i \in 1 .. Len(e.name) : c[5 + i] = e.name[i]
    BY <1>10, ContentIs DEF c, n
  <2>2. Len(e.name) \in Nat
    BY LenProperties DEF Fields
  <2>3. x3[8] = c[4] /\ x3[9] = c[5]
    <3>1. 4 \in 1 .. n /\ 5 \in 1 .. n /\ 4 + 4 = 8 /\ 4 + 5 = 9
      BY <2>1, <2>2
    <3> QED
      BY <1>7, <3>1
  <2>4. Pair(x3, 7) = Pair(c, 3)
    <3>1. 7 + 1 = 8 /\ 7 + 2 = 9 /\ 3 + 1 = 4 /\ 3 + 2 = 5
      OBVIOUS
    <3> QED
      BY <2>3, <3>1 DEF Pair
  <2>5. ASSUME NEW i \in 1 .. Len(e.name)
        PROVE  x3[9 + i] = e.name[i]
    <3>1. 5 + i \in 1 .. n /\ 4 + (5 + i) = 9 + i
      BY <2>1, <2>2
    <3> QED
      BY <1>7, <2>1, <3>1
  <2> QED
    BY <2>1, <2>4, <2>5
<1> QED
  BY <1>1, <1>2, <1>7, <1>9, <1>10 DEF c, n

(* The extensions one after the other: up[i] are the first i of them.      *)
Plus(s, t) == s \o t

LEMMA PlusJoins ==
  ASSUME NEW s \in Seq(Nat), NEW t \in Seq(Nat)
  PROVE  Joined(Plus(s, t), s, t)
BY Appended DEF Plus

Lays(up, seqs) ==
  up = [i \in 0 .. Len(seqs) |-> IF i = 0 THEN <<>> ELSE Plus(up[i - 1], seqs[i])]

LEMMA ConcatUnfolds == \A seqs : Concat(seqs) = (CHOOSE up : Lays(up, seqs))[Len(seqs)]
BY DEF Concat, Lays, Plus

(* The recursive function that Concat names exists.                        *)
LEMMA LaysExists ==
  ASSUME NEW n \in Nat, NEW seqs, Len(seqs) = n, \A i \in 1 .. n : seqs[i] \in Seq(Nat)
  PROVE  \E up : Lays(up, seqs)
<1> DEFINE step == [i \in 1 .. n |-> [s \in Seq(Nat) |-> Plus(s, seqs[i])]]
<1>1. step \in [1 .. n -> [Seq(Nat) -> Seq(Nat)]]
  <2>1. ASSUME NEW i \in 1 .. n, NEW s \in Seq(Nat)
        PROVE  Plus(s, seqs[i]) \in Seq(Nat)
    BY PlusJoins DEF Joined
  <2> QED
    BY <2>1
<1>2. <<>> \in Seq(Nat)
  BY EmptySeq
<1>3. PICK up : Iterates(up, n, Seq(Nat), <<>>, step)
  <2> HIDE DEF step
  <2> QED
    BY <1>1, <1>2, Recursion
<1>4. /\ up \in [0 .. n -> Seq(Nat)]
      /\ up[0] = <<>> /\ \A i \in 1 .. n : up[i] = step[i][up[i - 1]]
  BY <1>3 DEF Iterates
<1>5. ASSUME NEW i \in 0 .. n
      PROVE  up[i] = IF i = 0 THEN <<>> ELSE Plus(up[i - 1], seqs[i])
  <2>1. CASE i = 0
    BY <1>4, <2>1
  <2>2. CASE i # 0
    <3>1. i \in 1 .. n /\ i - 1 \in 0 .. n
      BY <2>2
    <3>2. up[i - 1] \in Seq(Nat) /\ up[i] = step[i][up[i - 1]]
      BY <1>4, <3>1
    <3> QED
      BY <2>2, <3>1, <3>2
  <2> QED
    BY <2>1, <2>2
<1>6. up = [i \in 0 .. n |-> IF i = 0 THEN <<>> ELSE Plus(up[i - 1], seqs[i])]
  <2> DEFINE F == [i \in 0 .. n |-> IF i = 0 THEN <<>> ELSE Plus(up[i - 1], seqs[i])]
  <2>1. \A i \in 0 .. n : F[i] = IF i = 0 THEN <<>> ELSE Plus(up[i - 1], seqs[i])
    OBVIOUS
  <2>2. \A i \in 0 .. n : F[i] = up[i] /\ up[i] \in Seq(Nat)
    <3> HIDE DEF F
    <3> QED
      BY <1>4, <1>5, <2>1
  <2>3. F \in [0 .. n -> Seq(Nat)]
    <3>1. F = [i \in 0 .. n |-> F[i]]
      OBVIOUS
    <3> HIDE DEF F
    <3> QED
      BY <2>2, <3>1
  <2>4. up = F
    <3> HIDE DEF F
    <3> QED
      BY <1>4, <2>2, <2>3
  <2> QED
    BY <2>4
<1> QED
  BY <1>6 DEF Lays

(* Its values are the sequences up to i, and starts of the whole.          *)
LEMMA LaysStarts ==
  ASSUME NEW n \in Nat, NEW seqs, Len(seqs) = n, \A i \in 1 .. n : seqs[i] \in Seq(Nat),
         NEW up, Lays(up, seqs)
  PROVE  /\ up[0] = <<>> /\ \A i \in 0 .. n : up[i] \in Seq(Nat)
         /\ \A i \in 1 .. n : Joined(up[i], up[i - 1], seqs[i])
         /\ \A i \in 0 .. n : Starts(up[i], up[n])
<1>1. up[0] = <<>> /\ \A i \in 1 .. n : up[i] = Plus(up[i - 1], seqs[i])
  <2> DEFINE F == [i \in 0 .. n |-> IF i = 0 THEN <<>> ELSE Plus(up[i - 1], seqs[i])]
  <2>1. up = F
    BY DEF Lays
  <2>2. F[0] = <<>> /\ \A i \in 1 .. n : F[i] = Plus(up[i - 1], seqs[i])
    OBVIOUS
  <2> HIDE DEF F
  <2> QED
    BY <2>1, <2>2
<1> DEFINE G == {m \in Nat : m <= n => up[m] \in Seq(Nat) /\ \A i \in 0 .. m : Starts(up[i], up[m])}
           T == {m \in Nat : m <= n => \A i \in 0 .. m : up[i] \in Seq(Nat)}
<1>2. <<>> \in Seq(Nat)
  BY EmptySeq
<1>3. n \in T
  <2>1. 0 \in T
    <3>1. \A i \in 0 .. 0 : i = 0
      OBVIOUS
    <3> QED
      BY <1>1, <1>2, <3>1
  <2>2. ASSUME NEW m \in Nat, m \in T
        PROVE  m + 1 \in T
    <3> SUFFICES ASSUME m + 1 <= n
                 PROVE  \A i \in 0 .. m + 1 : up[i] \in Seq(Nat)
      OBVIOUS
    <3>1. \A i \in 0 .. m : up[i] \in Seq(Nat)
      BY <2>2
    <3>2. m + 1 \in 1 .. n /\ m + 1 - 1 = m /\ up[m] \in Seq(Nat) /\ seqs[m + 1] \in Seq(Nat)
      BY <3>1
    <3>3. up[m + 1] = Plus(up[m], seqs[m + 1])
      BY <1>1, <3>2
    <3>4. up[m + 1] \in Seq(Nat)
      BY <3>2, <3>3, PlusJoins DEF Joined
    <3> QED
      BY <3>1, <3>4
  <2> HIDE DEF T
  <2> QED
    BY <2>1, <2>2, Counting
<1>4. \A i \in 0 .. n : up[i] \in Seq(Nat)
  BY <1>3
<1>5. ASSUME NEW i \in 1 .. n
      PROVE  Joined(up[i], up[i - 1], seqs[i])
  <2>1. up[i - 1] \in Seq(Nat) /\ seqs[i] \in Seq(Nat)
    BY <1>4
  <2>2. up[i] = Plus(up[i - 1], seqs[i])
    BY <1>1
  <2> QED
    BY <2>1, <2>2, PlusJoins
<1>6. n \in G
  <2>1. \A i \in 0 .. n : Starts(up[i], up[i])
    BY <1>4, LenProperties DEF Starts
  <2>2. 0 \in G
    <3>1. \A i \in 0 .. 0 : i = 0
      OBVIOUS
    <3> QED
      BY <1>4, <2>1, <3>1
  <2>3. ASSUME NEW m \in Nat, m \in G
        PROVE  m + 1 \in G
    <3> SUFFICES ASSUME m + 1 <= n
                 PROVE  up[m + 1] \in Seq(Nat) /\ \A i \in 0 .. m + 1 : Starts(up[i], up[m + 1])
      OBVIOUS
    <3>1. \A i \in 0 .. m : Starts(up[i], up[m])
      BY <2>3
    <3>2. m + 1 \in 1 .. n /\ m + 1 \in 0 .. n /\ m \in 0 .. n /\ m + 1 - 1 = m
      OBVIOUS
    <3>3. Starts(up[m], up[m + 1])
      <4>1. Joined(up[m + 1], up[m + 1 - 1], seqs[m + 1])
        BY <1>5, <3>2
      <4> QED
        BY <3>2, <4>1 DEF Joined
    <3>4. \A i \in 0 .. m : Starts(up[i], up[m + 1])
      BY <1>4, <3>1, <3>2, <3>3, StartsOfStarts
    <3>5. \A i \in 0 .. m + 1 : i \in 0 .. m \/ i = m + 1
      OBVIOUS
    <3> QED
      BY <1>4, <2>1, <3>2, <3>4, <3>5
  <2> HIDE DEF G
  <2> QED
    BY <2>2, <2>3, Counting
<1> QED
  BY <1>1, <1>4, <1>5, <1>6

(* The first i extensions of h are up[i].                                  *)
Laid(h, up) ==
  /\ up[0] = <<>> /\ Extensions(h) = up[Len(h.extensions)]
  /\ \A i \in 0 .. Len(h.extensions) : up[i] \in Seq(Nat) /\ Starts(up[i], Extensions(h))
  /\ \A i \in 1 .. Len(h.extensions) : Joined(up[i], up[i - 1], Extension(h.extensions[i]))

(* The fields of a message are numbers, and names have no zero.            *)
LEMMA MessageFields ==
  ASSUME NEW h \in Messages
  PROVE  /\ h.content \in Nat /\ h.type \in Nat /\ h.session \in Nat /\ h.ciphers \in Nat
         /\ h.compression \in Nat /\ Len(h.extensions) \in Nat
         /\ DOMAIN h.extensions = 1 .. Len(h.extensions)
         /\ \A i \in 1 .. Len(h.extensions) :
              /\ h.extensions[i] \in Fields /\ h.extensions[i].name \in Seq(NonZeros)
<1>1. /\ h.content \in Uint8 /\ h.type \in Uint8 /\ h.session \in Uint8
      /\ h.ciphers \in Uint16 /\ h.compression \in Uint8 /\ h.extensions \in Seq(ExtensionFields)
  BY DEF Messages
<1>2. Len(h.extensions) \in Nat /\ DOMAIN h.extensions = 1 .. Len(h.extensions)
  BY <1>1, LenProperties
<1>3. ASSUME NEW i \in 1 .. Len(h.extensions)
      PROVE  h.extensions[i] \in Fields /\ h.extensions[i].name \in Seq(NonZeros)
  <2> DEFINE e == h.extensions[i]
  <2>1. e \in ExtensionFields
    BY <1>1, ElementOfSeq
  <2> HIDE DEF e
  <2>2. e.type \in Uint16 /\ e.name \in Seq(NonZeros) /\ e.len \in Uint16
    BY <2>1 DEF ExtensionFields
  <2>3. NonZeros \subseteq Nat /\ Uint16 \subseteq Nat
    BY DEF NonZeros, Uint8, Uint16
  <2>4. e.name \in Seq(Nat)
    BY <2>2, <2>3, SeqMonotonic
  <2>5. e \in Fields
    BY <2>1, <2>2, <2>3, <2>4 DEF Fields, ExtensionFields
  <2> QED
    BY <2>2, <2>5 DEF e
<1>4. Uint8 \subseteq Nat /\ Uint16 \subseteq Nat
  BY DEF Uint8, Uint16
<1> QED
  BY <1>1, <1>2, <1>3, <1>4

(* Every message has them laid out.                                        *)
LEMMA ExtensionsLaid ==
  ASSUME NEW h \in Messages
  PROVE  \E up : Laid(h, up)
<1> DEFINE n == Len(h.extensions)
           seqs == [i \in 1 .. n |-> Extension(h.extensions[i])]
<1>1. n \in Nat /\ \A i \in 1 .. n : h.extensions[i] \in Fields
  BY MessageFields
<1>2. \A i \in 1 .. n : seqs[i] = Extension(h.extensions[i])
  OBVIOUS
<1>3. Extensions(h) = Concat(seqs)
  BY DEF Extensions
<1> HIDE DEF n
<1>4. \A i \in 1 .. n : Extension(h.extensions[i]) \in Seq(Nat)
  BY <1>1, ExtensionIs
<1>5. seqs \in Seq(Seq(Nat)) /\ Len(seqs) = n
  <2>1. seqs \in [1 .. n -> Seq(Nat)]
    BY <1>4
  <2> HIDE DEF seqs
  <2>2. seqs \in Seq(Seq(Nat))
    BY <1>1, <2>1
  <2> QED
    BY <1>1, <2>1, <2>2, LenProperties
<1> HIDE DEF seqs
<1>6. \A i \in 1 .. n : seqs[i] \in Seq(Nat)
  BY <1>2, <1>4
<1> DEFINE up == CHOOSE f : Lays(f, seqs)
<1>7. Lays(up, seqs)
  <2>1. \E f : Lays(f, seqs)
    BY <1>1, <1>5, <1>6, LaysExists
  <2> QED
    BY <2>1
<1>8. Extensions(h) = up[n]
  BY <1>3, <1>5, ConcatUnfolds
<1> HIDE DEF up
<1>9. /\ up[0] = <<>> /\ \A i \in 0 .. n : up[i] \in Seq(Nat)
      /\ \A i \in 1 .. n : Joined(up[i], up[i - 1], seqs[i])
      /\ \A i \in 0 .. n : Starts(up[i], up[n])
  BY <1>1, <1>5, <1>6, <1>7, LaysStarts
<1>10. Laid(h, up)
  BY <1>2, <1>8, <1>9 DEF Laid, n
<1> QED
  BY <1>10

(* Where the extensions of h start on the wire.                            *)
Base(h) == 49 + h.session + h.ciphers + h.compression

(* The fields before the extensions are where the filter looks for them.   *)
LEMMA WireIs ==
  ASSUME NEW h \in Messages
  PROVE  /\ Wire(h) \in Seq(Nat) /\ Extensions(h) \in Seq(Nat)
         /\ Len(Extensions(h)) \in Nat /\ Len(Wire(h)) = Base(h) + Len(Extensions(h))
         /\ Wire(h)[1] = h.content /\ Wire(h)[6] = h.type /\ Wire(h)[44] = h.session
         /\ Pair(Wire(h), 44 + h.session) = h.ciphers
         /\ Wire(h)[47 + h.session + h.ciphers] = h.compression
         /\ \A i \in 1 .. Len(Extensions(h)) : Wire(h)[Base(h) + i] = Extensions(h)[i]
<1> DEFINE s == h.session
           c == h.ciphers
           m == h.compression
           X == Extensions(h)
           w1 == <<h.content>>
           w2 == Plus(w1, Opaque(4))
           w3 == Plus(w2, <<h.type>>)
           w4 == Plus(w3, Opaque(37))
           w5 == Plus(w4, <<s>>)
           w6 == Plus(w5, Opaque(s))
           w7 == Plus(w6, U16(c))
           w8 == Plus(w7, Opaque(c))
           w9 == Plus(w8, <<m>>)
           w10 == Plus(w9, Opaque(m))
           w11 == Plus(w10, U16(Len(X)))
           w12 == Plus(w11, X)
<1>1. Wire(h) = w12
  BY DEF Wire, Plus
<1>2. h.content \in Nat /\ h.type \in Nat /\ s \in Nat /\ c \in Nat /\ m \in Nat
  BY MessageFields
<1>3. X \in Seq(Nat) /\ Len(X) \in Nat
  <2>1. PICK up : Laid(h, up)
    BY ExtensionsLaid
  <2>2. Len(h.extensions) \in 0 .. Len(h.extensions)
    BY MessageFields
  <2>3. X \in Seq(Nat)
    BY <2>1, <2>2 DEF Laid
  <2> QED
    BY <2>3, LenProperties
<1>4. Base(h) = 49 + s + c + m
  BY DEF Base
<1>5. w1 \in Seq(Nat) /\ Len(w1) = 1 /\ w1[1] = h.content
  BY <1>2
<1> HIDE DEF s, c, m, X, w1
<1>6. w2 \in Seq(Nat) /\ Len(w2) = 5 /\ Starts(w1, w2)
  <2> DEFINE o == Opaque(4)
  <2>1. o \in Seq(Nat) /\ Len(o) = 4
    BY OpaqueSeq
  <2>2. Joined(w2, w1, o)
    BY <1>5, <2>1, PlusJoins
  <2> HIDE DEF w2, o
  <2> QED
    BY <1>5, <2>1, <2>2 DEF Joined
<1> HIDE DEF w2
<1>7. w3 \in Seq(Nat) /\ Len(w3) = 6 /\ Starts(w2, w3) /\ w3[6] = h.type
  <2>1. <<h.type>> \in Seq(Nat) /\ Len(<<h.type>>) = 1 /\ <<h.type>>[1] = h.type
    BY <1>2
  <2>2. Joined(w3, w2, <<h.type>>)
    BY <1>6, <2>1, PlusJoins
  <2>3. 1 \in 1 .. 1 /\ 5 + 1 = 6
    OBVIOUS
  <2> HIDE DEF w3
  <2> QED
    BY <1>6, <2>1, <2>2, <2>3 DEF Joined
<1> HIDE DEF w3
<1>8. w4 \in Seq(Nat) /\ Len(w4) = 43 /\ Starts(w3, w4)
  <2> DEFINE o == Opaque(37)
  <2>1. o \in Seq(Nat) /\ Len(o) = 37
    BY OpaqueSeq
  <2>2. Joined(w4, w3, o)
    BY <1>7, <2>1, PlusJoins
  <2> HIDE DEF w4, o
  <2> QED
    BY <1>7, <2>1, <2>2 DEF Joined
<1> HIDE DEF w4
<1>9. w5 \in Seq(Nat) /\ Len(w5) = 44 /\ Starts(w4, w5) /\ w5[44] = s
  <2>1. <<s>> \in Seq(Nat) /\ Len(<<s>>) = 1 /\ <<s>>[1] = s
    BY <1>2
  <2>2. Joined(w5, w4, <<s>>)
    BY <1>8, <2>1, PlusJoins
  <2>3. 1 \in 1 .. 1 /\ 43 + 1 = 44
    OBVIOUS
  <2> HIDE DEF w5
  <2> QED
    BY <1>8, <2>1, <2>2, <2>3 DEF Joined
<1> HIDE DEF w5
<1>10. w6 \in Seq(Nat) /\ Len(w6) = 44 + s /\ Starts(w5, w6)
  <2>1. Opaque(s) \in Seq(Nat) /\ Len(Opaque(s)) = s
    BY <1>2, OpaqueSeq
  <2>2. Joined(w6, w5, Opaque(s))
    BY <1>9, <2>1, PlusJoins
  <2> HIDE DEF w6
  <2> QED
    BY <1>2, <1>9, <2>1, <2>2 DEF Joined
<1> HIDE DEF w6
<1>11. /\ w7 \in Seq(Nat) /\ Len(w7) = 46 + s /\ Starts(w6, w7)
       /\ 256 * w7[45 + s] + w7[46 + s] = c
  <2>1. U16(c) \in Seq(Nat) /\ Len(U16(c)) = 2 /\ 256 * U16(c)[1] + U16(c)[2] = c
    BY <1>2, TwoBytes
  <2>2. Joined(w7, w6, U16(c))
    BY <1>10, <2>1, PlusJoins
  <2>3. /\ 1 \in 1 .. 2 /\ 44 + s + 1 = 45 + s /\ 2 \in 1 .. 2 /\ 44 + s + 2 = 46 + s
        /\ (44 + s) + 1 = 45 + s /\ (44 + s) + 2 = 46 + s
    BY <1>2
  <2> HIDE DEF w7
  <2>4. \A i \in 1 .. 2 : w7[44 + s + i] = U16(c)[i]
    BY <1>10, <2>1, <2>2 DEF Joined
  <2>5. w7[45 + s] = U16(c)[1] /\ w7[46 + s] = U16(c)[2]
    BY <2>3, <2>4
  <2> QED
    BY <1>2, <1>10, <2>1, <2>2, <2>5 DEF Joined
<1> HIDE DEF w7
<1>12. w8 \in Seq(Nat) /\ Len(w8) = 46 + s + c /\ Starts(w7, w8)
  <2>1. Opaque(c) \in Seq(Nat) /\ Len(Opaque(c)) = c
    BY <1>2, OpaqueSeq
  <2>2. Joined(w8, w7, Opaque(c))
    BY <1>11, <2>1, PlusJoins
  <2> HIDE DEF w8
  <2> QED
    BY <1>2, <1>11, <2>1, <2>2 DEF Joined
<1> HIDE DEF w8
<1>13. w9 \in Seq(Nat) /\ Len(w9) = 47 + s + c /\ Starts(w8, w9) /\ w9[47 + s + c] = m
  <2>1. <<m>> \in Seq(Nat) /\ Len(<<m>>) = 1 /\ <<m>>[1] = m
    BY <1>2
  <2>2. Joined(w9, w8, <<m>>)
    BY <1>12, <2>1, PlusJoins
  <2>3. 1 \in 1 .. 1 /\ (46 + s + c) + 1 = 47 + s + c
    BY <1>2
  <2> HIDE DEF w9
  <2> QED
    BY <1>2, <1>12, <2>1, <2>2, <2>3 DEF Joined
<1> HIDE DEF w9
<1>14. w10 \in Seq(Nat) /\ Len(w10) = 47 + s + c + m /\ Starts(w9, w10)
  <2>1. Opaque(m) \in Seq(Nat) /\ Len(Opaque(m)) = m
    BY <1>2, OpaqueSeq
  <2>2. Joined(w10, w9, Opaque(m))
    BY <1>13, <2>1, PlusJoins
  <2> HIDE DEF w10
  <2> QED
    BY <1>2, <1>13, <2>1, <2>2 DEF Joined
<1> HIDE DEF w10
<1>15. w11 \in Seq(Nat) /\ Len(w11) = 49 + s + c + m /\ Starts(w10, w11)
  <2>1. U16(Len(X)) \in Seq(Nat) /\ Len(U16(Len(X))) = 2
    BY <1>3, TwoBytes
  <2>2. Joined(w11, w10, U16(Len(X)))
    BY <1>14, <2>1, PlusJoins
  <2> HIDE DEF w11
  <2> QED
    BY <1>2, <1>14, <2>1, <2>2 DEF Joined
<1> HIDE DEF w11
<1>16. /\ w12 \in Seq(Nat) /\ Len(w12) = Base(h) + Len(X) /\ Starts(w11, w12)
       /\ \A i \in 1 .. Len(X) : w12[Base(h) + i] = X[i]
  <2>1. Joined(w12, w11, X)
    BY <1>3, <1>15, PlusJoins
  <2> HIDE DEF w12
  <2> QED
    BY <1>2, <1>3, <1>4, <1>15, <2>1 DEF Joined
<1> HIDE DEF w12
<1>17. Starts(w9, w12)
  BY <1>13, <1>14, <1>15, <1>16, StartsOfStarts
<1>18. Starts(w7, w12)
  BY <1>11, <1>12, <1>13, <1>16, <1>17, StartsOfStarts
<1>19. Starts(w5, w12)
  BY <1>9, <1>10, <1>11, <1>16, <1>18, StartsOfStarts
<1>20. Starts(w3, w12)
  BY <1>7, <1>8, <1>9, <1>16, <1>19, StartsOfStarts
<1>21. Starts(w1, w12)
  BY <1>5, <1>6, <1>7, <1>16, <1>20, StartsOfStarts
<1>22. w12[1] = h.content
  BY <1>5, <1>21 DEF Starts
<1>23. w12[6] = h.type
  BY <1>7, <1>20 DEF Starts
<1>24. w12[44] = s
  BY <1>9, <1>19 DEF Starts
<1>25. w12[47 + s + c] = m
  BY <1>2, <1>13, <1>17 DEF Starts
<1>26. w12[45 + s] = w7[45 + s] /\ w12[46 + s] = w7[46 + s]
  BY <1>2, <1>11, <1>18 DEF Starts
<1>27. Pair(w12, 44 + s) = c
  <2>1. 44 + s + 1 = 45 + s /\ 44 + s + 2 = 46 + s
    BY <1>2
  <2> QED
    BY <1>11, <1>26, <2>1 DEF Pair
<1> QED
  BY <1>1, <1>3, <1>16, <1>22, <1>23, <1>24, <1>25, <1>27 DEF s, c, m, X

(* The first k extensions of h end at p on the wire.                       *)
After(p, h, up, k) == p = Base(h) + Len(up[k])

(* The extension e after them is there.                                    *)
IsAt(h, up, k, e, p) ==
  /\ p \in Nat /\ Len(Content(e)) \in Nat /\ Len(e.name) \in Nat
  /\ Pair(Wire(h), p) = e.type /\ Pair(Wire(h), p + 2) = Len(Content(e))
  /\ Base(h) + Len(up[k + 1]) = p + 4 + Len(Content(e))
  /\ p + 4 + Len(Content(e)) <= Len(Wire(h))
  /\ e.type = 0 => /\ Len(Content(e)) = 5 + Len(e.name)
                   /\ Pair(Wire(h), p + 7) = Len(e.name)
                   /\ \A i \in 1 .. Len(e.name) : Wire(h)[p + 9 + i] = e.name[i]

(* Every extension is there.                                               *)
LEMMA WireExtension ==
  ASSUME NEW h \in Messages, NEW up, Laid(h, up), NEW k \in Nat, k < Len(h.extensions),
         NEW p, After(p, h, up, k)
  PROVE  IsAt(h, up, k, h.extensions[k + 1], p)
<1> DEFINE e == h.extensions[k + 1]
           w == Wire(h)
           X == Extensions(h)
           x == Extension(e)
           c == Len(Content(e))
           l == Len(up[k])
           l2 == Len(up[k + 1])
           n == Len(h.extensions)
           b == Base(h)
<1>1. n \in Nat /\ k + 1 \in 1 .. n /\ k + 1 \in 0 .. n /\ k \in 0 .. n /\ k + 1 - 1 = k
  BY MessageFields
<1>2. e \in Fields /\ b \in Nat
  <2>1. \A i \in 1 .. n : h.extensions[i] \in Fields
    BY MessageFields
  <2>2. e \in Fields
    BY <1>1, <2>1
  <2>3. h.session \in Nat /\ h.ciphers \in Nat /\ h.compression \in Nat
    BY MessageFields
  <2>4. b \in Nat
    BY <2>3 DEF Base
  <2> QED
    BY <2>2, <2>4
<1>3. /\ x \in Seq(Nat) /\ Len(x) = 4 + c /\ c \in Nat
      /\ Pair(x, 0) = e.type /\ Pair(x, 2) = c
  BY <1>2, ExtensionIs
<1>4. e.type = 0 => /\ c = 5 + Len(e.name) /\ Pair(x, 7) = Len(e.name) /\ Len(e.name) \in Nat
                    /\ \A i \in 1 .. Len(e.name) : x[9 + i] = e.name[i]
  BY <1>2, ExtensionIs, LenProperties DEF Fields
<1>5. Joined(up[k + 1], up[k], x) /\ Starts(up[k + 1], X)
  <2>1. \A i \in 1 .. n : Joined(up[i], up[i - 1], Extension(h.extensions[i]))
    BY DEF Laid
  <2>2. Joined(up[k + 1], up[k + 1 - 1], Extension(h.extensions[k + 1]))
    BY <1>1, <2>1
  <2>3. \A i \in 0 .. n : Starts(up[i], X)
    BY DEF Laid
  <2> QED
    BY <1>1, <2>2, <2>3
<1>6. /\ X \in Seq(Nat) /\ Len(X) \in Nat /\ Len(w) = b + Len(X)
      /\ \A i \in 1 .. Len(X) : w[b + i] = X[i]
  BY WireIs
<1>7. Len(e.name) \in Nat
  BY <1>2, LenProperties DEF Fields
<1> HIDE DEF w, X, x, c, b, e
<1>8. /\ l \in Nat /\ l2 = l + (4 + c) /\ l2 <= Len(X)
      /\ \A i \in 1 .. 4 + c : up[k + 1][l + i] = x[i]
      /\ \A i \in 1 .. l2 : X[i] = up[k + 1][i]
  BY <1>3, <1>5 DEF Joined, Starts
<1> HIDE DEF l, l2
<1>9. p = b + l
  BY DEF l, b, After
<1>10. b \in Nat /\ c \in Nat /\ l \in Nat /\ Len(X) \in Nat
  BY <1>2, <1>3, <1>6, <1>8
<1>11. l2 = l + (4 + c) /\ l2 <= Len(X) /\ Len(w) = b + Len(X)
  BY <1>6, <1>8
<1>12. p \in Nat /\ b + l2 = p + 4 + c /\ p + 4 + c <= Len(w)
  BY <1>9, <1>10, <1>11
<1>13. ASSUME NEW i \in 1 .. 4 + c
      PROVE  w[p + i] = x[i]
  <2>1. l + i \in 1 .. l2 /\ l + i \in 1 .. Len(X) /\ b + (l + i) = p + i
    <3>1. i \in Nat /\ 1 <= i /\ i <= 4 + c
      BY <1>10
    <3>2. l + i \in Nat /\ 1 <= l + i /\ l + i <= l2 /\ l + i <= Len(X)
      BY <1>10, <1>11, <3>1
    <3>3. b + (l + i) = p + i
      BY <1>9, <1>10, <3>1
    <3>4. l2 \in Nat
      BY <1>10, <1>11
    <3> QED
      BY <1>10, <3>2, <3>3, <3>4
  <2>2. w[b + (l + i)] = X[l + i] /\ X[l + i] = up[k + 1][l + i]
    BY <1>6, <1>8, <2>1
  <2> QED
    BY <1>8, <2>1, <2>2
<1>14. /\ p \in Nat /\ b + l2 = p + 4 + c /\ p + 4 + c <= Len(w)
  BY <1>12
<1>15. ASSUME NEW j \in Nat, j + 2 <= 4 + c
       PROVE  Pair(w, p + j) = Pair(x, j)
  <2>1. /\ j + 1 \in 1 .. 4 + c /\ j + 2 \in 1 .. 4 + c
        /\ p + j + 1 = p + (j + 1) /\ p + j + 2 = p + (j + 2)
    <3>1. j + 1 \in 1 .. 4 + c /\ j + 2 \in 1 .. 4 + c
      BY <1>10, <1>15
    <3>2. p \in Nat
      BY <1>12
    <3> QED
      BY <3>1, <3>2
  <2>2. w[p + (j + 1)] = x[j + 1] /\ w[p + (j + 2)] = x[j + 2]
    BY <1>13, <2>1
  <2> QED
    BY <2>1, <2>2 DEF Pair
<1>16. Pair(w, p) = e.type
  <2>1. 0 \in Nat /\ 0 + 2 <= 4 + c /\ p + 0 = p
    BY <1>3, <1>14
  <2>2. Pair(w, p + 0) = Pair(x, 0)
    BY <1>15, <2>1
  <2> QED
    BY <1>3, <2>1, <2>2
<1>17. Pair(w, p + 2) = c
  <2>1. 2 \in Nat /\ 2 + 2 <= 4 + c
    BY <1>3
  <2> QED
    BY <1>3, <1>15, <2>1
<1>18. ASSUME e.type = 0
       PROVE  /\ Pair(w, p + 7) = Len(e.name)
              /\ \A i \in 1 .. Len(e.name) : w[p + 9 + i] = e.name[i]
  <2>1. 7 \in Nat /\ 7 + 2 <= 4 + c
    BY <1>4, <1>18
  <2>2. Pair(w, p + 7) = Len(e.name)
    BY <1>4, <1>15, <1>18, <2>1
  <2>3. ASSUME NEW i \in 1 .. Len(e.name)
        PROVE  w[p + 9 + i] = e.name[i]
    <3>1. 9 + i \in 1 .. 4 + c /\ p + 9 + i = p + (9 + i)
      <4>1. c = 5 + Len(e.name) /\ Len(e.name) \in Nat
        BY <1>4, <1>18
      <4> QED
        <5>1. p \in Nat
          BY <1>12
        <5>2. 9 + i \in 1 .. 4 + c
          BY <4>1
        <5> QED
          BY <5>1, <5>2
    <3> QED
      BY <1>4, <1>13, <1>18, <3>1
  <2> QED
    BY <2>2, <2>3
<1> QED
  BY <1>3, <1>4, <1>14, <1>16, <1>17, <1>18, <1>7 DEF IsAt, w, c, b, l2, e

-----------------------------------------------------------------------------
(* What the filter loads from a segment with the first n bytes.            *)

(* The segment has the first n bytes of w.                                 *)
IsCut(skb, w, n) == skb = SubSeq(w, 1, n)

LEMMA SubSeqAt ==
  \A s, m, n : m \in Int /\ n \in Int /\ (\A i \in m .. n : s[i] \in Nat)
                => \A i \in 1 .. n - m + 1 : SubSeq(s, m, n)[i] = s[m + i - 1]
BY SubSeqProperties

(* A load gives the bytes of the message, or zero behind the cut.          *)
LEMMA LoadIs ==
  ASSUME NEW w \in Seq(Nat), NEW n \in 0 .. Len(w), NEW skb, IsCut(skb, w, n), NEW a \in Nat
  PROVE  /\ Load8(skb, data_offset + a) = IF a + 1 <= n THEN w[a + 1] ELSE 0
         /\ Load16(skb, data_offset + a) = IF a + 2 <= n THEN Pair(w, a) ELSE 0
         /\ Load8(skb, data_offset + a) \in Nat /\ Load16(skb, data_offset + a) \in Nat
<1>1. Len(w) \in Nat /\ n \in Nat /\ \A i \in 1 .. Len(w) : w[i] \in Nat
  BY LenProperties
<1>2. Len(skb) = n /\ \A i \in 1 .. n : skb[i] = w[i]
  <2>1. 1 \in Int /\ n \in Int /\ \A i \in 1 .. n : w[i] \in Nat
    BY <1>1
  <2>2. /\ Len(skb) = IF 1 <= n THEN n - 1 + 1 ELSE 0
        /\ \A i \in 1 .. n - 1 + 1 : skb[i] = w[1 + i - 1]
    BY <2>1, SubSeqProperties DEF IsCut
  <2>3. \A i \in 1 .. n : i \in 1 .. n - 1 + 1 /\ 1 + i - 1 = i
    BY <1>1
  <2> QED
    BY <1>1, <2>2, <2>3
<1>3. ASSUME NEW m \in Nat, NEW i \in 1 .. m
      PROVE  Load(skb, data_offset + a, m)[i] = IF a + m <= n THEN w[a + i] ELSE 0
  <2>1. data_offset + a - data_offset = a /\ data_offset \in Nat
    BY data_offsetAssumption
  <2>2. Load(skb, data_offset + a, m) =
          IF a + m <= n THEN SubSeq(skb, a + 1, a + m) ELSE [j \in 1 .. m |-> 0]
    BY <1>2, <2>1 DEF Load
  <2>3. CASE ~(a + m <= n)
    BY <2>2, <2>3
  <2>4. CASE a + m <= n
    <3>1. a + 1 \in Int /\ a + m \in Int /\ \A j \in a + 1 .. a + m : skb[j] \in Nat
      BY <1>1, <1>2, <2>4
    <3>2. \A j \in 1 .. a + m - (a + 1) + 1 : SubSeq(skb, a + 1, a + m)[j] = skb[a + 1 + j - 1]
      BY <3>1, SubSeqAt
    <3>3. i \in 1 .. a + m - (a + 1) + 1 /\ a + 1 + i - 1 = a + i /\ a + i \in 1 .. n
      BY <1>1, <2>4
    <3> QED
      BY <1>2, <2>2, <2>4, <3>2, <3>3
  <2> QED
    BY <2>3, <2>4
<1>4. Load8(skb, data_offset + a) = IF a + 1 <= n THEN w[a + 1] ELSE 0
  <2>1. 1 \in Nat /\ 1 \in 1 .. 1
    OBVIOUS
  <2>2. Load(skb, data_offset + a, 1)[1] = IF a + 1 <= n THEN w[a + 1] ELSE 0
    BY <1>3, <2>1
  <2> QED
    BY <2>2 DEF Load8
<1>5. Load16(skb, data_offset + a) = IF a + 2 <= n THEN Pair(w, a) ELSE 0
  <2> DEFINE v == Load(skb, data_offset + a, 2)
  <2>1. 2 \in Nat /\ 1 \in 1 .. 2 /\ 2 \in 1 .. 2
    OBVIOUS
  <2>2. /\ v[1] = IF a + 2 <= n THEN w[a + 1] ELSE 0
        /\ v[2] = IF a + 2 <= n THEN w[a + 2] ELSE 0
    BY <1>3, <2>1
  <2>3. Load16(skb, data_offset + a) = 256 * v[1] + v[2]
    BY DEF Load16
  <2> HIDE DEF v
  <2>4. CASE a + 2 <= n
    BY <2>2, <2>3, <2>4 DEF Pair
  <2>5. CASE ~(a + 2 <= n)
    BY <2>2, <2>3, <2>5
  <2> QED
    BY <2>4, <2>5
<1>6. /\ a + 1 <= n => w[a + 1] \in Nat
      /\ a + 2 <= n => Pair(w, a) \in Nat
  <2>1. CASE a + 2 <= n
    <3>1. w[a + 1] \in Nat /\ w[a + 2] \in Nat
      BY <1>1, <2>1
    <3> QED
      BY <2>1, <3>1 DEF Pair
  <2>2. a + 1 <= n => w[a + 1] \in Nat
    BY <1>1
  <2> QED
    BY <2>1, <2>2
<1> QED
  BY <1>4, <1>5, <1>6

(* The extensions start where the lengths before them say, or else after   *)
(* the end of the segment.                                                 *)
LEMMA HeaderRead ==
  ASSUME NEW h \in Messages, NEW n \in 0 .. Len(Wire(h)), NEW skb, IsCut(skb, Wire(h), n)
  PROVE  \E x \in Nat : /\ extensions_off(skb) = data_offset + x
                        /\ 49 <= x /\ x <= Base(h) /\ (x = Base(h) \/ x > n)
<1> DEFINE w == Wire(h)
           s == h.session
           c == h.ciphers
           m == h.compression
<1>1. /\ w \in Seq(Nat) /\ w[44] = s /\ Pair(w, 44 + s) = c /\ w[47 + s + c] = m
      /\ Len(w) \in Nat
  BY WireIs, LenProperties
<1>2. s \in Nat /\ c \in Nat /\ m \in Nat /\ n \in Nat /\ data_offset \in Nat
  BY <1>1, MessageFields, data_offsetAssumption
<1> DEFINE s1 == Load8(skb, data_offset + 43)
           c1 == Load16(skb, data_offset + (44 + s1))
           m1 == Load8(skb, data_offset + (46 + s1 + c1))
           x  == 49 + s1 + c1 + m1
<1> HIDE DEF w, s, c, m
<1>3. \A a \in Nat : /\ Load8(skb, data_offset + a) = IF a + 1 <= n THEN w[a + 1] ELSE 0
                     /\ Load16(skb, data_offset + a) = IF a + 2 <= n THEN Pair(w, a) ELSE 0
                     /\ Load8(skb, data_offset + a) \in Nat /\ Load16(skb, data_offset + a) \in Nat
  BY <1>1, LoadIs DEF w
<1>4. s1 \in Nat /\ s1 = IF 44 <= n THEN s ELSE 0
  <2>1. 43 \in Nat /\ 43 + 1 = 44
    OBVIOUS
  <2> QED
    BY <1>1, <1>3, <2>1
<1> HIDE DEF s1
<1>5. c1 \in Nat /\ c1 = IF 46 + s1 <= n THEN Pair(w, 44 + s1) ELSE 0
  <2>1. 44 + s1 \in Nat /\ 44 + s1 + 2 = 46 + s1
    BY <1>4
  <2> QED
    BY <1>3, <2>1
<1> HIDE DEF c1
<1>6. m1 \in Nat /\ m1 = IF 47 + s1 + c1 <= n THEN w[47 + s1 + c1] ELSE 0
  <2>1. 46 + s1 + c1 \in Nat /\ 46 + s1 + c1 + 1 = 47 + s1 + c1
    BY <1>4, <1>5
  <2> QED
    BY <1>3, <2>1
<1> HIDE DEF m1
<1>7. extensions_off(skb) = data_offset + x
  <2>1. s1 = Load8(skb, data_offset + 43)
    BY DEF s1
  <2>2. data_offset + 43 + 1 + s1 = data_offset + (44 + s1)
    BY <1>2, <1>4
  <2>3. c1 = Load16(skb, data_offset + 43 + 1 + s1)
    BY <2>2 DEF c1
  <2>4. data_offset + 43 + 1 + s1 + 2 + c1 = data_offset + (46 + s1 + c1)
    BY <1>2, <1>4, <1>5
  <2>5. m1 = Load8(skb, data_offset + 43 + 1 + s1 + 2 + c1)
    BY <2>4 DEF m1
  <2>6. extensions_off(skb) = data_offset + 43 + 1 + s1 + 2 + c1 + 1 + m1 + 2
    BY <2>1, <2>3, <2>5 DEF extensions_off, TLS_SESSION_ID_LENGTH_OFF
  <2>7. \A i, j, k, l \in Nat : i + 43 + 1 + j + 2 + k + 1 + l + 2 = i + (49 + j + k + l)
    OBVIOUS
  <2>8. data_offset \in Nat /\ s1 \in Nat /\ c1 \in Nat /\ m1 \in Nat
    BY <1>2, <1>4, <1>5, <1>6
  <2> QED
    BY <2>6, <2>7, <2>8
<1>8. Base(h) = 49 + s + c + m
  BY DEF Base, s, c, m
<1>9. x \in Nat /\ 49 <= x /\ x <= 49 + s + c + m /\ (x = 49 + s + c + m \/ x > n)
  <2>1. CASE n < 44
    BY <1>2, <1>4, <1>5, <1>6, <2>1
  <2>2. CASE 44 <= n /\ n < 46 + s
    <3>1. s1 = s /\ c1 = 0
      BY <1>2, <1>4, <1>5, <2>2
    <3> QED
      BY <1>2, <1>6, <2>2, <3>1
  <2>3. CASE 46 + s <= n
    <3>1. s1 = s
      BY <1>2, <1>4, <2>3
    <3>2. c1 = c
      BY <1>1, <1>5, <2>3, <3>1
    <3>3. CASE 47 + s + c <= n
      <4>1. m1 = m
        BY <1>1, <1>6, <3>1, <3>2, <3>3
      <4> QED
        BY <1>2, <3>1, <3>2, <4>1
    <3>4. CASE ~(47 + s + c <= n)
      <4>1. m1 = 0
        BY <1>6, <3>1, <3>2, <3>4
      <4> QED
        BY <1>2, <3>1, <3>2, <3>4, <4>1
    <3> QED
      BY <3>3, <3>4
  <2> QED
    BY <1>2, <2>1, <2>2, <2>3
<1> QED
  BY <1>7, <1>8, <1>9

-----------------------------------------------------------------------------
(* The loop over the extensions.                                           *)

(* One round of the loop, as it is written; and Cursors without LET.       *)
Round(skb, c) == (c + ExtensionLen(Load16(skb, extensions_off(skb) + c + 2))) % 65536

Moves(cur, skb) ==
  cur = [i \in 0 .. TLS_MAX_EXTENSION_COUNT |-> IF i = 0 THEN 0 ELSE Round(skb, cur[i - 1])]

LEMMA CursorsUnfolds == \A skb : Cursors(skb) = CHOOSE cur : Moves(cur, skb)
BY DEF Cursors, Moves, Round

(* The cursor c of a loop whose extensions start at x, one extension on.   *)
Moved(skb, x, c) == (c + 4 + Load16(skb, data_offset + (x + c + 2))) % 65536

(* The extensions start at x, and cur are the cursors over them.           *)
StartsAt(skb, x) == extensions_off(skb) = data_offset + x

Walks(cur, skb, x) ==
  /\ cur[0] = 0 /\ \A i \in 0 .. TLS_MAX_EXTENSION_COUNT : cur[i] \in Nat
  /\ \A i \in 1 .. TLS_MAX_EXTENSION_COUNT : cur[i] = Moved(skb, x, cur[i - 1])

(* A round of the loop, counted from the start of the message.             *)
LEMMA RoundMoves ==
  ASSUME NEW h \in Messages, NEW n \in 0 .. Len(Wire(h)), NEW skb, IsCut(skb, Wire(h), n),
         NEW x \in Nat, StartsAt(skb, x), NEW c \in Nat
  PROVE  Moved(skb, x, c) \in Nat /\ Round(skb, c) = Moved(skb, x, c)
<1> DEFINE l == Load16(skb, data_offset + (x + c + 2))
<1>1. l \in Nat
  <2>1. x + c + 2 \in Nat /\ Wire(h) \in Seq(Nat)
    BY WireIs
  <2> QED
    BY <2>1, LoadIs
<1>2. extensions_off(skb) + c + 2 = data_offset + (x + c + 2)
  BY data_offsetAssumption DEF StartsAt
<1>3. Load16(skb, extensions_off(skb) + c + 2) = l
  BY <1>2
<1> HIDE DEF l
<1>4. c + ExtensionLen(l) = c + 4 + l
  BY <1>1 DEF ExtensionLen
<1>5. (c + 4 + l) % 65536 \in Nat
  BY <1>1
<1>6. Moved(skb, x, c) = (c + 4 + l) % 65536
  BY DEF Moved, l
<1>7. Round(skb, c) = (c + ExtensionLen(l)) % 65536
  BY <1>3 DEF Round
<1> QED
  BY <1>4, <1>5, <1>6, <1>7

(* The recursive function that Cursors names exists.                       *)
LEMMA MovesExists ==
  ASSUME NEW skb, NEW M \in Nat, M = TLS_MAX_EXTENSION_COUNT, \A c \in Nat : Round(skb, c) \in Nat
  PROVE  \E f : Moves(f, skb)
<1> DEFINE round == [c \in Nat |-> Round(skb, c)]
           step == [i \in 1 .. M |-> round]
<1>1. round \in [Nat -> Nat] /\ \A c \in Nat : round[c] = Round(skb, c)
  OBVIOUS
<1> HIDE DEF round
<1>2. step \in [1 .. M -> [Nat -> Nat]] /\ \A i \in 1 .. M : step[i] = round
  BY <1>1
<1> HIDE DEF step
<1>3. PICK f : Iterates(f, M, Nat, 0, step)
  <2>1. 0 \in Nat
    OBVIOUS
  <2> QED
    BY <1>2, <2>1, Recursion
<1>4. f \in [0 .. M -> Nat] /\ f[0] = 0 /\ \A i \in 1 .. M : f[i] = step[i][f[i - 1]]
  BY <1>3 DEF Iterates
<1>5. \A i \in 0 .. M : f[i] \in Nat
  BY <1>4
<1> DEFINE F == [i \in 0 .. M |-> IF i = 0 THEN 0 ELSE Round(skb, f[i - 1])]
<1>6. \A i \in 0 .. M : F[i] = IF i = 0 THEN 0 ELSE Round(skb, f[i - 1])
  OBVIOUS
<1>7. F = [i \in 0 .. M |-> F[i]]
  OBVIOUS
<1> HIDE DEF F
<1>8. ASSUME NEW i \in 0 .. M
      PROVE  F[i] = f[i]
  <2>1. CASE i = 0
    BY <1>4, <1>6, <2>1
  <2>2. CASE i # 0
    <3>1. i \in 1 .. M /\ i - 1 \in 0 .. M
      BY <2>2
    <3>2. f[i - 1] \in Nat
      BY <1>5, <3>1
    <3>3. f[i] = round[f[i - 1]]
      BY <1>2, <1>4, <3>1
    <3>4. round[f[i - 1]] = Round(skb, f[i - 1])
      BY <1>1, <3>2
    <3> QED
      BY <1>6, <2>2, <3>3, <3>4
  <2> QED
    BY <2>1, <2>2
<1>9. F \in [0 .. M -> Nat]
  BY <1>5, <1>7, <1>8
<1>10. f = F
  BY <1>4, <1>8, <1>9
<1>11. Moves(f, skb)
  BY <1>10 DEF Moves, F
<1> QED
  BY <1>11

(* Cursors are the rounds of the loop.                                     *)
LEMMA CursorsAre ==
  ASSUME NEW h \in Messages, NEW n \in 0 .. Len(Wire(h)), NEW skb, IsCut(skb, Wire(h), n),
         NEW x \in Nat, StartsAt(skb, x)
  PROVE  Walks(Cursors(skb), skb, x)
<1> DEFINE M == TLS_MAX_EXTENSION_COUNT
           cur == Cursors(skb)
<1>1. M \in Nat
  BY DEF TLS_MAX_EXTENSION_COUNT
<1>2. \A c \in Nat : Moved(skb, x, c) \in Nat /\ Round(skb, c) = Moved(skb, x, c)
  BY RoundMoves
<1>3. Moves(cur, skb)
  <2>1. \A c \in Nat : Round(skb, c) \in Nat
    BY <1>2
  <2>2. \E f : Moves(f, skb)
    <3> HIDE DEF M
    <3>1. M = TLS_MAX_EXTENSION_COUNT
      BY DEF M
    <3> QED
      BY <1>1, <2>1, <3>1, MovesExists
  <2> QED
    BY <2>2, CursorsUnfolds
<1> DEFINE F == [i \in 0 .. M |-> IF i = 0 THEN 0 ELSE Round(skb, cur[i - 1])]
<1>4. cur = F
  BY <1>3 DEF Moves
<1> HIDE DEF M, cur
<1>5. F[0] = 0 /\ \A i \in 1 .. M : F[i] = Round(skb, cur[i - 1])
  BY <1>1
<1> HIDE DEF F
<1>6. cur[0] = 0 /\ \A i \in 1 .. M : cur[i] = Round(skb, cur[i - 1])
  BY <1>4, <1>5
<1> DEFINE G == {i \in Nat : i <= M => cur[i] \in Nat}
<1>7. 0 \in G
  BY <1>6
<1>8. ASSUME NEW i \in Nat, i \in G
      PROVE  i + 1 \in G
  <2> SUFFICES ASSUME i + 1 <= M
               PROVE  cur[i + 1] \in Nat
    OBVIOUS
  <2>1. i <= M /\ i + 1 \in 1 .. M /\ i + 1 - 1 = i
    BY <1>1
  <2>2. cur[i] \in Nat
    BY <1>8, <2>1
  <2>3. cur[i + 1] = Round(skb, cur[i])
    BY <1>6, <2>1
  <2> QED
    BY <1>2, <2>2, <2>3
<1>9. \A i \in Nat : i \in G
  <2> HIDE DEF G
  <2> QED
    BY <1>7, <1>8, Counting
<1>10. \A i \in 0 .. M : cur[i] \in Nat
  BY <1>1, <1>9
<1>11. ASSUME NEW i \in 1 .. M
       PROVE  cur[i] = Moved(skb, x, cur[i - 1])
  <2>1. i - 1 \in 0 .. M
    BY <1>1
  <2>2. cur[i - 1] \in Nat
    BY <1>10, <2>1
  <2> QED
    BY <1>2, <1>6, <2>2
<1> QED
  BY <1>6, <1>10, <1>11 DEF Walks, cur, M

-----------------------------------------------------------------------------
(* Where the loop is.                                                      *)

(***************************************************************************)
(* A segment with the first n bytes of h, whose extensions are up, is read *)
(* with the cursors cur from x on.                                         *)
(***************************************************************************)
Reading(h, n, skb, up, x, cur) ==
  /\ h \in Messages /\ Len(Wire(h)) <= 5 + 16384
  /\ n \in 0 .. Len(Wire(h)) /\ IsCut(skb, Wire(h), n) /\ Laid(h, up)
  /\ x \in Nat /\ StartsAt(skb, x) /\ 49 <= x /\ x <= Base(h) /\ (x = Base(h) \/ x > n)
  /\ Walks(cur, skb, x) /\ cur = Cursors(skb)

(* Every segment is read that way.                                         *)
LEMMA Reads ==
  ASSUME NEW h \in Messages, Len(Wire(h)) <= 5 + 16384,
         NEW n \in 0 .. Len(Wire(h)), NEW skb, IsCut(skb, Wire(h), n)
  PROVE  \E up, x, cur : Reading(h, n, skb, up, x, cur)
<1>1. PICK up : Laid(h, up)
  BY ExtensionsLaid
<1>2. PICK x \in Nat : /\ extensions_off(skb) = data_offset + x
                       /\ 49 <= x /\ x <= Base(h) /\ (x = Base(h) \/ x > n)
  BY HeaderRead
<1>3. StartsAt(skb, x)
  BY <1>2 DEF StartsAt
<1>4. Walks(Cursors(skb), skb, x)
  BY <1>3, CursorsAre
<1>5. Reading(h, n, skb, up, x, Cursors(skb))
  BY <1>1, <1>2, <1>3, <1>4 DEF Reading
<1> QED
  BY <1>5

(* After k rounds the loop is at the end of the first k extensions; or it  *)
(* is so close to the end of the segment that a load fails.                *)
OnTrack(h, up, x, cur, k) == k <= Len(h.extensions) /\ x = Base(h) /\ cur[k] = Len(up[k])

Lost(h, n, x, cur, k) == x + cur[k] + 2 > n /\ x + cur[k] <= Len(Wire(h)) + 4

(* On track, the loop is inside the message.                               *)
LEMMA TrackInside ==
  ASSUME NEW h, NEW n, NEW skb, NEW up, NEW x, NEW cur, Reading(h, n, skb, up, x, cur),
         NEW k \in Nat, OnTrack(h, up, x, cur, k)
  PROVE  /\ After(x + cur[k], h, up, k)
         /\ cur[k] \in Nat /\ x + cur[k] <= Len(Wire(h)) /\ n <= Len(Wire(h))
         /\ Len(Wire(h)) \in Nat /\ n \in Nat /\ x \in Nat
         /\ k = Len(h.extensions) => x + cur[k] = Len(Wire(h))
<1>1. /\ h \in Messages /\ Laid(h, up) /\ x \in Nat /\ n \in 0 .. Len(Wire(h))
      /\ k <= Len(h.extensions) /\ x = Base(h) /\ cur[k] = Len(up[k])
  BY DEF Reading, OnTrack
<1>2. Len(h.extensions) \in Nat /\ k \in 0 .. Len(h.extensions)
  BY <1>1, MessageFields
<1>3. up[k] \in Seq(Nat) /\ Starts(up[k], Extensions(h)) /\ Extensions(h) = up[Len(h.extensions)]
  BY <1>1, <1>2 DEF Laid
<1>4. /\ Len(up[k]) \in Nat /\ Len(up[k]) <= Len(Extensions(h)) /\ Len(Extensions(h)) \in Nat
      /\ Len(Wire(h)) = Base(h) + Len(Extensions(h))
  BY <1>1, <1>3, WireIs, LenProperties DEF Starts
<1>5. /\ cur[k] \in Nat /\ x + cur[k] <= Len(Wire(h)) /\ Len(Wire(h)) \in Nat
  <2> DEFINE b == Base(h)
             lu == Len(up[k])
             lx == Len(Extensions(h))
             lw == Len(Wire(h))
  <2>1. x = b /\ b \in Nat /\ cur[k] = lu /\ lu \in Nat /\ lu <= lx /\ lx \in Nat /\ lw = b + lx
    BY <1>1, <1>4
  <2> HIDE DEF b, lu, lx, lw
  <2>2. cur[k] \in Nat /\ x + cur[k] <= lw /\ lw \in Nat
    BY <2>1
  <2> QED
    BY <2>2 DEF lw
<1>6. n \in Nat /\ n <= Len(Wire(h))
  BY <1>1, <1>5
<1>7. k = Len(h.extensions) => x + cur[k] = Len(Wire(h))
  BY <1>1, <1>3, <1>4
<1>8. After(x + cur[k], h, up, k)
  BY <1>1 DEF After
<1> QED
  BY <1>1, <1>5, <1>6, <1>7, <1>8

(* One round of the loop that starts at an extension.                      *)
LEMMA TrackStep ==
  ASSUME NEW h, NEW n, NEW skb, NEW up, NEW x, NEW cur, Reading(h, n, skb, up, x, cur),
         NEW k \in Nat, k + 1 <= TLS_MAX_EXTENSION_COUNT, OnTrack(h, up, x, cur, k),
         x + cur[k] + 2 <= n
  PROVE  /\ k < Len(h.extensions)
         /\ x + cur[k] + 4 <= n => OnTrack(h, up, x, cur, k + 1)
         /\ ~(x + cur[k] + 4 <= n) => Lost(h, n, x, cur, k + 1)
<1> DEFINE p == x + cur[k]
           e == h.extensions[k + 1]
           c == Len(Content(e))
           lw == Len(Wire(h))
           lu == Len(up[k + 1])
           b == Base(h)
           l == Load16(skb, data_offset + (p + 2))
           m == Len(h.extensions)
<1>1. /\ h \in Messages /\ Laid(h, up) /\ lw <= 5 + 16384 /\ n \in 0 .. lw
      /\ IsCut(skb, Wire(h), n) /\ Walks(cur, skb, x) /\ x = b /\ k <= m
  BY DEF Reading, OnTrack
<1>2. /\ After(p, h, up, k) /\ cur[k] \in Nat /\ p <= lw /\ n <= lw /\ lw \in Nat
      /\ n \in Nat /\ x \in Nat
      /\ k = m => p = lw
  BY TrackInside
<1>3. m \in Nat
  BY <1>1, MessageFields
<1>4. p \in Nat /\ p + 2 \in Nat /\ p + 2 <= n
  BY <1>2
<1>5. k < m
  <2> HIDE DEF p, lw, m
  <2> QED
    BY <1>1, <1>2, <1>3, <1>4
<1>6. /\ c \in Nat /\ Pair(Wire(h), p + 2) = c /\ b + lu = p + 4 + c /\ p + 4 + c <= lw
  <2>1. IsAt(h, up, k, e, p)
    <3> HIDE DEF p
    <3> QED
      BY <1>1, <1>2, <1>5, WireExtension
  <2> HIDE DEF p, e
  <2> QED
    BY <2>1 DEF IsAt
<1>7. l = IF p + 4 <= n THEN c ELSE 0
  <2>1. Wire(h) \in Seq(Nat) /\ p + 2 + 2 = p + 4
    BY <1>1, <1>4, WireIs
  <2>2. l = IF p + 2 + 2 <= n THEN Pair(Wire(h), p + 2) ELSE 0
    <3> DEFINE q == p + 2
               w == Wire(h)
    <3>1. q \in Nat /\ w \in Seq(Nat) /\ n \in 0 .. Len(w) /\ IsCut(skb, w, n)
      BY <1>1, <1>4, <2>1
    <3> HIDE DEF q, w
    <3>2. Load16(skb, data_offset + q) = IF q + 2 <= n THEN Pair(w, q) ELSE 0
      BY <3>1, LoadIs
    <3> QED
      BY <3>2 DEF q, w
  <2> QED
    BY <1>6, <2>1, <2>2
<1>8. cur[k + 1] = (cur[k] + 4 + l) % 65536
  <2>1. k + 1 \in 1 .. TLS_MAX_EXTENSION_COUNT /\ k + 1 - 1 = k
    BY DEF TLS_MAX_EXTENSION_COUNT
  <2>2. cur[k + 1] = Moved(skb, x, cur[k])
    BY <1>1, <2>1 DEF Walks
  <2> QED
    BY <2>2 DEF Moved
<1>9. ASSUME p + 4 <= n
      PROVE  OnTrack(h, up, x, cur, k + 1)
  <2>1. cur[k + 1] = lu
    <3> DEFINE ck == cur[k]
    <3>1. /\ ck \in Nat /\ c \in Nat /\ x \in Nat /\ lw \in Nat /\ p = x + ck /\ x + lu = p + 4 + c
          /\ p + 4 + c <= lw /\ lw <= 5 + 16384 /\ cur[k + 1] = (ck + 4 + c) % 65536
      BY <1>1, <1>2, <1>6, <1>7, <1>8, <1>9
    <3>2. lu \in Nat
      <4>1. k + 1 \in 0 .. m
        BY <1>3, <1>5
      <4>2. up[k + 1] \in Seq(Nat)
        BY <1>1, <4>1 DEF Laid
      <4> QED
        BY <4>2, LenProperties
    <3> HIDE DEF ck, c, lw, lu, p
    <3>3. lu = ck + 4 + c /\ lu < 65536
      BY <3>1, <3>2
    <3>4. lu % 65536 = lu
      BY <3>2, <3>3
    <3> QED
      BY <3>1, <3>3, <3>4
  <2>2. k + 1 <= m
    BY <1>3, <1>5
  <2> QED
    BY <1>1, <2>1, <2>2 DEF OnTrack
<1>10. ASSUME ~(p + 4 <= n)
       PROVE  Lost(h, n, x, cur, k + 1)
  <2> DEFINE ck == cur[k]
  <2>1. /\ ck \in Nat /\ x \in Nat /\ lw \in Nat /\ n \in Nat /\ p = x + ck /\ p <= lw
        /\ lw <= 5 + 16384 /\ cur[k + 1] = (ck + 4 + 0) % 65536 /\ ~(p + 4 <= n)
    BY <1>1, <1>2, <1>7, <1>8, <1>10
  <2> HIDE DEF ck, lw, p
  <2>2. ck + 4 < 65536
    BY <2>1
  <2>3. (ck + 4 + 0) % 65536 = ck + 4
    BY <2>1, <2>2
  <2>4. cur[k + 1] = ck + 4
    BY <2>1, <2>3
  <2>5. x + (ck + 4) + 2 > n /\ x + (ck + 4) <= lw + 4
    BY <2>1
  <2> QED
    BY <2>4, <2>5 DEF Lost, lw
<1> QED
  BY <1>5, <1>9, <1>10

(* As long as the loads of the types succeed, the loop is on track.        *)
LEMMA TrackKept ==
  ASSUME NEW h, NEW n, NEW skb, NEW up, NEW x, NEW cur, Reading(h, n, skb, up, x, cur)
  PROVE  \A k \in Nat : /\ k <= TLS_MAX_EXTENSION_COUNT
                        /\ \A j \in Nat : j < k => x + cur[j] + 2 <= n
                        => OnTrack(h, up, x, cur, k) \/ Lost(h, n, x, cur, k)
<1> DEFINE M == TLS_MAX_EXTENSION_COUNT
           Right(k) == \A j \in Nat : j < k => x + cur[j] + 2 <= n
           G == {k \in Nat : k <= M /\ Right(k)
                               => OnTrack(h, up, x, cur, k) \/ Lost(h, n, x, cur, k)}
<1>1. 0 \in G
  <2>1. /\ h \in Messages /\ n \in 0 .. Len(Wire(h)) /\ x \in Nat /\ cur[0] = 0 /\ Laid(h, up)
        /\ x <= Base(h) /\ (x = Base(h) \/ x > n)
    BY DEF Reading, Walks
  <2>2. /\ Len(Extensions(h)) \in Nat /\ Len(Wire(h)) = Base(h) + Len(Extensions(h))
        /\ Len(h.extensions) \in Nat
    BY <2>1, WireIs, MessageFields
  <2>3. CASE x = Base(h)
    <3>1. cur[0] = Len(up[0])
      <4>1. up[0] = <<>> /\ Len(<<>>) = 0
        BY <2>1 DEF Laid
      <4> QED
        BY <2>1, <4>1
    <3>2. 0 <= Len(h.extensions)
      BY <2>2
    <3>3. OnTrack(h, up, x, cur, 0)
      BY <2>3, <3>1, <3>2 DEF OnTrack
    <3> QED
      BY <3>3
  <2>4. CASE x > n
    <3> DEFINE lw == Len(Wire(h))
               b == Base(h)
               lx == Len(Extensions(h))
    <3>1. b \in Nat
      <4>1. h.session \in Nat /\ h.ciphers \in Nat /\ h.compression \in Nat
        BY <2>1, MessageFields
      <4> QED
        BY <4>1 DEF Base
    <3>2. n \in Int /\ x \in Nat /\ lx \in Nat /\ lw = b + lx /\ x <= b /\ x > n
      BY <2>1, <2>2, <2>4
    <3> HIDE DEF lw, b, lx
    <3>3. x + 0 + 2 > n /\ x + 0 <= lw + 4
      BY <3>1, <3>2
    <3>4. Lost(h, n, x, cur, 0)
      BY <2>1, <3>3 DEF Lost, lw
    <3> QED
      BY <3>4
  <2> QED
    BY <2>1, <2>3, <2>4
<1>2. ASSUME NEW k \in Nat, k \in G
      PROVE  k + 1 \in G
  <2> SUFFICES ASSUME k + 1 <= M, Right(k + 1)
               PROVE  OnTrack(h, up, x, cur, k + 1) \/ Lost(h, n, x, cur, k + 1)
    OBVIOUS
  <2>1. k <= M /\ k < k + 1 /\ \A j \in Nat : j < k => j < k + 1
    BY DEF TLS_MAX_EXTENSION_COUNT
  <2>2. x + cur[k] + 2 <= n
    BY <2>1
  <2>3. OnTrack(h, up, x, cur, k) \/ Lost(h, n, x, cur, k)
    BY <1>2, <2>1
  <2>4. ~Lost(h, n, x, cur, k)
    <3>1. k \in 0 .. M /\ Walks(cur, skb, x) /\ x \in Nat /\ n \in 0 .. Len(Wire(h)) /\ h \in Messages
      BY <2>1 DEF Reading, TLS_MAX_EXTENSION_COUNT
    <3>2. cur[k] \in Nat /\ n \in Int
      BY <3>1 DEF Walks
    <3> QED
      BY <2>2, <3>1, <3>2 DEF Lost
  <2>5. OnTrack(h, up, x, cur, k)
    BY <2>3, <2>4
  <2> QED
    BY <2>2, <2>5, TrackStep
<1>3. \A k \in Nat : k \in G
  <2> HIDE DEF G
  <2> QED
    BY <1>1, <1>2, Counting
<1> QED
  BY <1>3

-----------------------------------------------------------------------------
(* The extension that the loop stops at.                                   *)

(* It is the one after the first i: the type loaded there is that of a     *)
(* server name, or the load failed.                                        *)
Stops(skb, x, cur, n, i) ==
  /\ i \in Nat /\ i < TLS_MAX_EXTENSION_COUNT /\ cur[i] \in Nat
  /\ Load16(skb, data_offset + (x + cur[i])) = 0
  /\ \A j \in Nat : j < i => Load16(skb, data_offset + (x + cur[j])) # 0
  /\ server_name_ext_off(skb) = data_offset + (x + cur[i])

(* The types that the loop has loaded before round k are not that of a     *)
(* server name, so that the loads have not failed.                         *)
LEMMA LoadsSucceeded ==
  ASSUME NEW h, NEW n, NEW skb, NEW up, NEW x, NEW cur, Reading(h, n, skb, up, x, cur),
         NEW j \in Nat, j < TLS_MAX_EXTENSION_COUNT
  PROVE  /\ cur[j] \in Nat /\ x \in Nat /\ n \in Nat
         /\ Load16(skb, data_offset + (x + cur[j])) \in Nat
         /\ Load16(skb, data_offset + (x + cur[j])) =
              IF x + cur[j] + 2 <= n THEN Pair(Wire(h), x + cur[j]) ELSE 0
<1> DEFINE w == Wire(h)
           a == x + cur[j]
<1>1. h \in Messages /\ n \in 0 .. Len(w) /\ IsCut(skb, w, n) /\ x \in Nat /\ Walks(cur, skb, x)
  BY DEF Reading
<1>2. w \in Seq(Nat) /\ Len(w) \in Nat
  BY <1>1, WireIs, LenProperties
<1>3. cur[j] \in Nat
  <2>1. j \in 0 .. TLS_MAX_EXTENSION_COUNT
    BY DEF TLS_MAX_EXTENSION_COUNT
  <2> QED
    BY <1>1, <2>1 DEF Walks
<1>4. a \in Nat
  BY <1>1, <1>3
<1> HIDE DEF w, a
<1>5. /\ Load16(skb, data_offset + a) = IF a + 2 <= n THEN Pair(w, a) ELSE 0
      /\ Load16(skb, data_offset + a) \in Nat
  BY <1>1, <1>2, <1>4, LoadIs
<1> QED
  BY <1>1, <1>2, <1>3, <1>5 DEF a, w

(* The same offset, counted from the extensions and from the message.      *)
LEMMA SamePlace ==
  ASSUME NEW skb, NEW x \in Nat, StartsAt(skb, x), NEW c \in Nat
  PROVE  extensions_off(skb) + c = data_offset + (x + c)
<1>1. data_offset \in Nat /\ extensions_off(skb) = data_offset + x
  BY data_offsetAssumption DEF StartsAt
<1> QED
  BY <1>1

(* When some type loads as zero, the loop stops at the first that does.    *)
LEMMA LoopStops ==
  ASSUME NEW h, NEW n, NEW skb, NEW up, NEW x, NEW cur, Reading(h, n, skb, up, x, cur),
         NEW k \in Nat, k < TLS_MAX_EXTENSION_COUNT, Load16(skb, data_offset + (x + cur[k])) = 0
  PROVE  \E i : /\ Stops(skb, x, cur, n, i) /\ i <= k
                /\ OnTrack(h, up, x, cur, i) \/ Lost(h, n, x, cur, i)
<1> DEFINE M == TLS_MAX_EXTENSION_COUNT
           loaded(i) == Load16(skb, data_offset + (x + cur[i]))
           T == {i \in 0 .. M - 1 : Load16(skb, extensions_off(skb) + cur[i]) = 0}
<1>1. M \in Nat
  BY DEF TLS_MAX_EXTENSION_COUNT
<1>2. cur = Cursors(skb) /\ h \in Messages /\ Len(Wire(h)) <= 5 + 16384
  BY DEF Reading
<1>3. StartsAt(skb, x) /\ x \in Nat
  BY DEF Reading
<1>4. \A j \in Nat : j < M => cur[j] \in Nat /\ (loaded(j) = 0 <=> j \in T)
  <2> SUFFICES ASSUME NEW j \in Nat, j < M
               PROVE  cur[j] \in Nat /\ (loaded(j) = 0 <=> j \in T)
    OBVIOUS
  <2>1. cur[j] \in Nat
    BY LoadsSucceeded
  <2>2. extensions_off(skb) + cur[j] = data_offset + (x + cur[j])
    BY <1>3, <2>1, SamePlace
  <2>3. j \in 0 .. M - 1
    BY <1>1
  <2> QED
    BY <2>1, <2>2, <2>3
<1>5. T \in SUBSET Nat /\ \A j \in T : j \in Nat /\ j < M
  BY <1>1
<1>6. k \in T
  BY <1>4
<1> HIDE DEF T
<1>7. PICK i \in Nat : Least(i, T)
  BY <1>5, <1>6, LeastExists
<1>8. i \in T /\ i < M /\ i <= k /\ \A j \in Nat : j < i => j < M /\ j \notin T
  BY <1>1, <1>5, <1>6, <1>7 DEF Least
<1>9. loaded(i) = 0 /\ cur[i] \in Nat /\ \A j \in Nat : j < i => loaded(j) # 0
  BY <1>4, <1>8
<1>10. OnTrack(h, up, x, cur, i) \/ Lost(h, n, x, cur, i)
  <2>1. \A j \in Nat : j < i => x + cur[j] + 2 <= n
    BY <1>8, <1>9, LoadsSucceeded
  <2>2. i <= M
    BY <1>1, <1>8
  <2> QED
    BY <2>1, <2>2, TrackKept
<1>11. x + cur[i] <= Len(Wire(h)) + 4 /\ Len(Wire(h)) \in Nat
  <2>1. Len(Wire(h)) \in Nat
    BY <1>2, WireIs, LenProperties
  <2>2. OnTrack(h, up, x, cur, i) => x + cur[i] <= Len(Wire(h))
    BY TrackInside
  <2>3. Lost(h, n, x, cur, i) => x + cur[i] <= Len(Wire(h)) + 4
    BY DEF Lost
  <2> QED
    BY <1>3, <1>9, <1>10, <2>1, <2>2, <2>3
<1>12. server_name_ext_off(skb) = data_offset + (x + cur[i])
  <2> DEFINE l == CHOOSE l \in T : \A j \in T : l <= j
  <2>1. l = i
    BY <1>5, <1>7, LeastChosen
  <2>2. server_name_ext_off(skb) =
          IF T = {} THEN 0 ELSE (extensions_off(skb) + cur[l]) % 65536
    BY <1>2 DEF server_name_ext_off, T, TLS_EXTENSION_SERVER_NAME
  <2>3. server_name_ext_off(skb) = (extensions_off(skb) + cur[i]) % 65536
    <3> HIDE DEF l
    <3> QED
      BY <1>6, <2>1, <2>2
  <2>4. extensions_off(skb) + cur[i] = data_offset + (x + cur[i])
    BY <1>3, <1>9, SamePlace
  <2>5. data_offset + (x + cur[i]) \in Nat /\ data_offset + (x + cur[i]) < 65536
    <3> DEFINE a == x + cur[i]
               lw == Len(Wire(h))
    <3>1. a \in Nat /\ a <= lw + 4 /\ lw \in Nat /\ lw <= 5 + 16384
      BY <1>2, <1>3, <1>9, <1>11
    <3> HIDE DEF a, lw
    <3>2. data_offset + a \in Nat /\ data_offset + a < 65536
      BY <3>1, data_offsetAssumption
    <3> QED
      BY <3>2 DEF a
  <2>6. (data_offset + (x + cur[i])) % 65536 = data_offset + (x + cur[i])
    BY <2>5
  <2> QED
    BY <2>3, <2>4, <2>6
<1>13. Stops(skb, x, cur, n, i)
  BY <1>8, <1>9, <1>12 DEF Stops
<1> QED
  BY <1>8, <1>10, <1>13

(* The loop finds nothing, or stops somewhere.                             *)
LEMMA LoopEnds ==
  ASSUME NEW h, NEW n, NEW skb, NEW up, NEW x, NEW cur, Reading(h, n, skb, up, x, cur)
  PROVE  \/ server_name_ext_off(skb) = 0
         \/ \E i : /\ Stops(skb, x, cur, n, i)
                   /\ OnTrack(h, up, x, cur, i) \/ Lost(h, n, x, cur, i)
<1> DEFINE M == TLS_MAX_EXTENSION_COUNT
<1>1. StartsAt(skb, x) /\ x \in Nat /\ cur = Cursors(skb)
  BY DEF Reading
<1>2. CASE \E k \in Nat : k < M /\ Load16(skb, data_offset + (x + cur[k])) = 0
  BY <1>2, LoopStops
<1>3. CASE \A k \in Nat : k < M => Load16(skb, data_offset + (x + cur[k])) # 0
  <2>1. {i \in 0 .. M - 1 : Load16(skb, extensions_off(skb) + cur[i]) = 0} = {}
    <3> SUFFICES ASSUME NEW i \in 0 .. M - 1
                 PROVE  Load16(skb, extensions_off(skb) + cur[i]) # 0
      OBVIOUS
    <3>1. i \in Nat /\ i < M
      BY DEF TLS_MAX_EXTENSION_COUNT
    <3>2. cur[i] \in Nat
      BY <3>1, LoadsSucceeded
    <3>3. extensions_off(skb) + cur[i] = data_offset + (x + cur[i])
      BY <1>1, <3>2, SamePlace
    <3> QED
      BY <1>3, <3>1, <3>3
  <2> QED
    BY <1>1, <2>1 DEF server_name_ext_off, TLS_EXTENSION_SERVER_NAME
<1> QED
  BY <1>2, <1>3

-----------------------------------------------------------------------------
(* The name that parse_sni writes.                                         *)

LEMMA FirstOnes ==
  ASSUME NEW s, NEW q \in Nat, \A i \in 1 .. q : s[i] \in Nat
  PROVE  /\ SubSeq(s, 1, q) \in Seq(Nat) /\ Len(SubSeq(s, 1, q)) = q
         /\ \A i \in 1 .. q : SubSeq(s, 1, q)[i] = s[i]
<1>1. 1 \in Int /\ q \in Int
  OBVIOUS
<1>2. /\ SubSeq(s, 1, q) \in Seq(Nat)
      /\ Len(SubSeq(s, 1, q)) = IF 1 <= q THEN q - 1 + 1 ELSE 0
      /\ \A i \in 1 .. q - 1 + 1 : SubSeq(s, 1, q)[i] = s[1 + i - 1]
  BY <1>1, SubSeqProperties
<1>3. \A i \in 1 .. q : i \in 1 .. q - 1 + 1 /\ 1 + i - 1 = i
  OBVIOUS
<1> QED
  BY <1>2, <1>3

(* An array of m bytes that holds q bytes of a name and then zeros.        *)
Holds(array, m, name, q) ==
  /\ array \in [1 .. m -> Nat]
  /\ \A i \in 1 .. m : array[i] = IF i <= q THEN name[i] ELSE 0

(* Up to the first zero, it reads as those q bytes.                        *)
LEMMA NameReadBack ==
  ASSUME NEW m \in Nat, NEW name \in Seq(NonZeros), NEW q \in Nat, q <= m, q <= Len(name),
         NEW array, Holds(array, m, name, q)
  PROVE  UpToZero(array) = SubSeq(name, 1, q)
<1>1. /\ array \in [1 .. m -> Nat] /\ DOMAIN array = 1 .. m
      /\ \A i \in 1 .. m : array[i] = IF i <= q THEN name[i] ELSE 0
  BY DEF Holds
<1>2. \A i \in 1 .. q : i \in 1 .. m /\ name[i] \in Nat /\ name[i] # 0 /\ array[i] = name[i]
  <2> SUFFICES ASSUME NEW i \in 1 .. q
               PROVE  i \in 1 .. m /\ name[i] \in Nat /\ name[i] # 0 /\ array[i] = name[i]
    OBVIOUS
  <2>1. Len(name) \in Nat
    BY LenProperties
  <2>2. i \in 1 .. m /\ i \in 1 .. Len(name) /\ i <= q
    BY <2>1
  <2>3. name[i] \in NonZeros
    BY <2>2, ElementOfSeq
  <2>4. NonZeros \subseteq Nat /\ 0 \notin NonZeros
    BY DEF NonZeros, Uint8
  <2> QED
    BY <1>1, <2>2, <2>3, <2>4
<1> DEFINE Z == {i \in DOMAIN array : array[i] = 0}
           l == CHOOSE i \in Z : \A j \in Z : i <= j
           P == SubSeq(name, 1, q)
<1>3. UpToZero(array) = IF Z = {} THEN array ELSE SubSeq(array, 1, l - 1)
  BY DEF UpToZero
<1>4. Z = q + 1 .. m
  BY <1>1, <1>2
<1>5. P \in Seq(Nat) /\ Len(P) = q /\ \A i \in 1 .. q : P[i] = name[i]
  BY <1>2, FirstOnes
<1> HIDE DEF P
<1>6. CASE q = m
  <2>1. Z = {}
    BY <1>4, <1>6
  <2>2. array \in Seq(Nat) /\ Len(array) = m
    BY <1>1, FilledSeq
  <2>3. \A i \in 1 .. Len(array) : array[i] = P[i]
    BY <1>2, <1>5, <1>6, <2>2
  <2>4. array = P
    BY <1>5, <1>6, <2>2, <2>3, SeqEqual
  <2> HIDE DEF Z
  <2> QED
    BY <1>3, <2>1, <2>4 DEF P
<1>7. CASE q < m
  <2>1. Least(q + 1, Z) /\ Z \in SUBSET Nat /\ Z # {}
    BY <1>4, <1>7 DEF Least
  <2> HIDE DEF Z
  <2>2. l = q + 1
    BY <2>1, LeastChosen
  <2> HIDE DEF l
  <2>3. l - 1 = q
    BY <2>2
  <2> DEFINE A == SubSeq(array, 1, q)
  <2>4. UpToZero(array) = A
    BY <1>3, <2>1, <2>3
  <2>5. A \in Seq(Nat) /\ Len(A) = q /\ \A i \in 1 .. q : A[i] = array[i]
    BY <1>2, FirstOnes
  <2> HIDE DEF A
  <2>6. \A i \in 1 .. Len(A) : A[i] = P[i]
    BY <1>2, <1>5, <2>5
  <2>7. A = P
    BY <1>5, <2>5, <2>6, SeqEqual
  <2> QED
    BY <2>4, <2>7 DEF P
<1> QED
  BY <1>6, <1>7

(* The loop stopped at a place after which there is nothing.               *)
LEMMA ParseNothing ==
  ASSUME NEW h, NEW n, NEW skb, NEW up, NEW x, NEW cur, Reading(h, n, skb, up, x, cur),
         NEW i, Stops(skb, x, cur, n, i), x + cur[i] + 2 > n
  PROVE  parse_sni(skb) = <<>>
<1> DEFINE p == x + cur[i]
           w == Wire(h)
           q == p + 7
<1>1. h \in Messages /\ n \in 0 .. Len(w) /\ IsCut(skb, w, n) /\ x \in Nat
  BY DEF Reading
<1>2. cur[i] \in Nat /\ server_name_ext_off(skb) = data_offset + p
  BY DEF Stops
<1>3. w \in Seq(Nat) /\ Len(w) \in Nat
  BY <1>1, WireIs, LenProperties
<1>4. q \in Nat /\ q + 2 > n /\ data_offset + p + 7 = data_offset + q
  <2>1. p \in Nat /\ p + 2 > n /\ n \in Int /\ data_offset \in Nat
    BY <1>1, <1>2, <1>3, data_offsetAssumption
  <2> HIDE DEF p
  <2> QED
    BY <2>1
<1> HIDE DEF p, q, w
<1>5. Load16(skb, data_offset + q) = IF q + 2 <= n THEN Pair(w, q) ELSE 0
  BY <1>1, <1>3, <1>4, LoadIs
<1>6. ~(q + 2 <= n)
  BY <1>1, <1>3, <1>4
<1>7. Load16(skb, server_name_ext_off(skb) + TLS_SERVER_NAME_LENGTH_OFF) = 0
  BY <1>2, <1>4, <1>5, <1>6 DEF TLS_SERVER_NAME_LENGTH_OFF
<1> QED
  BY <1>7 DEF parse_sni

(* The loop stopped at an extension e: parse_sni writes q bytes of its     *)
(* name, all of them when the segment and the array have the room.         *)
Gets(name, h, n, e, q) ==
  /\ q \in Nat /\ q <= Len(e.name) /\ name = SubSeq(e.name, 1, q)
  /\ n = Len(Wire(h)) /\ Len(e.name) \in 1 .. TLS_MAX_SERVER_NAME_LEN => q = Len(e.name)

(* The cursor after i rounds is at p.                                      *)
CursorAt(p, x, cur, i) == p = x + cur[i]

LEMMA ParseLoads ==
  ASSUME NEW h, NEW n, NEW skb, NEW up, NEW x, NEW cur, Reading(h, n, skb, up, x, cur),
         NEW i, Stops(skb, x, cur, n, i), IsClientHello(skb),
         NEW k, NEW e, NEW p, IsAt(h, up, k, e, p), e.type = 0, CursorAt(p, x, cur, i),
         e.name \in Seq(NonZeros)
  PROVE  \E q : Gets(parse_sni(skb), h, n, e, q)
<1> DEFINE w == Wire(h)
           name == e.name
           L == Len(name)
           lw == Len(w)
           ext == server_name_ext_off(skb)
           len == Load16(skb, ext + TLS_SERVER_NAME_LENGTH_OFF)
           off == (ext + TLS_SERVER_NAME_OFF) % 65536
           F == [j \in 1 .. len |-> Load8(skb, off + j - 1)]
<1>1. h \in Messages /\ n \in 0 .. lw /\ IsCut(skb, w, n) /\ x \in Nat /\ 49 <= x /\ lw <= 5 + 16384
  BY DEF Reading
<1>2. w \in Seq(Nat) /\ lw \in Nat
  BY <1>1, WireIs, LenProperties
<1>3. /\ p \in Nat /\ L \in Nat /\ p + 9 + L <= lw /\ Pair(w, p + 7) = L
      /\ \A j \in 1 .. L : w[p + 9 + j] = name[j]
  <2> DEFINE c == Len(Content(e))
  <2>1. p \in Nat /\ L \in Nat /\ c = 5 + L /\ p + 4 + c <= lw
    BY DEF IsAt
  <2>2. Pair(w, p + 7) = L /\ \A j \in 1 .. L : w[p + 9 + j] = name[j]
    BY DEF IsAt
  <2>3. p + 9 + L <= lw
    <3> HIDE DEF c, L, lw
    <3> QED
      BY <1>2, <2>1
  <2> QED
    BY <2>1, <2>2, <2>3
<1>4. ext = data_offset + p /\ 49 <= p
  <2>1. cur[i] \in Nat /\ ext = data_offset + p
    BY DEF Stops, CursorAt
  <2>2. 49 <= p
    BY <1>1, <2>1 DEF CursorAt
  <2> QED
    BY <2>1, <2>2
<1>5. data_offset \in Nat /\ data_offset <= 134 /\ n \in Nat /\ n <= lw
  BY <1>1, <1>2, data_offsetAssumption
<1>6. parse_sni(skb) = IF len \notin 1 .. TLS_MAX_SERVER_NAME_LEN THEN <<>> ELSE UpToZero(F)
  <2>1. ext # 0
    BY <1>3, <1>4, <1>5
  <2> QED
    BY <2>1 DEF parse_sni
<1>7. len = IF p + 9 <= n THEN L ELSE 0
  <2> DEFINE a == p + 7
  <2>1. a \in Nat /\ a + 2 = p + 9 /\ ext + 7 = data_offset + a
    BY <1>3, <1>4, <1>5
  <2>2. Pair(w, a) = L
    BY <1>3
  <2> HIDE DEF a, w, L
  <2>3. Load16(skb, data_offset + a) = IF a + 2 <= n THEN Pair(w, a) ELSE 0
    BY <1>1, <1>2, <2>1, LoadIs DEF lw
  <2> QED
    BY <2>1, <2>2, <2>3 DEF TLS_SERVER_NAME_LENGTH_OFF
<1>8. off = data_offset + (p + 9)
  <2>1. lw <= 5 + 16384
    BY <1>1
  <2> HIDE DEF ext, lw, L
  <2>2. data_offset \in Nat /\ data_offset <= 134 /\ p \in Nat /\ L \in Nat /\ lw \in Nat
    BY <1>2, <1>3, <1>5
  <2>3. p + 9 < 20000
    BY <1>3, <2>1, <2>2
  <2>4. ext + 9 = data_offset + (p + 9) /\ ext + 9 \in Nat /\ ext + 9 < 65536
    BY <1>4, <2>2, <2>3
  <2>5. (ext + 9) % 65536 = ext + 9
    BY <2>4
  <2> QED
    BY <2>4, <2>5 DEF TLS_SERVER_NAME_OFF
<1> HIDE DEF ext, len, off, w, lw, L, name
<1>9. CASE len \notin 1 .. TLS_MAX_SERVER_NAME_LEN
  <2>1. parse_sni(skb) = <<>>
    BY <1>6, <1>9
  <2>2. SubSeq(name, 1, 0) = <<>>
    BY SubSeqEmpty
  <2>3. ~(n = lw /\ L \in 1 .. TLS_MAX_SERVER_NAME_LEN)
    BY <1>2, <1>3, <1>5, <1>7, <1>9
  <2>4. Gets(parse_sni(skb), h, n, e, 0)
    BY <1>3, <2>1, <2>2, <2>3 DEF Gets, name, L, lw, w
  <2> QED
    BY <2>4
<1>10. CASE len \in 1 .. TLS_MAX_SERVER_NAME_LEN
  <2> DEFINE q == IF p + 9 + L <= n THEN L ELSE n - (p + 9)
  <2>1. p + 9 <= n /\ len = L /\ L \in Nat
    BY <1>3, <1>7, <1>10
  <2>2. q \in Nat /\ q <= L /\ \A j \in 1 .. L : j <= q <=> p + 9 + j <= n
    BY <1>3, <1>5, <2>1
  <2>3. n = lw => q = L
    BY <1>3
  <2> HIDE DEF q
  <2>4. ASSUME NEW j \in 1 .. L
        PROVE  /\ Load8(skb, off + j - 1) \in Nat
               /\ Load8(skb, off + j - 1) = IF j <= q THEN name[j] ELSE 0
    <3> DEFINE a == p + 9 + (j - 1)
    <3>1. a \in Nat /\ a + 1 = p + 9 + j /\ off + j - 1 = data_offset + a
      <4>1. p \in Nat /\ data_offset \in Nat /\ j \in Nat /\ j - 1 \in Nat
        BY <1>3, <1>5
      <4> QED
        BY <1>8, <4>1
    <3> HIDE DEF a
    <3>2. /\ Load8(skb, data_offset + a) = IF a + 1 <= n THEN w[a + 1] ELSE 0
          /\ Load8(skb, data_offset + a) \in Nat
      BY <1>1, <1>2, <3>1, LoadIs DEF lw
    <3>3. w[a + 1] = name[j]
      BY <1>3, <3>1
    <3> QED
      BY <2>2, <3>1, <3>2, <3>3
  <2>5. Holds(F, L, name, q)
    <3>1. \A j \in 1 .. L : F[j] = Load8(skb, off + j - 1)
      BY <2>1
    <3>2. F \in [1 .. L -> Nat]
      BY <2>1, <2>4
    <3> HIDE DEF F
    <3> QED
      BY <2>4, <3>1, <3>2 DEF Holds
  <2>6. parse_sni(skb) = UpToZero(F)
    BY <1>6, <1>10
  <2> HIDE DEF F
  <2>7. UpToZero(F) = SubSeq(name, 1, q)
    BY <2>1, <2>2, <2>5, NameReadBack DEF name, L
  <2>8. Gets(parse_sni(skb), h, n, e, q)
    BY <2>2, <2>3, <2>6, <2>7 DEF Gets, name, L, lw, w
  <2> QED
    BY <2>8
<1> QED
  BY <1>9, <1>10

(* The extension there has the type of a server name.                      *)
LEMMA ParseFound ==
  ASSUME NEW h, NEW n, NEW skb, NEW up, NEW x, NEW cur, Reading(h, n, skb, up, x, cur),
         NEW i, Stops(skb, x, cur, n, i), IsClientHello(skb),
         OnTrack(h, up, x, cur, i), x + cur[i] + 2 <= n
  PROVE  /\ i + 1 \in DOMAIN h.extensions /\ h.extensions[i + 1].type = 0
         /\ \E q : Gets(parse_sni(skb), h, n, h.extensions[i + 1], q)
<1> DEFINE p == x + cur[i]
           e == h.extensions[i + 1]
           m == Len(h.extensions)
<1>1. h \in Messages /\ Laid(h, up)
  BY DEF Reading
<1>2. /\ i \in Nat /\ i < TLS_MAX_EXTENSION_COUNT /\ i + 1 <= TLS_MAX_EXTENSION_COUNT
      /\ Load16(skb, data_offset + p) = 0
  BY DEF Stops, TLS_MAX_EXTENSION_COUNT
<1>3. i < m
  BY <1>2, TrackStep
<1>4. m \in Nat /\ DOMAIN h.extensions = 1 .. m /\ \A j \in 1 .. m : h.extensions[j].name \in Seq(NonZeros)
  BY <1>1, MessageFields
<1>5. i + 1 \in 1 .. m
  BY <1>2, <1>3, <1>4
<1>6. After(p, h, up, i)
  BY <1>2, TrackInside
<1>7. CursorAt(p, x, cur, i)
  BY DEF CursorAt
<1>8. Load16(skb, data_offset + p) = Pair(Wire(h), p)
  BY <1>2, LoadsSucceeded
<1> HIDE DEF p
<1>9. IsAt(h, up, i, e, p)
  BY <1>1, <1>2, <1>3, <1>6, WireExtension
<1>10. e.type = 0
  BY <1>2, <1>8, <1>9 DEF IsAt
<1>11. e.name \in Seq(NonZeros)
  BY <1>4, <1>5
<1> HIDE DEF e
<1>12. \E q : Gets(parse_sni(skb), h, n, e, q)
  BY <1>7, <1>9, <1>10, <1>11, ParseLoads
<1> QED
  BY <1>4, <1>5, <1>10, <1>12 DEF e

-----------------------------------------------------------------------------
(* The two properties.                                                     *)

LEMMA HelloRead ==
  ASSUME NEW h \in Messages, NEW n \in 0 .. Len(Wire(h)), NEW skb, IsCut(skb, Wire(h), n)
  PROVE  /\ IsClientHello(skb) => /\ h.content = TLS_CONTENT_TYPE_HANDSHAKE
                                  /\ h.type = TLS_HANDSHAKE_TYPE_CLIENT_HELLO
         /\ /\ n >= 6 /\ h.content = TLS_CONTENT_TYPE_HANDSHAKE
            /\ h.type = TLS_HANDSHAKE_TYPE_CLIENT_HELLO
            => IsClientHello(skb)
<1>1. Wire(h) \in Seq(Nat) /\ Wire(h)[1] = h.content /\ Wire(h)[6] = h.type
  BY WireIs
<1>2. n \in Nat /\ data_offset \in Nat
  BY <1>1, LenProperties, data_offsetAssumption
<1>3. 0 \in Nat /\ 5 \in Nat /\ data_offset + 0 = data_offset
  BY <1>2
<1>4. Load8(skb, data_offset + 0) = IF 0 + 1 <= n THEN Wire(h)[0 + 1] ELSE 0
  BY <1>1, <1>3, LoadIs
<1>5. Load8(skb, data_offset + 5) = IF 5 + 1 <= n THEN Wire(h)[5 + 1] ELSE 0
  BY <1>1, <1>3, LoadIs
<1>6. Load8(skb, data_offset) = IF 1 <= n THEN h.content ELSE 0
  BY <1>1, <1>3, <1>4
<1>7. Load8(skb, data_offset + 5) = IF 6 <= n THEN h.type ELSE 0
  BY <1>1, <1>5
<1> QED
  BY <1>2, <1>6, <1>7 DEF IsClientHello, TLS_CONTENT_TYPE_HANDSHAKE, TLS_HANDSHAKE_TYPE_CLIENT_HELLO,
                          TLS_HANDSHAKE_TYPE_OFF

(* The name of a message with at most one.                                 *)
LEMMA NameOfIs ==
  ASSUME NEW h \in Messages, OneName(h)
  PROVE  /\ NameOf(h) \in Seq(NonZeros) /\ Len(NameOf(h)) \in Nat
         /\ \A k \in NameAt(h) : NameOf(h) = h.extensions[k].name
<1>1. \A i, j \in NameAt(h) : i = j
  BY DEF OneName, NameAt
<1>2. \A k \in NameAt(h) : NameOf(h) = h.extensions[k].name
  BY <1>1 DEF NameOf
<1>3. NameOf(h) \in Seq(NonZeros)
  <2>1. CASE NameAt(h) = {}
    <3>1. NameOf(h) = <<>>
      BY <2>1 DEF NameOf
    <3> QED
      BY <3>1
  <2>2. CASE NameAt(h) # {}
    <3>1. PICK k \in NameAt(h) : TRUE
      BY <2>2
    <3>2. k \in 1 .. Len(h.extensions)
      BY MessageFields DEF NameAt
    <3>3. h.extensions[k].name \in Seq(NonZeros)
      BY <3>2, MessageFields
    <3> QED
      BY <1>2, <3>1, <3>3
  <2> QED
    BY <2>1, <2>2
<1> QED
  BY <1>2, <1>3, LenProperties

(* What parse_sni writes is a prefix of the name.                          *)
LEMMA PrefixRead ==
  ASSUME NEW h, NEW n, NEW skb, NEW up, NEW x, NEW cur, Reading(h, n, skb, up, x, cur), OneName(h)
  PROVE  \E q \in Nat : q <= Len(NameOf(h)) /\ parse_sni(skb) = SubSeq(NameOf(h), 1, q)
<1>1. h \in Messages /\ n \in 0 .. Len(Wire(h)) /\ IsCut(skb, Wire(h), n)
  BY DEF Reading
<1>2. Len(NameOf(h)) \in Nat
  BY <1>1, NameOfIs
<1>3. CASE parse_sni(skb) = <<>>
  <2>1. SubSeq(NameOf(h), 1, 0) = <<>>
    BY SubSeqEmpty
  <2>2. 0 \in Nat /\ 0 <= Len(NameOf(h))
    BY <1>2
  <2> QED
    BY <1>3, <2>1, <2>2
<1>4. CASE parse_sni(skb) # <<>>
  <2>1. IsClientHello(skb) /\ server_name_ext_off(skb) # 0
    BY <1>4 DEF parse_sni
  <2>2. PICK i : /\ Stops(skb, x, cur, n, i)
                 /\ OnTrack(h, up, x, cur, i) \/ Lost(h, n, x, cur, i)
    BY <2>1, LoopEnds
  <2>3. i \in Nat /\ i < TLS_MAX_EXTENSION_COUNT
    BY <2>2 DEF Stops
  <2>4. x + cur[i] + 2 <= n
    <3>1. ~(x + cur[i] + 2 > n)
      BY <1>4, <2>2, ParseNothing
    <3>2. cur[i] \in Nat /\ x \in Nat /\ n \in Nat
      BY <2>3, LoadsSucceeded
    <3> QED
      BY <3>1, <3>2
  <2>5. OnTrack(h, up, x, cur, i)
    <3>1. cur[i] \in Nat /\ x \in Nat /\ n \in Nat
      BY <2>3, LoadsSucceeded
    <3>2. ~Lost(h, n, x, cur, i)
      BY <2>4, <3>1 DEF Lost
    <3> QED
      BY <2>2, <3>2
  <2>6. /\ i + 1 \in DOMAIN h.extensions /\ h.extensions[i + 1].type = 0
        /\ \E q : Gets(parse_sni(skb), h, n, h.extensions[i + 1], q)
    BY <2>1, <2>2, <2>4, <2>5, ParseFound
  <2>7. i + 1 \in NameAt(h)
    BY <1>1, <2>1, <2>6, HelloRead DEF NameAt
  <2>8. NameOf(h) = h.extensions[i + 1].name
    BY <1>1, <2>7, NameOfIs
  <2> QED
    BY <2>6, <2>8 DEF Gets
<1> QED
  BY <1>3, <1>4

(* In a message that is all there the loop is never lost.                  *)
LEMMA AllOnTrack ==
  ASSUME NEW h, NEW n, NEW skb, NEW up, NEW x, NEW cur, Reading(h, n, skb, up, x, cur),
         n = Len(Wire(h))
  PROVE  \A k \in Nat : k <= TLS_MAX_EXTENSION_COUNT /\ k <= Len(h.extensions)
                          => OnTrack(h, up, x, cur, k)
<1> DEFINE M == TLS_MAX_EXTENSION_COUNT
           m == Len(h.extensions)
           G == {k \in Nat : k <= M /\ k <= m => OnTrack(h, up, x, cur, k)}
<1>1. h \in Messages /\ Laid(h, up) /\ m \in Nat /\ M \in Nat
  BY MessageFields DEF Reading, TLS_MAX_EXTENSION_COUNT
<1>2. 0 \in G
  <2>1. OnTrack(h, up, x, cur, 0) \/ Lost(h, n, x, cur, 0)
    <3>1. 0 \in Nat /\ 0 <= M /\ \A j \in Nat : ~(j < 0)
      BY DEF TLS_MAX_EXTENSION_COUNT
    <3> QED
      BY <3>1, TrackKept
  <2>2. x = Base(h)
    <3> DEFINE b == Base(h)
               lx == Len(Extensions(h))
               lw == Len(Wire(h))
    <3>1. x \in Nat /\ x <= b /\ (x = b \/ x > n) /\ n = lw
      BY DEF Reading
    <3>2. lx \in Nat /\ lw = b + lx
      BY <1>1, WireIs
    <3>3. b \in Nat
      <4>1. h.session \in Nat /\ h.ciphers \in Nat /\ h.compression \in Nat
        BY <1>1, MessageFields
      <4> QED
        BY <4>1 DEF Base
    <3> HIDE DEF b, lx, lw
    <3>4. x = b
      BY <3>1, <3>2, <3>3
    <3> QED
      BY <3>4 DEF b
  <2>3. cur[0] = Len(up[0])
    <3>1. up[0] = <<>> /\ Len(<<>>) = 0 /\ cur[0] = 0
      BY DEF Reading, Laid, Walks
    <3> QED
      BY <3>1
  <2>4. 0 <= m
    BY <1>1
  <2>5. OnTrack(h, up, x, cur, 0)
    BY <2>2, <2>3, <2>4 DEF OnTrack
  <2> QED
    BY <2>5
<1>3. ASSUME NEW k \in Nat, k \in G
      PROVE  k + 1 \in G
  <2> SUFFICES ASSUME k + 1 <= M, k + 1 <= m
               PROVE  OnTrack(h, up, x, cur, k + 1)
    OBVIOUS
  <2>1. k <= M /\ k <= m /\ k < m
    BY <1>1
  <2>2. OnTrack(h, up, x, cur, k)
    BY <1>3, <2>1
  <2> DEFINE p == x + cur[k]
             e == h.extensions[k + 1]
             c == Len(Content(e))
  <2>3. After(p, h, up, k) /\ cur[k] \in Nat /\ x \in Nat /\ n \in Nat
    BY <2>2, TrackInside
  <2>4. p \in Nat
    BY <2>3
  <2>5. p + 2 <= n /\ p + 4 <= n
    <3> HIDE DEF p
    <3>1. IsAt(h, up, k, e, p)
      BY <1>1, <2>1, <2>3, WireExtension
    <3> HIDE DEF e
    <3>2. c \in Nat /\ p + 4 + c <= n
      BY <3>1 DEF IsAt
    <3> HIDE DEF c
    <3> QED
      BY <2>3, <2>4, <3>2
  <2> QED
    BY <2>2, <2>5, TrackStep
<1>4. \A k \in Nat : k \in G
  <2> HIDE DEF G
  <2> QED
    BY <1>2, <1>3, Counting
<1> QED
  BY <1>4

(* From a message that is all there parse_sni writes all of the name.      *)
LEMMA AllRead ==
  ASSUME NEW h, NEW n, NEW skb, NEW up, NEW x, NEW cur, Reading(h, n, skb, up, x, cur), OneName(h),
         n = Len(Wire(h)), NEW k \in NameAt(h), k <= TLS_MAX_EXTENSION_COUNT,
         Len(NameOf(h)) \in 1 .. TLS_MAX_SERVER_NAME_LEN
  PROVE  parse_sni(skb) = SubSeq(NameOf(h), 1, Len(NameOf(h)))
<1> DEFINE M == TLS_MAX_EXTENSION_COUNT
           m == Len(h.extensions)
           j == k - 1
           p == x + cur[j]
<1>1. /\ h \in Messages /\ Laid(h, up) /\ m \in Nat /\ M \in Nat /\ DOMAIN h.extensions = 1 .. m
      /\ n \in 0 .. Len(Wire(h)) /\ IsCut(skb, Wire(h), n)
  BY MessageFields DEF Reading, TLS_MAX_EXTENSION_COUNT
<1>2. /\ k \in 1 .. m /\ h.extensions[k].type = 0 /\ h.content = TLS_CONTENT_TYPE_HANDSHAKE
      /\ h.type = TLS_HANDSHAKE_TYPE_CLIENT_HELLO
  BY <1>1 DEF NameAt
<1>3. j \in Nat /\ j < m /\ j < M /\ j <= m /\ j <= M /\ j + 1 = k
  BY <1>1, <1>2
<1> HIDE DEF j
<1>4. OnTrack(h, up, x, cur, j)
  BY <1>3, AllOnTrack
<1>5. After(p, h, up, j) /\ cur[j] \in Nat /\ x \in Nat /\ n \in Nat
  BY <1>3, <1>4, TrackInside
<1>6. p \in Nat /\ 49 <= p
  <2>1. 49 <= x
    BY DEF Reading
  <2> QED
    BY <1>5, <2>1
<1>7. Pair(Wire(h), p) = 0 /\ p + 2 <= n
  <2> DEFINE e == h.extensions[j + 1]
             c == Len(Content(e))
  <2> HIDE DEF p
  <2>1. IsAt(h, up, j, e, p)
    BY <1>1, <1>3, <1>5, WireExtension
  <2>2. e.type = 0
    BY <1>2, <1>3
  <2> HIDE DEF e
  <2>3. c \in Nat /\ p + 4 + c <= n /\ Pair(Wire(h), p) = 0
    BY <2>1, <2>2 DEF IsAt
  <2> HIDE DEF c
  <2> QED
    BY <1>5, <1>6, <2>3
<1>8. Load16(skb, data_offset + p) = 0
  BY <1>3, <1>7, LoadsSucceeded
<1>9. PICK i : Stops(skb, x, cur, n, i) /\ i <= j
  BY <1>3, <1>8, LoopStops
<1>10. i \in Nat /\ i < M /\ i <= M /\ i <= m /\ i < m
  BY <1>1, <1>3, <1>9 DEF Stops
<1>11. OnTrack(h, up, x, cur, i)
  BY <1>10, AllOnTrack
<1>12. x + cur[i] + 2 <= n
  <2> DEFINE r == x + cur[i]
             e == h.extensions[i + 1]
             c == Len(Content(e))
  <2>1. After(r, h, up, i) /\ cur[i] \in Nat
    BY <1>10, <1>11, TrackInside
  <2>2. r \in Nat
    BY <1>5, <2>1
  <2> HIDE DEF r
  <2>3. IsAt(h, up, i, e, r)
    BY <1>1, <1>10, <2>1, WireExtension
  <2> HIDE DEF e
  <2>4. c \in Nat /\ r + 4 + c <= n
    BY <2>3 DEF IsAt
  <2> HIDE DEF c
  <2>5. r + 2 <= n
    BY <1>5, <2>2, <2>4
  <2> QED
    BY <2>5 DEF r
<1>13. IsClientHello(skb)
  <2>1. n >= 6
    BY <1>5, <1>6, <1>7
  <2> QED
    BY <1>1, <1>2, <2>1, HelloRead
<1>14. /\ i + 1 \in DOMAIN h.extensions /\ h.extensions[i + 1].type = 0
       /\ \E q : Gets(parse_sni(skb), h, n, h.extensions[i + 1], q)
  BY <1>9, <1>11, <1>12, <1>13, ParseFound
<1>15. i + 1 \in NameAt(h)
  BY <1>2, <1>14 DEF NameAt
<1>16. NameOf(h) = h.extensions[i + 1].name
  BY <1>1, <1>15, NameOfIs
<1> QED
  BY <1>14, <1>16 DEF Gets

(* A name of up to 128 bytes comes back from the array of the map entry.   *)
LEMMA NameKept ==
  ASSUME NEW name \in Seq(NonZeros), Len(name) \in 1 .. TLS_MAX_SERVER_NAME_LEN
  PROVE  tupleDataFromC(Written([i \in 1 .. TLS_MAX_SERVER_NAME_LEN |-> 0],
                                SubSeq(name, 1, Len(name)))) = name
<1> DEFINE M == TLS_MAX_SERVER_NAME_LEN
           L == Len(name)
           s == SubSeq(name, 1, L)
           zeros == [i \in 1 .. M |-> 0]
           A == Written(zeros, s)
<1>1. M \in Nat /\ L \in Nat /\ L <= M
  <2>1. M \in Nat
    BY DEF TLS_MAX_SERVER_NAME_LEN
  <2>2. L \in 1 .. M
    OBVIOUS
  <2> HIDE DEF M, L
  <2> QED
    BY <2>1, <2>2
<1>2. \A i \in 1 .. L : name[i] \in Nat
  <2>1. NonZeros \subseteq Nat
    BY DEF NonZeros, Uint8
  <2>2. \A i \in 1 .. L : name[i] \in NonZeros
    BY ElementOfSeq
  <2> QED
    BY <2>1, <2>2
<1>3. s \in Seq(Nat) /\ Len(s) = L /\ \A i \in 1 .. L : s[i] = name[i]
  BY <1>1, <1>2, FirstOnes
<1>4. s = name
  <2>1. NonZeros \subseteq Nat
    BY DEF NonZeros, Uint8
  <2>2. name \in Seq(Nat)
    BY <2>1, SeqMonotonic
  <2> HIDE DEF s
  <2> QED
    BY <1>3, <2>2, SeqEqual
<1> HIDE DEF M, s, L
<1>5. A = [i \in 1 .. M |-> IF i <= L THEN s[i] ELSE 0]
  <2>1. A = [i \in 1 .. M |-> IF i <= L THEN s[i] ELSE zeros[i]]
    BY <1>3 DEF Written, M
  <2>2. \A i \in 1 .. M : zeros[i] = 0
    OBVIOUS
  <2> HIDE DEF zeros
  <2> QED
    BY <2>1, <2>2
<1>6. Holds(A, M, name, L)
  <2>1. \A i \in 1 .. M : A[i] = IF i <= L THEN name[i] ELSE 0
    BY <1>3, <1>4, <1>5
  <2>2. A \in [1 .. M -> Nat]
    BY <1>1, <1>2, <1>4, <1>5
  <2> HIDE DEF A
  <2> QED
    BY <2>1, <2>2 DEF Holds
<1> HIDE DEF A
<1>7. UpToZero(A) = s
  BY <1>1, <1>6, NameReadBack DEF s, L
<1>8. tupleDataFromC(A) = name
  BY <1>4, <1>7 DEF tupleDataFromC
<1> QED
  BY <1>8 DEF A, zeros, s, L, M

(* The segment is a cut of one of the messages.                            *)
SniInv == hello \in Hellos /\ sent \in 0 .. Len(Wire(hello))

(* It stays one.                                                           *)
LEMMA SniStep ==
  ASSUME SniInv, [OneMoreByte]_sniVars
  PROVE  SniInv'
<1>1. CASE OneMoreByte
  <2>1. hello' = hello /\ sent' = sent + 1 /\ sent < Len(Wire(hello)) /\ hello \in Hellos
    BY <1>1 DEF OneMoreByte, SniInv
  <2> DEFINE lw == Len(Wire(hello))
  <2>2. lw \in Nat /\ lw' = lw
    <3>1. Wire(hello) \in Seq(Nat)
      BY <2>1, HellosAssumption, WireIs
    <3> QED
      BY <2>1, <3>1, LenProperties
  <2>3. sent \in 0 .. lw /\ sent < lw
    BY <2>1 DEF SniInv
  <2> HIDE DEF lw
  <2>4. sent' \in 0 .. lw'
    BY <2>1, <2>2, <2>3
  <2> QED
    BY <2>1, <2>4 DEF SniInv, lw
<1>2. CASE UNCHANGED sniVars
  BY <1>2 DEF SniInv, sniVars
<1> QED
  BY <1>1, <1>2

(* It is one at first.                                                     *)
LEMMA SniStart ==
  ASSUME SniInit
  PROVE  SniInv
<1>1. hello \in Hellos /\ sent = 0
  BY DEF SniInit
<1>2. Len(Wire(hello)) \in Nat
  <2>1. Wire(hello) \in Seq(Nat)
    BY <1>1, HellosAssumption, WireIs
  <2> QED
    BY <2>1, LenProperties
<1>3. sent \in 0 .. Len(Wire(hello))
  BY <1>1, <1>2
<1> QED
  BY <1>1, <1>3 DEF SniInv

(* So all of the above is about it.                                        *)
LEMMA SegmentReads ==
  ASSUME SniInv
  PROVE  /\ hello \in Messages /\ OneName(hello)
         /\ \E up, x, cur : Reading(hello, sent, Segment, up, x, cur)
<1>1. /\ hello \in Messages /\ OneName(hello) /\ Len(Wire(hello)) <= 5 + 16384
      /\ sent \in 0 .. Len(Wire(hello))
  BY HellosAssumption DEF SniInv
<1>2. IsCut(Segment, Wire(hello), sent)
  BY DEF IsCut, Segment
<1> QED
  BY <1>1, <1>2, Reads

(* The two properties follow.                                              *)
LEMMA InvNeverWrong ==
  ASSUME SniInv
  PROVE  NameNeverWrong
<1> DEFINE N == NameOf(hello)
           read == parse_sni(Segment)
<1>1. hello \in Messages /\ OneName(hello)
  BY SegmentReads
<1>2. PICK q \in Nat : q <= Len(N) /\ read = SubSeq(N, 1, q)
  BY <1>1, SegmentReads, PrefixRead
<1>3. N \in Seq(NonZeros) /\ Len(N) \in Nat
  BY <1>1, NameOfIs
<1> HIDE DEF N, read
<1>4. \A i \in 1 .. q : N[i] \in Nat
  <2>1. NonZeros \subseteq Nat
    BY DEF NonZeros, Uint8
  <2>2. \A i \in 1 .. q : i \in 1 .. Len(N)
    BY <1>2, <1>3
  <2>3. \A i \in 1 .. Len(N) : N[i] \in NonZeros
    BY <1>3, ElementOfSeq
  <2> QED
    BY <2>1, <2>2, <2>3
<1>5. Len(read) = q
  BY <1>2, <1>4, FirstOnes
<1> QED
  BY <1>2, <1>5 DEF NameNeverWrong, N, read

LEMMA InvExact ==
  ASSUME SniInv
  PROVE  NameExact
<1> SUFFICES ASSUME sent = Len(Wire(hello)), NameAt(hello) \cap 1 .. 20 # {},
                    Len(NameOf(hello)) \in 1 .. 128
             PROVE  tupleDataFromC(Written([i \in 1 .. TLS_MAX_SERVER_NAME_LEN |-> 0],
                                           parse_sni(Segment))) = NameOf(hello)
  BY DEF NameExact
<1> DEFINE N == NameOf(hello)
<1>1. hello \in Messages /\ OneName(hello)
  BY SegmentReads
<1>2. PICK k \in NameAt(hello) : k \in 1 .. 20
  OBVIOUS
<1>3. k <= TLS_MAX_EXTENSION_COUNT /\ Len(N) \in 1 .. TLS_MAX_SERVER_NAME_LEN
  BY <1>2 DEF TLS_MAX_EXTENSION_COUNT, TLS_MAX_SERVER_NAME_LEN
<1>4. parse_sni(Segment) = SubSeq(N, 1, Len(N))
  BY <1>1, <1>2, <1>3, SegmentReads, AllRead
<1>5. N \in Seq(NonZeros)
  BY <1>1, NameOfIs
<1> HIDE DEF N
<1>6. tupleDataFromC(Written([i \in 1 .. TLS_MAX_SERVER_NAME_LEN |-> 0], SubSeq(N, 1, Len(N)))) = N
  BY <1>3, <1>5, NameKept
<1> QED
  BY <1>4, <1>6 DEF N

(***************************************************************************)
(* parse_sni never writes a name that the client has not sent, whatever    *)
(* the fields of its message are and wherever TCP cuts it.                 *)
(***************************************************************************)
THEOREM NamesAreNeverWrong == SniSpec => []NameNeverWrong
<1>1. SniInit => SniInv
  BY SniStart
<1>2. SniInv /\ [OneMoreByte]_sniVars => SniInv'
  BY SniStep
<1>3. SniInv => NameNeverWrong
  BY InvNeverWrong
<1> QED
  BY <1>1, <1>2, <1>3, PTL DEF SniSpec

(***************************************************************************)
(* The name of a ClientHello that is all in the segment reaches            *)
(* TrackConnections byte by byte, whatever the lengths of the fields       *)
(* before it, if it is in the first 20 extensions and has 1 to 128 bytes.  *)
(***************************************************************************)
THEOREM NamesAreExact == SniSpec => []NameExact
<1>1. SniInit => SniInv
  BY SniStart
<1>2. SniInv /\ [OneMoreByte]_sniVars => SniInv'
  BY SniStep
<1>3. SniInv => NameExact
  BY InvExact
<1> QED
  BY <1>1, <1>2, <1>3, PTL DEF SniSpec
=============================================================================
