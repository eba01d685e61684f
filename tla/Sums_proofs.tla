---------------------------- MODULE Sums_proofs -----------------------------
(***************************************************************************)
(* Lemmas about sums of natural numbers over finite sets, as Functions     *)
(* defines them. A sum is a fold by a recursive function, but it is also   *)
(* the number of pairs <<x, i>> with i < f[x]; the theorems about          *)
(* cardinalities then say what the other proofs need.                      *)
(***************************************************************************)
EXTENDS Integers, FiniteSets, Functions, FiniteSetTheorems, TLAPS

(* Among the subsets of a finite set, any collection has a smallest one.   *)
LEMMA SmallestSubset ==
  ASSUME NEW S, IsFiniteSet(S), NEW B \in SUBSET (SUBSET S), B # {}
  PROVE  \E T \in B : \A x \in T : T \ {x} \notin B
<1> DEFINE R == StrictSubsetOrdering(S)
<1>1. IsWellFoundedOn(R, SUBSET S)
  BY FS_StrictSubsetOrderingWellFounded, FS_FiniteSubsetsOfFinite
<1>2. PICK T \in B : \A U \in B : ~(<<U, T>> \in R)
  <2> HIDE DEF R
  <2> QED
    BY <1>1, WFMin
<1>3. \A x \in T : <<T \ {x}, T>> \in R
  BY DEF StrictSubsetOrdering
<1> QED
  BY <1>2, <1>3

(* Induction over the subsets of a finite set: a set of subsets that has   *)
(* the empty one and is closed under adding an element has them all.       *)
LEMMA FiniteInduction ==
  ASSUME NEW S, IsFiniteSet(S), NEW G, {} \in G,
         \A T \in SUBSET S : \A x \in S \ T : T \in G => T \cup {x} \in G
  PROVE  \A T \in SUBSET S : T \in G
<1> SUFFICES ASSUME (SUBSET S) \ G # {}
             PROVE  FALSE
  OBVIOUS
<1>1. PICK T \in (SUBSET S) \ G : \A x \in T : T \ {x} \notin (SUBSET S) \ G
  BY SmallestSubset
<1>2. PICK x \in T : TRUE
  BY <1>1
<1>3. T \ {x} \in SUBSET S /\ (T \ {x}) \cup {x} = T
  BY <1>1
<1> QED
  BY <1>1, <1>2, <1>3

-----------------------------------------------------------------------------
(* As many pairs with first component x as f[x].                           *)
Pairs(f, T) == {p \in T \X Nat : p[2] < f[p[1]]}

(* Adding an element to the set adds its value to the number of pairs.     *)
LEMMA PairsOfOneMore ==
  ASSUME NEW T, NEW x, x \notin T, NEW f, f[x] \in Nat, IsFiniteSet(Pairs(f, T))
  PROVE  /\ IsFiniteSet(Pairs(f, T \cup {x}))
         /\ Cardinality(Pairs(f, T \cup {x})) = f[x] + Cardinality(Pairs(f, T))
<1> DEFINE below == 0 .. f[x] - 1
           own == {x} \X below
<1>1. IsFiniteSet(own) /\ Cardinality(own) = f[x]
  <2>1. IsFiniteSet(below) /\ Cardinality(below) = f[x]
    <3>1. 0 \in Int /\ f[x] - 1 \in Int /\ (0 > f[x] - 1 <=> f[x] = 0) /\ f[x] - 1 - 0 + 1 = f[x]
      OBVIOUS
    <3>2. /\ IsFiniteSet(below)
          /\ Cardinality(below) = IF 0 > f[x] - 1 THEN 0 ELSE f[x] - 1 - 0 + 1
      BY <3>1, FS_Interval
    <3> QED
      BY <3>1, <3>2
  <2>2. IsFiniteSet({x}) /\ Cardinality({x}) = 1
    BY FS_Singleton
  <2> HIDE DEF below
  <2>3. IsFiniteSet(own) /\ Cardinality(own) = Cardinality({x}) * Cardinality(below)
    BY <2>1, <2>2, FS_Product
  <2>4. 1 * f[x] = f[x]
    OBVIOUS
  <2> QED
    BY <2>1, <2>2, <2>3, <2>4
<1>2. Pairs(f, T \cup {x}) = Pairs(f, T) \cup own
  <2>1. ASSUME NEW p
        PROVE  p \in Pairs(f, T \cup {x}) <=> p \in Pairs(f, T) \/ p \in own
    BY DEF Pairs
  <2> QED
    BY <2>1
<1>3. Pairs(f, T) \cap own = {}
  BY DEF Pairs
<1>4. Cardinality(Pairs(f, T)) \in Nat /\ Cardinality({}) = 0
  BY FS_CardinalityType, FS_EmptySet
<1> HIDE DEF own
<1>5. /\ IsFiniteSet(Pairs(f, T) \cup own)
      /\ Cardinality(Pairs(f, T) \cup own)
           = Cardinality(Pairs(f, T)) + Cardinality(own) - Cardinality(Pairs(f, T) \cap own)
  BY <1>1, FS_Union
<1>6. Cardinality(Pairs(f, T) \cup own) = Cardinality(Pairs(f, T)) + f[x] - 0
  BY <1>1, <1>3, <1>4, <1>5
<1>7. ASSUME NEW n \in Nat PROVE n + f[x] - 0 = f[x] + n
  OBVIOUS
<1>8. Cardinality(Pairs(f, T) \cup own) = f[x] + Cardinality(Pairs(f, T))
  BY <1>4, <1>6, <1>7
<1> QED
  BY <1>2, <1>5, <1>8, Zenon

LEMMA PairsFinite ==
  ASSUME NEW S, IsFiniteSet(S), NEW f, \A x \in S : f[x] \in Nat
  PROVE  IsFiniteSet(Pairs(f, S))
<1> DEFINE G == {T \in SUBSET S : IsFiniteSet(Pairs(f, T))}
<1>1. {} \in G
  BY FS_EmptySet DEF Pairs
<1>2. \A T \in SUBSET S : \A x \in S \ T : T \in G => T \cup {x} \in G
  BY PairsOfOneMore
<1>3. \A T \in SUBSET S : T \in G
  <2> HIDE DEF G
  <2> QED
    BY <1>1, <1>2, FiniteInduction
<1> QED
  BY <1>3

(* The recursive function behind a sum over S.                             *)
Some(T) == CHOOSE x \in T : TRUE

Adds(g, f, S) ==
  g = [T \in SUBSET S |-> IF T = {} THEN 0 ELSE f[Some(T)] + g[T \ {Some(T)}]]

LEMMA SumUnfolds == \A f, S : SumFunctionOnSet(f, S) = (CHOOSE g : Adds(g, f, S))[S]
BY DEF SumFunctionOnSet, FoldFunctionOnSet, MapThenFoldSet, Adds, Some

(* There is one, which counts pairs, and there is no other.                *)
LEMMA SumIsCount ==
  ASSUME NEW S, IsFiniteSet(S), NEW f, \A x \in S : f[x] \in Nat
  PROVE  SumFunctionOnSet(f, S) = Cardinality(Pairs(f, S))
<1> DEFINE count == [T \in SUBSET S |-> Cardinality(Pairs(f, T))]
<1>1. ASSUME NEW T \in SUBSET S, NEW x \in T
      PROVE  count[T] = f[x] + count[T \ {x}]
  <2>1. IsFiniteSet(Pairs(f, T \ {x}))
    BY PairsFinite, FS_Subset
  <2>2. (T \ {x}) \cup {x} = T /\ T \ {x} \in SUBSET S
    OBVIOUS
  <2> QED
    BY <2>1, <2>2, PairsOfOneMore
<1>2. count[{}] = 0
  BY FS_EmptySet DEF Pairs
<1>3. \A T \in SUBSET S : T # {} => Some(T) \in T
  BY DEF Some
<1>4. count = [T \in SUBSET S |-> IF T = {} THEN 0 ELSE f[Some(T)] + count[T \ {Some(T)}]]
  <2>1. \A T \in SUBSET S :
          count[T] = IF T = {} THEN 0 ELSE f[Some(T)] + count[T \ {Some(T)}]
    <3> HIDE DEF count
    <3> QED
      BY <1>1, <1>2, <1>3
  <2> QED
    BY <2>1
<1>5. Adds(count, f, S)
  BY <1>4 DEF Adds
<1>6. PICK g : Adds(g, f, S) /\ g = CHOOSE h : Adds(h, f, S)
  BY <1>5
<1>7. \A T \in SUBSET S : g[T] = count[T]
  <2> DEFINE B == {T \in SUBSET S : g[T] # count[T]}
  <2> SUFFICES ASSUME B # {}
               PROVE  FALSE
    OBVIOUS
  <2>1. PICK T \in B : \A x \in T : T \ {x} \notin B
    <3> HIDE DEF B
    <3>1. B \in SUBSET (SUBSET S)
      BY DEF B
    <3> QED
      BY <3>1, SmallestSubset
  <2>2. T \in SUBSET S /\ g[T] = IF T = {} THEN 0 ELSE f[Some(T)] + g[T \ {Some(T)}]
    BY <1>6 DEF Adds
  <2>3. CASE T = {}
    BY <1>2, <2>1, <2>2, <2>3
  <2>4. CASE T # {}
    <3>1. Some(T) \in T /\ T \ {Some(T)} \in SUBSET S
      BY <1>3, <2>2, <2>4
    <3>2. g[T \ {Some(T)}] = count[T \ {Some(T)}]
      BY <2>1, <3>1
    <3> HIDE DEF count
    <3>3. count[T] = f[Some(T)] + count[T \ {Some(T)}]
      BY <1>1, <2>2, <3>1
    <3> QED
      BY <2>1, <2>2, <2>4, <3>2, <3>3
  <2> QED
    BY <2>3, <2>4
<1> QED
  BY <1>6, <1>7, SumUnfolds

-----------------------------------------------------------------------------
(* What the proofs cite.                                                   *)

(* The sum over no elements, and that a sum is a natural number.           *)
LEMMA SumOverNone == \A f : SumFunctionOnSet(f, {}) = 0
<1> SUFFICES ASSUME NEW f PROVE SumFunctionOnSet(f, {}) = 0
  OBVIOUS
<1>1. Pairs(f, {}) = {} /\ IsFiniteSet({}) /\ Cardinality({}) = 0
  BY FS_EmptySet DEF Pairs
<1> QED
  BY <1>1, SumIsCount

LEMMA SumIsNat ==
  ASSUME NEW S, IsFiniteSet(S), NEW f, \A x \in S : f[x] \in Nat
  PROVE  SumFunctionOnSet(f, S) \in Nat
BY SumIsCount, PairsFinite, FS_CardinalityType

(* A sum is one of its terms and the sum of the others.                    *)
LEMMA SumSplits ==
  ASSUME NEW S, IsFiniteSet(S), NEW f, \A x \in S : f[x] \in Nat, NEW x \in S
  PROVE  SumFunctionOnSet(f, S) = f[x] + SumFunctionOnSet(f, S \ {x})
<1>1. (S \ {x}) \cup {x} = S /\ x \notin S \ {x} /\ IsFiniteSet(S \ {x})
  BY FS_RemoveElement
<1>2. IsFiniteSet(Pairs(f, S \ {x}))
  BY <1>1, PairsFinite
<1>3. Cardinality(Pairs(f, S)) = f[x] + Cardinality(Pairs(f, S \ {x}))
  BY <1>1, <1>2, PairsOfOneMore
<1> QED
  BY <1>1, <1>3, SumIsCount

(* Functions that agree on a set have the same sum over it, and one that   *)
(* is nowhere above another has a sum that is not above the other's.       *)
LEMMA SumAgrees ==
  ASSUME NEW S, IsFiniteSet(S), NEW f, NEW g, \A x \in S : f[x] \in Nat /\ f[x] = g[x]
  PROVE  SumFunctionOnSet(f, S) = SumFunctionOnSet(g, S)
<1>1. Pairs(f, S) = Pairs(g, S)
  BY DEF Pairs
<1> QED
  BY <1>1, SumIsCount

LEMMA SumMonotone ==
  ASSUME NEW S, IsFiniteSet(S), NEW f, NEW g,
         \A x \in S : f[x] \in Nat /\ g[x] \in Nat /\ f[x] <= g[x]
  PROVE  SumFunctionOnSet(f, S) <= SumFunctionOnSet(g, S)
<1>1. Pairs(f, S) \in SUBSET Pairs(g, S)
  BY DEF Pairs
<1>2. IsFiniteSet(Pairs(g, S))
  BY PairsFinite
<1> QED
  BY <1>1, <1>2, FS_Subset, SumIsCount

(* Where a function is zero it adds nothing to its sum.                    *)
LEMMA SumOverMore ==
  ASSUME NEW T, IsFiniteSet(T), NEW S \in SUBSET T, NEW f, \A x \in T : f[x] \in Nat,
         \A x \in T \ S : f[x] = 0
  PROVE  SumFunctionOnSet(f, T) = SumFunctionOnSet(f, S)
<1>1. Pairs(f, T) = Pairs(f, S)
  <2>1. ASSUME NEW p \in T \X Nat, p[2] < f[p[1]]
        PROVE  p[1] \in S
    BY <2>1
  <2> QED
    BY <2>1 DEF Pairs
<1>2. IsFiniteSet(S) /\ \A x \in S : f[x] \in Nat
  BY FS_Subset
<1> QED
  BY <1>1, <1>2, SumIsCount

LEMMA SumOfZeros ==
  ASSUME NEW S, IsFiniteSet(S), NEW f, \A x \in S : f[x] = 0
  PROVE  SumFunctionOnSet(f, S) = 0
<1>1. {} \in SUBSET S /\ (\A x \in S : f[x] \in Nat) /\ (\A x \in S \ {} : f[x] = 0)
  OBVIOUS
<1>2. SumFunctionOnSet(f, S) = SumFunctionOnSet(f, {})
  BY <1>1, SumOverMore
<1> QED
  BY <1>2, SumOverNone

(* When one term changes, the sum changes by as much.                      *)
LEMMA SumChanges ==
  ASSUME NEW S, IsFiniteSet(S), NEW f, NEW g, NEW x \in S,
         \A y \in S : f[y] \in Nat /\ g[y] \in Nat,
         \A y \in S \ {x} : f[y] = g[y]
  PROVE  SumFunctionOnSet(g, S) = SumFunctionOnSet(f, S) - f[x] + g[x]
<1>1. IsFiniteSet(S \ {x})
  BY FS_RemoveElement
<1>2. SumFunctionOnSet(f, S \ {x}) = SumFunctionOnSet(g, S \ {x})
  BY <1>1, SumAgrees
<1>3. /\ SumFunctionOnSet(f, S) = f[x] + SumFunctionOnSet(f, S \ {x})
      /\ SumFunctionOnSet(g, S) = g[x] + SumFunctionOnSet(g, S \ {x})
  BY SumSplits
<1>4. SumFunctionOnSet(f, S \ {x}) \in Nat
  BY <1>1, SumIsNat
<1> QED
  BY <1>2, <1>3, <1>4

(* When one term grows by at most n, so does the sum.                      *)
LEMMA SumGrows ==
  ASSUME NEW S, IsFiniteSet(S), NEW f, NEW g, NEW x \in S, NEW n \in Nat,
         \A y \in S : f[y] \in Nat /\ g[y] \in Nat,
         \A y \in S \ {x} : f[y] = g[y]
  PROVE  g[x] <= f[x] + n => SumFunctionOnSet(g, S) <= SumFunctionOnSet(f, S) + n
<1>1. SumFunctionOnSet(g, S) = SumFunctionOnSet(f, S) - f[x] + g[x]
  BY SumChanges
<1>2. SumFunctionOnSet(f, S) \in Nat
  BY SumIsNat
<1> QED
  BY <1>1, <1>2

(* A sum over two sets that have no element in common.                     *)
LEMMA SumOverBoth ==
  ASSUME NEW S, IsFiniteSet(S), NEW T, IsFiniteSet(T), S \cap T = {},
         NEW f, \A x \in S \cup T : f[x] \in Nat
  PROVE  SumFunctionOnSet(f, S \cup T) = SumFunctionOnSet(f, S) + SumFunctionOnSet(f, T)
<1>1. IsFiniteSet(Pairs(f, S)) /\ IsFiniteSet(Pairs(f, T))
  BY PairsFinite
<1>2. Pairs(f, S \cup T) = Pairs(f, S) \cup Pairs(f, T)
  <2>1. ASSUME NEW p
        PROVE  p \in Pairs(f, S \cup T) <=> p \in Pairs(f, S) \/ p \in Pairs(f, T)
    BY DEF Pairs
  <2> QED
    BY <2>1
<1>3. Pairs(f, S) \cap Pairs(f, T) = {}
  BY DEF Pairs
<1>4. Cardinality({}) = 0
  BY FS_EmptySet
<1>5. Cardinality(Pairs(f, S) \cup Pairs(f, T))
        = Cardinality(Pairs(f, S)) + Cardinality(Pairs(f, T))
            - Cardinality(Pairs(f, S) \cap Pairs(f, T))
  BY <1>1, FS_Union
<1>6. Cardinality(Pairs(f, S)) \in Nat /\ Cardinality(Pairs(f, T)) \in Nat
  BY <1>1, FS_CardinalityType
<1>7. Cardinality(Pairs(f, S \cup T)) = Cardinality(Pairs(f, S)) + Cardinality(Pairs(f, T))
  <2>1. Cardinality(Pairs(f, S \cup T)) = Cardinality(Pairs(f, S)) + Cardinality(Pairs(f, T)) - 0
    BY <1>2, <1>3, <1>4, <1>5, Zenon
  <2>2. ASSUME NEW m \in Nat, NEW n \in Nat PROVE m + n - 0 = m + n
    OBVIOUS
  <2> QED
    BY <1>6, <2>1, <2>2, Zenon
<1>8. IsFiniteSet(S \cup T)
  BY FS_Union
<1> QED
  BY <1>7, <1>8, SumIsCount

(* The sum of a function that is the sum of two.                           *)
LEMMA SumOfSums ==
  ASSUME NEW S, IsFiniteSet(S), NEW f, NEW g, NEW h,
         \A x \in S : f[x] \in Nat /\ g[x] \in Nat /\ h[x] = f[x] + g[x]
  PROVE  SumFunctionOnSet(h, S) = SumFunctionOnSet(f, S) + SumFunctionOnSet(g, S)
<1> DEFINE G == {T \in SUBSET S :
                  SumFunctionOnSet(h, T) = SumFunctionOnSet(f, T) + SumFunctionOnSet(g, T)}
<1>1. {} \in G
  BY SumOverNone
<1>2. ASSUME NEW T \in SUBSET S, NEW x \in S \ T, T \in G
      PROVE  T \cup {x} \in G
  <2> DEFINE U == T \cup {x}
  <2>1. IsFiniteSet(U) /\ IsFiniteSet(T) /\ U \ {x} = T /\ x \in U /\ U \in SUBSET S
    BY <1>2, FS_Subset
  <2>2. \A y \in U : f[y] \in Nat /\ g[y] \in Nat /\ h[y] \in Nat
    BY <2>1
  <2> HIDE DEF U
  <2>3. /\ SumFunctionOnSet(f, U) = f[x] + SumFunctionOnSet(f, U \ {x})
        /\ SumFunctionOnSet(g, U) = g[x] + SumFunctionOnSet(g, U \ {x})
        /\ SumFunctionOnSet(h, U) = h[x] + SumFunctionOnSet(h, U \ {x})
    BY <2>1, <2>2, SumSplits
  <2>4. SumFunctionOnSet(f, T) \in Nat /\ SumFunctionOnSet(g, T) \in Nat
    BY <2>1, SumIsNat
  <2>5. SumFunctionOnSet(h, T) = SumFunctionOnSet(f, T) + SumFunctionOnSet(g, T)
    BY <1>2
  <2>6. SumFunctionOnSet(h, U) = SumFunctionOnSet(f, U) + SumFunctionOnSet(g, U)
    <3>1. /\ SumFunctionOnSet(f, U) = f[x] + SumFunctionOnSet(f, T)
          /\ SumFunctionOnSet(g, U) = g[x] + SumFunctionOnSet(g, T)
          /\ SumFunctionOnSet(h, U)
               = (f[x] + g[x]) + (SumFunctionOnSet(f, T) + SumFunctionOnSet(g, T))
      BY <2>1, <2>3, <2>5
    <3>2. ASSUME NEW a \in Nat, NEW b \in Nat, NEW m \in Nat, NEW n \in Nat
          PROVE  (a + b) + (m + n) = (a + m) + (b + n)
      OBVIOUS
    <3>3. f[x] \in Nat /\ g[x] \in Nat
      OBVIOUS
    <3>4. (f[x] + g[x]) + (SumFunctionOnSet(f, T) + SumFunctionOnSet(g, T))
            = (f[x] + SumFunctionOnSet(f, T)) + (g[x] + SumFunctionOnSet(g, T))
      BY <2>4, <3>2, <3>3
    <3> QED
      BY <3>1, <3>4, Zenon
  <2> QED
    BY <2>1, <2>6 DEF U
<1>3. \A T \in SUBSET S : T \in G
  <2> HIDE DEF G
  <2> QED
    BY <1>1, <1>2, FiniteInduction
<1> QED
  BY <1>3

(* C[i] has the members of S that are in class i, T those in any of I; and *)
(* g[i] is the sum of the class i.                                         *)
Classes(S, class, I, C, T) ==
  /\ \A x : x \in T <=> x \in S /\ class[x] \in I
  /\ \A i \in I : \A x : x \in C[i] <=> x \in S /\ class[x] = i

ClassTotals(g, f, I, C) == \A i \in I : g[i] = SumFunctionOnSet(f, C[i])

(* Adding up class by class is adding up.                                  *)
LEMMA SumByClass ==
  ASSUME NEW S, IsFiniteSet(S), NEW f, \A x \in S : f[x] \in Nat, NEW class,
         NEW I, IsFiniteSet(I), NEW T, NEW C, Classes(S, class, I, C, T),
         NEW g, ClassTotals(g, f, I, C)
  PROVE  SumFunctionOnSet(g, I) = SumFunctionOnSet(f, T)
<1>1. \A i \in I : g[i] = SumFunctionOnSet(f, {x \in S : class[x] = i})
  <2> SUFFICES ASSUME NEW i \in I
               PROVE  g[i] = SumFunctionOnSet(f, {x \in S : class[x] = i})
    OBVIOUS
  <2>1. C[i] = {x \in S : class[x] = i}
    BY DEF Classes
  <2> QED
    BY <2>1 DEF ClassTotals
<1>2. T = {x \in S : class[x] \in I}
  BY DEF Classes
<1> DEFINE In(J) == {x \in S : class[x] \in J}
           G == {J \in SUBSET I : SumFunctionOnSet(g, J) = SumFunctionOnSet(f, In(J))}
<1>3. {} \in G
  <2>1. In({}) = {}
    OBVIOUS
  <2> QED
    BY <2>1, SumOverNone
<1>4. ASSUME NEW J \in SUBSET I, NEW i \in I \ J, J \in G
      PROVE  J \cup {i} \in G
  <2> DEFINE K == J \cup {i}
             one == {x \in S : class[x] = i}
  <2>1. IsFiniteSet(K) /\ K \ {i} = J /\ i \in K /\ K \in SUBSET I
    BY <1>4, FS_Subset
  <2>2. IsFiniteSet(one) /\ IsFiniteSet(In(J)) /\ one \cap In(J) = {} /\ In(K) = one \cup In(J)
    BY <1>4, FS_Subset
  <2>3. \A j \in I : g[j] \in Nat
    <3> SUFFICES ASSUME NEW j \in I
                 PROVE  g[j] \in Nat
      OBVIOUS
    <3> DEFINE D == {x \in S : class[x] = j}
    <3>1. IsFiniteSet(D) /\ (\A x \in D : f[x] \in Nat) /\ g[j] = SumFunctionOnSet(f, D)
      BY <1>1, FS_Subset
    <3> HIDE DEF D
    <3> QED
      BY <3>1, SumIsNat
  <2>4. g[i] = SumFunctionOnSet(f, one)
    BY <1>1
  <2>5. SumFunctionOnSet(g, J) = SumFunctionOnSet(f, In(J))
    BY <1>4
  <2>6. \A x \in one \cup In(J) : f[x] \in Nat
    OBVIOUS
  <2> HIDE DEF K, In, one
  <2>7. SumFunctionOnSet(g, K) = g[i] + SumFunctionOnSet(g, J)
    BY <2>1, <2>3, SumSplits
  <2>8. SumFunctionOnSet(f, In(K)) = SumFunctionOnSet(f, one) + SumFunctionOnSet(f, In(J))
    BY <2>2, <2>6, SumOverBoth
  <2> QED
    BY <2>1, <2>4, <2>5, <2>7, <2>8 DEF K
<1>5. \A J \in SUBSET I : J \in G
  <2> HIDE DEF G
  <2> QED
    BY <1>3, <1>4, FiniteInduction
<1> QED
  BY <1>2, <1>5
=============================================================================
