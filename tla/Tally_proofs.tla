---------------------------- MODULE Tally_proofs ----------------------------
(***************************************************************************)
(* Facts about sums of weights: they are natural numbers, they depend only *)
(* on the weights of the set, and they add up over disjoint parts.  Then   *)
(* about ranks: everything ranked has one place and comes after what comes *)
(* before it.                                                              *)
(***************************************************************************)
EXTENDS Tally, Ranking, FiniteSetTheorems, TLAPS

(* A sum of finitely many bounded weights is a natural number.             *)
LEMMA TotalType ==
  ASSUME NEW weight, NEW S, IsFiniteSet(S), NEW max \in Nat
  PROVE  IsFiniteSet(Pieces(weight, S, max)) /\ Total(weight, S, max) \in Nat
<1>1. IsFiniteSet(1..max)
  BY FS_Interval
<1>2. IsFiniteSet(S \X (1..max))
  BY <1>1, FS_Product
<1>3. Pieces(weight, S, max) \subseteq S \X (1..max)
  BY DEF Pieces
<1>4. IsFiniteSet(Pieces(weight, S, max))
  BY <1>2, <1>3, FS_Subset
<1> QED
  BY <1>4, FS_CardinalityType DEF Total

(* Nothing weighs nothing.                                                 *)
LEMMA TotalEmpty ==
  ASSUME NEW weight, NEW max \in Nat
  PROVE  Total(weight, {}, max) = 0
<1>1. Pieces(weight, {}, max) = {}
  BY DEF Pieces
<1> QED
  BY <1>1, FS_EmptySet DEF Total

(* A sum reads only the weights of its set.                                *)
LEMMA TotalCongruence ==
  ASSUME NEW f, NEW g, NEW S, NEW max \in Nat, \A s \in S : f[s] = g[s]
  PROVE  Total(f, S, max) = Total(g, S, max)
<1>1. Pieces(f, S, max) = Pieces(g, S, max)
  BY DEF Pieces
<1> QED
  BY <1>1 DEF Total

(* The sum over two disjoint sets is the sum of the sums.                  *)
LEMMA TotalUnion ==
  ASSUME NEW weight, NEW S, IsFiniteSet(S), NEW T, IsFiniteSet(T), S \cap T = {}, NEW max \in Nat
  PROVE  Total(weight, S \cup T, max) = Total(weight, S, max) + Total(weight, T, max)
<1> DEFINE A == Pieces(weight, S, max)
           B == Pieces(weight, T, max)
<1>1. IsFiniteSet(A) /\ IsFiniteSet(B)
  BY TotalType
<1>2. Pieces(weight, S \cup T, max) = A \cup B
  BY DEF Pieces
<1>3. A \cap B = {}
  BY DEF Pieces
<1>4. Cardinality(A \cup B) = Cardinality(A) + Cardinality(B) - Cardinality(A \cap B)
  BY <1>1, FS_Union
<1>5. Cardinality(A \cap B) = 0
  BY <1>3, FS_EmptySet
<1>6. Cardinality(A) \in Nat /\ Cardinality(B) \in Nat
  BY <1>1, FS_CardinalityType
<1>7. Cardinality(A \cup B) = Cardinality(A) + Cardinality(B)
  BY <1>4, <1>5, <1>6
<1>8. Total(weight, S \cup T, max) = Cardinality(A \cup B)
  BY <1>2 DEF Total
<1>9. Total(weight, S, max) = Cardinality(A) /\ Total(weight, T, max) = Cardinality(B)
  BY DEF Total
<1> QED
  BY <1>7, <1>8, <1>9

(* One element sums to its own weight, as long as max does not cut it off. *)
LEMMA TotalSingleton ==
  ASSUME NEW weight, NEW s, NEW max \in Nat, weight[s] \in 0..max
  PROVE  Total(weight, {s}, max) = weight[s]
<1> DEFINE n == weight[s]
           I == 1..n
           P == Pieces(weight, {s}, max)
           f == [i \in I |-> <<s, i>>]
<1>1. P = {<<s, i>> : i \in I}
  <2>1. ASSUME NEW x \in P PROVE x \in {<<s, i>> : i \in I}
    <3>1. x \in {s} \X (1..max) /\ x[2] <= weight[x[1]]
      BY <2>1 DEF Pieces
    <3>2. PICK i \in 1..max : x = <<s, i>>
      BY <3>1
    <3> QED
      BY <3>1, <3>2
  <2>2. ASSUME NEW i \in I PROVE <<s, i>> \in P
    BY DEF Pieces
  <2> QED
    BY <2>1, <2>2
<1>2. f \in Bijection(I, P)
  <2>1. f \in [I -> P]
    BY <1>1
  <2>2. \A i, j \in I : f[i] = f[j] => i = j
    OBVIOUS
  <2>3. \A x \in P : \E i \in I : f[i] = x
    BY <1>1
  <2> QED
    BY <2>1, <2>2, <2>3 DEF Bijection, Injection, Surjection, IsInjective
<1>3. n \in Nat /\ ExistsBijection(1..n, P)
  BY <1>2 DEF ExistsBijection
<1>4. Cardinality(P) = n
  BY <1>3, FS_CountingElements
<1> QED
  BY <1>4 DEF Total

(* One weight may be taken out of a sum.                                   *)
LEMMA TotalSplit ==
  ASSUME NEW weight, NEW S, IsFiniteSet(S), NEW s \in S, NEW max \in Nat, weight[s] \in 0..max
  PROVE  /\ Total(weight, S \ {s}, max) \in Nat
         /\ Total(weight, S, max) = Total(weight, S \ {s}, max) + weight[s]
<1>1. IsFiniteSet(S \ {s}) /\ IsFiniteSet({s})
  BY FS_Subset, FS_Singleton
<1>2. S = (S \ {s}) \cup {s} /\ (S \ {s}) \cap {s} = {}
  OBVIOUS
<1> DEFINE T == S \ {s}
<1>3. Total(weight, T \cup {s}, max) = Total(weight, T, max) + Total(weight, {s}, max)
  <2> HIDE DEF T
  <2> QED
    BY <1>1, <1>2, TotalUnion DEF T
<1>4. Total(weight, {s}, max) = weight[s]
  BY TotalSingleton
<1> QED
  BY <1>1, <1>2, <1>3, <1>4, TotalType

(* A sum over more elements is at least as large.                          *)
LEMMA TotalMonotone ==
  ASSUME NEW weight, NEW T, IsFiniteSet(T), NEW S \in SUBSET T, NEW max \in Nat
  PROVE  /\ Total(weight, S, max) \in Nat /\ Total(weight, T, max) \in Nat
         /\ Total(weight, S, max) <= Total(weight, T, max)
<1>1. IsFiniteSet(S)
  BY FS_Subset
<1>2. IsFiniteSet(Pieces(weight, T, max))
  BY TotalType
<1>3. Pieces(weight, S, max) \subseteq Pieces(weight, T, max)
  BY DEF Pieces
<1>4. Cardinality(Pieces(weight, S, max)) <= Cardinality(Pieces(weight, T, max))
  BY <1>2, <1>3, FS_Subset
<1> QED
  BY <1>1, <1>4, TotalType DEF Total

-----------------------------------------------------------------------------
(* Signed sums                                                             *)

(* Finitely many entries leave finitely many pieces, whatever they count.  *)
LEMMA PiecesFinite ==
  ASSUME NEW S, IsFiniteSet(S), NEW n, \A e \in S : n[e] \in Int
  PROVE  IsFiniteSet(UNION {{e} \X (1..n[e]) : e \in S})
<1> DEFINE f == [e \in S |-> {e} \X (1..n[e])]
           T == {{e} \X (1..n[e]) : e \in S}
<1>1. f \in Surjection(S, T)
  BY DEF Surjection
<1>2. IsFiniteSet(T)
  BY <1>1, FS_Surjection
<1>3. ASSUME NEW e \in S PROVE IsFiniteSet({e} \X (1..n[e]))
  <2>1. IsFiniteSet({e})
    BY FS_Singleton
  <2>2. n[e] \in Int
    BY <1>3
  <2>3. IsFiniteSet(1..n[e])
    BY <2>2, FS_Interval
  <2> QED
    BY <2>1, <2>3, FS_Product
<1>4. \A U \in T : IsFiniteSet(U)
  BY <1>3
<1> QED
  BY <1>2, <1>4, FS_UNION

(* Signed sums of finitely many entries are integers.                      *)
LEMMA NetType ==
  ASSUME NEW S, IsFiniteSet(S), \A e \in S : e.delta \in Int
  PROVE  /\ IsFiniteSet(Gains(S)) /\ IsFiniteSet(Losses(S))
         /\ NetDelta(S) \in Int
<1> DEFINE n == [e \in S |-> e.delta]
           m == [e \in S |-> -e.delta]
<1>1. \A e \in S : n[e] \in Int /\ m[e] \in Int
  OBVIOUS
<1>2. Gains(S) = UNION {{e} \X (1..n[e]) : e \in S} /\ Losses(S) = UNION {{e} \X (1..m[e]) : e \in S}
  BY DEF Gains, Losses
<1> HIDE DEF n, m
<1>3. IsFiniteSet(Gains(S)) /\ IsFiniteSet(Losses(S))
  BY <1>1, <1>2, PiecesFinite
<1> QED
  BY <1>3, FS_CardinalityType DEF NetDelta

(* No entry changes nothing, nor does one that says zero.                  *)
LEMMA NetEmpty == NetDelta({}) = 0
<1>1. Gains({}) = {} /\ Losses({}) = {}
  BY DEF Gains, Losses
<1> QED
  BY <1>1, FS_EmptySet DEF NetDelta

LEMMA NetZeros ==
  ASSUME NEW S, NEW T, \A e \in T : e.delta = 0
  PROVE  NetDelta(S \cup T) = NetDelta(S)
<1>1. Gains(S \cup T) = Gains(S) \cup Gains(T) /\ Losses(S \cup T) = Losses(S) \cup Losses(T)
  BY DEF Gains, Losses
<1>2. Gains(T) = {} /\ Losses(T) = {}
  <2>1. \A e \in T : 1..e.delta = {} /\ 1..(-e.delta) = {}
    OBVIOUS
  <2> QED
    BY <2>1 DEF Gains, Losses
<1> QED
  BY <1>1, <1>2 DEF NetDelta

(* {e} \X (1..n) has n elements, or none.                                  *)
LEMMA RowSize ==
  ASSUME NEW e, NEW n \in Int
  PROVE  IsFiniteSet({e} \X (1..n)) /\ Cardinality({e} \X (1..n)) = IF n > 0 THEN n ELSE 0
<1>1. IsFiniteSet({e}) /\ Cardinality({e}) = 1
  BY FS_Singleton
<1>2. IsFiniteSet(1..n) /\ Cardinality(1..n) = IF 1 > n THEN 0 ELSE n - 1 + 1
  BY FS_Interval
<1>3. /\ IsFiniteSet({e} \X (1..n))
      /\ Cardinality({e} \X (1..n)) = Cardinality({e}) * Cardinality(1..n)
  BY <1>1, <1>2, FS_Product
<1> QED
  BY <1>1, <1>2, <1>3

(* An entry that is new changes the sum by what it says.                   *)
LEMMA NetAdd ==
  ASSUME NEW S, IsFiniteSet(S), \A x \in S : x.delta \in Int,
         NEW e, e \notin S, e.delta \in Int
  PROVE  IsFiniteSet(S \cup {e}) /\ NetDelta(S \cup {e}) = NetDelta(S) + e.delta
<1> DEFINE d == e.delta
           G == {e} \X (1..d)
           L == {e} \X (1..(-d))
<1>1. Gains(S \cup {e}) = Gains(S) \cup G /\ Losses(S \cup {e}) = Losses(S) \cup L
  BY DEF Gains, Losses
<1>2. Gains(S) \cap G = {} /\ Losses(S) \cap L = {}
  BY DEF Gains, Losses
<1>3. IsFiniteSet(Gains(S)) /\ IsFiniteSet(Losses(S))
  BY NetType
<1>4. /\ IsFiniteSet(G) /\ Cardinality(G) = IF d > 0 THEN d ELSE 0
      /\ IsFiniteSet(L) /\ Cardinality(L) = IF -d > 0 THEN -d ELSE 0
  <2>1. ASSUME NEW n \in Int
        PROVE  /\ IsFiniteSet({e} \X (1..n))
               /\ Cardinality({e} \X (1..n)) = IF n > 0 THEN n ELSE 0
    BY RowSize
  <2>2. d \in Int /\ -d \in Int
    OBVIOUS
  <2> HIDE DEF d
  <2> QED
    BY <2>1, <2>2
<1>5. ASSUME NEW A, IsFiniteSet(A), NEW B, IsFiniteSet(B), A \cap B = {}
      PROVE  Cardinality(A \cup B) = Cardinality(A) + Cardinality(B)
  <2>1. Cardinality(A \cup B) = Cardinality(A) + Cardinality(B) - Cardinality(A \cap B)
    BY <1>5, FS_Union
  <2>2. Cardinality(A \cap B) = 0
    BY <1>5, FS_EmptySet
  <2>3. Cardinality(A) \in Nat /\ Cardinality(B) \in Nat
    BY <1>5, FS_CardinalityType
  <2> QED
    BY <2>1, <2>2, <2>3
<1> HIDE DEF G, L
<1>6. /\ Cardinality(Gains(S \cup {e})) = Cardinality(Gains(S)) + Cardinality(G)
      /\ Cardinality(Losses(S \cup {e})) = Cardinality(Losses(S)) + Cardinality(L)
  BY <1>1, <1>2, <1>3, <1>4, <1>5
<1>7. Cardinality(Gains(S)) \in Nat /\ Cardinality(Losses(S)) \in Nat
  BY <1>3, FS_CardinalityType
<1>8. IsFiniteSet(S \cup {e})
  BY FS_AddElement
<1> QED
  BY <1>4, <1>6, <1>7, <1>8 DEF NetDelta

(* What comes later has more before it, and nothing has all.               *)
LEMMA PlacesRise ==
  ASSUME NEW before, NEW S, IsFiniteSet(S), IsOrder(before, S)
  PROVE  \A x \in S : /\ Place(before, S, x) \in 0..(Cardinality(S) - 1)
                      /\ \A y \in S : <<x, y>> \in before =>
                           Place(before, S, x) < Place(before, S, y)
<1> DEFINE Lower(x) == {y \in S : <<y, x>> \in before}
<1>1. ASSUME NEW x \in S, NEW T \in SUBSET S, x \notin Lower(x), Lower(x) \cup {x} \subseteq T
      PROVE  Cardinality(Lower(x)) \in Nat /\ Cardinality(Lower(x)) < Cardinality(T)
  <2>1. Lower(x) \in SUBSET S /\ Lower(x) \cup {x} \in SUBSET T
    BY <1>1
  <2>2. IsFiniteSet(Lower(x)) /\ IsFiniteSet(T)
    BY <2>1, FS_Subset
  <2>3. Cardinality(Lower(x) \cup {x}) = Cardinality(Lower(x)) + 1
    BY <1>1, <2>2, FS_AddElement
  <2>4. Cardinality(Lower(x) \cup {x}) <= Cardinality(T)
    BY <2>1, <2>2, FS_Subset
  <2>5. Cardinality(Lower(x)) \in Nat /\ Cardinality(T) \in Nat
    BY <2>2, FS_CardinalityType
  <2> HIDE DEF Lower
  <2> QED
    BY <2>3, <2>4, <2>5
<1>2. ASSUME NEW x \in S
      PROVE  /\ x \notin Lower(x) /\ Lower(x) \in SUBSET S /\ Lower(x) \cup {x} \subseteq S
             /\ \A y \in S : <<x, y>> \in before => Lower(x) \cup {x} \subseteq Lower(y)
  BY <1>2 DEF IsOrder
<1>3. \A x : Place(before, S, x) = Cardinality(Lower(x))
  BY DEF Place
<1>4. Cardinality(S) \in Nat
  BY FS_CardinalityType
<1> HIDE DEF Lower
<1>5. ASSUME NEW x \in S
      PROVE  Cardinality(Lower(x)) \in Nat /\ Cardinality(Lower(x)) < Cardinality(S)
  BY <1>1, <1>2, <1>5
<1>6. ASSUME NEW x \in S, NEW y \in S, <<x, y>> \in before
      PROVE  Cardinality(Lower(x)) < Cardinality(Lower(y))
  <2>1. Lower(y) \in SUBSET S /\ x \notin Lower(x) /\ Lower(x) \cup {x} \subseteq Lower(y)
    BY <1>2, <1>6
  <2> QED
    BY <1>1, <2>1
<1> QED
  BY <1>3, <1>4, <1>5, <1>6

(* Everything has one place, and comes after what comes before it.         *)
LEMMA RankedInOrder ==
  ASSUME NEW before, NEW S, IsFiniteSet(S), IsOrder(before, S)
  PROVE  /\ InOrder(before, S) \in [1..Cardinality(S) -> S]
         /\ \A x \in S : \E i \in 1..Cardinality(S) : InOrder(before, S)[i] = x
         /\ \A i, j \in 1..Cardinality(S) :
              i < j <=> <<InOrder(before, S)[i], InOrder(before, S)[j]>> \in before
<1> DEFINE n == Cardinality(S)
           f == [x \in S |-> Place(before, S, x) + 1]
<1>1. n \in Nat
  BY FS_CardinalityType
<1>2. f \in [S -> 1..n] /\ \A x, y \in S : <<x, y>> \in before => f[x] < f[y]
  BY <1>1, PlacesRise
<1>3. \A x, y \in S : f[x] = f[y] => x = y
  <2> HIDE DEF f
  <2> SUFFICES ASSUME NEW x \in S, NEW y \in S, f[x] = f[y], x # y PROVE FALSE
    OBVIOUS
  <2>1. f[x] < f[y] \/ f[y] < f[x]
    BY <1>2 DEF IsOrder
  <2> QED
    BY <1>1, <1>2, <2>1
<1>4. f \in Injection(S, 1..n)
  BY <1>2, <1>3 DEF Injection, IsInjective
<1>5. IsFiniteSet(1..n) /\ Cardinality(1..n) = n
  BY <1>1, FS_Interval
<1>6. f \in Surjection(S, 1..n)
  BY <1>4, <1>5, FS_Injection
<1>7. \A i \in 1..n : \E x \in S : f[x] = i
  BY <1>6 DEF Surjection
<1> DEFINE s == InOrder(before, S)
<1>8. \A i \in 1..n : s[i] = CHOOSE x \in S : Place(before, S, x) = i - 1
  BY DEF InOrder
<1>9. \A i \in 1..n : s[i] \in S /\ f[s[i]] = i
  <2> SUFFICES ASSUME NEW i \in 1..n PROVE s[i] \in S /\ f[s[i]] = i
    OBVIOUS
  <2>1. \E x \in S : Place(before, S, x) = i - 1
    BY <1>1, <1>7, PlacesRise
  <2>2. s[i] \in S /\ Place(before, S, s[i]) = i - 1
    BY <1>8, <2>1
  <2> QED
    BY <1>1, <2>2
<1>10. s \in [1..n -> S]
  BY <1>9 DEF InOrder
<1> HIDE DEF s, f, n
<1>11. \A x \in S : f[x] \in 1..n /\ s[f[x]] = x
  BY <1>2, <1>3, <1>9
<1>12. \A i, j \in 1..n : i < j <=> <<s[i], s[j]>> \in before
  <2> SUFFICES ASSUME NEW i \in 1..n, NEW j \in 1..n PROVE i < j <=> <<s[i], s[j]>> \in before
    OBVIOUS
  <2>1. s[i] \in S /\ s[j] \in S /\ f[s[i]] = i /\ f[s[j]] = j
    BY <1>9
  <2>2. <<s[i], s[j]>> \in before => i < j
    BY <1>2, <2>1
  <2>3. <<s[j], s[i]>> \in before => j < i
    BY <1>2, <2>1
  <2>4. s[i] # s[j] => <<s[i], s[j]>> \in before \/ <<s[j], s[i]>> \in before
    BY <2>1 DEF IsOrder
  <2> QED
    BY <1>1, <2>1, <2>2, <2>3, <2>4
<1>13. \A x \in S : \E i \in 1..n : s[i] = x
  BY <1>11
<1> QED
  BY <1>10, <1>12, <1>13 DEF s, n

(* A set of numbers has a least one.                                       *)
LEMMA LeastNumber ==
  ASSUME NEW S \in SUBSET Nat, S # {}
  PROVE  \E m \in S : \A n \in S : m <= n
<1> DEFINE less == {nm \in Nat \X Nat : nm[1] < nm[2]}
<1>1. PICK m \in S : \A n \in S : ~(<<n, m>> \in less)
  <2>1. IsWellFoundedOn(less, Nat)
    BY NatLessThanWellFounded, Zenon DEF OpToRel
  <2> HIDE DEF less
  <2> QED
    BY <2>1, WFMin
<1>2. ASSUME NEW n \in S PROVE m <= n
  <2>1. <<n, m>> \in Nat \X Nat /\ <<n, m>> \notin less
    BY <1>1
  <2>2. ~(<<n, m>>[1] < <<n, m>>[2])
    BY <2>1
  <2> QED
    BY <2>2
<1> QED
  BY <1>2

(* A set of numbers with a bound has a greatest one.                       *)
LEMMA GreatestNumber ==
  ASSUME NEW S \in SUBSET Nat, S # {}, NEW b \in Nat, \A n \in S : n <= b
  PROVE  \E m \in S : \A n \in S : m >= n
<1> DEFINE gaps == {b - n : n \in S}
<1>1. gaps \in SUBSET Nat /\ gaps # {}
  <2>1. \A n \in S : b - n \in Nat
    OBVIOUS
  <2>2. gaps # {}
    <3>1. PICK n \in S : TRUE
      OBVIOUS
    <3>2. b - n \in gaps
      OBVIOUS
    <3> HIDE DEF gaps
    <3> QED
      BY <3>2
  <2> QED
    BY <2>1, <2>2
<1>2. PICK g \in gaps : \A h \in gaps : g <= h
  BY <1>1, LeastNumber
<1>3. PICK m \in S : g = b - m
  BY <1>2
<1>4. ASSUME NEW n \in S PROVE m >= n
  <2>1. b - n \in gaps
    OBVIOUS
  <2>2. b - m <= b - n
    BY <1>2, <1>3, <2>1
  <2> QED
    BY <2>2
<1> QED
  BY <1>4

(* A sum of weights of at most n each.                                     *)
LEMMA TotalBounded ==
  ASSUME NEW weight, NEW S, IsFiniteSet(S), NEW max \in Nat, NEW n \in Nat,
         \A x \in S : weight[x] \in Int /\ weight[x] <= n
  PROVE  Total(weight, S, max) <= Cardinality(S) * n
<1>1. IsFiniteSet(1..n) /\ Cardinality(1..n) = n
  BY FS_Interval
<1>2. IsFiniteSet(S \X (1..n)) /\ Cardinality(S \X (1..n)) = Cardinality(S) * n
  BY <1>1, FS_Product
<1>3. Pieces(weight, S, max) \in SUBSET (S \X (1..n))
  BY DEF Pieces
<1>4. Cardinality(Pieces(weight, S, max)) <= Cardinality(S \X (1..n))
  BY <1>2, <1>3, FS_Subset
<1> QED
  BY <1>2, <1>4 DEF Total
=============================================================================
