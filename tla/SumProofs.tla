------------------------------ MODULE SumProofs ------------------------------
(***************************************************************************)
(* Lemmas the other proof modules share: induction over the numbers, and   *)
(* sums over a finite set as the community modules fold them (the charge   *)
(* of the threads in Stats, the delays of the frames in Decoder).          *)
(***************************************************************************)
EXTENDS Integers, Sequences, FiniteSetsExt, FiniteSetTheorems, WellFoundedInduction, TLAPS

(* A set of natural numbers has a least element.                           *)
LEMMA LeastNat ==
  ASSUME NEW S, S \subseteq Nat, S # {}
  PROVE  \E n \in S : \A m \in S : n <= m
<1>1. IsWellFoundedOn(OpToRel(<, Nat), Nat)
  BY NatLessThanWellFounded
<1>2. PICK n \in S : \A m \in S : ~(<<m, n>> \in OpToRel(<, Nat))
  BY <1>1, WFMin
<1>3. ASSUME NEW m \in S PROVE n <= m
  <2>1. ~(m < n)
    BY <1>2 DEF OpToRel
  <2>2. QED
    BY <2>1
<1>4. QED
  BY <1>3

(* Induction, for a set of numbers.                                        *)
LEMMA NatInductionOnSets ==
  ASSUME NEW S, 0 \in S, \A n \in Nat : n \in S => n + 1 \in S
  PROVE  Nat \subseteq S
<1> SUFFICES ASSUME Nat \ S # {} PROVE FALSE
  OBVIOUS
<1>1. PICK n \in Nat \ S : \A m \in Nat \ S : n <= m
  BY LeastNat
<1>2. n # 0 /\ n - 1 \in Nat /\ n - 1 \in S
  BY <1>1
<1>3. QED
  BY <1>1, <1>2

(* The largest element of a bounded set of numbers.                        *)
LEMMA MaxOfNats ==
  ASSUME NEW n \in Nat, NEW S, S \subseteq 0 .. n, S # {}
  PROVE  /\ Max(S) \in S
         /\ \A x \in S : x <= Max(S)
<1> DEFINE bounds == {b \in Nat : \A x \in S : x <= b}
<1>1. n \in bounds
  OBVIOUS
<1>2. PICK m \in bounds : \A b \in bounds : m <= b
  BY <1>1, LeastNat, bounds \subseteq Nat
<1>3. m \in S
  <2> SUFFICES ASSUME m \notin S PROVE FALSE
    OBVIOUS
  <2>1. \A x \in S : x \in Nat /\ x < m
    BY <1>2
  <2>2. PICK y \in S : y \in Nat /\ y < m
    BY <2>1
  <2>3. m \in Nat /\ m - 1 \in Nat
    BY <2>2
  <2>4. \A x \in S : x <= m - 1
    BY <2>1, <2>3
  <2>5. m - 1 \in bounds /\ ~(m <= m - 1)
    BY <2>3, <2>4
  <2>6. QED
    BY <1>2, <2>5
<1>4. \E x \in S : \A y \in S : x >= y
  BY <1>2, <1>3
<1>5. QED
  BY <1>4 DEF Max

-----------------------------------------------------------------------------
(* Sums.                                                                   *)

\* The sum of a function over a set, as the properties write it.
SumOver(f, S) == MapThenSumSet(LAMBDA t : f[t], S)

\* The recursive function behind it, unfolded once.
Picked(s) == CHOOSE x \in s : TRUE
SumAt(f, g, s) == IF s = {} THEN 0 ELSE f[Picked(s)] + g[s \ {Picked(s)}]
IsSum(f, S, g) == g = [s \in SUBSET S |-> SumAt(f, g, s)]

(* A set that is not empty has an element to pick.                         *)
LEMMA PickedIn == ASSUME NEW s, s # {} PROVE Picked(s) \in s
BY DEF Picked

(* The operator of the community modules is that function at the whole     *)
(* set.                                                                    *)
LEMMA SumOverIsSum ==
  ASSUME NEW f, NEW S
  PROVE  SumOver(f, S) = (CHOOSE g : IsSum(f, S, g))[S]
BY DEF SumOver, MapThenSumSet, MapThenFoldSet, IsSum, SumAt, Picked

(* A part of a finite set has a number of elements, one less without one.  *)
LEMMA PartSize ==
  ASSUME NEW S, IsFiniteSet(S), NEW s \in SUBSET S
  PROVE  /\ IsFiniteSet(s) /\ Cardinality(s) \in Nat
         /\ s = {} <=> Cardinality(s) = 0
         /\ \A x \in s : s \ {x} \in SUBSET S /\ Cardinality(s \ {x}) = Cardinality(s) - 1
<1>1. IsFiniteSet(s)
  BY FS_Subset
<1>2. Cardinality(s) \in Nat /\ (s = {} <=> Cardinality(s) = 0)
  BY ONLY <1>1, FS_CardinalityType, FS_EmptySet
<1>3. ASSUME NEW x \in s PROVE s \ {x} \in SUBSET S /\ Cardinality(s \ {x}) = Cardinality(s) - 1
  <2>1. Cardinality(s \ {x}) = Cardinality(s) - 1
    BY ONLY <1>1, <1>3, FS_RemoveElement
  <2>2. QED
    BY <2>1
<1>4. QED
  BY <1>1, <1>2, <1>3

(* Sums exist: they are built up by the number of elements.                *)
LEMMA SumExists ==
  ASSUME NEW f, NEW S, IsFiniteSet(S) PROVE \E g : IsSum(f, S, g)
<1> DEFINE upTo(g, n) ==
             /\ g = [s \in SUBSET S |-> g[s]]
             /\ \A s \in SUBSET S : Cardinality(s) <= n => g[s] = SumAt(f, g, s)
           N == {n \in Nat : \E g : upTo(g, n)}
<1>1. 0 \in N
  <2> DEFINE g == [s \in SUBSET S |-> 0]
  <2>1. \A s \in SUBSET S : Cardinality(s) <= 0 => g[s] = SumAt(f, g, s)
    BY PartSize DEF SumAt
  <2>2. g = [s \in SUBSET S |-> g[s]]
    OBVIOUS
  <2> HIDE DEF g
  <2>3. QED
    BY <2>1, <2>2
<1>2. ASSUME NEW n \in Nat, n \in N PROVE n + 1 \in N
  <2>1. PICK g : upTo(g, n)
    BY <1>2
  <2> DEFINE h == [s \in SUBSET S |-> IF Cardinality(s) = n + 1 THEN SumAt(f, g, s) ELSE g[s]]
  <2>2. ASSUME NEW s \in SUBSET S, Cardinality(s) <= n + 1 PROVE h[s] = SumAt(f, h, s)
    <3>1. CASE s = {}
      <4>1. Cardinality(s) = 0
        BY <3>1, PartSize
      <4>2. h[s] = g[s] /\ g[s] = SumAt(f, g, s)
        <5>1. Cardinality(s) <= n /\ Cardinality(s) # n + 1
          BY <4>1
        <5>2. h[s] = g[s]
          BY <5>1
        <5>3. QED
          BY <2>1, <5>1, <5>2
      <4>3. QED
        BY <3>1, <4>2 DEF SumAt
    <3>2. CASE s # {}
      <4> DEFINE r == s \ {Picked(s)}
      <4>1. r \in SUBSET S /\ Cardinality(s) \in Nat /\ Cardinality(r) = Cardinality(s) - 1
        BY <3>2, PickedIn, PartSize
      <4>2. Cardinality(r) # n + 1 /\ h[r] = g[r]
        BY <2>2, <4>1
      <4>3. SumAt(f, h, s) = SumAt(f, g, s)
        BY <3>2, <4>2 DEF SumAt
      <4>4. h[s] = SumAt(f, g, s)
        <5>1. CASE Cardinality(s) = n + 1
          BY <5>1
        <5>2. CASE Cardinality(s) # n + 1
          <6>1. Cardinality(s) <= n
            BY <2>2, <4>1, <5>2
          <6>2. g[s] = SumAt(f, g, s)
            BY <2>1, <6>1
          <6>3. QED
            BY <5>2, <6>2
        <5>3. QED
          BY <5>1, <5>2
      <4>5. QED
        BY <4>3, <4>4
    <3>3. QED
      BY <3>1, <3>2
  <2>3. h = [s \in SUBSET S |-> h[s]]
    OBVIOUS
  <2> HIDE DEF h
  <2>4. upTo(h, n + 1)
    BY <2>2, <2>3
  <2>5. n + 1 \in Nat
    OBVIOUS
  <2> HIDE DEF upTo
  <2>6. QED
    BY <2>4, <2>5
<1>3. Cardinality(S) \in N
  <2> HIDE DEF N
  <2>1. Nat \subseteq N
    BY <1>1, <1>2, NatInductionOnSets
  <2>2. QED
    BY <2>1, FS_CardinalityType
<1>4. PICK g : upTo(g, Cardinality(S))
  BY <1>3
<1>5. \A s \in SUBSET S : g[s] = SumAt(f, g, s)
  <2>1. \A s \in SUBSET S : Cardinality(s) <= Cardinality(S)
    BY FS_Subset
  <2>2. QED
    BY <1>4, <2>1
<1>6. QED
  BY <1>4, <1>5 DEF IsSum

(* Sums of natural numbers are natural.                                    *)
LEMMA SumIsNat ==
  ASSUME NEW S, IsFiniteSet(S), NEW f \in [S -> Nat], NEW g, IsSum(f, S, g)
  PROVE  \A s \in SUBSET S : g[s] \in Nat
<1> DEFINE N == {n \in Nat : \A s \in SUBSET S : Cardinality(s) = n => g[s] \in Nat}
<1>1. \A s \in SUBSET S : g[s] = SumAt(f, g, s)
  BY DEF IsSum
<1>2. 0 \in N
  <2> SUFFICES ASSUME NEW s \in SUBSET S, Cardinality(s) = 0 PROVE g[s] \in Nat
    OBVIOUS
  <2>1. s = {}
    BY PartSize
  <2>2. g[s] = 0
    BY <1>1, <2>1 DEF SumAt
  <2>3. QED
    BY <2>2
<1>3. ASSUME NEW n \in Nat, n \in N PROVE n + 1 \in N
  <2> SUFFICES ASSUME NEW s \in SUBSET S, Cardinality(s) = n + 1 PROVE g[s] \in Nat
    OBVIOUS
  <2> DEFINE x == Picked(s)
  <2>1. s # {}
    BY PartSize
  <2>2. x \in s /\ s \ {x} \in SUBSET S /\ Cardinality(s \ {x}) = n
    BY <2>1, PickedIn, PartSize
  <2>3. g[s \ {x}] \in Nat /\ f[x] \in Nat
    BY <1>3, <2>2
  <2>4. g[s] = f[x] + g[s \ {x}]
    BY <1>1, <2>1 DEF SumAt
  <2>5. QED
    BY <2>3, <2>4
<1> HIDE DEF N
<1>4. Nat \subseteq N
  BY <1>2, <1>3, NatInductionOnSets
<1>5. ASSUME NEW s \in SUBSET S PROVE g[s] \in Nat
  <2>1. Cardinality(s) \in N
    BY <1>4, PartSize
  <2>2. QED
    BY <2>1 DEF N
<1>6. QED
  BY <1>5

(* A sum does not depend on the order in which it picks the elements.      *)
LEMMA SumPicksAny ==
  ASSUME NEW S, IsFiniteSet(S), NEW f \in [S -> Nat], NEW g, IsSum(f, S, g)
  PROVE  \A s \in SUBSET S : g[s] \in Nat /\ \A u \in s : g[s] = f[u] + g[s \ {u}]
<1> DEFINE good(s) == \A u \in s : g[s] = f[u] + g[s \ {u}]
           N == {n \in Nat : \A s \in SUBSET S : Cardinality(s) = n => good(s)}
<1>0. \A s \in SUBSET S : g[s] \in Nat
  BY SumIsNat
<1>1. \A s \in SUBSET S : g[s] = SumAt(f, g, s)
  BY DEF IsSum
<1>2. 0 \in N
  <2> SUFFICES ASSUME NEW s \in SUBSET S, Cardinality(s) = 0 PROVE good(s)
    OBVIOUS
  <2>1. s = {}
    BY PartSize
  <2>2. QED
    BY <2>1
<1>3. ASSUME NEW n \in Nat, n \in N PROVE n + 1 \in N
  <2> SUFFICES ASSUME NEW s \in SUBSET S, Cardinality(s) = n + 1, NEW u \in s
               PROVE  g[s] = f[u] + g[s \ {u}]
    OBVIOUS
  <2> DEFINE x == Picked(s)
             r == (s \ {x}) \ {u}
  <2>1. \A y \in s : s \ {y} \in SUBSET S /\ Cardinality(s \ {y}) = n
    <3>1. \A y \in s : s \ {y} \in SUBSET S /\ Cardinality(s \ {y}) = Cardinality(s) - 1
      BY PartSize
    <3>2. QED
      BY <3>1
  <2>2. x \in s
    BY PickedIn
  <2>3. \A y \in s : good(s \ {y})
    BY <1>3, <2>1
  <2>4. g[s] = f[x] + g[s \ {x}]
    BY <1>1 DEF SumAt
  <2> HIDE DEF x
  <2>5. CASE u = x
    BY <2>4, <2>5
  <2>6. CASE u # x
    <3>1. u \in s \ {x} /\ x \in s \ {u} /\ r = (s \ {u}) \ {x} /\ r \in SUBSET S
      BY <2>2, <2>6
    <3>2. g[s \ {x}] = f[u] + g[r]
      BY <2>2, <2>3, <3>1
    <3>3. g[s \ {u}] = f[x] + g[r]
      BY <2>3, <3>1
    <3>4. f[x] \in Nat /\ f[u] \in Nat /\ g[r] \in Nat
      BY <1>0, <2>2, <3>1
    <3> HIDE DEF r
    <3>5. QED
      BY <2>4, <3>2, <3>3, <3>4
  <2>7. QED
    BY <2>5, <2>6
<1> HIDE DEF N
<1>4. Nat \subseteq N
  BY <1>2, <1>3, NatInductionOnSets
<1>5. ASSUME NEW s \in SUBSET S PROVE good(s)
  <2>1. Cardinality(s) \in N
    BY <1>4, PartSize
  <2>2. QED
    BY <2>1 DEF N
<1>6. QED
  BY <1>0, <1>5

(* Functions that agree on R have the same sum over R.                     *)
LEMMA SumWithin ==
  ASSUME NEW R, IsFiniteSet(R), NEW f1, NEW f2, NEW g1, NEW g2,
         \A s \in SUBSET R : g1[s] = SumAt(f1, g1, s) /\ g2[s] = SumAt(f2, g2, s),
         \A t \in R : f1[t] = f2[t]
  PROVE  g1[R] = g2[R]
<1> DEFINE N == {n \in Nat : \A s \in SUBSET R : Cardinality(s) = n => g1[s] = g2[s]}
<1>0. /\ \A s \in SUBSET R : g1[s] = SumAt(f1, g1, s) /\ g2[s] = SumAt(f2, g2, s)
      /\ IsFiniteSet(R)
  OBVIOUS
<1>1. 0 \in N
  <2> SUFFICES ASSUME NEW s \in SUBSET R, Cardinality(s) = 0 PROVE g1[s] = g2[s]
    OBVIOUS
  <2>1. s = {}
    BY <1>0, PartSize
  <2>2. QED
    BY <1>0, <2>1 DEF SumAt
<1>2. ASSUME NEW n \in Nat, n \in N PROVE n + 1 \in N
  <2> SUFFICES ASSUME NEW s \in SUBSET R, Cardinality(s) = n + 1 PROVE g1[s] = g2[s]
    OBVIOUS
  <2> DEFINE x == Picked(s)
  <2>1. s # {} /\ \A y \in s : Cardinality(s \ {y}) = n
    <3>1. \A y \in s : Cardinality(s \ {y}) = Cardinality(s) - 1
      BY <1>0, PartSize
    <3>2. s # {}
      BY <1>0, PartSize
    <3>3. QED
      BY <3>1, <3>2
  <2>2. x \in s /\ x \in R /\ s \ {x} \in SUBSET R
    BY <2>1, PickedIn
  <2>3. g1[s \ {x}] = g2[s \ {x}]
    BY <1>2, <2>1, <2>2
  <2>4. QED
    BY <1>0, <2>1, <2>2, <2>3 DEF SumAt
<1> HIDE DEF N
<1>3. Nat \subseteq N
  BY <1>1, <1>2, NatInductionOnSets
<1>4. ASSUME NEW s \in SUBSET R PROVE g1[s] = g2[s]
  <2>1. Cardinality(s) \in N
    BY <1>0, <1>3, PartSize
  <2>2. QED
    BY <2>1 DEF N
<1>5. QED
  BY <1>4

(* A sum of natural numbers is one, and no less than any of its terms.     *)
LEMMA SumOverType ==
  ASSUME NEW S, IsFiniteSet(S), NEW f \in [S -> Nat]
  PROVE  /\ SumOver(f, S) \in Nat
         /\ \A u \in S : f[u] <= SumOver(f, S)
<1> DEFINE g == CHOOSE g : IsSum(f, S, g)
<1>1. IsSum(f, S, g)
  BY SumExists
<1>2. SumOver(f, S) = g[S]
  BY SumOverIsSum
<1> HIDE DEF g
<1>3. \A s \in SUBSET S : g[s] \in Nat /\ \A u \in s : g[s] = f[u] + g[s \ {u}]
  BY <1>1, SumPicksAny
<1>4. ASSUME NEW u \in S PROVE f[u] <= g[S]
  <2>1. S \ {u} \in SUBSET S /\ S \in SUBSET S /\ f[u] \in Nat
    OBVIOUS
  <2>2. g[S \ {u}] \in Nat /\ g[S] = f[u] + g[S \ {u}]
    BY <1>3, <2>1
  <2>3. QED
    BY <2>1, <2>2
<1>5. QED
  BY <1>2, <1>3, <1>4

(* When one term changes, the sum changes by as much.                      *)
LEMMA SumOverChanges ==
  ASSUME NEW S, IsFiniteSet(S), NEW f1 \in [S -> Nat], NEW f2 \in [S -> Nat], NEW u \in S,
         \A t \in S \ {u} : f1[t] = f2[t]
  PROVE  SumOver(f2, S) = SumOver(f1, S) - f1[u] + f2[u]
<1> DEFINE g1 == CHOOSE g : IsSum(f1, S, g)
           g2 == CHOOSE g : IsSum(f2, S, g)
<1>1. IsSum(f1, S, g1) /\ IsSum(f2, S, g2)
  BY SumExists
<1>2. SumOver(f1, S) = g1[S] /\ SumOver(f2, S) = g2[S]
  BY SumOverIsSum
<1> HIDE DEF g1, g2
<1>3. /\ g1[S] \in Nat /\ g1[S] = f1[u] + g1[S \ {u}] /\ g1[S \ {u}] \in Nat
  BY <1>1, SumPicksAny, S \in SUBSET S, S \ {u} \in SUBSET S
<1>4. /\ g2[S] \in Nat /\ g2[S] = f2[u] + g2[S \ {u}] /\ g2[S \ {u}] \in Nat
  BY <1>1, SumPicksAny, S \in SUBSET S, S \ {u} \in SUBSET S
<1>5. g1[S \ {u}] = g2[S \ {u}]
  <2> DEFINE R == S \ {u}
  <2>1. R \subseteq S /\ R \in SUBSET R /\ \A t \in R : f1[t] = f2[t]
    OBVIOUS
  <2> HIDE DEF R
  <2>2. g1[R] = g2[R]
    <3>1. IsFiniteSet(R)
      BY <2>1, FS_Subset
    <3>2. \A s \in SUBSET R : g1[s] = SumAt(f1, g1, s) /\ g2[s] = SumAt(f2, g2, s)
      BY <1>1, <2>1 DEF IsSum
    <3>3. QED
      BY ONLY <2>1, <3>1, <3>2, SumWithin
  <2>3. QED
    BY <2>2 DEF R
<1>6. f1[u] \in Nat /\ f2[u] \in Nat
  OBVIOUS
<1>7. QED
  BY <1>2, <1>3, <1>4, <1>5, <1>6

(* A sum of terms up to M is at most M times their number, and one less    *)
(* when one of them is zero.                                               *)
LEMMA SumOverBound ==
  ASSUME NEW S, IsFiniteSet(S), NEW f \in [S -> Nat], NEW M \in Nat, \A t \in S : f[t] <= M
  PROVE  /\ SumOver(f, S) <= Cardinality(S) * M
         /\ \A u \in S : f[u] = 0 => SumOver(f, S) <= (Cardinality(S) - 1) * M
<1> DEFINE g == CHOOSE g : IsSum(f, S, g)
<1>1. IsSum(f, S, g)
  BY SumExists
<1>2. SumOver(f, S) = g[S]
  BY SumOverIsSum
<1> HIDE DEF g
<1>3. \A s \in SUBSET S : g[s] \in Nat /\ \A u \in s : g[s] = f[u] + g[s \ {u}]
  BY <1>1, SumPicksAny
<1> DEFINE N == {n \in Nat : \A s \in SUBSET S : Cardinality(s) = n => g[s] <= n * M}
<1>4. 0 \in N
  <2> SUFFICES ASSUME NEW s \in SUBSET S, Cardinality(s) = 0 PROVE g[s] <= 0 * M
    OBVIOUS
  <2>1. s = {}
    BY PartSize
  <2>2. g[s] = 0
    BY <1>1, <2>1 DEF IsSum, SumAt
  <2>3. QED
    BY <2>2
<1>5. ASSUME NEW n \in Nat, n \in N PROVE n + 1 \in N
  <2> SUFFICES ASSUME NEW s \in SUBSET S, Cardinality(s) = n + 1 PROVE g[s] <= (n + 1) * M
    OBVIOUS
  <2>1. s # {}
    BY PartSize
  <2>2. PICK x \in s : TRUE
    BY <2>1
  <2>3. s \ {x} \in SUBSET S /\ Cardinality(s \ {x}) = n /\ x \in S
    BY PartSize
  <2>4. g[s \ {x}] <= n * M /\ f[x] <= M
    BY <1>5, <2>3
  <2>5. /\ g[s] = f[x] + g[s \ {x}] /\ g[s \ {x}] \in Nat /\ f[x] \in Nat
    BY <1>3, <2>3
  <2>6. (n + 1) * M = n * M + M /\ n * M \in Nat
    OBVIOUS
  <2>7. QED
    BY <2>4, <2>5, <2>6
<1> HIDE DEF N
<1>6. Nat \subseteq N
  BY <1>4, <1>5, NatInductionOnSets
<1>7. ASSUME NEW s \in SUBSET S PROVE g[s] <= Cardinality(s) * M
  <2>1. Cardinality(s) \in N
    BY <1>6, PartSize
  <2>2. QED
    BY <2>1 DEF N
<1>8. ASSUME NEW u \in S, f[u] = 0 PROVE g[S] <= (Cardinality(S) - 1) * M
  <2>1. S \ {u} \in SUBSET S /\ S \in SUBSET S
    OBVIOUS
  <2>2. g[S \ {u}] \in Nat /\ g[S] = f[u] + g[S \ {u}]
    BY <1>3, <2>1
  <2>3. Cardinality(S \ {u}) = Cardinality(S) - 1
    BY <2>1, PartSize
  <2>4. g[S \ {u}] <= (Cardinality(S) - 1) * M
    BY <1>7, <2>1, <2>3
  <2>5. g[S] = g[S \ {u}]
    BY <1>8, <2>2
  <2>6. QED
    BY <2>4, <2>5
<1>9. QED
  BY <1>2, <1>7, <1>8, S \in SUBSET S

(* A sum of zeros is zero.                                                 *)
LEMMA SumOverZero ==
  ASSUME NEW S, IsFiniteSet(S), NEW f \in [S -> Nat], \A t \in S : f[t] = 0
  PROVE  SumOver(f, S) = 0
<1>1. SumOver(f, S) <= Cardinality(S) * 0
  BY SumOverBound
<1>2. Cardinality(S) \in Nat /\ SumOver(f, S) \in Nat
  BY FS_CardinalityType, SumOverType
<1>3. QED
  BY <1>1, <1>2

(* One term more adds itself to the sum.                                   *)
LEMMA SumOverGrows ==
  ASSUME NEW S, IsFiniteSet(S), NEW u, u \notin S, NEW f1 \in [S -> Nat],
         NEW f2 \in [S \cup {u} -> Nat], \A t \in S : f1[t] = f2[t]
  PROVE  SumOver(f2, S \cup {u}) = SumOver(f1, S) + f2[u]
<1> DEFINE V == S \cup {u}
           g1 == CHOOSE g : IsSum(f1, S, g)
           g2 == CHOOSE g : IsSum(f2, V, g)
<1>0. IsFiniteSet(V) /\ V \in SUBSET V /\ u \in V /\ V \ {u} = S /\ S \subseteq V
  <2>1. IsFiniteSet(V)
    BY FS_AddElement
  <2>2. QED
    BY <2>1
<1> HIDE DEF V
<1>1. IsSum(f1, S, g1) /\ IsSum(f2, V, g2)
  BY <1>0, SumExists
<1>2. SumOver(f1, S) = g1[S] /\ SumOver(f2, V) = g2[V]
  BY SumOverIsSum
<1> HIDE DEF g1, g2
<1>3. f2 \in [V -> Nat]
  BY DEF V
<1>4. g2[V] = f2[u] + g2[S] /\ f2[u] \in Nat
  <2>1. \A s \in SUBSET V : g2[s] \in Nat /\ \A v \in s : g2[s] = f2[v] + g2[s \ {v}]
    BY ONLY <1>0, <1>1, <1>3, SumPicksAny
  <2>2. g2[V] = f2[u] + g2[V \ {u}]
    BY ONLY <1>0, <2>1, Zenon
  <2>3. QED
    BY <1>0, <1>3, <2>2
<1>5. g1[S] = g2[S]
  <2>1. \A s \in SUBSET S : g1[s] = SumAt(f1, g1, s) /\ g2[s] = SumAt(f2, g2, s)
    BY <1>0, <1>1 DEF IsSum
  <2>2. \A t \in S : f1[t] = f2[t]
    OBVIOUS
  <2>3. QED
    BY ONLY IsFiniteSet(S), <2>1, <2>2, SumWithin
<1>6. g1[S] \in Nat
  BY <1>1, SumIsNat
<1>7. QED
  BY <1>2, <1>4, <1>5, <1>6 DEF V

-----------------------------------------------------------------------------
\* The sum of the delays of a sequence of frames.
DelaySum(d) == MapThenSumSet(LAMBDA k : d[k].delay, DOMAIN d)
DelaysOf(d) == [k \in DOMAIN d |-> d[k].delay]

DelayAt(d, g, s) == IF s = {} THEN 0 ELSE d[Picked(s)].delay + g[s \ {Picked(s)}]
IsDelaySum(d, g) == g = [s \in SUBSET DOMAIN d |-> DelayAt(d, g, s)]

(* The sum of the delays, as a sum of a function.                           *)
LEMMA DelaySumIsSum ==
  ASSUME NEW d, IsFiniteSet(DOMAIN d)
  PROVE  DelaySum(d) = SumOver(DelaysOf(d), DOMAIN d)
<1> DEFINE D == DOMAIN d
           f == DelaysOf(d)
           g1 == CHOOSE g : IsDelaySum(d, g)
           g2 == CHOOSE g : IsSum(f, D, g)
<1>1. DelaySum(d) = g1[D]
  BY DEF DelaySum, MapThenSumSet, MapThenFoldSet, IsDelaySum, DelayAt, Picked
<1>2. SumOver(f, D) = g2[D]
  BY SumOverIsSum
<1>3. ASSUME NEW g, NEW s \in SUBSET D PROVE DelayAt(d, g, s) = SumAt(f, g, s)
  <2>1. s # {} => f[Picked(s)] = d[Picked(s)].delay
    BY PickedIn DEF DelaysOf
  <2>2. QED
    BY <2>1 DEF DelayAt, SumAt
<1>4. \A g : IsDelaySum(d, g) <=> IsSum(f, D, g)
  <2> SUFFICES ASSUME NEW g PROVE IsDelaySum(d, g) <=> IsSum(f, D, g)
    OBVIOUS
  <2>1. [s \in SUBSET D |-> DelayAt(d, g, s)] = [s \in SUBSET D |-> SumAt(f, g, s)]
    BY <1>3
  <2>2. QED
    BY <2>1 DEF IsDelaySum, IsSum
<1>5. \E g : IsSum(f, D, g)
  BY SumExists
<1>6. IsSum(f, D, g1) /\ IsSum(f, D, g2)
  BY <1>4, <1>5
<1> HIDE DEF g1, g2, f, D
<1>7. \A s \in SUBSET D : g1[s] = SumAt(f, g1, s) /\ g2[s] = SumAt(f, g2, s)
  BY <1>6 DEF IsSum
<1>8. g1[D] = g2[D]
  <2>1. IsFiniteSet(D) /\ \A t \in D : f[t] = f[t]
    BY DEF D
  <2>2. QED
    BY ONLY <1>7, <2>1, SumWithin
<1>9. QED
  BY <1>1, <1>2, <1>8 DEF f, D

(* One frame more adds its delay.                                          *)
LEMMA DelaySumGrows ==
  ASSUME NEW T, \A t \in T : t.delay \in Nat, NEW d \in Seq(T), NEW x \in T
  PROVE  /\ DelaySum(d) \in Nat
         /\ DelaySum(Append(d, x)) = DelaySum(d) + x.delay
<1> DEFINE S == DOMAIN d
           u == Len(d) + 1
           e == Append(d, x)
           f1 == DelaysOf(d)
           f2 == DelaysOf(e)
<1>1. /\ Len(d) \in Nat /\ S = 1 .. Len(d) /\ DOMAIN e = S \cup {u} /\ u \notin S
      /\ e[u] = x /\ \A t \in S : e[t] = d[t]
  OBVIOUS
<1>2. \A t \in S : d[t] \in T
  OBVIOUS
<1>3. IsFiniteSet(S) /\ IsFiniteSet(DOMAIN e)
  <2>1. IsFiniteSet(1 .. Len(d))
    <3>1. 1 \in Int /\ Len(d) \in Int
      BY <1>1
    <3>2. QED
      BY ONLY <3>1, FS_Interval
  <2>2. IsFiniteSet(S)
    BY <1>1, <2>1
  <2> HIDE DEF S, e
  <2>3. IsFiniteSet(S \cup {u})
    BY ONLY <2>2, FS_AddElement
  <2>4. QED
    BY <1>1, <2>2, <2>3
<1> HIDE DEF S, e, u
<1>4. f1 \in [S -> Nat]
  BY <1>2 DEF DelaysOf, S
<1>5. f2 \in [S \cup {u} -> Nat] /\ f2[u] = x.delay /\ \A t \in S : f1[t] = f2[t]
  <2>1. DOMAIN e = S \cup {u} /\ \A t \in S : e[t] = d[t]
    BY <1>1
  <2>2. \A t \in S \cup {u} : e[t].delay \in Nat
    BY <1>1, <1>2
  <2>3. QED
    BY <1>1, <2>1, <2>2 DEF DelaysOf, S
<1>6. DelaySum(d) = SumOver(f1, S) /\ DelaySum(e) = SumOver(f2, S \cup {u})
  <2>1. DelaySum(d) = SumOver(DelaysOf(d), DOMAIN d)
    BY <1>3, DelaySumIsSum DEF S
  <2>2. DelaySum(e) = SumOver(DelaysOf(e), DOMAIN e)
    BY <1>3, DelaySumIsSum
  <2>3. QED
    BY <1>1, <2>1, <2>2 DEF S
<1> HIDE DEF f1, f2
<1>7. SumOver(f1, S) \in Nat
  BY ONLY <1>3, <1>4, SumOverType
<1>8. SumOver(f2, S \cup {u}) = SumOver(f1, S) + f2[u]
  BY ONLY <1>1, <1>3, <1>4, <1>5, SumOverGrows
<1>9. QED
  BY <1>5, <1>6, <1>7, <1>8 DEF e

(* No frames, no delay.                                                   *)
LEMMA NoDelays == DelaySum(<<>>) = 0
<1>1. DOMAIN <<>> = {} /\ IsFiniteSet(DOMAIN <<>>)
  BY FS_EmptySet
<1>2. DelaySum(<<>>) = SumOver(DelaysOf(<<>>), {})
  BY <1>1, DelaySumIsSum
<1>3. DelaysOf(<<>>) \in [{} -> Nat]
  BY DEF DelaysOf
<1>4. QED
  BY <1>1, <1>2, <1>3, SumOverZero
=============================================================================
