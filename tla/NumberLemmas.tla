---------------------------- MODULE NumberLemmas ----------------------------
(***************************************************************************)
(* Facts about natural numbers that the proofs about loops rest on: the    *)
(* least element of a set, induction as a statement about sets, division.  *)
(***************************************************************************)
EXTENDS Integers, FiniteSets, FiniteSetsExt, FiniteSetTheorems, WellFoundedInduction, TLAPS

LEMMA LeastElement ==
    ASSUME NEW T \in SUBSET Nat, T # {}
    PROVE  \E x \in T : \A y \in T : x <= y
  <1> DEFINE R == OpToRel(<, Nat)
  <1>1. \A x, y \in Nat : x < y => <<x, y>> \in R
    BY DEF OpToRel
  <1>2. IsWellFoundedOn(R, Nat)
    BY NatLessThanWellFounded
  <1> HIDE DEF R
  <1>3. PICK x \in T : \A y \in T : ~(<<y, x>> \in R)
    BY <1>2, WFMin
  <1>4. \A y \in T : ~(y < x)
    BY <1>1, <1>3
  <1>5. \A y \in T : x <= y
    BY <1>4
  <1> QED BY <1>5

LEMMA MinOfNaturals ==
    ASSUME NEW T \in SUBSET Nat, T # {}
    PROVE  Min(T) \in T /\ \A y \in T : Min(T) <= y
  BY LeastElement DEF Min

\* A set that has 0, and n + 1 whenever it has n, has every number up to any m.
LEMMA SetInduction ==
    ASSUME NEW S, NEW m \in Nat, 0 \in S, \A n \in 0 .. m - 1 : n \in S => n + 1 \in S
    PROVE  0 .. m \subseteq S
  <1> DEFINE T == (0 .. m) \ S
  <1> SUFFICES ASSUME T # {} PROVE FALSE
    OBVIOUS
  <1>1. PICK x \in T : \A y \in T : x <= y
    <2>1. T \in SUBSET Nat
      OBVIOUS
    <2> HIDE DEF T
    <2> QED BY <2>1, LeastElement
  <1>2. x # 0 /\ x - 1 \in 0 .. m - 1
    OBVIOUS
  <1>3. x - 1 \in S
    BY <1>1, <1>2
  <1> QED BY <1>2, <1>3

\* Quotient and remainder.
LEMMA Division ==
    ASSUME NEW s \in Nat \ {0}, NEW a \in Nat
    PROVE  /\ a \div s \in Nat /\ a % s \in 0 .. s - 1
           /\ a = (a \div s) * s + (a % s)
  OBVIOUS

LEMMA DivisionUnique ==
    ASSUME NEW s \in Nat \ {0}, NEW q \in Nat, NEW r \in 0 .. s - 1
    PROVE  (q * s + r) \div s = q /\ (q * s + r) % s = r
  OBVIOUS

LEMMA DivisionMonotone ==
    ASSUME NEW s \in Nat \ {0}, NEW a \in Nat, NEW b \in Nat, a <= b
    PROVE  a \div s <= b \div s
  OBVIOUS

\* A loop over 0 .. k - 1 that starts with z and goes from x to F[i][x].
Runs(f, F, z, k) == f[0] = z /\ \A i \in 1 .. k : f[i] = F[i - 1][f[i - 1]]

\* It has values from the start to the end.
LEMMA LoopRuns ==
    ASSUME NEW S, NEW m \in Nat, NEW z \in S, NEW F \in [0 .. m - 1 -> [S -> S]]
    PROVE  \E f \in [0 .. m -> S] : Runs(f, F, z, m)
  <1> DEFINE T == {k \in 0 .. m : \E f \in [0 .. k -> S] : Runs(f, F, z, k)}
  <1>1. 0 \in T
    <2>1. [i \in 0 .. 0 |-> z] \in [0 .. 0 -> S] /\ Runs([i \in 0 .. 0 |-> z], F, z, 0)
      BY DEF Runs
    <2>2. 0 \in 0 .. m
      OBVIOUS
    <2> QED BY <2>1, <2>2
  <1>2. ASSUME NEW k \in 0 .. m - 1, k \in T
        PROVE  k + 1 \in T
    <2>1. PICK f \in [0 .. k -> S] : Runs(f, F, z, k)
      BY <1>2
    <2>2. PICK x : x = F[k][f[k]]
      OBVIOUS
    <2>3. x \in S
      BY <2>2
    <2> DEFINE g == [i \in 0 .. k + 1 |-> IF i = k + 1 THEN x ELSE f[i]]
    <2>4. g \in [0 .. k + 1 -> S]
      BY <2>3
    <2>5. g[0] = z
      <3>1. 0 \in 0 .. k + 1 /\ 0 # k + 1 /\ f[0] = z
        BY <2>1 DEF Runs
      <3> QED BY <3>1
    <2>6. ASSUME NEW i \in 1 .. k + 1
          PROVE  g[i] = F[i - 1][g[i - 1]]
      <3>1. CASE i = k + 1
        <4>1. g[i] = x /\ i - 1 = k /\ g[k] = f[k]
          BY <3>1
        <4> HIDE DEF g
        <4> QED BY <2>2, <4>1
      <3>2. CASE i # k + 1
        <4>1. g[i] = f[i] /\ g[i - 1] = f[i - 1] /\ i \in 1 .. k
          BY <3>2
        <4> HIDE DEF g
        <4> QED BY <2>1, <4>1 DEF Runs
      <3> QED BY <3>1, <3>2
    <2> HIDE DEF g
    <2>7. Runs(g, F, z, k + 1)
      BY <2>5, <2>6 DEF Runs
    <2> QED BY <2>4, <2>7
  <1>3. m \in T
    <2> HIDE DEF T
    <2>1. \A k \in 0 .. m - 1 : k \in T => k + 1 \in T
      BY <1>2
    <2>2. 0 .. m \subseteq T
      BY <1>1, <2>1, SetInduction, Zenon
    <2> QED BY <2>2
  <1> QED BY <1>3

\* Powers of two, as numbers of subsets.
LEMMA PowerCounts ==
    ASSUME NEW n \in Nat
    PROVE  /\ IsFiniteSet(SUBSET (1 .. n)) /\ Cardinality(SUBSET (1 .. n)) = 2 ^ n
           /\ 2 ^ n \in Nat
  <1>1. IsFiniteSet(1 .. n) /\ Cardinality(1 .. n) = n
    BY FS_Interval
  <1>2. IsFiniteSet(SUBSET (1 .. n)) /\ Cardinality(SUBSET (1 .. n)) = 2 ^ Cardinality(1 .. n)
    BY <1>1, FS_SUBSET, Zenon
  <1>3. Cardinality(SUBSET (1 .. n)) = 2 ^ n
    BY <1>1, <1>2, Zenon
  <1> QED BY <1>2, <1>3, FS_CardinalityType, Zenon

LEMMA PowersGrow ==
    ASSUME NEW n \in Nat, NEW m \in Nat, m <= n
    PROVE  2 ^ m <= 2 ^ n
  <1>1. SUBSET (1 .. m) \in SUBSET (SUBSET (1 .. n))
    OBVIOUS
  <1>2. Cardinality(SUBSET (1 .. m)) <= Cardinality(SUBSET (1 .. n))
    BY <1>1, PowerCounts, FS_Subset, Zenon
  <1> QED BY <1>2, PowerCounts, Zenon

LEMMA PowerOfZero == 2 ^ 0 = 1
  <1>1. SUBSET (1 .. 0) = {{}}
    OBVIOUS
  <1>2. Cardinality({{}}) = 1
    BY FS_Singleton, Zenon
  <1>3. 0 \in Nat
    OBVIOUS
  <1>4. Cardinality(SUBSET (1 .. 0)) = 2 ^ 0
    BY <1>3, PowerCounts, Zenon
  <1> QED BY <1>1, <1>2, <1>4, Zenon

LEMMA PowerDoubles ==
    ASSUME NEW n \in Nat
    PROVE  2 ^ (n + 1) = 2 * 2 ^ n
  <1> DEFINE x == n + 1
             A == SUBSET (1 .. n)
             B == {s \cup {x} : s \in A}
             f == [s \in A |-> s \cup {x}]
  <1>1. \A s \in A : x \notin s
    OBVIOUS
  <1>2. f \in Bijection(A, B)
    <2>1. f \in [A -> B] /\ \A s \in A : f[s] = s \cup {x}
      OBVIOUS
    <2>2. \A s, t \in A : s \cup {x} = t \cup {x} => s = t
      BY <1>1
    <2>3. \A v \in B : \E s \in A : f[s] = v
      OBVIOUS
    <2> HIDE DEF f, A, B, x
    <2> QED BY <2>1, <2>2, <2>3 DEF Bijection, Injection, Surjection, IsInjective
  <1>3. A \cap B = {}
    BY <1>1
  <1>4. SUBSET (1 .. x) = A \cup B
    <2>1. \A s \in SUBSET (1 .. x) : s \in A \cup B
      <3> SUFFICES ASSUME NEW s \in SUBSET (1 .. x), x \in s PROVE s \in B
        OBVIOUS
      <3>1. s \ {x} \in A /\ s = (s \ {x}) \cup {x}
        OBVIOUS
      <3> HIDE DEF A, x
      <3> QED BY <3>1
    <2>2. \A s \in A : s \in SUBSET (1 .. x) /\ s \cup {x} \in SUBSET (1 .. x)
      OBVIOUS
    <2> HIDE DEF A, x
    <2> QED BY <2>1, <2>2
  <1>5. IsFiniteSet(A) /\ Cardinality(A) = 2 ^ n /\ 2 ^ n \in Nat
    BY PowerCounts
  <1> HIDE DEF A, B, f
  <1>6. ExistsBijection(A, B)
    BY <1>2 DEF ExistsBijection
  <1>7. IsFiniteSet(B) /\ Cardinality(B) = Cardinality(A)
    BY <1>5, <1>6, FS_Bijection, Zenon
  <1>8. Cardinality(A \cup B) = Cardinality(A) + Cardinality(B)
    <2>1. Cardinality(A \cup B) = Cardinality(A) + Cardinality(B) - Cardinality(A \cap B)
      BY <1>5, <1>7, FS_Union
    <2> QED BY <1>3, <1>5, <1>7, <2>1, FS_EmptySet
  <1>9. Cardinality(SUBSET (1 .. x)) = 2 ^ x
    <2>1. x \in Nat
      OBVIOUS
    <2> HIDE DEF x
    <2> QED BY <2>1, PowerCounts, Zenon
  <1> HIDE DEF x
  <1>10. 2 ^ x = 2 ^ n + 2 ^ n
    BY <1>4, <1>5, <1>7, <1>8, <1>9, Zenon
  <1>11. 2 ^ n + 2 ^ n = 2 * 2 ^ n
    <2>1. PICK p \in Nat : p = 2 ^ n
      BY <1>5, Zenon
    <2> QED BY <2>1
  <1> QED BY <1>10, <1>11, Zenon DEF x

=============================================================================
