---------------------------- MODULE NumberLemmas -----------------------------
(***************************************************************************)
(* Facts about numbers that the proofs of several components need.  The    *)
(* provers know no induction; LeastElement takes its place: a statement    *)
(* that fails for some number fails for a least one.                       *)
(***************************************************************************)
EXTENDS FiniteSetsExt, FiniteSetTheorems, TLAPS

\* A set of natural numbers that is not empty has a least element.
LEMMA LeastElement ==
  ASSUME NEW T \in SUBSET Nat, T # {}
  PROVE  \E x \in T : \A y \in T : x <= y
<1>1. PICK x \in T : \A y \in T : <<y, x>> \notin OpToRel(<, Nat)
  BY NatLessThanWellFounded, WFMin
<1>2. \A y \in T : ~(y < x)
  BY <1>1 DEF OpToRel
<1> QED BY <1>2

-----------------------------------------------------------------------------
\* Max and Min.

LEMMA MinOfSet ==
  ASSUME NEW S \in SUBSET Nat, S # {}
  PROVE  Min(S) \in S /\ \A y \in S : Min(S) <= y
<1>1. \E x \in S : \A y \in S : x <= y
  BY LeastElement
<1> QED BY <1>1 DEF Min

\* A finite set of natural numbers that is not empty has a greatest element.
LEMMA MaxOfSet ==
  ASSUME NEW S \in SUBSET Nat, S # {}, IsFiniteSet(S)
  PROVE  Max(S) \in S /\ \A y \in S : Max(S) >= y
<1> DEFINE HasMax(R) == \E x \in R : \A y \in R : x >= y
           Without == {n \in Nat : \E R \in SUBSET Nat :
                          R # {} /\ IsFiniteSet(R) /\ Cardinality(R) = n /\ ~HasMax(R)}
<1>1. Without = {}
  <2> SUFFICES ASSUME Without # {} PROVE FALSE
    OBVIOUS
  <2>1. PICK n \in Without : \A m \in Without : n <= m
    BY LeastElement
  <2>2. PICK R \in SUBSET Nat :
          R # {} /\ IsFiniteSet(R) /\ Cardinality(R) = n /\ ~HasMax(R)
    BY <2>1
  <2>3. PICK x \in R : TRUE
    BY <2>2
  <2>4. IsFiniteSet(R \ {x}) /\ Cardinality(R \ {x}) = n - 1
    BY <2>2, FS_RemoveElement
  <2>5. n - 1 \in Nat /\ ~(n <= n - 1)
    BY <2>4, FS_CardinalityType
  <2>6. CASE R \ {x} = {}
    <3>1. R = {x}
      BY <2>6
    <3> QED BY <2>2, <3>1
  <2>7. CASE R \ {x} # {}
    <3>1. n - 1 \notin Without
      BY <2>1, <2>5
    <3>2. HasMax(R \ {x})
      BY <2>4, <2>5, <2>7, <3>1
    <3>3. PICK m \in R \ {x} : \A y \in R \ {x} : m >= y
      BY <3>2
    <3>4. HasMax(R)
      <4>1. CASE m >= x
        BY <3>3, <4>1
      <4>2. CASE ~(m >= x)
        <5>1. \A y \in R : x >= y
          BY <3>3, <4>2
        <5> QED BY <5>1
      <4> QED BY <4>1, <4>2
    <3> QED BY <2>2, <3>4
  <2> QED BY <2>6, <2>7
<1>2. HasMax(S)
  BY <1>1, FS_CardinalityType
<1> QED BY <1>2 DEF Max

LEMMA MaxOfTwo ==
  ASSUME NEW m \in Int, NEW n \in Int
  PROVE  Max({m, n}) = IF m >= n THEN m ELSE n
<1>1. \E x \in {m, n} : \A y \in {m, n} : x >= y
  BY SMT
<1>2. Max({m, n}) \in {m, n} /\ Max({m, n}) >= m /\ Max({m, n}) >= n
  BY <1>1 DEF Max
<1> QED BY <1>2

LEMMA MinOfTwo ==
  ASSUME NEW m \in Int, NEW n \in Int
  PROVE  Min({m, n}) = IF m <= n THEN m ELSE n
<1>1. \E x \in {m, n} : \A y \in {m, n} : x <= y
  BY SMT
<1>2. Min({m, n}) \in {m, n} /\ Min({m, n}) <= m /\ Min({m, n}) <= n
  BY <1>1 DEF Min
<1> QED BY <1>2

-----------------------------------------------------------------------------
\* Powers of two.  The provers know nothing of ^; the library says that 2^n is
\* how many subsets a set of n elements has.

LEMMA PowerCounts ==
  ASSUME NEW n \in Nat
  PROVE  IsFiniteSet(SUBSET (1..n)) /\ Cardinality(SUBSET (1..n)) = 2^n
<1>1. IsFiniteSet(1..n) /\ Cardinality(1..n) = n
  BY FS_Interval
<1> QED BY <1>1, FS_SUBSET

LEMMA PowerPositive ==
  ASSUME NEW n \in Nat
  PROVE  2^n \in Nat \ {0}
<1>1. 2^n \in Nat
  BY PowerCounts, FS_CardinalityType
<1>2. Cardinality(SUBSET (1..n)) # 0
  <2>1. SUBSET (1..n) # {}
    OBVIOUS
  <2>2. \A S : IsFiniteSet(S) => (Cardinality(S) = 0 <=> S = {})
    BY FS_EmptySet
  <2> QED BY <2>1, <2>2, PowerCounts, Zenon
<1> QED BY <1>1, <1>2, PowerCounts

LEMMA PowerDoubles ==
  ASSUME NEW n \in Nat
  PROVE  2^(n + 1) = 2 * 2^n
<1> DEFINE A == SUBSET (1..n)
           WithLast(X) == X \cup {n + 1}
           B == {WithLast(X) : X \in A}
           f == [X \in A |-> WithLast(X)]
<1>1. n + 1 \notin 1..n
  OBVIOUS
<1>2. SUBSET (1..(n + 1)) = A \cup B
  <2>1. 1..(n + 1) = (1..n) \cup {n + 1}
    OBVIOUS
  <2>2. ASSUME NEW Y \in SUBSET (1..(n + 1)) PROVE Y \in A \cup B
    <3>1. CASE n + 1 \notin Y
      BY <2>1, <3>1
    <3>2. CASE n + 1 \in Y
      <4>1. Y = WithLast(Y \ {n + 1}) /\ Y \ {n + 1} \in A
        BY <2>1, <3>2
      <4> QED BY <4>1
    <3> QED BY <3>1, <3>2
  <2>3. ASSUME NEW Y \in A \cup B PROVE Y \in SUBSET (1..(n + 1))
    BY <2>1
  <2> QED BY <2>2, <2>3
<1>3. A \cap B = {}
  BY <1>1
<1>4. f \in Bijection(A, B)
  <2>1. f \in [A -> B]
    OBVIOUS
  <2>2. \A X, Y \in A : f[X] = f[Y] => X = Y
    <3> SUFFICES ASSUME NEW X \in A, NEW Y \in A, WithLast(X) = WithLast(Y) PROVE X = Y
      OBVIOUS
    <3>1. X = WithLast(X) \ {n + 1} /\ Y = WithLast(Y) \ {n + 1}
      BY <1>1
    <3> QED BY <3>1
  <2>3. \A Z \in B : \E X \in A : f[X] = Z
    OBVIOUS
  <2> HIDE DEF f, A, B
  <2> QED BY <2>1, <2>2, <2>3 DEF Bijection, Injection, Surjection, IsInjective
<1>5. IsFiniteSet(A) /\ Cardinality(A) = 2^n
  BY PowerCounts
<1>6. IsFiniteSet(B) /\ Cardinality(B) = 2^n
  <2>1. ExistsBijection(A, B)
    BY <1>4 DEF ExistsBijection
  <2> HIDE DEF A, B
  <2> QED BY <1>5, <2>1, FS_Bijection, FS_SameCardinalityBij
<1>7. Cardinality(A \cup B) = 2^n + 2^n
  <2>1. Cardinality(A \cap B) = 0
    BY <1>3, FS_EmptySet
  <2>2. Cardinality(A \cup B) = Cardinality(A) + Cardinality(B) - Cardinality(A \cap B)
    BY <1>5, <1>6, FS_Union
  <2> QED BY <1>5, <1>6, <2>1, <2>2, PowerPositive
<1>8. Cardinality(SUBSET (1..(n + 1))) = 2^(n + 1)
  BY PowerCounts
<1>9. 2^(n + 1) = 2^n + 2^n
  BY <1>2, <1>7, <1>8, Zenon
<1>10. 2^n \in Nat
  BY PowerPositive
<1> QED BY <1>9, <1>10
=============================================================================
