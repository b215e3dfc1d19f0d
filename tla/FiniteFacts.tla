---------------------------- MODULE FiniteFacts -----------------------------
(***************************************************************************)
(* Facts about numbers, finite sets and sums that the proofs of several    *)
(* components need.  The first stands for induction: whatever fails of a   *)
(* natural number fails of a least one.                                    *)
(***************************************************************************)
EXTENDS Integers, FiniteSets, FiniteSetTheorems, WellFoundedInduction, TLAPS

\* A set of natural numbers that is not empty has a least member.
LEMMA NatMin ==
    ASSUME NEW T \in SUBSET Nat, T # {}
    PROVE  \E n \in T : \A m \in T : n <= m
<1> DEFINE R == {p \in Nat \X Nat : p[1] < p[2]}
<1>1. IsWellFoundedOn(R, Nat)
  BY NatLessThanWellFounded DEF OpToRel
<1>2. PICK n \in T : \A m \in T : ~ (<<m, n>> \in R)
  <2> HIDE DEF R
  <2> QED
    BY <1>1, WFMin
<1>3. ASSUME NEW m \in T
      PROVE  n <= m
  <2>1. ~(<<m, n>>[1] < <<m, n>>[2])
    BY <1>2
  <2> QED
    BY <2>1
<1> QED
  BY <1>3

\* One that has an upper bound has a greatest one.
LEMMA NatMax ==
    ASSUME NEW T \in SUBSET Nat, T # {}, NEW b \in Nat, \A m \in T : m <= b
    PROVE  \E n \in T : \A m \in T : m <= n
<1> DEFINE U == {k \in Nat : \A m \in T : m <= k}
<1>1. PICK n \in U : \A k \in U : n <= k
  <2>1. b \in U
    OBVIOUS
  <2> HIDE DEF U
  <2> QED
    <3>1. U \in SUBSET Nat
      BY DEF U
    <3> QED
      BY <2>1, <3>1, NatMin
<1>2. n \in T
  <2> SUFFICES ASSUME n \notin T PROVE FALSE
    OBVIOUS
  <2>1. \A m \in T : m < n
    BY <1>1
  <2>2. n >= 1
    <3>1. PICK m \in T : m < n
      BY <2>1
    <3> QED
      BY <3>1
  <2>3. n - 1 \in U
    BY <2>1, <2>2
  <2> QED
    BY <1>1, <2>3
<1> QED
  BY <1>1, <1>2

\* What a function gives on a finite domain is finite.
LEMMA FiniteRange ==
    ASSUME NEW f, NEW S, IsFiniteSet(S)
    PROVE  /\ IsFiniteSet({f[x] : x \in S})
           /\ Cardinality({f[x] : x \in S}) <= Cardinality(S)
<1> DEFINE g == [x \in S |-> f[x]]
           T == {f[x] : x \in S}
<1>1. g \in Surjection(S, T)
  BY DEF Surjection
<1> HIDE DEF g, T
<1>2. IsFiniteSet(T) /\ Cardinality(T) <= Cardinality(S)
  BY <1>1, FS_Surjection
<1> QED
  BY <1>2 DEF T

\* A finite one has a greatest member.
LEMMA FiniteMax ==
    ASSUME NEW T \in SUBSET Nat, T # {}, IsFiniteSet(T)
    PROVE  \E n \in T : \A m \in T : m <= n
<1> DEFINE Unbounded(U) == U # {} /\ IsFiniteSet(U) /\ ~\E n \in U : \A m \in U : m <= n
           Sizes == {k \in Nat : \E U \in SUBSET Nat : Unbounded(U) /\ Cardinality(U) = k}
<1> SUFFICES ASSUME Unbounded(T) PROVE FALSE
  OBVIOUS
<1>1. Cardinality(T) \in Sizes
  BY FS_CardinalityType
<1>2. PICK k \in Sizes : \A j \in Sizes : k <= j
  <2>1. Sizes \in SUBSET Nat
    OBVIOUS
  <2> HIDE DEF Sizes
  <2> QED
    BY <1>1, <2>1, NatMin
<1>3. PICK U \in SUBSET Nat : Unbounded(U) /\ Cardinality(U) = k
  BY <1>2
<1>4. PICK x \in U : TRUE
  BY <1>3
<1> DEFINE V == U \ {x}
<1>5. IsFiniteSet(V) /\ Cardinality(V) = k - 1 /\ k - 1 \in Nat
  <2>1. IsFiniteSet(V) /\ Cardinality(V) = Cardinality(U) - 1
    BY <1>3, FS_RemoveElement
  <2>2. Cardinality(V) \in Nat
    BY <2>1, FS_CardinalityType
  <2> QED
    BY <1>3, <2>1, <2>2
<1>6. ~Unbounded(V)
  <2>1. k - 1 \notin Sizes
    BY <1>2, <1>5
  <2> QED
    BY <1>5, <2>1
<1>7. CASE V = {}
  <2>1. \A m \in U : m = x
    BY <1>7
  <2> QED
    BY <1>3, <1>4, <2>1
<1>8. CASE V # {}
  <2>1. PICK n \in V : \A m \in V : m <= n
    BY <1>5, <1>6, <1>8
  <2>2. \A m \in U : m \in V \/ m = x
    OBVIOUS
  <2>3. n \in Nat /\ x \in Nat /\ n \in U
    OBVIOUS
  <2> HIDE DEF V
  <2>4. CASE x <= n
    BY <1>3, <2>1, <2>2, <2>3, <2>4
  <2>5. CASE n <= x
    BY <1>3, <1>4, <2>1, <2>2, <2>3, <2>5
  <2> QED
    BY <2>3, <2>4, <2>5
<1> QED
  BY <1>7, <1>8

\* Induction over the subsets of a finite set.
LEMMA SubsetInduction ==
    ASSUME NEW S, IsFiniteSet(S), NEW F,
           \A T \in SUBSET S : (\A x \in T : T \ {x} \in F) => T \in F
    PROVE  \A T \in SUBSET S : T \in F
<1> DEFINE Sizes == {k \in Nat : \E T \in SUBSET S : T \notin F /\ Cardinality(T) = k}
<1> SUFFICES ASSUME NEW T0 \in SUBSET S, T0 \notin F PROVE FALSE
  OBVIOUS
<1>0. \A T \in SUBSET S : IsFiniteSet(T) /\ Cardinality(T) \in Nat
  BY FS_Subset, FS_CardinalityType
<1>1. Cardinality(T0) \in Sizes
  BY <1>0
<1>2. PICK k \in Sizes : \A j \in Sizes : k <= j
  <2>1. Sizes \in SUBSET Nat
    OBVIOUS
  <2> HIDE DEF Sizes
  <2> QED
    BY <1>1, <2>1, NatMin
<1>3. PICK T \in SUBSET S : T \notin F /\ Cardinality(T) = k
  BY <1>2
<1>4. PICK x \in T : T \ {x} \notin F
  BY <1>3
<1>5. T \ {x} \in SUBSET S /\ Cardinality(T \ {x}) = k - 1
  BY <1>0, <1>3, FS_RemoveElement
<1>6. k - 1 \in Sizes /\ k \in Nat
  BY <1>0, <1>2, <1>4, <1>5
<1>7. k <= k - 1
  BY <1>2, <1>6
<1> QED
  BY <1>6, <1>7

\* Division, as its two inequalities, and what products with one number keep.
LEMMA DivBounds ==
    ASSUME NEW a \in Nat, NEW p \in Nat \ {0}
    PROVE  /\ a \div p \in Nat
           /\ p * (a \div p) <= a
           /\ a < p * (a \div p) + p
  OBVIOUS

LEMMA TimesMonotone ==
    ASSUME NEW p \in Nat \ {0}, NEW x \in Nat, NEW y \in Nat
    PROVE  /\ p * x \in Nat
           /\ p * (x + 1) = p * x + p
           /\ x <= y <=> p * x <= p * y
  OBVIOUS
=============================================================================
