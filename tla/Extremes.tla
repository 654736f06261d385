----------------------------- MODULE Extremes -----------------------------
(***************************************************************************)
(* Least and greatest members of sets of natural numbers, as the proofs    *)
(* about blocks and thresholds need them.                                  *)
(***************************************************************************)
EXTENDS Integers, FiniteSetsExt, FiniteSetTheorems, WellFoundedInduction, TLAPS

(* The least number of a nonempty set is one of the set. *)
LEMMA LeastOf ==
  ASSUME NEW T \in SUBSET Nat, T # {}
  PROVE  \E t \in T : \A u \in T : t <= u
<1> DEFINE R == OpToRel(<, Nat)
<1>1. IsWellFoundedOn(R, Nat)
  BY NatLessThanWellFounded
<1>2. PICK t \in T : \A u \in T : ~ (<<u, t>> \in R)
  <2> HIDE DEF R
  <2> QED BY <1>1, WFMin
<1>3. ASSUME NEW u \in T, u < t PROVE FALSE
  <2>1. <<u, t>> \in Nat \X Nat
    OBVIOUS
  <2>2. <<u, t>> \in R
    BY <2>1, <1>3 DEF OpToRel
  <2> QED BY <1>2, <2>2
<1>4. \A u \in T : t <= u
  BY <1>3
<1> QED BY <1>4

(* Min of a nonempty set of numbers. *)
LEMMA MinOf ==
  ASSUME NEW S \in SUBSET Nat, S # {}
  PROVE  Min(S) \in S
<1>1. \E x \in S : \A y \in S : x =< y
  BY LeastOf
<1> QED BY <1>1 DEF Min

(* Max of a nonempty set of numbers up to n. *)
LEMMA MaxOf ==
  ASSUME NEW n \in Nat, NEW S \in SUBSET (0..n), S # {}
  PROVE  Max(S) \in S /\ \A s \in S : s <= Max(S)
<1> DEFINE T == {t \in Nat : n - t \in S}
<1>1. T # {} /\ T \in SUBSET Nat
  <2>1. PICK s \in S : TRUE
    OBVIOUS
  <2>2. n - s \in Nat /\ n - (n - s) = s
    OBVIOUS
  <2> QED BY <2>1, <2>2
<1>2. PICK t \in T : \A u \in T : t <= u
  <2> HIDE DEF T
  <2> QED BY <1>1, LeastOf
<1>3. n - t \in S
  OBVIOUS
<1>4. ASSUME NEW s \in S PROVE s <= n - t
  <2>1. n - s \in Nat /\ n - (n - s) = s
    OBVIOUS
  <2>2. n - s \in T
    BY <2>1
  <2>3. t <= n - s /\ t \in Nat
    BY <1>2, <2>2
  <2> QED BY <2>3
<1> HIDE DEF T
<1>5. \E x \in S : \A y \in S : x >= y
  BY <1>3, <1>4
<1> QED BY <1>5 DEF Max

(* A finite nonempty set of numbers has a greatest one: a smallest subset without
   one would have one after any of its members is removed. *)
LEMMA GreatestOf ==
  ASSUME NEW S \in SUBSET Nat, IsFiniteSet(S), S # {}
  PROVE  \E g \in S : \A s \in S : s <= g
<1> DEFINE Topped(T) == \E g \in T : \A s \in T : s <= g
           Bad == {T \in SUBSET S : T # {} /\ ~ Topped(T)}
           Sizes == {Cardinality(T) : T \in Bad}
<1>1. SUFFICES ASSUME Bad # {} PROVE FALSE
  OBVIOUS
<1>2. \A T \in Bad : IsFiniteSet(T) /\ Cardinality(T) \in Nat
  BY FS_Subset, FS_CardinalityType
<1>3. PICK T \in Bad : \A U \in Bad : Cardinality(T) <= Cardinality(U)
  <2>1. Sizes \in SUBSET Nat /\ Sizes # {}
    BY <1>1, <1>2
  <2>2. PICK k \in Sizes : \A l \in Sizes : k <= l
    <3> HIDE DEF Sizes
    <3> QED BY <2>1, LeastOf
  <2> QED BY <2>2
<1>4. PICK t \in T : TRUE
  BY <1>3
<1>5. Cardinality(T \ {t}) = Cardinality(T) - 1
  BY <1>2, <1>3, <1>4, FS_RemoveElement
<1>6. T \ {t} \notin Bad
  <2> HIDE DEF Bad
  <2> QED BY <1>2, <1>3, <1>5
<1>7. CASE T \ {t} = {}
  BY <1>3, <1>4, <1>7
<1>8. CASE T \ {t} # {}
  <2>1. Topped(T \ {t})
    BY <1>3, <1>6, <1>8
  <2>2. PICK g \in T \ {t} : \A s \in T \ {t} : s <= g
    BY <2>1
  <2>3. T \subseteq Nat /\ ~ Topped(T)
    BY <1>3
  <2>4. CASE t <= g
    BY <2>2, <2>3, <2>4
  <2>5. CASE ~ (t <= g)
    BY <1>4, <2>2, <2>3, <2>5
  <2> QED BY <2>4, <2>5
<1> QED BY <1>7, <1>8

(* Max of a finite nonempty set of numbers. *)
LEMMA MaxOfFinite ==
  ASSUME NEW S \in SUBSET Nat, IsFiniteSet(S), S # {}
  PROVE  Max(S) \in S /\ \A s \in S : s <= Max(S)
<1>1. \E x \in S : \A y \in S : x >= y
  <2>1. PICK g \in S : \A s \in S : s <= g
    BY GreatestOf
  <2> QED BY <2>1
<1> QED BY <1>1 DEF Max

(* The values of a function on a finite set are finite, and as many as the set has
   members if no two of them are the same. *)
LEMMA ValuesFinite ==
  ASSUME NEW S, IsFiniteSet(S), NEW T, NEW f \in [S -> T], \A t \in T : \E s \in S : t = f[s]
  PROVE  /\ IsFiniteSet(T) /\ Cardinality(T) <= Cardinality(S)
         /\ (\A r, s \in S : f[r] = f[s] => r = s) => Cardinality(T) = Cardinality(S)
<1>1. f \in Surjection(S, T)
  BY DEF Surjection
<1>2. (\A r, s \in S : f[r] = f[s] => r = s) => f \in Injection(S, T)
  BY DEF Injection, IsInjective
<1> QED BY <1>1, <1>2, FS_Surjection
=============================================================================
