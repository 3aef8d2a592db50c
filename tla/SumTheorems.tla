----------------------------- MODULE SumTheorems ----------------------------
(***************************************************************************)
(* Finite sets: induction, the largest element, and sums, SumFunctionOnSet *)
(* of the module Functions: a sum is well defined and does not depend on   *)
(* the order in which its elements are taken.  The proofs are by induction *)
(* stated with a set in place of a predicate: whatever is closed under the *)
(* induction step is everything.                                           *)
(***************************************************************************)
EXTENDS Integers, FiniteSets, Functions, FiniteSetTheorems,
        WellFoundedInduction, TLAPS

\* Induction on the naturals, for a set of naturals.
LEMMA NatSetInduction ==
    ASSUME NEW P, 0 \in P, \A n \in Nat : n \in P => n + 1 \in P
    PROVE  \A n \in Nat : n \in P
<1> SUFFICES ASSUME NEW n \in Nat, n \notin P PROVE FALSE
  OBVIOUS
<1> DEFINE B == Nat \ P
           R == OpToRel(<, Nat)
<1>1. B \subseteq Nat /\ B # {}
  OBVIOUS
<1>2. IsWellFoundedOn(R, Nat)
  BY NatLessThanWellFounded
<1> HIDE DEF B, R
<1>3. PICK m \in B : \A k \in B : ~(<<k, m>> \in R)
  BY <1>1, <1>2, WFMin
<1>4. m \in Nat /\ m \notin P /\ \A k \in Nat : k < m => k \in P
  BY <1>3 DEF B, R, OpToRel
<1>5. m # 0 /\ m - 1 \in Nat
  BY <1>4
<1>6. m - 1 \in P
  BY <1>4, <1>5
<1>7. (m - 1) + 1 \in P
  BY <1>5, <1>6
<1> QED BY <1>4, <1>7

\* Induction on the subsets of a finite set, for a set of sets.
LEMMA SubsetInduction ==
    ASSUME NEW S, IsFiniteSet(S), NEW P, {} \in P,
           \A T \in SUBSET S :
              T # {} /\ (\A x \in T : T \ {x} \in P) => T \in P
    PROVE  \A T \in SUBSET S : T \in P
<1> DEFINE Q == {n \in Nat : \A T \in SUBSET S : Cardinality(T) = n => T \in P}
<1>1. 0 \in Q
  BY FS_EmptySet, FS_Subset
<1>2. ASSUME NEW n \in Nat, n \in Q PROVE n + 1 \in Q
  <2> SUFFICES ASSUME NEW T \in SUBSET S, Cardinality(T) = n + 1 PROVE T \in P
    OBVIOUS
  <2>1. IsFiniteSet(T)
    BY FS_Subset
  <2>2. T # {}
    <3>1. n + 1 # 0
      OBVIOUS
    <3>2. Cardinality({}) = 0
      BY FS_EmptySet
    <3> QED BY <3>1, <3>2
  <2>3. ASSUME NEW x \in T PROVE T \ {x} \in P
    <3>1. Cardinality(T \ {x}) = Cardinality(T) - 1
      BY <2>1, FS_RemoveElement
    <3>2. (n + 1) - 1 = n
      OBVIOUS
    <3>3. Cardinality(T \ {x}) = n
      BY <3>1, <3>2
    <3> QED BY <1>2, <3>3
  <2> QED BY <2>2, <2>3
<1> HIDE DEF Q
<1>3. \A n \in Nat : n \in Q
  BY <1>1, <1>2, NatSetInduction
<1>4. ASSUME NEW T \in SUBSET S PROVE T \in P
  <2>1. Cardinality(T) \in Nat
    BY FS_Subset, FS_CardinalityType
  <2> QED BY <1>3, <2>1 DEF Q
<1> QED BY <1>4

\* Among finitely many things there is one with the largest value.
LEMMA MaxExists ==
    ASSUME NEW S, IsFiniteSet(S), S # {}, NEW f, \A x \in S : f[x] \in Int
    PROVE  \E x \in S : \A y \in S : f[y] <= f[x]
<1> DEFINE P == {T \in SUBSET S : T # {} => \E x \in T : \A y \in T : f[y] <= f[x]}
<1>1. {} \in P
  OBVIOUS
<1>2. ASSUME NEW T \in SUBSET S, T # {}, \A x \in T : T \ {x} \in P
      PROVE  T \in P
  <2>1. PICK z \in T : TRUE
    BY <1>2
  <2>2. CASE T \ {z} = {}
    <3>1. \A y \in T : f[y] <= f[z]
      BY <2>2
    <3> QED BY <3>1
  <2>3. CASE T \ {z} # {}
    <3>1. T \ {z} \in P
      BY <1>2
    <3>2. PICK x \in T \ {z} : \A y \in T \ {z} : f[y] <= f[x]
      BY <2>3, <3>1
    <3>3. f[x] <= f[z] => \A y \in T : f[y] <= f[z]
      BY <3>2
    <3>4. f[z] <= f[x] => \A y \in T : f[y] <= f[x]
      BY <3>2
    <3>5. f[x] <= f[z] \/ f[z] <= f[x]
      BY <3>2
    <3> QED BY <3>3, <3>4, <3>5
  <2> QED BY <2>2, <2>3
<1> HIDE DEF P
<1>3. S \in P
  BY <1>1, <1>2, SubsetInduction
<1> QED BY <1>3 DEF P

-----------------------------------------------------------------------------
Some(T) == CHOOSE x \in T : TRUE

\* The equation by which SumFunctionOnSet(f, S) is defined.
SumStep(g, f, T) == IF T = {} THEN 0 ELSE f[Some(T)] + g[T \ {Some(T)}]
IsSum(g, f, S) == g = [T \in SUBSET S |-> SumStep(g, f, T)]

\* The equation has a solution.
LEMMA SumExists ==
    ASSUME NEW S, IsFiniteSet(S), NEW f
    PROVE  \E g : IsSum(g, f, S)
<1> DEFINE Upto(n) == {T \in SUBSET S : Cardinality(T) <= n}
           Good(g, n) == \A T \in Upto(n) : g[T] = SumStep(g, f, T)
           P == {n \in Nat : \E g : Good(g, n)}
<1>1. \A T \in SUBSET S : IsFiniteSet(T) /\ Cardinality(T) \in Nat
  BY FS_Subset, FS_CardinalityType
<1>2. 0 \in P
  <2> DEFINE g == [T \in SUBSET S |-> 0]
  <2>1. \A T \in Upto(0) : T = {}
    BY <1>1, FS_EmptySet
  <2>2. Good(g, 0)
    BY <2>1 DEF SumStep
  <2> QED BY <2>2
<1>3. ASSUME NEW n \in Nat, n \in P PROVE n + 1 \in P
  <2>1. PICK g : Good(g, n)
    BY <1>3
  <2> DEFINE h == [T \in SUBSET S |-> SumStep(g, f, T)]
  <2>2. \A T \in Upto(n) : h[T] = g[T]
    BY <2>1
  <2>3. ASSUME NEW T \in Upto(n + 1) PROVE h[T] = SumStep(h, f, T)
    <3>1. CASE T = {}
      BY <3>1 DEF SumStep
    <3>2. CASE T # {}
      <4>1. Some(T) \in T
        BY <3>2 DEF Some
      <4>2. Cardinality(T \ {Some(T)}) = Cardinality(T) - 1
        BY <1>1, <4>1, FS_RemoveElement
      <4>3. T \ {Some(T)} \in Upto(n)
        BY <1>1, <4>2
      <4>4. h[T \ {Some(T)}] = g[T \ {Some(T)}]
        BY <2>2, <4>3
      <4>5. h[T] = SumStep(g, f, T)
        OBVIOUS
      <4> HIDE DEF h
      <4> QED BY <4>4, <4>5 DEF SumStep
    <3> QED BY <3>1, <3>2
  <2> HIDE DEF h
  <2>4. Good(h, n + 1)
    BY <2>3
  <2> QED BY <2>4
<1> HIDE DEF P
<1>4. Cardinality(S) \in P
  BY <1>1, <1>2, <1>3, NatSetInduction
<1>5. PICK g : Good(g, Cardinality(S))
  BY <1>4 DEF P
<1>6. \A T \in SUBSET S : g[T] = SumStep(g, f, T)
  BY <1>5, FS_Subset
<1> DEFINE h == [T \in SUBSET S |-> g[T]]
<1>7. ASSUME NEW T \in SUBSET S PROVE SumStep(h, f, T) = g[T]
  BY <1>6 DEF SumStep
<1>8. IsSum(h, f, S)
  BY <1>7 DEF IsSum
<1> QED BY <1>8

\* What SumFunctionOnSet computes.
LEMMA SumUnfolds ==
    ASSUME NEW S, IsFiniteSet(S), NEW f
    PROVE  \E g : IsSum(g, f, S) /\ SumFunctionOnSet(f, S) = g[S]
<1>1. SumFunctionOnSet(f, S) = (CHOOSE g : IsSum(g, f, S))[S]
  BY DEF SumFunctionOnSet, FoldFunctionOnSet, MapThenFoldSet, IsSum, SumStep, Some
<1>2. IsSum(CHOOSE g : IsSum(g, f, S), f, S)
  BY SumExists
<1> QED BY <1>1, <1>2

\* The partial sums are integers.
LEMMA SumIsInt ==
    ASSUME NEW S, IsFiniteSet(S), NEW f, \A x \in S : f[x] \in Int,
           NEW g, IsSum(g, f, S)
    PROVE  \A T \in SUBSET S : g[T] \in Int
<1> DEFINE P == {T \in SUBSET S : g[T] \in Int}
<1>1. \A T \in SUBSET S : g[T] = SumStep(g, f, T)
  BY DEF IsSum
<1>2. {} \in P
  <2>1. g[{}] = SumStep(g, f, {})
    BY <1>1
  <2>2. g[{}] = 0
    BY <2>1 DEF SumStep
  <2> QED BY <2>2
<1>3. ASSUME NEW T \in SUBSET S, T # {}, \A x \in T : T \ {x} \in P
      PROVE  T \in P
  <2>1. Some(T) \in T
    BY <1>3 DEF Some
  <2>2. g[T] = f[Some(T)] + g[T \ {Some(T)}]
    BY <1>1, <1>3 DEF SumStep
  <2>3. g[T \ {Some(T)}] \in Int
    BY <1>3, <2>1
  <2> QED BY <2>1, <2>2, <2>3
<1> HIDE DEF P
<1>4. \A T \in SUBSET S : T \in P
  BY <1>2, <1>3, SubsetInduction
<1> QED BY <1>4 DEF P

\* Any element may be taken out of a sum first.
LEMMA SumAnyOrder ==
    ASSUME NEW S, IsFiniteSet(S), NEW f, \A x \in S : f[x] \in Int,
           NEW g, IsSum(g, f, S)
    PROVE  \A T \in SUBSET S : \A x \in T : g[T] = f[x] + g[T \ {x}]
<1> DEFINE P == {T \in SUBSET S : \A x \in T : g[T] = f[x] + g[T \ {x}]}
<1>1. \A T \in SUBSET S : g[T] = SumStep(g, f, T)
  BY DEF IsSum
<1>2. \A T \in SUBSET S : g[T] \in Int
  BY SumIsInt
<1>3. {} \in P
  OBVIOUS
<1>4. ASSUME NEW T \in SUBSET S, T # {}, \A x \in T : T \ {x} \in P
      PROVE  T \in P
  <2> DEFINE c == Some(T)
  <2>1. c \in T
    BY <1>4 DEF Some
  <2>2. g[T] = f[c] + g[T \ {c}]
    BY <1>1, <1>4 DEF SumStep
  <2> HIDE DEF c
  <2>3. ASSUME NEW x \in T, x # c PROVE g[T] = f[x] + g[T \ {x}]
    <3>1. g[T \ {c}] = f[x] + g[(T \ {c}) \ {x}]
      BY <1>4, <2>1, <2>3
    <3>2. g[T \ {x}] = f[c] + g[(T \ {x}) \ {c}]
      BY <1>4, <2>1, <2>3
    <3>3. (T \ {x}) \ {c} = (T \ {c}) \ {x}
      OBVIOUS
    <3>4. g[(T \ {c}) \ {x}] \in Int /\ f[x] \in Int /\ f[c] \in Int
      BY <1>2, <2>1
    <3> DEFINE z == g[(T \ {c}) \ {x}]
    <3>5. \A a, b, d \in Int : a + (b + d) = b + (a + d)
      OBVIOUS
    <3>6. g[T] = f[c] + (f[x] + z)
      BY <2>2, <3>1
    <3>7. f[x] + g[T \ {x}] = f[x] + (f[c] + z)
      BY <3>2, <3>3
    <3> HIDE DEF z, P
    <3> QED BY <3>4, <3>5, <3>6, <3>7 DEF z
  <2> QED BY <2>2, <2>3
<1> HIDE DEF P
<1>5. \A T \in SUBSET S : T \in P
  BY <1>3, <1>4, SubsetInduction
<1> QED BY <1>5 DEF P

\* Sums of the same values over the same set are the same.
LEMMA SumDetermined ==
    ASSUME NEW S, NEW R, IsFiniteSet(S), NEW T \in SUBSET S, T \in SUBSET R,
           NEW f, NEW e, \A x \in T : f[x] = e[x],
           NEW g, IsSum(g, f, S), NEW h, IsSum(h, e, R)
    PROVE  g[T] = h[T]
<1> DEFINE P == {U \in SUBSET T : g[U] = h[U]}
<1>1. \A U \in SUBSET T : g[U] = SumStep(g, f, U) /\ h[U] = SumStep(h, e, U)
  BY DEF IsSum
<1>2. {} \in P
  BY <1>1 DEF SumStep
<1>3. ASSUME NEW U \in SUBSET T, U # {}, \A x \in U : U \ {x} \in P
      PROVE  U \in P
  <2>1. Some(U) \in U
    BY <1>3 DEF Some
  <2>2. /\ g[U] = f[Some(U)] + g[U \ {Some(U)}]
        /\ h[U] = e[Some(U)] + h[U \ {Some(U)}]
    BY <1>1, <1>3 DEF SumStep
  <2>3. g[U \ {Some(U)}] = h[U \ {Some(U)}]
    BY <1>3, <2>1
  <2> QED BY <2>1, <2>2, <2>3
<1>4. IsFiniteSet(T)
  BY FS_Subset
<1> HIDE DEF P
<1>5. \A U \in SUBSET T : U \in P
  BY <1>2, <1>3, <1>4, SubsetInduction
<1> QED BY <1>5 DEF P

-----------------------------------------------------------------------------
(***************************************************************************)
(* The same, of SumFunctionOnSet.                                          *)
(***************************************************************************)

\* The sum over nothing is 0.
LEMMA SumEmpty == ASSUME NEW f PROVE SumFunctionOnSet(f, {}) = 0
<1>1. PICK g : IsSum(g, f, {}) /\ SumFunctionOnSet(f, {}) = g[{}]
  BY SumUnfolds, FS_EmptySet
<1> QED BY <1>1 DEF IsSum, SumStep

\* A sum of integers is an integer, from which any element can be taken out.
LEMMA SumTake ==
    ASSUME NEW S, IsFiniteSet(S), NEW f, \A x \in S : f[x] \in Int
    PROVE  /\ SumFunctionOnSet(f, S) \in Int
           /\ \A x \in S :
                 SumFunctionOnSet(f, S) = f[x] + SumFunctionOnSet(f, S \ {x})
<1>1. PICK g : IsSum(g, f, S) /\ SumFunctionOnSet(f, S) = g[S]
  BY SumUnfolds
<1>2. g[S] \in Int
  BY <1>1, SumIsInt
<1>3. ASSUME NEW x \in S
      PROVE  SumFunctionOnSet(f, S) = f[x] + SumFunctionOnSet(f, S \ {x})
  <2> DEFINE R == S \ {x}
  <2>1. IsFiniteSet(R)
    BY FS_RemoveElement
  <2>2. R \in SUBSET S /\ R \in SUBSET R
    OBVIOUS
  <2> HIDE DEF R
  <2>3. PICK h : IsSum(h, f, R) /\ SumFunctionOnSet(f, R) = h[R]
    BY <2>1, SumUnfolds
  <2>4. g[R] = h[R]
    BY <1>1, <2>2, <2>3, SumDetermined
  <2>5. g[S] = f[x] + g[R]
    BY <1>1, SumAnyOrder DEF R
  <2> QED BY <1>1, <2>3, <2>4, <2>5 DEF R
<1> QED BY <1>1, <1>2, <1>3

\* A sum depends on nothing but the values it adds up.
LEMMA SumSame ==
    ASSUME NEW S, IsFiniteSet(S), NEW f, NEW e, \A x \in S : f[x] = e[x]
    PROVE  SumFunctionOnSet(f, S) = SumFunctionOnSet(e, S)
<1>1. PICK g : IsSum(g, f, S) /\ SumFunctionOnSet(f, S) = g[S]
  BY SumUnfolds
<1>2. PICK h : IsSum(h, e, S) /\ SumFunctionOnSet(e, S) = h[S]
  BY SumUnfolds
<1> DEFINE T == S
<1>3. T \in SUBSET S /\ \A x \in T : f[x] = e[x]
  OBVIOUS
<1> HIDE DEF T
<1>4. g[T] = h[T]
  BY <1>1, <1>2, <1>3, SumDetermined
<1> QED BY <1>1, <1>2, <1>4 DEF T

\* Changing the value of one element changes the sum as much.
LEMMA SumChange ==
    ASSUME NEW S, IsFiniteSet(S), NEW x \in S, NEW f, NEW e,
           \A y \in S : f[y] \in Int /\ e[y] \in Int,
           \A y \in S \ {x} : f[y] = e[y]
    PROVE  SumFunctionOnSet(e, S) = SumFunctionOnSet(f, S) - f[x] + e[x]
<1> DEFINE R == S \ {x}
<1>1. IsFiniteSet(R) /\ \A y \in R : f[y] = e[y] /\ f[y] \in Int
  BY FS_RemoveElement
<1>2. /\ SumFunctionOnSet(f, S) = f[x] + SumFunctionOnSet(f, R)
      /\ SumFunctionOnSet(e, S) = e[x] + SumFunctionOnSet(e, R)
  BY SumTake
<1> HIDE DEF R
<1>3. SumFunctionOnSet(f, R) = SumFunctionOnSet(e, R)
  BY <1>1, SumSame
<1>4. SumFunctionOnSet(f, R) \in Int
  BY <1>1, SumTake
<1> QED BY <1>2, <1>3, <1>4

\* Every term bounds a sum, as often as there are terms.
LEMMA SumBound ==
    ASSUME NEW S, IsFiniteSet(S), NEW f, NEW m \in Nat,
           \A x \in S : f[x] \in Nat /\ f[x] <= m
    PROVE  /\ SumFunctionOnSet(f, S) \in Nat
           /\ SumFunctionOnSet(f, S) <= Cardinality(S) * m
<1> DEFINE Fine(T) == /\ SumFunctionOnSet(f, T) \in Nat
                      /\ SumFunctionOnSet(f, T) <= Cardinality(T) * m
           P == {T \in SUBSET S : Fine(T)}
<1>1. \A T \in SUBSET S : IsFiniteSet(T) /\ Cardinality(T) \in Nat
  BY FS_Subset, FS_CardinalityType
<1>2. {} \in P
  BY SumEmpty, FS_EmptySet
<1>3. ASSUME NEW T \in SUBSET S, T # {}, \A x \in T : T \ {x} \in P
      PROVE  T \in P
  <2>1. PICK x \in T : TRUE
    BY <1>3
  <2>2. Fine(T \ {x}) /\ f[x] \in Nat /\ f[x] <= m
    BY <1>3, <2>1
  <2>3. SumFunctionOnSet(f, T) = f[x] + SumFunctionOnSet(f, T \ {x})
    <3>1. \A y \in T : f[y] \in Int
      OBVIOUS
    <3> QED BY <1>1, <3>1, SumTake
  <2>4. Cardinality(T \ {x}) = Cardinality(T) - 1
    BY <1>1, <2>1, FS_RemoveElement
  <2>5. (Cardinality(T) - 1) * m + m = Cardinality(T) * m
    <3>1. \A k \in Nat : (k - 1) * m + m = k * m
      OBVIOUS
    <3> QED BY <1>1, <3>1
  <2>6. (Cardinality(T) - 1) * m \in Int /\ Cardinality(T) * m \in Int
    BY <1>1
  <2>7. SumFunctionOnSet(f, T) <= Cardinality(T) * m
    BY <2>2, <2>3, <2>4, <2>5, <2>6
  <2>8. SumFunctionOnSet(f, T) \in Nat
    BY <2>2, <2>3
  <2> QED BY <2>7, <2>8
<1> HIDE DEF P
<1>4. \A T \in SUBSET S : T \in P
  BY <1>2, <1>3, SubsetInduction
<1>5. S \in P
  BY <1>4
<1> QED BY <1>5 DEF P
=============================================================================
