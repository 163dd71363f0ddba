------------------------------ MODULE FiniteSums ------------------------------
(* Lemmas about induction and about sums over finite sets (SumFunction), for *)
(* the proofs about what a budget, a ledger or a table adds up to.           *)
EXTENDS Integers, FiniteSets, Functions, TLAPS, FiniteSetTheorems, WellFoundedInduction

-----------------------------------------------------------------------------
(* Induction, with the set P of the values that have the property.          *)

LEMMA NatInductionSet ==
    ASSUME NEW P, 0 \in P, \A n \in Nat : n \in P => n + 1 \in P
    PROVE  Nat \subseteq P
<1> SUFFICES ASSUME Nat \ P # {} PROVE FALSE
  OBVIOUS
<1>1. PICK R : R = OpToRel(<, Nat)
  OBVIOUS
<1>2. IsWellFoundedOn(R, Nat)
  BY <1>1, NatLessThanWellFounded
<1>3. \A x, y \in Nat : x < y => <<x, y>> \in R
  BY <1>1 DEF OpToRel
<1>4. PICK x \in Nat \ P : \A y \in Nat \ P : ~ (<<y, x>> \in R)
  BY <1>2, WFMin
<1>5. x - 1 \in Nat /\ x - 1 < x /\ (x - 1) + 1 = x
  OBVIOUS
<1>6. x - 1 \in P
  BY <1>3, <1>4, <1>5
<1>. QED BY <1>5, <1>6

LEMMA MinimalSubset ==
    ASSUME NEW S, IsFiniteSet(S), NEW Q, Q \subseteq SUBSET S, Q # {}
    PROVE  \E T \in Q : \A U \in Q : U \subseteq T => U = T
<1>1. IsWellFoundedOn(StrictSubsetOrdering(S), SUBSET S)
  BY FS_StrictSubsetOrderingWellFounded, FS_FiniteSubsetsOfFinite
<1>2. PICK T \in Q : \A U \in Q : ~ (<<U, T>> \in StrictSubsetOrdering(S))
  BY <1>1, WFMin
<1>3. ASSUME NEW U \in Q, U \subseteq T, U # T PROVE FALSE
  BY <1>2, <1>3 DEF StrictSubsetOrdering
<1>. QED BY <1>3

\* A property of a set that follows from that of its strict subsets.
LEMMA SubsetInduction ==
    ASSUME NEW S, IsFiniteSet(S), NEW P,
           \A T \in SUBSET S : (\A U \in SUBSET T : U # T => U \in P) => T \in P
    PROVE  SUBSET S \subseteq P
<1> SUFFICES ASSUME (SUBSET S) \ P # {} PROVE FALSE
  OBVIOUS
<1> DEFINE Q == (SUBSET S) \ P
<1>1. Q \subseteq SUBSET S /\ Q # {}
  OBVIOUS
<1>2. PICK T \in Q : \A U \in Q : U \subseteq T => U = T
  <2>. HIDE DEF Q
  <2>. QED BY <1>1, MinimalSubset
<1>3. \A U \in SUBSET T : U # T => U \in P
  BY <1>2
<1>. QED BY <1>2, <1>3

-----------------------------------------------------------------------------
(* Sums over finite sets.                                                   *)

Pick(S) == CHOOSE x \in S : TRUE

\* sum gives the partial sums of f over the subsets of S.
Sums(f, S, sum) ==
    sum = [T \in SUBSET S |-> IF T = {} THEN 0 ELSE f[Pick(T)] + sum[T \ {Pick(T)}]]

LEMMA PickIn == ASSUME NEW S, S # {} PROVE Pick(S) \in S
BY DEF Pick

LEMMA SumsAgree ==
    ASSUME NEW f, NEW S, NEW sum, Sums(f, S, sum),
           NEW g, NEW T, NEW tum, Sums(g, T, tum),
           NEW U, IsFiniteSet(U), U \subseteq S \cap T, \A x \in U : f[x] = g[x]
    PROVE  sum[U] = tum[U]
<1> DEFINE P == {V \in SUBSET U : sum[V] = tum[V]}
<1>1. ASSUME NEW V \in SUBSET U, \A W \in SUBSET V : W # V => W \in P PROVE V \in P
  <2>1. CASE V = {}
    BY <2>1 DEF Sums
  <2>2. CASE V # {}
    <3>1. Pick(V) \in V /\ V \ {Pick(V)} # V
      BY <2>2, PickIn
    <3>2. sum[V \ {Pick(V)}] = tum[V \ {Pick(V)}]
      BY <1>1, <3>1
    <3>3. /\ sum[V] = f[Pick(V)] + sum[V \ {Pick(V)}]
          /\ tum[V] = g[Pick(V)] + tum[V \ {Pick(V)}]
      BY <2>2 DEF Sums
    <3>. QED BY <3>1, <3>2, <3>3
  <2>. QED BY <2>1, <2>2
<1>2. SUBSET U \subseteq P
  <2>. HIDE DEF P
  <2>. QED BY <1>1, SubsetInduction
<1>. QED BY <1>2

LEMMA SumsExist ==
    ASSUME NEW f, NEW S, IsFiniteSet(S)
    PROVE  \E sum : Sums(f, S, sum)
<1> DEFINE P == {T \in SUBSET S : \E sum : Sums(f, T, sum)}
           Of(T) == CHOOSE sum : Sums(f, T, sum)
<1>1. ASSUME NEW T \in SUBSET S, \A U \in SUBSET T : U # T => U \in P PROVE T \in P
  <2> DEFINE sumOf(U) == Of(U)[U]
             sum == [U \in SUBSET T |->
                        IF U = {} THEN 0 ELSE f[Pick(U)] + sumOf(U \ {Pick(U)})]
  <2>1. ASSUME NEW U \in SUBSET T, U # T PROVE Sums(f, U, Of(U))
    BY <1>1, <2>1, Zenon
  <2>2. ASSUME NEW U \in SUBSET T, U # T PROVE sum[U] = sumOf(U)
    <3>1. Sums(f, U, Of(U))
      BY <2>1, <2>2
    <3>2. CASE U = {}
      BY <3>1, <3>2 DEF Sums
    <3>3. CASE U # {}
      <4> DEFINE V == U \ {Pick(U)}
      <4>1. Pick(U) \in U /\ V \in SUBSET T /\ V # T /\ V \in SUBSET U
        BY <2>2, <3>3, PickIn
      <4>2. Sums(f, V, Of(V)) /\ IsFiniteSet(V)
        BY <2>1, <4>1, FS_Subset
      <4>. HIDE DEF Of
      <4>3. Of(U)[V] = Of(V)[V]
        BY <3>1, <4>1, <4>2, SumsAgree
      <4>4. Of(U)[U] = f[Pick(U)] + Of(U)[V]
        BY <3>1, <3>3 DEF Sums
      <4>. QED BY <2>2, <3>3, <4>3, <4>4
    <3>. QED BY <3>2, <3>3
  <2>3. ASSUME NEW U \in SUBSET T, U # {} PROVE sum[U \ {Pick(U)}] = sumOf(U \ {Pick(U)})
    <3>1. Pick(U) \in U
      BY <2>3, PickIn
    <3>2. U \ {Pick(U)} \in SUBSET T /\ U \ {Pick(U)} # T
      BY <3>1
    <3>. HIDE DEF sum, sumOf
    <3>. QED BY <2>2, <3>2
  <2>4. Sums(f, T, sum)
    <3>1. \A U \in SUBSET T :
            sum[U] = IF U = {} THEN 0 ELSE f[Pick(U)] + sum[U \ {Pick(U)}]
      <4>. HIDE DEF sumOf
      <4>. QED BY <2>3
    <3>2. sum = [U \in SUBSET T |-> sum[U]]
      OBVIOUS
    <3>. HIDE DEF sum
    <3>. QED BY <3>1, <3>2 DEF Sums
  <2>. QED BY <2>4
<1>2. SUBSET S \subseteq P
  <2>. HIDE DEF P
  <2>. QED BY <1>1, SubsetInduction
<1>. QED BY <1>2

\* The sum may begin with any element.
AnyOrder(f, S, sum) ==
    \A T \in SUBSET S : sum[T] \in Nat /\ \A x \in T : sum[T] = f[x] + sum[T \ {x}]

LEMMA SumsAnyOrder ==
    ASSUME NEW S, IsFiniteSet(S), NEW f, \A x \in S : f[x] \in Nat, NEW sum, Sums(f, S, sum)
    PROVE  AnyOrder(f, S, sum)
<1> DEFINE P == {T \in SUBSET S : sum[T] \in Nat /\ \A x \in T : sum[T] = f[x] + sum[T \ {x}]}
<1>1. ASSUME NEW T \in SUBSET S, \A U \in SUBSET T : U # T => U \in P PROVE T \in P
  <2>1. CASE T = {}
    BY <2>1 DEF Sums
  <2>2. CASE T # {}
    <3>1. PICK c : c = Pick(T)
      OBVIOUS
    <3>2. c \in T /\ sum[T] = f[c] + sum[T \ {c}]
      BY <2>2, <3>1, PickIn DEF Sums
    <3>3. sum[T \ {c}] \in Nat /\ f[c] \in Nat
      BY <1>1, <3>2
    <3>4. ASSUME NEW x \in T, x # c PROVE sum[T] = f[x] + sum[T \ {x}]
      <4>1. sum[T \ {c}] = f[x] + sum[(T \ {c}) \ {x}]
        <5>1. T \ {c} \in P
          BY <1>1, <3>2
        <5>. QED BY <3>4, <5>1
      <4>2. sum[T \ {x}] = f[c] + sum[(T \ {x}) \ {c}]
        <5>1. T \ {x} \in P
          BY <1>1, <3>4
        <5>. QED BY <3>2, <3>4, <5>1
      <4>3. sum[(T \ {x}) \ {c}] = sum[(T \ {c}) \ {x}]
        <5>1. (T \ {x}) \ {c} = (T \ {c}) \ {x}
          OBVIOUS
        <5>. QED BY <5>1
      <4>4. sum[(T \ {c}) \ {x}] \in Nat /\ f[x] \in Nat
        <5>1. (T \ {c}) \ {x} \in P
          BY <1>1, <3>2
        <5>. QED BY <5>1
      <4>. QED BY <3>2, <3>3, <4>1, <4>2, <4>3, <4>4
    <3>5. sum[T] \in Nat
      BY <3>2, <3>3
    <3>. QED BY <3>2, <3>4, <3>5
  <2>. QED BY <2>1, <2>2
<1>2. SUBSET S \subseteq P
  <2>. HIDE DEF P
  <2>. QED BY <1>1, SubsetInduction
<1>. QED BY <1>2 DEF AnyOrder

\* SumFunction is the last of the partial sums.
LEMMA SumIs ==
    ASSUME NEW f, IsFiniteSet(DOMAIN f)
    PROVE  \E sum : Sums(f, DOMAIN f, sum) /\ SumFunction(f) = sum[DOMAIN f]
<1>1. SumFunctionOnSet(f, DOMAIN f) = (CHOOSE sum : Sums(f, DOMAIN f, sum))[DOMAIN f]
  BY Zenon DEF SumFunctionOnSet, FoldFunctionOnSet, MapThenFoldSet, Sums, Pick
<1>2. SumFunction(f) = SumFunctionOnSet(f, DOMAIN f)
  BY DEF SumFunction
<1>3. \E sum : Sums(f, DOMAIN f, sum)
  BY SumsExist
<1>. QED BY <1>1, <1>2, <1>3, Zenon

LEMMA SumAdds ==
    ASSUME NEW S, IsFiniteSet(S), NEW x, x \notin S, NEW f \in [S \cup {x} -> Nat],
           NEW g, g = [y \in S |-> f[y]]
    PROVE  SumFunction(f) = f[x] + SumFunction(g) /\ SumFunction(g) \in Nat
<1> DEFINE T == S \cup {x}
<1>1. DOMAIN f = T /\ DOMAIN g = S /\ IsFiniteSet(T)
  BY FS_AddElement
<1>2. PICK sum : Sums(f, T, sum) /\ SumFunction(f) = sum[T]
  BY <1>1, SumIs
<1>3. PICK tum : Sums(g, S, tum) /\ SumFunction(g) = tum[S]
  BY <1>1, SumIs
<1>4. sum[S] = tum[S]
  BY <1>1, <1>2, <1>3, SumsAgree
<1>5. sum[T] = f[x] + sum[T \ {x}] /\ sum[T \ {x}] \in Nat
  <2>1. (\A y \in T : f[y] \in Nat) /\ x \in T
    OBVIOUS
  <2>2. IsFiniteSet(T) /\ Sums(f, T, sum)
    BY <1>1, <1>2
  <2>3. T \in SUBSET T /\ T \ {x} \in SUBSET T
    OBVIOUS
  <2>. HIDE DEF T
  <2>4. AnyOrder(f, T, sum)
    BY <2>1, <2>2, SumsAnyOrder
  <2>. QED BY <2>1, <2>3, <2>4 DEF AnyOrder
<1>6. T \ {x} = S
  OBVIOUS
<1>. QED BY <1>2, <1>3, <1>4, <1>5, <1>6

\* sum adds f up, in any order.
AddsUp(f, S, sum) ==
    /\ SumFunction(f) = sum[S] /\ sum[{}] = 0
    /\ \A T \in SUBSET S : sum[T] \in Nat /\ \A x \in T : sum[T] = f[x] + sum[T \ {x}]

LEMMA SumParts ==
    ASSUME NEW S, IsFiniteSet(S), NEW f \in [S -> Nat]
    PROVE  \E sum : AddsUp(f, S, sum)
<1>1. PICK sum : Sums(f, S, sum) /\ SumFunction(f) = sum[S]
  BY SumIs
<1>2. \A x \in S : f[x] \in Nat
  OBVIOUS
<1>3. \A T \in SUBSET S : sum[T] \in Nat /\ \A x \in T : sum[T] = f[x] + sum[T \ {x}]
  <2>1. AnyOrder(f, S, sum)
    BY <1>1, <1>2, SumsAnyOrder
  <2>. QED BY <2>1 DEF AnyOrder
<1>4. sum[{}] = 0
  BY <1>1 DEF Sums
<1>. QED BY <1>1, <1>3, <1>4 DEF AddsUp

\* A sum of smaller numbers is smaller.
LEMMA SumLess ==
    ASSUME NEW S, IsFiniteSet(S), NEW f \in [S -> Nat], NEW g \in [S -> Nat],
           \A x \in S : f[x] <= g[x]
    PROVE  SumFunction(f) <= SumFunction(g)
<1>1. PICK sum : AddsUp(f, S, sum)
  BY SumParts
<1>2. PICK tum : AddsUp(g, S, tum)
  BY SumParts
<1> DEFINE P == {T \in SUBSET S : sum[T] <= tum[T]}
<1>4. ASSUME NEW T \in SUBSET S, \A U \in SUBSET T : U # T => U \in P PROVE T \in P
  <2>1. CASE T = {}
    BY <1>1, <1>2, <2>1 DEF AddsUp
  <2>2. CASE T # {}
    <3>1. PICK x \in T : TRUE
      BY <2>2
    <3>2. sum[T \ {x}] <= tum[T \ {x}]
      BY <1>4, <3>1
    <3>3. sum[T \ {x}] \in Nat /\ tum[T \ {x}] \in Nat /\ f[x] \in Nat /\ g[x] \in Nat
      BY <1>1, <1>2, <3>1 DEF AddsUp
    <3>4. sum[T] = f[x] + sum[T \ {x}] /\ tum[T] = g[x] + tum[T \ {x}]
      BY <1>1, <1>2, <3>1 DEF AddsUp
    <3>. QED BY <3>1, <3>2, <3>3, <3>4
  <2>. QED BY <2>1, <2>2
<1>5. SUBSET S \subseteq P
  <2>. HIDE DEF P
  <2>. QED BY <1>4, SubsetInduction
<1>. QED BY <1>1, <1>2, <1>5 DEF AddsUp

\* f on a part of its domain.
Part(f, S) == [y \in S |-> f[y]]

LEMMA SumSplits ==
    ASSUME NEW U, IsFiniteSet(U), NEW f \in [U -> Nat], NEW x \in U, NEW S, S = U \ {x}
    PROVE  SumFunction(f) = f[x] + SumFunction(Part(f, S)) /\ SumFunction(Part(f, S)) \in Nat
<1>1. PICK g : g = Part(f, S)
  OBVIOUS
<1>2. IsFiniteSet(S) /\ x \notin S /\ U = S \cup {x}
  BY FS_Subset
<1>3. f \in [S \cup {x} -> Nat]
  BY <1>2
<1>4. g = [y \in S |-> f[y]]
  BY <1>1 DEF Part
<1>5. SumFunction(f) = f[x] + SumFunction(g) /\ SumFunction(g) \in Nat
  BY <1>2, <1>3, <1>4, SumAdds
<1>. QED BY <1>1, <1>5

\* Two families that differ at one place.
LEMMA SumDiffers ==
    ASSUME NEW S, IsFiniteSet(S), NEW f \in [S -> Nat], NEW g \in [S -> Nat], NEW x \in S,
           Part(g, S \ {x}) = Part(f, S \ {x})
    PROVE  /\ SumFunction(g) + f[x] = SumFunction(f) + g[x]
           /\ SumFunction(f) \in Nat /\ SumFunction(g) \in Nat
<1>1. PICK T : T = S \ {x}
  OBVIOUS
<1>2. g[x] \in Nat /\ f[x] \in Nat
  OBVIOUS
<1>3. Part(g, T) = Part(f, T)
  BY <1>1
<1>4. SumFunction(f) = f[x] + SumFunction(Part(f, T)) /\ SumFunction(Part(f, T)) \in Nat
  BY <1>1, SumSplits
<1>5. SumFunction(g) = g[x] + SumFunction(Part(g, T)) /\ SumFunction(Part(g, T)) \in Nat
  BY <1>1, SumSplits
<1>. QED BY <1>2, <1>3, <1>4, <1>5

\* The sum of no numbers, and of a sequence of numbers one longer.
LEMMA SumOfNone == ASSUME NEW f, DOMAIN f = {} PROVE SumFunction(f) = 0
<1>1. IsFiniteSet({})
  BY FS_EmptySet
<1>2. PICK sum : Sums(f, {}, sum) /\ SumFunction(f) = sum[{}]
  BY <1>1, SumIs
<1>. QED BY <1>2 DEF Sums

LEMMA SumNat ==
    ASSUME NEW S, IsFiniteSet(S), NEW f \in [S -> Nat]
    PROVE  SumFunction(f) \in Nat
<1>1. PICK sum : AddsUp(f, S, sum)
  BY SumParts
<1>. QED BY <1>1 DEF AddsUp

LEMMA SumAppends ==
    ASSUME NEW n \in Nat, NEW f \in [1..(n + 1) -> Nat], NEW g, g = [i \in 1..n |-> f[i]]
    PROVE  SumFunction(f) = SumFunction(g) + f[n + 1] /\ SumFunction(g) \in Nat
<1>1. PICK U, S, k : U = 1..(n + 1) /\ S = 1..n /\ k = n + 1
  OBVIOUS
<1>2. IsFiniteSet(U) /\ k \in U /\ S = U \ {k}
  <2>1. n + 1 \in Int /\ 1 \in Int
    OBVIOUS
  <2>2. IsFiniteSet(1..(n + 1))
    BY <2>1, FS_Interval
  <2>. QED BY <1>1, <2>2
<1>3. f \in [U -> Nat] /\ g = Part(f, S)
  BY <1>1 DEF Part
<1>4. SumFunction(f) = f[k] + SumFunction(Part(f, S)) /\ SumFunction(Part(f, S)) \in Nat
  <2>. HIDE <1>1
  <2>. QED BY <1>2, <1>3, SumSplits
<1>5. f[k] \in Nat
  BY <1>2, <1>3
<1>. QED BY <1>1, <1>3, <1>4, <1>5
=============================================================================
