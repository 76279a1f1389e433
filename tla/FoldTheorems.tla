----------------------------- MODULE FoldTheorems -----------------------------
(***************************************************************************)
(* Facts about folds over finite sets: SumFunctionOnSet and SumFunction of *)
(* the community module Functions, for functions that take natural numbers *)
(* on a finite set, and folds that take the greatest number of a set last, *)
(* with the facts about greatest and least elements they need.             *)
(*                                                                         *)
(* The operators are defined by a recursive function over the subsets of   *)
(* the index set.  The sum of f over S is the number of elements of a pile *)
(* that holds f[x] elements for each x in S; the number of elements of the *)
(* pile of every subset satisfies the recursion, and on a finite set only  *)
(* one function does.                                                      *)
(***************************************************************************)
EXTENDS Integers, FiniteSets, FiniteSetsExt, Functions, TLAPS, FiniteSetTheorems, WellFoundedInduction


Pile(f, S) == {p \in S \X Nat : p[2] < f[p[1]]}

\* f takes natural numbers on the finite set S.
Summable(f, S) == IsFiniteSet(S) /\ \A x \in S : f[x] \in Nat

\* The column of one element holds f[x] elements.
LEMMA ColumnSize ==
  ASSUME NEW f, NEW x, f[x] \in Nat
  PROVE  IsFiniteSet(Pile(f, {x})) /\ Cardinality(Pile(f, {x})) = f[x]
PROOF
  <1> DEFINE g == [n \in 1 .. f[x] |-> <<x, n - 1>>]
  <1>1. \A n \in 1 .. f[x] : g[n] \in Pile(f, {x})
    BY DEF Pile
  <1>2. \A m, n \in 1 .. f[x] : g[m] = g[n] => m = n
    OBVIOUS
  <1>3. ASSUME NEW p \in Pile(f, {x})
        PROVE  \E n \in 1 .. f[x] : g[n] = p
    <2>1. p = <<x, p[2]>> /\ p[2] \in Nat /\ p[2] < f[x]
      BY DEF Pile
    <2>2. p[2] + 1 \in 1 .. f[x] /\ g[p[2] + 1] = <<x, p[2]>>
      BY <2>1
    <2> QED BY <2>1, <2>2
  <1>4. g \in Bijection(1 .. f[x], Pile(f, {x}))
    BY <1>1, <1>2, <1>3 DEF Bijection, Injection, Surjection, IsInjective
  <1> HIDE DEF g
  <1>5. IsFiniteSet(1 .. f[x]) /\ Cardinality(1 .. f[x]) = f[x]
    BY FS_Interval
  <1> QED BY <1>4, <1>5, FS_Bijection DEF ExistsBijection

\* Adding an element adds its column.
LEMMA PileGrows ==
  ASSUME NEW f, NEW S, NEW x \in S, f[x] \in Nat, IsFiniteSet(Pile(f, S \ {x}))
  PROVE  /\ IsFiniteSet(Pile(f, S))
         /\ Cardinality(Pile(f, S)) = f[x] + Cardinality(Pile(f, S \ {x}))
PROOF
  <1>1. Pile(f, S) = Pile(f, S \ {x}) \cup Pile(f, {x})
    BY DEF Pile
  <1>2. Pile(f, S \ {x}) \cap Pile(f, {x}) = {}
    BY DEF Pile
  <1>3. IsFiniteSet(Pile(f, {x})) /\ Cardinality(Pile(f, {x})) = f[x]
    BY ColumnSize
  <1>4. /\ IsFiniteSet(Pile(f, S))
        /\ Cardinality(Pile(f, S)) = Cardinality(Pile(f, S \ {x})) + Cardinality(Pile(f, {x}))
                                       - Cardinality(Pile(f, S \ {x}) \cap Pile(f, {x}))
    BY <1>1, <1>3, FS_Union
  <1>5. Cardinality({}) = 0
    BY FS_EmptySet
  <1>6. Cardinality(Pile(f, S \ {x})) \in Nat
    BY FS_CardinalityType
  <1>7. Cardinality(Pile(f, S)) = Cardinality(Pile(f, S \ {x})) + f[x] - 0
    BY <1>2, <1>3, <1>4, <1>5
  <1> QED BY <1>4, <1>6, <1>7

\* The pile of a finite set is finite, by minimal counterexample.
LEMMA PileFinite ==
  ASSUME NEW f, NEW S, Summable(f, S)
  PROVE  IsFiniteSet(Pile(f, S))
PROOF
  <1> DEFINE Bad == {U \in FiniteSubsetsOf(S) : ~ IsFiniteSet(Pile(f, U))}
  <1>1. Bad = {}
    <2> SUFFICES ASSUME Bad # {} PROVE FALSE
      OBVIOUS
    <2>1. Bad \subseteq FiniteSubsetsOf(S)
      OBVIOUS
    <2>2. IsWellFoundedOn(StrictSubsetOrdering(S), FiniteSubsetsOf(S))
      BY FS_StrictSubsetOrderingWellFounded
    <2>3. PICK U \in Bad : \A V \in Bad : <<V, U>> \notin StrictSubsetOrdering(S)
      <3> HIDE DEF Bad
      <3> QED BY <2>1, <2>2, WFMin
    <2>4. U \in SUBSET S /\ IsFiniteSet(U) /\ ~ IsFiniteSet(Pile(f, U))
      BY DEF FiniteSubsetsOf
    <2>5. U # {}
      <3>1. Pile(f, {}) = {}
        BY DEF Pile
      <3> QED BY <2>4, <3>1, FS_EmptySet
    <2>6. PICK x \in U : TRUE
      BY <2>5
    <2>7. IsFiniteSet(U \ {x}) /\ U \ {x} \in SUBSET S
      BY <2>4, FS_RemoveElement
    <2>8. <<U \ {x}, U>> \in StrictSubsetOrdering(S)
      BY <2>4, <2>7 DEF StrictSubsetOrdering
    <2>9. U \ {x} \notin Bad
      BY <2>3, <2>8
    <2>10. IsFiniteSet(Pile(f, U \ {x}))
      BY <2>7, <2>9 DEF FiniteSubsetsOf
    <2> QED BY <2>4, <2>10, PileGrows DEF Summable
  <1>2. S \in FiniteSubsetsOf(S)
    BY DEF FiniteSubsetsOf, Summable
  <1> QED BY <1>1, <1>2

-----------------------------------------------------------------------------
\* h is the recursive function that sums f over the subsets of S.
Sums(f, S, h) ==
  h = [s \in SUBSET S |->
         IF s = {} THEN 0
         ELSE f[CHOOSE x \in s : TRUE] + h[s \ {CHOOSE x \in s : TRUE}]]

\* The sizes of the piles satisfy the recursion.
LEMMA SumsExist ==
  ASSUME NEW f, NEW S, Summable(f, S)
  PROVE  \E h : Sums(f, S, h)
PROOF
  <1> DEFINE h == [s \in SUBSET S |-> Cardinality(Pile(f, s))]
             r(s) == IF s = {} THEN 0
                     ELSE f[CHOOSE x \in s : TRUE] + h[s \ {CHOOSE x \in s : TRUE}]
  <1>1. ASSUME NEW s \in SUBSET S
        PROVE  h[s] = r(s)
    <2>1. CASE s = {}
      <3>1. Pile(f, {}) = {}
        BY DEF Pile
      <3> QED BY <2>1, <3>1, FS_EmptySet
    <2>2. CASE s # {}
      <3> DEFINE x == CHOOSE y \in s : TRUE
      <3>1. x \in s
        BY <2>2
      <3> HIDE DEF x
      <3>2. Summable(f, s \ {x}) /\ f[x] \in Nat
        BY <3>1, FS_Subset DEF Summable
      <3>3. h[s] = f[x] + h[s \ {x}]
        BY <3>1, <3>2, PileFinite, PileGrows
      <3> QED BY <2>2, <3>3 DEF x
    <2> QED BY <2>1, <2>2
  <1>2. h = [s \in SUBSET S |-> r(s)]
    <2> HIDE DEF r
    <2> QED BY <1>1
  <1>3. Sums(f, S, h)
    BY <1>2 DEF Sums
  <1> HIDE DEF h
  <1> QED BY <1>3

\* Only the sizes of the piles satisfy the recursion, by minimal counterexample.
LEMMA SumsUnique ==
  ASSUME NEW f, NEW S, Summable(f, S), NEW h, Sums(f, S, h)
  PROVE  h[S] = Cardinality(Pile(f, S))
PROOF
  <1> DEFINE Bad == {U \in FiniteSubsetsOf(S) : h[U] # Cardinality(Pile(f, U))}
  <1>1. Bad = {}
    <2> SUFFICES ASSUME Bad # {} PROVE FALSE
      OBVIOUS
    <2>1. Bad \subseteq FiniteSubsetsOf(S)
      OBVIOUS
    <2>2. IsWellFoundedOn(StrictSubsetOrdering(S), FiniteSubsetsOf(S))
      BY FS_StrictSubsetOrderingWellFounded
    <2>3. PICK U \in Bad : \A V \in Bad : <<V, U>> \notin StrictSubsetOrdering(S)
      <3> HIDE DEF Bad
      <3> QED BY <2>1, <2>2, WFMin
    <2>4. U \in SUBSET S /\ IsFiniteSet(U) /\ h[U] # Cardinality(Pile(f, U))
      BY DEF FiniteSubsetsOf
    <2>5. h[{}] = 0
      BY DEF Sums
    <2>6. U # {}
      <3>1. Pile(f, {}) = {}
        BY DEF Pile
      <3> QED BY <2>4, <2>5, <3>1, FS_EmptySet
    <2> DEFINE x == CHOOSE y \in U : TRUE
    <2>7. x \in U
      BY <2>6
    <2>8. h[U] = f[x] + h[U \ {x}]
      BY <2>4, <2>6 DEF Sums
    <2> HIDE DEF x
    <2>9. IsFiniteSet(U \ {x}) /\ U \ {x} \in SUBSET S
      BY <2>4, FS_RemoveElement
    <2>10. <<U \ {x}, U>> \in StrictSubsetOrdering(S)
      BY <2>4, <2>7, <2>9 DEF StrictSubsetOrdering
    <2>11. U \ {x} \notin Bad
      BY <2>3, <2>10
    <2>12. h[U \ {x}] = Cardinality(Pile(f, U \ {x}))
      BY <2>9, <2>11 DEF FiniteSubsetsOf
    <2>13. Summable(f, U \ {x}) /\ f[x] \in Nat
      BY <2>4, <2>7, <2>9 DEF Summable
    <2>14. Cardinality(Pile(f, U)) = f[x] + Cardinality(Pile(f, U \ {x}))
      BY <2>7, <2>13, PileFinite, PileGrows
    <2> QED BY <2>4, <2>8, <2>12, <2>14
  <1>2. S \in FiniteSubsetsOf(S)
    BY DEF FiniteSubsetsOf, Summable
  <1> QED BY <1>1, <1>2

LEMMA SumIsPileSize ==
  ASSUME NEW f, NEW S, Summable(f, S)
  PROVE  SumFunctionOnSet(f, S) = Cardinality(Pile(f, S))
PROOF
  <1> DEFINE it == CHOOSE h : Sums(f, S, h)
  <1>1. Sums(f, S, it)
    BY SumsExist
  <1>2. SumFunctionOnSet(f, S) = it[S]
    BY DEF SumFunctionOnSet, FoldFunctionOnSet, MapThenFoldSet, Sums
  <1> HIDE DEF it
  <1> QED BY <1>1, <1>2, SumsUnique

-----------------------------------------------------------------------------
(* What the sums of natural numbers satisfy.                               *)

\* A sum of natural numbers is one.
LEMMA SumType ==
  ASSUME NEW f, NEW S, Summable(f, S)
  PROVE  SumFunctionOnSet(f, S) \in Nat
BY SumIsPileSize, PileFinite, FS_CardinalityType

\* The empty sum.
LEMMA SumEmpty ==
  ASSUME NEW f
  PROVE  SumFunctionOnSet(f, {}) = 0
PROOF
  <1>1. Summable(f, {})
    BY FS_EmptySet DEF Summable
  <1>2. Pile(f, {}) = {}
    BY DEF Pile
  <1> QED BY <1>1, <1>2, SumIsPileSize, FS_EmptySet

\* The sum of zeros.
LEMMA SumZero ==
  ASSUME NEW f, NEW S, Summable(f, S), \A x \in S : f[x] = 0
  PROVE  SumFunctionOnSet(f, S) = 0
PROOF
  <1>1. Pile(f, S) = {}
    BY DEF Pile
  <1> QED BY <1>1, SumIsPileSize, FS_EmptySet

\* A sum is one of its terms and the sum of the others.
LEMMA SumSplit ==
  ASSUME NEW f, NEW S, Summable(f, S), NEW x \in S
  PROVE  /\ Summable(f, S \ {x})
         /\ SumFunctionOnSet(f, S) = f[x] + SumFunctionOnSet(f, S \ {x})
PROOF
  <1>1. Summable(f, S \ {x}) /\ f[x] \in Nat
    BY FS_RemoveElement DEF Summable
  <1> QED BY <1>1, SumIsPileSize, PileFinite, PileGrows

\* Only the terms matter.
LEMMA SumSame ==
  ASSUME NEW f, NEW g, NEW S, Summable(f, S), \A x \in S : g[x] = f[x]
  PROVE  Summable(g, S) /\ SumFunctionOnSet(g, S) = SumFunctionOnSet(f, S)
PROOF
  <1>1. Summable(g, S)
    BY DEF Summable
  <1>2. Pile(g, S) = Pile(f, S)
    BY DEF Pile
  <1> QED BY <1>1, <1>2, SumIsPileSize

\* A larger set has a larger sum.
LEMMA SumMonotone ==
  ASSUME NEW f, NEW S, NEW T, Summable(f, T), S \subseteq T
  PROVE  Summable(f, S) /\ SumFunctionOnSet(f, S) <= SumFunctionOnSet(f, T)
PROOF
  <1>1. Summable(f, S)
    BY FS_Subset DEF Summable
  <1>2. Pile(f, S) \subseteq Pile(f, T)
    BY DEF Pile
  <1> QED BY <1>1, <1>2, SumIsPileSize, PileFinite, FS_Subset

\* The sum over a union is at most the sum of the sums.
LEMMA SumUnion ==
  ASSUME NEW f, NEW S, NEW T, Summable(f, S), Summable(f, T)
  PROVE  /\ Summable(f, S \cup T)
         /\ SumFunctionOnSet(f, S \cup T) <= SumFunctionOnSet(f, S) + SumFunctionOnSet(f, T)
PROOF
  <1>1. Summable(f, S \cup T)
    BY FS_Union DEF Summable
  <1>2. Pile(f, S \cup T) = Pile(f, S) \cup Pile(f, T)
    BY DEF Pile
  <1>3. IsFiniteSet(Pile(f, S)) /\ IsFiniteSet(Pile(f, T))
    BY PileFinite
  <1>4. IsFiniteSet(Pile(f, S) \cap Pile(f, T))
    BY <1>3, FS_Subset
  <1>5. /\ Cardinality(Pile(f, S)) \in Nat /\ Cardinality(Pile(f, T)) \in Nat
        /\ Cardinality(Pile(f, S) \cap Pile(f, T)) \in Nat
    BY <1>3, <1>4, FS_CardinalityType
  <1>6. Cardinality(Pile(f, S \cup T)) =
          Cardinality(Pile(f, S)) + Cardinality(Pile(f, T))
            - Cardinality(Pile(f, S) \cap Pile(f, T))
    BY <1>2, <1>3, FS_Union
  <1>7. Cardinality(Pile(f, S \cup T)) <= Cardinality(Pile(f, S)) + Cardinality(Pile(f, T))
    BY <1>5, <1>6
  <1> QED BY <1>1, <1>7, SumIsPileSize

\* A sum does not depend on the order of its summands.
LEMMA SumPermuted ==
  ASSUME NEW f, NEW S, Summable(f, S), NEW p \in Bijection(S, S),
         NEW g, \A x \in S : g[x] = f[p[x]]
  PROVE  Summable(g, S) /\ SumFunctionOnSet(g, S) = SumFunctionOnSet(f, S)
PROOF
  <1>1. p \in [S -> S] /\ IsInjective(p) /\ \A t \in S : \E s \in S : p[s] = t
    BY DEF Bijection, Injection, Surjection
  <1>2. Summable(g, S)
    BY <1>1 DEF Summable
  <1> DEFINE move == [q \in Pile(g, S) |-> <<p[q[1]], q[2]>>]
  <1>3. move \in [Pile(g, S) -> Pile(f, S)]
    <2> SUFFICES ASSUME NEW q \in Pile(g, S)
                 PROVE  <<p[q[1]], q[2]>> \in Pile(f, S)
      OBVIOUS
    <2>1. q \in S \X Nat /\ q[2] < g[q[1]]
      BY DEF Pile
    <2>2. p[q[1]] \in S /\ q[2] \in Nat /\ q[2] < f[p[q[1]]]
      BY <1>1, <2>1
    <2> QED BY <2>2 DEF Pile
  <1>4. move \in Injection(Pile(g, S), Pile(f, S))
    <2> SUFFICES ASSUME NEW q \in Pile(g, S), NEW r \in Pile(g, S), move[q] = move[r]
                 PROVE  q = r
      BY <1>3 DEF Injection, IsInjective
    <2>1. q \in S \X Nat /\ r \in S \X Nat
      BY DEF Pile
    <2>2. p[q[1]] = p[r[1]] /\ q[2] = r[2]
      OBVIOUS
    <2>3. q[1] = r[1]
      BY <1>1, <2>1, <2>2 DEF IsInjective
    <2> QED BY <2>1, <2>2, <2>3
  <1>5. move \in Surjection(Pile(g, S), Pile(f, S))
    <2> SUFFICES ASSUME NEW r \in Pile(f, S)
                 PROVE  \E q \in Pile(g, S) : move[q] = r
      BY <1>3 DEF Surjection
    <2>1. r \in S \X Nat /\ r[2] < f[r[1]]
      BY DEF Pile
    <2>2. PICK s \in S : p[s] = r[1]
      BY <1>1, <2>1
    <2>3. <<s, r[2]>> \in Pile(g, S)
      BY <2>1, <2>2 DEF Pile
    <2>4. move[<<s, r[2]>>] = <<r[1], r[2]>>
      BY <2>2, <2>3
    <2> QED BY <2>1, <2>3, <2>4
  <1>6. ExistsBijection(Pile(g, S), Pile(f, S))
    BY <1>4, <1>5 DEF ExistsBijection, Bijection
  <1>7. Cardinality(Pile(f, S)) = Cardinality(Pile(g, S))
    BY <1>2, <1>6, PileFinite, FS_Bijection
  <1> QED BY <1>2, <1>7, SumIsPileSize

\* One term more by one: the sum is more by one.
LEMMA SumPlusOne ==
  ASSUME NEW f, NEW g, NEW S, Summable(f, S), NEW x \in S,
         g[x] = f[x] + 1, \A y \in S \ {x} : g[y] = f[y]
  PROVE  Summable(g, S) /\ SumFunctionOnSet(g, S) = SumFunctionOnSet(f, S) + 1
PROOF
  <1>1. f[x] \in Nat /\ Summable(g, S)
    BY DEF Summable
  <1>2. /\ Summable(f, S \ {x})
        /\ SumFunctionOnSet(f, S) = f[x] + SumFunctionOnSet(f, S \ {x})
    BY SumSplit
  <1>3. SumFunctionOnSet(g, S) = g[x] + SumFunctionOnSet(g, S \ {x})
    BY <1>1, SumSplit
  <1>4. SumFunctionOnSet(g, S \ {x}) = SumFunctionOnSet(f, S \ {x})
    BY <1>2, SumSame
  <1>5. SumFunctionOnSet(f, S \ {x}) \in Nat
    BY <1>2, SumType
  <1> QED BY <1>1, <1>2, <1>3, <1>4, <1>5

-----------------------------------------------------------------------------
(* First, greatest and least elements.                                     *)

\* A finite set whose elements are ordered one before the other has a first element,
\* by minimal counterexample.
LEMMA FiniteHasFirst ==
  ASSUME NEW S, IsFiniteSet(S), S # {}, NEW R,
         \A x, y \in S : x # y => <<x, y>> \in R \/ <<y, x>> \in R,
         \A x, y, z \in S : <<x, y>> \in R /\ <<y, z>> \in R => <<x, z>> \in R
  PROVE  \E m \in S : \A t \in S \ {m} : <<m, t>> \in R
PROOF
  <1> DEFINE First(U) == \E m \in U : \A t \in U \ {m} : <<m, t>> \in R
             Bad == {U \in FiniteSubsetsOf(S) : U # {} /\ ~ First(U)}
  <1>1. Bad = {}
    <2> SUFFICES ASSUME Bad # {} PROVE FALSE
      OBVIOUS
    <2>1. Bad \subseteq FiniteSubsetsOf(S)
      OBVIOUS
    <2>2. IsWellFoundedOn(StrictSubsetOrdering(S), FiniteSubsetsOf(S))
      BY FS_StrictSubsetOrderingWellFounded
    <2>3. PICK U \in Bad : \A V \in Bad : <<V, U>> \notin StrictSubsetOrdering(S)
      <3> HIDE DEF Bad
      <3> QED BY <2>1, <2>2, WFMin
    <2>4. U \in SUBSET S /\ IsFiniteSet(U) /\ U # {} /\ ~ First(U)
      BY DEF FiniteSubsetsOf
    <2>5. PICK x \in U : TRUE
      BY <2>4
    <2> DEFINE V == U \ {x}
    <2>6. V \in FiniteSubsetsOf(S) /\ <<V, U>> \in StrictSubsetOrdering(S)
      BY <2>4, <2>5, FS_RemoveElement DEF FiniteSubsetsOf, StrictSubsetOrdering
    <2>7. V = {} \/ First(V)
      BY <2>3, <2>6
    <2>8. CASE V = {}
      BY <2>4, <2>5, <2>8
    <2>9. CASE First(V)
      <3>1. PICK m \in V : \A t \in V \ {m} : <<m, t>> \in R
        BY <2>9
      <3>2. m \in S /\ x \in S /\ m # x /\ V \subseteq S
        BY <2>4, <3>1
      <3>3. CASE <<m, x>> \in R
        <4>1. m \in U /\ \A t \in U \ {m} : <<m, t>> \in R
          BY <3>1, <3>3
        <4> QED BY <2>4, <4>1
      <3>4. CASE <<x, m>> \in R
        <4>1. \A t \in U \ {x} : <<x, t>> \in R
          <5> SUFFICES ASSUME NEW t \in V PROVE <<x, t>> \in R
            OBVIOUS
          <5> QED BY <3>1, <3>2, <3>4
        <4> QED BY <2>4, <2>5, <4>1
      <3> QED BY <3>2, <3>3, <3>4
    <2> QED BY <2>7, <2>8, <2>9
  <1>2. S \in FiniteSubsetsOf(S)
    BY DEF FiniteSubsetsOf
  <1>3. First(S)
    BY <1>1, <1>2
  <1> QED BY <1>3

HasMax(T) == \E m \in T : \A t \in T : m >= t
HasMin(T) == \E m \in T : \A t \in T : m <= t

LEMMA FiniteHasBounds ==
  ASSUME NEW S \in SUBSET Int, IsFiniteSet(S), S # {}
  PROVE  HasMax(S) /\ HasMin(S)
PROOF
  <1> DEFINE Later == {p \in S \X S : p[1] >= p[2]}
             Earlier == {p \in S \X S : p[1] <= p[2]}
  <1>1. \A x, y \in S : /\ <<x, y>> \in Later <=> x >= y
                        /\ <<x, y>> \in Earlier <=> x <= y
    OBVIOUS
  <1> HIDE DEF Later, Earlier
  <1>2. \E m \in S : \A t \in S \ {m} : <<m, t>> \in Later
    <2>1. \A x, y \in S : x # y => <<x, y>> \in Later \/ <<y, x>> \in Later
      BY <1>1
    <2>2. \A x, y, z \in S : <<x, y>> \in Later /\ <<y, z>> \in Later => <<x, z>> \in Later
      BY <1>1
    <2> QED BY <2>1, <2>2, FiniteHasFirst
  <1>3. \E m \in S : \A t \in S \ {m} : <<m, t>> \in Earlier
    <2>1. \A x, y \in S : x # y => <<x, y>> \in Earlier \/ <<y, x>> \in Earlier
      BY <1>1
    <2>2. \A x, y, z \in S : <<x, y>> \in Earlier /\ <<y, z>> \in Earlier => <<x, z>> \in Earlier
      BY <1>1
    <2> QED BY <2>1, <2>2, FiniteHasFirst
  <1>4. HasMax(S)
    <2>1. PICK m \in S : \A t \in S \ {m} : <<m, t>> \in Later
      BY <1>2
    <2>2. \A t \in S : m >= t
      <3> SUFFICES ASSUME NEW t \in S PROVE m >= t
        OBVIOUS
      <3>1. m \in Int /\ t \in Int
        OBVIOUS
      <3>2. CASE t = m
        BY <3>1, <3>2
      <3>3. CASE t # m
        BY <1>1, <2>1, <3>3
      <3> QED BY <3>2, <3>3
    <2> QED BY <2>2 DEF HasMax
  <1>5. HasMin(S)
    <2>1. PICK m \in S : \A t \in S \ {m} : <<m, t>> \in Earlier
      BY <1>3
    <2>2. \A t \in S : m <= t
      <3> SUFFICES ASSUME NEW t \in S PROVE m <= t
        OBVIOUS
      <3>1. m \in Int /\ t \in Int
        OBVIOUS
      <3>2. CASE t = m
        BY <3>1, <3>2
      <3>3. CASE t # m
        BY <1>1, <2>1, <3>3
      <3> QED BY <3>2, <3>3
    <2> QED BY <2>2 DEF HasMin
  <1> QED BY <1>4, <1>5

LEMMA MaxFacts ==
  ASSUME NEW S \in SUBSET Int, IsFiniteSet(S), S # {}
  PROVE  /\ Max(S) \in S /\ \A t \in S : Max(S) >= t
         /\ \A m \in S : (\A t \in S : m >= t) => Max(S) = m
PROOF
  <1>1. Max(S) \in S /\ \A t \in S : Max(S) >= t
    BY FiniteHasBounds DEF HasMax, Max
  <1>2. ASSUME NEW m \in S, \A t \in S : m >= t
        PROVE  Max(S) = m
    <2>1. Max(S) >= m /\ m >= Max(S) /\ m \in Int /\ Max(S) \in Int
      BY <1>1, <1>2
    <2> HIDE DEF Max
    <2> QED BY <2>1
  <1> QED BY <1>1, <1>2

LEMMA MaxOfTwo ==
  ASSUME NEW m \in Int, NEW n \in Int, m >= n
  PROVE  Max({m, n}) = m
PROOF
  <1> DEFINE T == {m, n}
  <1>1. IsFiniteSet(T)
    <2>1. IsFiniteSet({m})
      BY FS_Singleton
    <2>2. IsFiniteSet({m} \cup {n})
      BY <2>1, FS_AddElement
    <2>3. T = {m} \cup {n}
      OBVIOUS
    <2> QED BY <2>2, <2>3
  <1>2. T \in SUBSET Int /\ m \in T /\ \A t \in T : m >= t
    OBVIOUS
  <1> HIDE DEF T
  <1>3. Max(T) = m
    BY <1>1, <1>2, MaxFacts
  <1> QED BY <1>3 DEF T

LEMMA MinFacts ==
  ASSUME NEW S \in SUBSET Int, IsFiniteSet(S), S # {}
  PROVE  Min(S) \in S /\ \A t \in S : Min(S) <= t
BY FiniteHasBounds DEF HasMin, Min

\* Two functions of the sets of times that agree on the empty set, and agree on a
\* set when they agree on it without its last time, agree.
LEMMA AgreeChronologically ==
  ASSUME NEW S \in SUBSET Int, IsFiniteSet(S), NEW g, NEW h, g[{}] = h[{}],
         \A U \in SUBSET S : U # {} /\ g[U \ {Max(U)}] = h[U \ {Max(U)}] => g[U] = h[U]
  PROVE  g[S] = h[S]
PROOF
  <1> DEFINE Bad == {U \in FiniteSubsetsOf(S) : g[U] # h[U]}
  <1>1. Bad = {}
    <2> SUFFICES ASSUME Bad # {} PROVE FALSE
      OBVIOUS
    <2>1. Bad \subseteq FiniteSubsetsOf(S)
      OBVIOUS
    <2>2. IsWellFoundedOn(StrictSubsetOrdering(S), FiniteSubsetsOf(S))
      BY FS_StrictSubsetOrderingWellFounded
    <2>3. PICK U \in Bad : \A V \in Bad : <<V, U>> \notin StrictSubsetOrdering(S)
      <3> HIDE DEF Bad
      <3> QED BY <2>1, <2>2, WFMin
    <2>4. U \in SUBSET S /\ IsFiniteSet(U) /\ g[U] # h[U] /\ U # {}
      BY DEF FiniteSubsetsOf
    <2> DEFINE V == U \ {Max(U)}
    <2>5. Max(U) \in U
      BY <2>4, MaxFacts
    <2>6. V \in FiniteSubsetsOf(S) /\ <<V, U>> \in StrictSubsetOrdering(S)
      BY <2>4, <2>5, FS_RemoveElement DEF FiniteSubsetsOf, StrictSubsetOrdering
    <2>7. g[V] = h[V]
      BY <2>3, <2>6
    <2> QED BY <2>4, <2>7
  <1>2. S \in FiniteSubsetsOf(S)
    BY DEF FiniteSubsetsOf
  <1> QED BY <1>1, <1>2

\* What holds of the empty set, and of a set when it holds of it without its greatest
\* number, holds of a finite set: Good has the subsets of which it holds.
LEMMA HoldsChronologically ==
  ASSUME NEW S \in SUBSET Int, IsFiniteSet(S), NEW Good, {} \in Good,
         \A U \in SUBSET S : U # {} /\ U \ {Max(U)} \in Good => U \in Good
  PROVE  S \in Good
PROOF
  <1> DEFINE g == [U \in SUBSET S |-> U \in Good]
             h == [U \in SUBSET S |-> TRUE]
  <1>1. \A U \in SUBSET S : U \ {Max(U)} \in SUBSET S
    OBVIOUS
  <1>2. /\ g[{}] = h[{}]
        /\ \A U \in SUBSET S : U # {} /\ g[U \ {Max(U)}] = h[U \ {Max(U)}] => g[U] = h[U]
    <2>1. \A U \in SUBSET S : g[U] = (U \in Good) /\ h[U] = TRUE
      OBVIOUS
    <2> HIDE DEF g, h
    <2> QED BY <1>1, <2>1
  <1>3. g[S] = h[S]
    <2> HIDE DEF g, h
    <2> QED BY <1>2, AgreeChronologically
  <1> QED BY <1>3

\* A fold that adds a term for each element, the greatest one last, is a sum.
LeftSums(f, S, h) ==
  h = [U \in SUBSET S |-> IF U = {} THEN 0 ELSE h[U \ {Max(U)}] + f[Max(U)]]

LEMMA LeftSumsAre ==
  ASSUME NEW S \in SUBSET Int, NEW f, Summable(f, S)
  PROVE  /\ \E h : LeftSums(f, S, h)
         /\ \A h : LeftSums(f, S, h) => h[S] = SumFunctionOnSet(f, S)
PROOF
  <1> DEFINE g == [U \in SUBSET S |-> SumFunctionOnSet(f, U)]
  <1>1. ASSUME NEW U \in SUBSET S, U # {}
        PROVE  /\ Max(U) \in U /\ U \ {Max(U)} \in SUBSET S
               /\ g[U] = g[U \ {Max(U)}] + f[Max(U)]
    <2>1. IsFiniteSet(U) /\ U \in SUBSET Int
      BY FS_Subset DEF Summable
    <2>2. Max(U) \in U
      BY <1>1, <2>1, MaxFacts
    <2>3. Summable(f, U)
      BY <2>1 DEF Summable
    <2> DEFINE x == Max(U)
               V == U \ {x}
    <2> HIDE DEF x
    <2>4. /\ Summable(f, V) /\ SumFunctionOnSet(f, U) = f[x] + SumFunctionOnSet(f, V)
      BY <2>2, <2>3, SumSplit DEF x
    <2>5. SumFunctionOnSet(f, V) \in Nat /\ f[x] \in Nat
      BY <2>2, <2>3, <2>4, SumType DEF Summable, x
    <2>6. g[U] = g[V] + f[x]
      <3>1. V \in SUBSET S
        OBVIOUS
      <3>2. g[U] = SumFunctionOnSet(f, U) /\ g[V] = SumFunctionOnSet(f, V)
        BY <3>1
      <3> HIDE DEF g, V
      <3> QED BY <2>4, <2>5, <3>2
    <2> QED BY <2>2, <2>6 DEF x
  <1>2. g[{}] = 0
    BY SumEmpty
  <1> DEFINE r(U) == IF U = {} THEN 0 ELSE g[U \ {Max(U)}] + f[Max(U)]
  <1>3. \A U \in SUBSET S : g[U] = r(U)
    <2> HIDE DEF g
    <2> QED BY <1>1, <1>2
  <1>4. g = [U \in SUBSET S |-> r(U)]
    <2> HIDE DEF r
    <2> QED BY <1>3
  <1>5. LeftSums(f, S, g)
    BY <1>4 DEF LeftSums
  <1>6. g[S] = SumFunctionOnSet(f, S)
    OBVIOUS
  <1> HIDE DEF g
  <1>7. ASSUME NEW h, LeftSums(f, S, h)
        PROVE  h[S] = g[S]
    <2>1. g[{}] = h[{}]
      BY <1>2, <1>7 DEF LeftSums
    <2>2. ASSUME NEW U \in SUBSET S, U # {}, g[U \ {Max(U)}] = h[U \ {Max(U)}]
          PROVE  g[U] = h[U]
      BY <1>1, <1>7, <2>2 DEF LeftSums
    <2>3. IsFiniteSet(S)
      BY DEF Summable
    <2> QED BY <2>1, <2>2, <2>3, AgreeChronologically
  <1> QED BY <1>5, <1>6, <1>7

\* What holds of zero, and of the successor of a number below N of which it holds,
\* holds of N: Good has the numbers of which it holds.
LEMMA HoldsUpTo ==
  ASSUME NEW N \in Nat, NEW Good, 0 \in Good,
         \A n \in 0 .. N : n < N /\ n \in Good => n + 1 \in Good
  PROVE  N \in Good
PROOF
  <1> DEFINE Bad == {n \in 0 .. N : n \notin Good}
  <1>1. SUFFICES ASSUME N \notin Good PROVE FALSE
    OBVIOUS
  <1>2. IsFiniteSet(Bad) /\ Bad \in SUBSET Int /\ N \in Bad
    <2>1. IsFiniteSet(0 .. N)
      BY FS_Interval
    <2> QED BY <1>1, <2>1, FS_Subset
  <1> DEFINE m == Min(Bad)
  <1>3. m \in Bad /\ \A t \in Bad : m <= t
    <2> HIDE DEF Bad
    <2> QED BY <1>2, MinFacts
  <1> HIDE DEF m
  <1>4. m \in 0 .. N /\ m \notin Good /\ m # 0
    BY <1>3
  <1>5. m - 1 \in 0 .. N /\ m - 1 \notin Bad
    BY <1>3, <1>4
  <1>6. m - 1 \in Good /\ m - 1 < N /\ (m - 1) + 1 = m
    BY <1>4, <1>5
  <1> QED BY <1>4, <1>5, <1>6

\* Larger terms have a larger sum.
LEMMA SumPointwise ==
  ASSUME NEW f, NEW g, NEW S, Summable(f, S), Summable(g, S), \A x \in S : f[x] <= g[x]
  PROVE  SumFunctionOnSet(f, S) <= SumFunctionOnSet(g, S)
PROOF
  <1>1. Pile(f, S) \subseteq Pile(g, S)
    <2> SUFFICES ASSUME NEW p \in Pile(f, S) PROVE p \in Pile(g, S)
      OBVIOUS
    <2>1. p \in S \X Nat /\ p[2] < f[p[1]] /\ p[1] \in S /\ p[2] \in Nat
      BY DEF Pile
    <2>2. f[p[1]] \in Nat /\ g[p[1]] \in Nat /\ f[p[1]] <= g[p[1]]
      BY <2>1 DEF Summable
    <2>3. p[2] < g[p[1]]
      BY <2>1, <2>2
    <2> QED BY <2>1, <2>3 DEF Pile
  <1> QED BY <1>1, SumIsPileSize, PileFinite, FS_Subset

\* The recursive function of a fold over the numbers in S, the greatest one last: F[n]
\* is what the fold does at n to a value.
Folds(base, F, S, h) ==
  h = [U \in SUBSET S |-> IF U = {} THEN base ELSE F[Max(U)][h[U \ {Max(U)}]]]

\* There is one: the place of the greatest number is added last.
LEMMA FoldExists ==
  ASSUME NEW base, NEW F, NEW S \in SUBSET Int, IsFiniteSet(S)
  PROVE  \E h : Folds(base, F, S, h)
PROOF
  <1> DEFINE Good == {U \in SUBSET S : \E h : Folds(base, F, U, h)}
  <1>1. {} \in Good
    <2> DEFINE h == [U \in SUBSET {} |-> base]
    <2>1. h = [U \in SUBSET {} |-> IF U = {} THEN base ELSE F[Max(U)][h[U \ {Max(U)}]]]
      <3>1. \A U \in SUBSET {} : U = {}
        OBVIOUS
      <3> QED BY <3>1
    <2>2. Folds(base, F, {}, h)
      BY <2>1 DEF Folds
    <2> QED BY <2>2
  <1>2. ASSUME NEW U \in SUBSET S, U # {}, U \ {Max(U)} \in Good
        PROVE  U \in Good
    <2> DEFINE m == Max(U)
               V == U \ {m}
    <2>1. PICK k : Folds(base, F, V, k)
      BY <1>2
    <2>2. m \in U /\ \A t \in U : m >= t
      BY <1>2, FS_Subset, MaxFacts
    <2>3. ASSUME NEW W \in SUBSET U, m \in W
          PROVE  Max(W) = m
      <3>1. IsFiniteSet(W) /\ W \in SUBSET Int /\ W # {} /\ \A t \in W : m >= t
        BY <2>2, <2>3, FS_Subset
      <3> HIDE DEF m
      <3> QED BY <2>3, <3>1, MaxFacts
    <2> HIDE DEF m
    <2> DEFINE h == [W \in SUBSET U |-> IF m \in W THEN F[m][k[W \ {m}]] ELSE k[W]]
               r(W) == IF W = {} THEN base ELSE F[Max(W)][h[W \ {Max(W)}]]
    <2>4. ASSUME NEW W \in SUBSET U
          PROVE  h[W] = r(W)
      <3>1. CASE m \in W
        <4>1. W \ {m} \in SUBSET U /\ m \notin W \ {m}
          OBVIOUS
        <4>2. h[W] = F[m][k[W \ {m}]] /\ h[W \ {m}] = k[W \ {m}]
          BY <3>1, <4>1
        <4> HIDE DEF h
        <4>3. Max(W) = m /\ W # {}
          BY <2>3, <3>1
        <4> QED BY <4>2, <4>3
      <3>2. CASE m \notin W
        <4>1. W \in SUBSET V /\ W \ {Max(W)} \in SUBSET V
          BY <3>2
        <4>2. h[W] = k[W] /\ h[W \ {Max(W)}] = k[W \ {Max(W)}]
          BY <3>2, <4>1
        <4>3. k[W] = IF W = {} THEN base ELSE F[Max(W)][k[W \ {Max(W)}]]
          BY <2>1, <4>1 DEF Folds
        <4> HIDE DEF h
        <4> QED BY <4>2, <4>3
      <3> QED BY <3>1, <3>2
    <2>5. h = [W \in SUBSET U |-> r(W)]
      <3> HIDE DEF r
      <3> QED BY <2>4
    <2>6. Folds(base, F, U, h)
      BY <2>5 DEF Folds
    <2> HIDE DEF h
    <2> QED BY <2>6
  <1>3. S \in Good
    <2> HIDE DEF Good
    <2> QED BY <1>1, <1>2, HoldsChronologically
  <1> QED BY <1>3

LEMMA MaxOfInterval ==
  ASSUME NEW n \in Nat
  PROVE  /\ Max(1 .. (n + 1)) = n + 1
         /\ (1 .. (n + 1)) \ {n + 1} = 1 .. n
PROOF
  <1>1. (1 .. (n + 1)) \in SUBSET Int /\ IsFiniteSet(1 .. (n + 1)) /\ n + 1 \in 1 .. (n + 1)
    BY FS_Interval
  <1>2. \A t \in 1 .. (n + 1) : n + 1 >= t
    OBVIOUS
  <1>3. Max(1 .. (n + 1)) = n + 1
    <2> DEFINE I == 1 .. (n + 1)
    <2> HIDE DEF I
    <2>1. Max(I) = n + 1
      BY <1>1, <1>2, MaxFacts DEF I
    <2> QED BY <2>1 DEF I
  <1>4. (1 .. (n + 1)) \ {n + 1} = 1 .. n
    OBVIOUS
  <1> QED BY <1>3, <1>4

\* A sum over one number more.
LEMMA SumOneMore ==
  ASSUME NEW f, NEW n \in Nat, Summable(f, 1 .. (n + 1))
  PROVE  /\ Summable(f, 1 .. n)
         /\ SumFunctionOnSet(f, 1 .. (n + 1)) = f[n + 1] + SumFunctionOnSet(f, 1 .. n)
PROOF
  <1> DEFINE D == 1 .. (n + 1)
  <1>1. Summable(f, D) /\ n + 1 \in D /\ D \ {n + 1} = 1 .. n
    OBVIOUS
  <1> HIDE DEF D
  <1>2. /\ Summable(f, D \ {n + 1})
        /\ SumFunctionOnSet(f, D) = f[n + 1] + SumFunctionOnSet(f, D \ {n + 1})
    BY <1>1, SumSplit
  <1> QED BY <1>1, <1>2 DEF D

\* A fold whose steps do not leave V has values in V.
LEMMA FoldRuns ==
  ASSUME NEW base, NEW N \in Nat, NEW V, base \in V, NEW F,
         \A n \in 1 .. N, v \in V : F[n][v] \in V
  PROVE  \E h : Folds(base, F, 1 .. N, h) /\ \A U \in SUBSET (1 .. N) : h[U] \in V
PROOF
  <1> DEFINE D == 1 .. N
  <1>1. /\ IsFiniteSet(D) /\ D \in SUBSET Int
        /\ \A n \in D, v \in V : F[n][v] \in V
    BY FS_Interval
  <1> HIDE DEF D
  <1>2. PICK h : Folds(base, F, D, h)
    BY <1>1, FoldExists
  <1>3. ASSUME NEW T \in SUBSET D
        PROVE  h[T] \in V
    <2> DEFINE Good == {U \in SUBSET T : h[U] \in V}
    <2>1. {} \in Good
      BY <1>2 DEF Folds
    <2>2. ASSUME NEW U \in SUBSET T, U # {}, U \ {Max(U)} \in Good
          PROVE  U \in Good
      <3>1. Max(U) \in D
        BY <1>1, <2>2, FS_Subset, MaxFacts
      <3>2. h[U] = F[Max(U)][h[U \ {Max(U)}]] /\ h[U \ {Max(U)}] \in V
        BY <1>2, <2>2 DEF Folds
      <3> QED BY <1>1, <3>1, <3>2
    <2>3. IsFiniteSet(T) /\ T \in SUBSET Int
      BY <1>1, FS_Subset
    <2>4. T \in Good
      <3> HIDE DEF Good
      <3> QED BY <2>1, <2>2, <2>3, HoldsChronologically
    <2> QED BY <2>4
  <1> QED BY <1>2, <1>3 DEF D

\* What holds of the empty set, and of a set and one element more, holds of a finite set.
LEMMA HoldsOneByOne ==
  ASSUME NEW S, IsFiniteSet(S), NEW Good, {} \in Good,
         \A U \in SUBSET S : \A x \in S \ U : U \in Good => U \cup {x} \in Good
  PROVE  S \in Good
PROOF
  <1> DEFINE Bad == {U \in FiniteSubsetsOf(S) : U \notin Good}
  <1>1. Bad = {}
    <2> SUFFICES ASSUME Bad # {} PROVE FALSE
      OBVIOUS
    <2>1. Bad \subseteq FiniteSubsetsOf(S)
      OBVIOUS
    <2>2. IsWellFoundedOn(StrictSubsetOrdering(S), FiniteSubsetsOf(S))
      BY FS_StrictSubsetOrderingWellFounded
    <2>3. PICK U \in Bad : \A V \in Bad : <<V, U>> \notin StrictSubsetOrdering(S)
      <3> HIDE DEF Bad
      <3> QED BY <2>1, <2>2, WFMin
    <2>4. U \in SUBSET S /\ IsFiniteSet(U) /\ U \notin Good
      BY DEF FiniteSubsetsOf
    <2>5. PICK x : x \in U
      BY <2>4
    <2>6. IsFiniteSet(U \ {x}) /\ U \ {x} \in SUBSET S
      BY <2>4, FS_RemoveElement
    <2>7. <<U \ {x}, U>> \in StrictSubsetOrdering(S)
      BY <2>4, <2>5, <2>6 DEF StrictSubsetOrdering
    <2>8. U \ {x} \in Good
      BY <2>3, <2>6, <2>7 DEF FiniteSubsetsOf
    <2>9. x \in S \ (U \ {x}) /\ (U \ {x}) \cup {x} = U
      BY <2>4, <2>5
    <2>10. (U \ {x}) \cup {x} \in Good
      BY <2>6, <2>8, <2>9
    <2> QED BY <2>4, <2>9, <2>10
  <1>2. S \in FiniteSubsetsOf(S)
    BY DEF FiniteSubsetsOf
  <1> QED BY <1>1, <1>2

\* The values of a function on a finite set.
LEMMA ValuesFinite ==
  ASSUME NEW S, IsFiniteSet(S), NEW f
  PROVE  IsFiniteSet({f[x] : x \in S})
PROOF
  <1> DEFINE T == {f[x] : x \in S}
             g == [x \in S |-> f[x]]
  <1>1. g \in Surjection(S, T)
    BY DEF Surjection
  <1> QED BY <1>1, FS_Surjection

\* How many elements of D have the key k.
Parts(D, keyOf, K) == [k \in K |-> Cardinality({e \in D : keyOf[e] = k})]

\* A finite set has as many elements as its parts by key.
LEMMA PartsAddUp ==
  ASSUME NEW D, IsFiniteSet(D), NEW keyOf, NEW K, IsFiniteSet(K), \A e \in D : keyOf[e] \in K
  PROVE  /\ Summable(Parts(D, keyOf, K), K)
         /\ SumFunctionOnSet(Parts(D, keyOf, K), K) = Cardinality(D)
PROOF
  <1> DEFINE P(U) == Parts(U, keyOf, K)
             Good == {U \in SUBSET D : SumFunctionOnSet(P(U), K) = Cardinality(U)}
  <1>1. ASSUME NEW U \in SUBSET D
        PROVE  /\ IsFiniteSet(U) /\ Summable(P(U), K)
               /\ \A k \in K : IsFiniteSet({e \in U : keyOf[e] = k})
    <2>1. IsFiniteSet(U)
      BY FS_Subset
    <2>2. \A k \in K : IsFiniteSet({e \in U : keyOf[e] = k})
      BY <2>1, FS_Subset
    <2>3. \A k \in K : P(U)[k] \in Nat
      BY <2>2, FS_CardinalityType DEF Parts
    <2> QED BY <2>1, <2>2, <2>3 DEF Summable
  <1>2. {} \in Good
    <2>1. \A k \in K : {e \in {} : keyOf[e] = k} = {}
      OBVIOUS
    <2>2. \A k \in K : P({})[k] = 0
      BY <2>1, FS_EmptySet DEF Parts
    <2> QED BY <1>1, <2>2, SumZero, FS_EmptySet
  <1>3. ASSUME NEW U \in SUBSET D, NEW x \in D \ U, U \in Good
        PROVE  U \cup {x} \in Good
    <2> DEFINE m == keyOf[x]
    <2>1. m \in K /\ U \cup {x} \in SUBSET D
      OBVIOUS
    <2>2. P(U \cup {x})[m] = P(U)[m] + 1
      <3>1. {e \in U \cup {x} : keyOf[e] = m} = {e \in U : keyOf[e] = m} \cup {x}
        OBVIOUS
      <3>2. x \notin {e \in U : keyOf[e] = m}
        OBVIOUS
      <3> HIDE DEF m
      <3> QED BY <1>1, <2>1, <3>1, <3>2, FS_AddElement DEF Parts
    <2>3. ASSUME NEW k \in K \ {m}
          PROVE  P(U \cup {x})[k] = P(U)[k]
      <3>1. {e \in U \cup {x} : keyOf[e] = k} = {e \in U : keyOf[e] = k}
        OBVIOUS
      <3> QED BY <3>1 DEF Parts
    <2>4. SumFunctionOnSet(P(U \cup {x}), K) = SumFunctionOnSet(P(U), K) + 1
      <3> DEFINE f == P(U)
                 g == P(U \cup {x})
      <3>1. /\ Summable(f, K) /\ m \in K
            /\ g[m] = f[m] + 1 /\ \A k \in K \ {m} : g[k] = f[k]
        BY <1>1, <2>1, <2>2, <2>3
      <3> HIDE DEF m, f, g
      <3>2. SumFunctionOnSet(g, K) = SumFunctionOnSet(f, K) + 1
        BY <3>1, SumPlusOne
      <3> QED BY <3>2 DEF f, g
    <2>5. Cardinality(U \cup {x}) = Cardinality(U) + 1
      BY <1>1, FS_AddElement
    <2> QED BY <1>3, <2>1, <2>4, <2>5
  <1>4. D \in Good
    <2> HIDE DEF Good
    <2> QED BY <1>2, <1>3, HoldsOneByOne
  <1> QED BY <1>1, <1>4
=============================================================================
