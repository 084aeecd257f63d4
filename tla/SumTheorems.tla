---------------------------- MODULE SumTheorems ----------------------------
(***************************************************************************)
(* What the proofs need of SumOver: its value over natural numbers is the  *)
(* number of units, so the sum over a set follows the set element by       *)
(* element, whatever order the fold took.                                  *)
(***************************************************************************)
EXTENDS Sums, FiniteSetTheorems, WellFoundedInduction, TLAPS

\* One pair for every unit that f counts in S
Units(f, S) == UNION {{x} \X (1..f[x]) : x \in S}

LEMMA UnitsOfOne ==
  ASSUME NEW f, NEW x, f[x] \in Nat
  PROVE  IsFiniteSet({x} \X (1..f[x])) /\ Cardinality({x} \X (1..f[x])) = f[x]
<1>1. IsFiniteSet({x}) /\ Cardinality({x}) = 1
  BY FS_Singleton
<1>2. IsFiniteSet(1..f[x]) /\ Cardinality(1..f[x]) = f[x]
  <2> DEFINE n == f[x]
  <2>1. n \in Nat /\ 1 \in Int /\ n \in Int
    OBVIOUS
  <2> HIDE DEF n
  <2>2. IsFiniteSet(1..n) /\ Cardinality(1..n) = IF 1 > n THEN 0 ELSE n - 1 + 1
    BY <2>1, FS_Interval, Zenon
  <2>3. Cardinality(1..n) = n
    BY <2>1, <2>2
  <2> QED BY <2>2, <2>3 DEF n
<1>3. /\ IsFiniteSet({x} \X (1..f[x]))
      /\ Cardinality({x} \X (1..f[x])) = Cardinality({x}) * Cardinality(1..f[x])
  BY <1>1, <1>2, FS_Product, Zenon
<1> QED BY <1>1, <1>2, <1>3

LEMMA UnitsAdd ==
  ASSUME NEW f, NEW S, NEW x, x \notin S, f[x] \in Nat, IsFiniteSet(Units(f, S))
  PROVE  /\ IsFiniteSet(Units(f, S \cup {x}))
         /\ Cardinality(Units(f, S \cup {x})) = Cardinality(Units(f, S)) + f[x]
<1> DEFINE X == {x} \X (1..f[x])
<1>1. Units(f, S \cup {x}) = Units(f, S) \cup X
  BY DEF Units
<1>2. Units(f, S) \cap X = {}
  BY DEF Units
<1>3. IsFiniteSet(X) /\ Cardinality(X) = f[x]
  BY UnitsOfOne
<1>4. Cardinality({}) = 0 /\ Cardinality(Units(f, S)) \in Nat
  BY FS_EmptySet, FS_CardinalityType
<1> HIDE DEF X
<1>5. /\ IsFiniteSet(Units(f, S) \cup X)
      /\ Cardinality(Units(f, S) \cup X)
           = Cardinality(Units(f, S)) + Cardinality(X) - Cardinality(Units(f, S) \cap X)
  BY <1>3, FS_Union, Zenon
<1>6. /\ IsFiniteSet(Units(f, S \cup {x})) <=> IsFiniteSet(Units(f, S) \cup X)
      /\ Cardinality(Units(f, S \cup {x})) = Cardinality(Units(f, S) \cup X)
      /\ Cardinality(Units(f, S) \cap X) = Cardinality({})
  BY <1>1, <1>2, Zenon
<1> QED BY <1>3, <1>4, <1>5, <1>6

\* What holds of {} and of every set from whose subsets, smaller by one, it can
\* be concluded, holds of all; B is the set of subsets it holds of.
LEMMA SubsetInduction ==
  ASSUME NEW S, IsFiniteSet(S), NEW B, {} \in B,
         \A T \in SUBSET S : T # {} /\ (\A x \in T : T \ {x} \in B) => T \in B
  PROVE  SUBSET S \subseteq B
<1> DEFINE Bad == (SUBSET S) \ B
<1>1. IsWellFoundedOn(StrictSubsetOrdering(S), SUBSET S)
  BY FS_StrictSubsetOrderingWellFounded, FS_FiniteSubsetsOfFinite
<1> SUFFICES ASSUME Bad # {} PROVE FALSE
  OBVIOUS
<1>2. PICK T \in Bad : \A U \in Bad : <<U, T>> \notin StrictSubsetOrdering(S)
  <2>1. Bad \subseteq SUBSET S
    OBVIOUS
  <2> HIDE DEF Bad
  <2>2. \E x \in Bad : \A y \in Bad : ~(<<y, x>> \in StrictSubsetOrdering(S))
    BY <1>1, <2>1, WFMin
  <2> QED BY <2>2
<1>3. \A x \in T : T \ {x} \in B
  <2> TAKE x \in T
  <2>1. <<T \ {x}, T>> \in StrictSubsetOrdering(S)
    BY DEF StrictSubsetOrdering
  <2> QED BY <1>2, <2>1
<1> QED BY <1>3

LEMMA UnitsFinite ==
  ASSUME NEW S, IsFiniteSet(S), NEW f, \A x \in S : f[x] \in Nat
  PROVE  \A T \in SUBSET S : IsFiniteSet(Units(f, T))
<1> DEFINE B == {T \in SUBSET S : IsFiniteSet(Units(f, T))}
<1>1. {} \in B
  <2>1. Units(f, {}) = {}
    BY DEF Units
  <2> QED BY <2>1, FS_EmptySet
<1>2. ASSUME NEW T \in SUBSET S, T # {}, \A x \in T : T \ {x} \in B PROVE T \in B
  <2>3. PICK x \in T : T \ {x} \in B
    BY <1>2
  <2>1. (T \ {x}) \cup {x} = T
    OBVIOUS
  <2>2. IsFiniteSet(Units(f, (T \ {x}) \cup {x}))
    BY <2>3, UnitsAdd
  <2> QED BY <2>1, <2>2
<1>3. SUBSET S \subseteq B
  <2> HIDE DEF B
  <2> QED BY <1>1, <1>2, SubsetInduction
<1> QED BY <1>3

\* The fold counts the units.
LEMMA SumIsUnits ==
  ASSUME NEW S, IsFiniteSet(S), NEW f, \A x \in S : f[x] \in Nat
  PROVE  SumOver(f, S) = Cardinality(Units(f, S))
<1> DEFINE Pick(T) == CHOOSE x \in T : TRUE
           Fold(g, T) == IF T = {} THEN 0 ELSE f[Pick(T)] + g[T \ {Pick(T)}]
           iter == CHOOSE g : g = [T \in SUBSET S |-> Fold(g, T)]
           K == [T \in SUBSET S |-> Cardinality(Units(f, T))]
<1>1. SumOver(f, S) = iter[S]
  BY DEF SumOver, MapThenSumSet, MapThenFoldSet
<1>2. \A T \in SUBSET S : \A x \in T : K[T] = f[x] + K[T \ {x}] /\ K[T \ {x}] \in Nat
  <2> TAKE T \in SUBSET S
  <2> TAKE x \in T
  <2>1. (T \ {x}) \cup {x} = T /\ f[x] \in Nat
    OBVIOUS
  <2>2. IsFiniteSet(Units(f, T \ {x}))
    BY UnitsFinite
  <2>3. Cardinality(Units(f, (T \ {x}) \cup {x})) = Cardinality(Units(f, T \ {x})) + f[x]
    BY <2>1, <2>2, UnitsAdd
  <2>4. Cardinality(Units(f, T \ {x})) \in Nat
    BY <2>2, FS_CardinalityType
  <2>5. Cardinality(Units(f, T)) = f[x] + Cardinality(Units(f, T \ {x}))
    <3>1. Cardinality(Units(f, (T \ {x}) \cup {x})) = Cardinality(Units(f, T))
      BY <2>1, Zenon
    <3> QED BY <2>1, <2>3, <2>4, <3>1
  <2>6. T \ {x} \in SUBSET S
    OBVIOUS
  <2> QED BY <2>4, <2>5, <2>6
<1>3. K[{}] = 0
  <2>1. Units(f, {}) = {}
    BY DEF Units
  <2> QED BY <2>1, FS_EmptySet
<1> HIDE DEF K
<1>4. K = [T \in SUBSET S |-> Fold(K, T)]
  <2>1. \A T \in SUBSET S : K[T] = Fold(K, T)
    BY <1>2, <1>3
  <2>2. K = [T \in SUBSET S |-> K[T]]
    BY DEF K
  <2> QED BY <2>1, <2>2
<1>5. iter = [T \in SUBSET S |-> Fold(iter, T)]
  BY <1>4
<1> HIDE DEF iter
<1>6. \A T \in SUBSET S : iter[T] = K[T]
  <2> DEFINE B == {T \in SUBSET S : iter[T] = K[T]}
  <2>1. {} \in B
    BY <1>3, <1>5
  <2>2. ASSUME NEW T \in SUBSET S, T # {}, \A x \in T : T \ {x} \in B PROVE T \in B
    <3>1. Pick(T) \in T
      BY <2>2
    <3>2. iter[T] = f[Pick(T)] + iter[T \ {Pick(T)}]
      BY <1>5, <2>2
    <3>3. iter[T \ {Pick(T)}] = K[T \ {Pick(T)}]
      BY <2>2, <3>1
    <3> QED BY <1>2, <3>1, <3>2, <3>3
  <2>3. SUBSET S \subseteq B
    <3> HIDE DEF B
    <3> QED BY <2>1, <2>2, SubsetInduction
  <2> QED BY <2>3
<1> QED BY <1>1, <1>6 DEF K

-----------------------------------------------------------------------------

\* A sum of natural numbers is one.
LEMMA SumType ==
  ASSUME NEW S, IsFiniteSet(S), NEW f, \A x \in S : f[x] \in Nat
  PROVE  SumOver(f, S) \in Nat
<1>1. IsFiniteSet(Units(f, S))
  BY UnitsFinite
<1> QED BY <1>1, SumIsUnits, FS_CardinalityType

\* Over nothing it is zero.
LEMMA SumEmpty ==
  ASSUME NEW f
  PROVE  SumOver(f, {}) = 0
<1>1. Units(f, {}) = {}
  BY DEF Units
<1>2. SumOver(f, {}) = Cardinality(Units(f, {}))
  BY FS_EmptySet, SumIsUnits
<1> QED BY <1>1, <1>2, FS_EmptySet

\* Only the values on the set matter.
LEMMA SumSame ==
  ASSUME NEW S, IsFiniteSet(S), NEW f, NEW g,
         \A x \in S : f[x] \in Nat, \A x \in S : g[x] = f[x]
  PROVE  SumOver(g, S) = SumOver(f, S)
<1>1. Units(g, S) = Units(f, S)
  BY DEF Units
<1>2. SumOver(g, S) = Cardinality(Units(g, S)) /\ SumOver(f, S) = Cardinality(Units(f, S))
  BY SumIsUnits
<1> QED BY <1>1, <1>2

\* One element more
LEMMA SumAdd ==
  ASSUME NEW S, IsFiniteSet(S), NEW f, NEW x, x \notin S,
         \A y \in S \cup {x} : f[y] \in Nat
  PROVE  SumOver(f, S \cup {x}) = SumOver(f, S) + f[x]
<1>1. IsFiniteSet(S \cup {x})
  BY FS_AddElement
<1>2. /\ SumOver(f, S \cup {x}) = Cardinality(Units(f, S \cup {x}))
      /\ SumOver(f, S) = Cardinality(Units(f, S))
  BY <1>1, SumIsUnits
<1>3. IsFiniteSet(Units(f, S))
  BY UnitsFinite
<1> QED BY <1>2, <1>3, UnitsAdd

\* Two sets without a common element
LEMMA SumUnion ==
  ASSUME NEW S, NEW T, IsFiniteSet(S), IsFiniteSet(T), S \cap T = {}, NEW f,
         \A x \in S \cup T : f[x] \in Nat
  PROVE  SumOver(f, S \cup T) = SumOver(f, S) + SumOver(f, T)
<1>1. IsFiniteSet(S \cup T)
  BY FS_Union
<1>2. IsFiniteSet(Units(f, S)) /\ IsFiniteSet(Units(f, T))
  BY UnitsFinite
<1>3. Units(f, S \cup T) = Units(f, S) \cup Units(f, T)
  BY DEF Units
<1>4. Units(f, S) \cap Units(f, T) = {}
  BY DEF Units
<1>5. /\ SumOver(f, S \cup T) = Cardinality(Units(f, S \cup T))
      /\ SumOver(f, S) = Cardinality(Units(f, S))
      /\ SumOver(f, T) = Cardinality(Units(f, T))
  BY <1>1, SumIsUnits
<1>6. Cardinality(Units(f, S) \cup Units(f, T))
        = Cardinality(Units(f, S)) + Cardinality(Units(f, T))
            - Cardinality(Units(f, S) \cap Units(f, T))
  BY <1>2, FS_Union, Zenon
<1>7. Cardinality({}) = 0 /\ Cardinality(Units(f, S)) \in Nat /\ Cardinality(Units(f, T)) \in Nat
  BY <1>2, FS_EmptySet, FS_CardinalityType
<1>8. /\ Cardinality(Units(f, S \cup T)) = Cardinality(Units(f, S) \cup Units(f, T))
      /\ Cardinality(Units(f, S) \cap Units(f, T)) = Cardinality({})
  BY <1>3, <1>4, Zenon
<1> QED BY <1>5, <1>6, <1>7, <1>8

\* The function changes at one element of the set.
LEMMA SumStep ==
  ASSUME NEW S, IsFiniteSet(S), NEW f, NEW g, NEW x \in S,
         \A y \in S : f[y] \in Nat, g[x] \in Nat,
         \A y \in S \ {x} : g[y] = f[y]
  PROVE  /\ SumOver(f, S) \in Nat /\ SumOver(g, S) \in Nat
         /\ SumOver(g, S) = SumOver(f, S) + g[x] - f[x]
<1> DEFINE R == S \ {x}
<1>1. IsFiniteSet(R) /\ R \cup {x} = S /\ x \notin R
  BY FS_RemoveElement
<1> HIDE DEF R
<1>2. \A y \in R : f[y] \in Nat /\ g[y] = f[y]
  BY DEF R
<1>3. SumOver(f, R) \in Nat /\ SumOver(g, R) = SumOver(f, R)
  BY <1>1, <1>2, SumType, SumSame
<1>4. SumOver(f, R \cup {x}) = SumOver(f, R) + f[x]
  BY <1>1, <1>2, SumAdd
<1>5. SumOver(g, R \cup {x}) = SumOver(g, R) + g[x]
  BY <1>1, <1>2, SumAdd
<1>6. SumOver(f, R \cup {x}) = SumOver(f, S) /\ SumOver(g, R \cup {x}) = SumOver(g, S)
  BY <1>1, Zenon
<1>7. f[x] \in Nat /\ g[x] \in Nat
  OBVIOUS
<1> QED BY <1>3, <1>4, <1>5, <1>6, <1>7

\* Fewer elements, no larger sum
LEMMA SumMonotone ==
  ASSUME NEW S, IsFiniteSet(S), NEW T \in SUBSET S, NEW f, \A x \in S : f[x] \in Nat
  PROVE  SumOver(f, T) <= SumOver(f, S)
<1>1. IsFiniteSet(T) /\ IsFiniteSet(S \ T) /\ T \cup (S \ T) = S /\ T \cap (S \ T) = {}
  BY FS_Subset
<1>2. SumOver(f, T \cup (S \ T)) = SumOver(f, T) + SumOver(f, S \ T)
  BY <1>1, SumUnion
<1>3. SumOver(f, T) \in Nat /\ SumOver(f, S \ T) \in Nat
  BY <1>1, SumType
<1>4. SumOver(f, T \cup (S \ T)) = SumOver(f, S)
  BY <1>1, Zenon
<1> QED BY <1>2, <1>3, <1>4

\* Over zeroes it is zero.
LEMMA SumZero ==
  ASSUME NEW S, IsFiniteSet(S), NEW f, \A x \in S : f[x] = 0
  PROVE  SumOver(f, S) = 0
<1>1. Units(f, S) = {}
  BY DEF Units
<1>2. SumOver(f, S) = Cardinality(Units(f, S))
  BY SumIsUnits
<1> QED BY <1>1, <1>2, FS_EmptySet

\* It grows with the function.
LEMMA SumGrows ==
  ASSUME NEW S, IsFiniteSet(S), NEW f, NEW g,
         \A x \in S : f[x] \in Nat /\ g[x] \in Nat /\ f[x] <= g[x]
  PROVE  SumOver(f, S) <= SumOver(g, S)
<1>1. IsFiniteSet(Units(g, S))
  BY UnitsFinite
<1>2. Units(f, S) \subseteq Units(g, S)
  BY DEF Units
<1>3. Cardinality(Units(f, S)) <= Cardinality(Units(g, S))
  BY <1>1, <1>2, FS_Subset
<1>4. /\ SumOver(f, S) = Cardinality(Units(f, S))
      /\ SumOver(g, S) = Cardinality(Units(g, S))
  BY SumIsUnits
<1> QED BY <1>3, <1>4

\* The same for an update of the function.
LEMMA SumExceptIn ==
  ASSUME NEW T, NEW f \in [T -> Nat], NEW S \in SUBSET T, IsFiniteSet(S),
         NEW x \in S, NEW m \in Nat
  PROVE  /\ SumOver(f, S) \in Nat /\ f[x] \in Nat
         /\ SumOver([f EXCEPT ![x] = m], S) = SumOver(f, S) + m - f[x]
<1> DEFINE g == [f EXCEPT ![x] = m]
<1>1. /\ \A y \in S : f[y] \in Nat
      /\ g[x] = m
      /\ \A y \in S \ {x} : g[y] = f[y]
  OBVIOUS
<1> HIDE DEF g
<1>2. g[x] \in Nat
  BY <1>1
<1>3. /\ SumOver(f, S) \in Nat /\ SumOver(g, S) \in Nat
      /\ SumOver(g, S) = SumOver(f, S) + g[x] - f[x]
  BY <1>1, <1>2, SumStep
<1> QED BY <1>1, <1>3 DEF g

LEMMA SumExcept ==
  ASSUME NEW S, IsFiniteSet(S), NEW f \in [S -> Nat], NEW x \in S, NEW m \in Nat
  PROVE  /\ SumOver(f, S) \in Nat /\ f[x] \in Nat
         /\ SumOver([f EXCEPT ![x] = m], S) = SumOver(f, S) + m - f[x]
<1>1. S \in SUBSET S
  OBVIOUS
<1> QED BY <1>1, SumExceptIn, Zenon


-----------------------------------------------------------------------------
(* Numbers: extrema and induction *)

\* A finite set of numbers that is not empty has a largest one.
LEMMA LargestExists ==
  ASSUME NEW S, IsFiniteSet(S), S # {}, \A x \in S : x \in Int
  PROVE  Max(S) \in S /\ \A y \in S : y <= Max(S)
<1> DEFINE Has(T) == \E x \in T : \A y \in T : x >= y
           B == {T \in SUBSET S : T = {} \/ Has(T)}
<1>1. {} \in B
  OBVIOUS
<1>2. ASSUME NEW T \in SUBSET S, T # {}, \A x \in T : T \ {x} \in B PROVE T \in B
  <2>1. PICK x \in T : TRUE
    BY <1>2
  <2>2. CASE T \ {x} = {}
    <3>1. \A y \in T : y = x /\ x >= y
      BY <2>2
    <3> QED BY <3>1
  <2>3. CASE Has(T \ {x})
    <3>1. PICK z \in T \ {x} : \A y \in T \ {x} : z >= y
      BY <2>3
    <3>2. x \in Int /\ z \in Int /\ \A y \in T : y \in Int
      BY <2>1, <3>1
    <3>3. CASE z >= x
      BY <3>1, <3>3
    <3>4. CASE x > z
      <4>1. \A y \in T : x >= y
        BY <3>1, <3>2, <3>4
      <4> QED BY <4>1
    <3> QED BY <3>2, <3>3, <3>4
  <2> QED BY <1>2, <2>2, <2>3
<1> HIDE DEF B
<1>3. SUBSET S \subseteq B
  BY <1>1, <1>2, SubsetInduction
<1>4. Has(S)
  BY <1>3 DEF B
<1> QED BY <1>4 DEF Max

\* A finite set of numbers that is not empty has a smallest one.
LEMMA SmallestExists ==
  ASSUME NEW S, IsFiniteSet(S), S # {}, \A x \in S : x \in Int
  PROVE  Min(S) \in S /\ \A y \in S : Min(S) <= y
<1> DEFINE Has(T) == \E x \in T : \A y \in T : x <= y
           B == {T \in SUBSET S : T = {} \/ Has(T)}
<1>1. {} \in B
  OBVIOUS
<1>2. ASSUME NEW T \in SUBSET S, T # {}, \A x \in T : T \ {x} \in B PROVE T \in B
  <2>1. PICK x \in T : TRUE
    BY <1>2
  <2>2. CASE T \ {x} = {}
    <3>1. \A y \in T : y = x /\ x <= y
      BY <2>2
    <3> QED BY <3>1
  <2>3. CASE Has(T \ {x})
    <3>1. PICK z \in T \ {x} : \A y \in T \ {x} : z <= y
      BY <2>3
    <3>2. x \in Int /\ z \in Int /\ \A y \in T : y \in Int
      BY <2>1, <3>1
    <3>3. CASE z <= x
      BY <3>1, <3>3
    <3>4. CASE x < z
      <4>1. \A y \in T : x <= y
        BY <3>1, <3>2, <3>4
      <4> QED BY <4>1
    <3> QED BY <3>2, <3>3, <3>4
  <2> QED BY <1>2, <2>2, <2>3
<1> HIDE DEF B
<1>3. SUBSET S \subseteq B
  BY <1>1, <1>2, SubsetInduction
<1>4. Has(S)
  BY <1>3 DEF B
<1> QED BY <1>4 DEF Min

\* Induction up to n; B is the set of numbers the claim holds of.
LEMMA UpToInduction ==
  ASSUME NEW n \in Nat, NEW B, 0 \in B, \A i \in 1..n : i - 1 \in B => i \in B
  PROVE  0..n \subseteq B
<1> DEFINE Bad == (0..n) \ B
<1> SUFFICES ASSUME Bad # {} PROVE FALSE
  OBVIOUS
<1>1. IsFiniteSet(Bad) /\ \A x \in Bad : x \in Int
  <2>1. IsFiniteSet(0..n) /\ Bad \subseteq 0..n
    BY FS_Interval
  <2> QED BY <2>1, FS_Subset
<1>2. PICK m \in Bad : \A y \in Bad : m <= y
  <2> HIDE DEF Bad
  <2> QED BY <1>1, SmallestExists
<1>3. m \in 1..n /\ m - 1 \in 0..n
  BY <1>2
<1>4. m - 1 \in B
  BY <1>2, <1>3
<1> QED BY <1>2, <1>3, <1>4
=============================================================================
