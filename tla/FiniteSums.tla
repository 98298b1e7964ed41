----------------------------- MODULE FiniteSums -----------------------------
(***************************************************************************)
(* What the folds of the community modules compute over finite sets, and   *)
(* least and greatest elements.  Induction over finite sets is by a        *)
(* smallest counterexample.                                                *)
(***************************************************************************)
EXTENDS Integers, FiniteSets, FiniteSetsExt, Functions, FiniteSetTheorems,
        NaturalsInduction, TLAPS

(* Least elements.                                                         *)

LEMMA LeastOf ==
  ASSUME NEW S \in SUBSET Nat, S # {}
  PROVE  \E m \in S : \A k \in S : m <= k
<1>1. PICK m \in S : \A k \in S : ~ (<<k, m>> \in OpToRel(<, Nat))
  BY NatLessThanWellFounded, WFMin
<1>2. \A k \in S : ~ (k < m)
  BY <1>1 DEF OpToRel
<1> QED
  BY <1>2

\* A family of subsets of a finite set has one that is the smallest of its own.
LEMMA SmallestSet ==
  ASSUME NEW S, IsFiniteSet(S), NEW F \in SUBSET (SUBSET S), F # {}
  PROVE  \E T \in F : \A x \in T : T \ {x} \notin F
<1>1. \A T \in SUBSET S : IsFiniteSet(T) /\ Cardinality(T) \in Nat
  BY FS_Subset, FS_CardinalityType
<1>2. PICK m \in {Cardinality(T) : T \in F} : \A k \in {Cardinality(T) : T \in F} : m <= k
  <2>1. {Cardinality(T) : T \in F} \in SUBSET Nat /\ {Cardinality(T) : T \in F} # {}
    BY <1>1
  <2> QED
    BY <2>1, LeastOf
<1>3. PICK T \in F : m = Cardinality(T)
  BY <1>2
<1>4. ASSUME NEW x \in T, T \ {x} \in F PROVE FALSE
  <2>1. Cardinality(T) <= Cardinality(T \ {x})
    BY <1>2, <1>3, <1>4
  <2>2. Cardinality(T \ {x}) = Cardinality(T) - 1
    BY <1>1, FS_RemoveElement
  <2> QED
    BY <1>1, <2>1, <2>2
<1> QED
  BY <1>4

\* Min and Max of FiniteSetsExt are an element that bounds the others.
LEMMA HasMin ==
  ASSUME NEW S \in SUBSET Int, IsFiniteSet(S), S # {}
  PROVE  Min(S) \in S /\ \A x \in S : Min(S) <= x
<1> DEFINE F == {T \in SUBSET S : T # {} /\ ~ \E m \in T : \A x \in T : m <= x}
<1>1. ASSUME F # {} PROVE FALSE
  <2>1. PICK T \in F : \A x \in T : T \ {x} \notin F
    BY <1>1, SmallestSet
  <2>2. PICK y \in T : TRUE
    OBVIOUS
  <2>3. CASE T = {y}
    BY <2>1, <2>3
  <2>4. CASE T # {y}
    <3>1. T \ {y} \in SUBSET S /\ T \ {y} # {}
      BY <2>4
    <3>2. PICK m \in T \ {y} : \A x \in T \ {y} : m <= x
      BY <2>1, <3>1
    <3>3. CASE m <= y
      BY <2>1, <3>2, <3>3
    <3>4. CASE ~ (m <= y)
      BY <2>1, <3>2, <3>4
    <3> QED
      BY <3>3, <3>4
  <2> QED
    BY <2>3, <2>4
<1>2. \E m \in S : \A x \in S : m <= x
  BY <1>1
<1> QED
  BY <1>2 DEF Min

LEMMA HasMax ==
  ASSUME NEW S \in SUBSET Int, IsFiniteSet(S), S # {}
  PROVE  Max(S) \in S /\ \A x \in S : x <= Max(S)
<1> DEFINE F == {T \in SUBSET S : T # {} /\ ~ \E m \in T : \A x \in T : x <= m}
<1>1. ASSUME F # {} PROVE FALSE
  <2>1. PICK T \in F : \A x \in T : T \ {x} \notin F
    BY <1>1, SmallestSet
  <2>2. PICK y \in T : TRUE
    OBVIOUS
  <2>3. CASE T = {y}
    BY <2>1, <2>3
  <2>4. CASE T # {y}
    <3>1. T \ {y} \in SUBSET S /\ T \ {y} # {}
      BY <2>4
    <3>2. PICK m \in T \ {y} : \A x \in T \ {y} : x <= m
      BY <2>1, <3>1
    <3>3. CASE y <= m
      BY <2>1, <3>2, <3>3
    <3>4. CASE ~ (y <= m)
      BY <2>1, <3>2, <3>4
    <3> QED
      BY <3>3, <3>4
  <2> QED
    BY <2>3, <2>4
<1>2. \E m \in S : \A x \in S : x <= m
  BY <1>1
<1> QED
  BY <1>2 DEF Max

LEMMA MinMaxOfTwo ==
  ASSUME NEW a \in Int, NEW b \in Int
  PROVE  /\ Min({a, b}) = IF a <= b THEN a ELSE b
         /\ Max({a, b}) = IF a <= b THEN b ELSE a
BY DEF Min, Max

-----------------------------------------------------------------------------
(* Sums.  A sum is counted in units, which does not depend on the order in *)
(* which the elements are taken.                                           *)

Units(w, S) == {p \in S \X Nat : p[2] < w[p[1]]}
Total(w, S) == Cardinality(Units(w, S))

LEMMA UnitsOfOne ==
  ASSUME NEW U, NEW w \in [U -> Nat], NEW x \in U
  PROVE  IsFiniteSet(Units(w, {x})) /\ Total(w, {x}) = w[x]
<1> DEFINE I == 1 .. w[x]
           f == [i \in I |-> <<x, i - 1>>]
<1>1. w[x] \in Nat
  OBVIOUS
<1>2. IsFiniteSet(I) /\ Cardinality(I) = w[x]
  BY <1>1, FS_Interval
<1>3. f \in [I -> Units(w, {x})]
  BY <1>1 DEF Units
<1>4. \A p \in Units(w, {x}) : p[2] + 1 \in I /\ p = f[p[2] + 1]
  BY <1>1 DEF Units
<1>5. \A i, j \in I : f[i] = f[j] => i = j
  BY <1>1
<1>6. f \in Bijection(I, Units(w, {x}))
  BY <1>3, <1>4, <1>5 DEF Bijection, Injection, Surjection, IsInjective
<1>7. ExistsBijection(I, Units(w, {x}))
  BY <1>6 DEF ExistsBijection
<1> QED
  BY <1>2, <1>7, FS_Bijection DEF Total

LEMMA UnitsFinite ==
  ASSUME NEW U, NEW w \in [U -> Nat], NEW S \in SUBSET U, IsFiniteSet(S)
  PROVE  IsFiniteSet(Units(w, S))
<1> DEFINE F == {T \in SUBSET S : ~ IsFiniteSet(Units(w, T))}
<1>1. ASSUME F # {} PROVE FALSE
  <2>1. PICK T \in F : \A x \in T : T \ {x} \notin F
    BY <1>1, SmallestSet
  <2>2. CASE T = {}
    BY <2>1, <2>2, FS_EmptySet DEF Units
  <2>3. ASSUME NEW x \in T PROVE FALSE
    <3>1. IsFiniteSet(Units(w, T \ {x}))
      BY <2>1
    <3>2. Units(w, T) = Units(w, T \ {x}) \cup Units(w, {x})
      BY DEF Units
    <3>3. IsFiniteSet(Units(w, {x}))
      BY UnitsOfOne
    <3>4. IsFiniteSet(Units(w, T \ {x}) \cup Units(w, {x}))
      BY <3>1, <3>3, FS_Union
    <3> QED
      BY <2>1, <3>2, <3>4
  <2> QED
    BY <2>2, <2>3
<1> QED
  BY <1>1

\* Sums add up over disjoint sets.
LEMMA TotalOfBoth ==
  ASSUME NEW U, NEW w \in [U -> Nat], NEW S \in SUBSET U, NEW T \in SUBSET U,
         IsFiniteSet(S), IsFiniteSet(T), S \cap T = {}
  PROVE  /\ Total(w, S) \in Nat /\ Total(w, T) \in Nat
         /\ Total(w, S \cup T) = Total(w, S) + Total(w, T)
<1>1. IsFiniteSet(Units(w, S)) /\ IsFiniteSet(Units(w, T))
  BY UnitsFinite
<1>2. Units(w, S \cup T) = Units(w, S) \cup Units(w, T)
  BY DEF Units
<1>3. Units(w, S) \cap Units(w, T) = {}
  BY DEF Units
<1>4. Cardinality(Units(w, S)) \in Nat /\ Cardinality(Units(w, T)) \in Nat
  BY <1>1, FS_CardinalityType
<1>5. Cardinality(Units(w, S) \cup Units(w, T))
        = Cardinality(Units(w, S)) + Cardinality(Units(w, T))
            - Cardinality(Units(w, S) \cap Units(w, T))
  BY <1>1, FS_Union
<1>6. Cardinality(Units(w, S) \cap Units(w, T)) = 0
  BY <1>3, FS_EmptySet
<1>7. Total(w, S \cup T) = Cardinality(Units(w, S) \cup Units(w, T))
  BY <1>2, Zenon DEF Total
<1> QED
  BY <1>4, <1>5, <1>6, <1>7 DEF Total

LEMMA TotalOfMore ==
  ASSUME NEW U, NEW w \in [U -> Nat], NEW S \in SUBSET U, IsFiniteSet(S), NEW x \in S
  PROVE  Total(w, S) = w[x] + Total(w, S \ {x}) /\ Total(w, S) \in Nat
<1>1. PICK R \in SUBSET U : R = S \ {x}
  OBVIOUS
<1>2. S = {x} \cup R /\ {x} \cap R = {} /\ {x} \in SUBSET U
  BY <1>1
<1>3. IsFiniteSet({x}) /\ IsFiniteSet(R)
  BY <1>1, FS_Singleton, FS_RemoveElement
<1>4. Total(w, {x}) = w[x]
  BY UnitsOfOne
<1>5. /\ Total(w, {x}) \in Nat /\ Total(w, R) \in Nat
      /\ Total(w, {x} \cup R) = Total(w, {x}) + Total(w, R)
  BY <1>2, <1>3, TotalOfBoth
<1>6. Total(w, S) = Total(w, {x} \cup R) /\ Total(w, S \ {x}) = Total(w, R)
  BY <1>1, <1>2, Zenon
<1> QED
  BY <1>4, <1>5, <1>6

LEMMA TotalOfNone == \A w : Total(w, {}) = 0
BY FS_EmptySet DEF Total, Units

\* What takes one element after the other, in whatever order, is the sum.
TakesAll(w, S, g) ==
  /\ g[{}] = 0
  /\ \A T \in SUBSET S : T # {} => \E x \in T : g[T] = w[x] + g[T \ {x}]

LEMMA OnlyTotal ==
  ASSUME NEW U, NEW w \in [U -> Nat], NEW S \in SUBSET U, IsFiniteSet(S),
         NEW g, TakesAll(w, S, g)
  PROVE  g[S] = Total(w, S)
<1> DEFINE F == {T \in SUBSET S : g[T] # Total(w, T)}
<1>1. ASSUME F # {} PROVE FALSE
  <2>1. PICK T \in F : \A x \in T : T \ {x} \notin F
    BY <1>1, SmallestSet
  <2>2. T # {}
    BY TotalOfNone DEF TakesAll
  <2>3. PICK x \in T : g[T] = w[x] + g[T \ {x}]
    BY <2>2 DEF TakesAll
  <2>4. g[T \ {x}] = Total(w, T \ {x})
    BY <2>1
  <2>5. Total(w, T) = w[x] + Total(w, T \ {x})
    BY FS_Subset, TotalOfMore
  <2> QED
    BY <2>3, <2>4, <2>5
<1> QED
  BY <1>1

\* The fold of the library, over the weights w: what it takes next is chosen.
Pick(S) == CHOOSE x \in S : TRUE
Sums(w, S, g) ==
  g = [s \in SUBSET S |-> IF s = {} THEN 0 ELSE w[Pick(s)] + g[s \ {Pick(s)}]]

LEMMA PickIsElement == \A S : S # {} => Pick(S) \in S
BY DEF Pick

\* Its equation has a solution, and each is the sum.
LEMMA TotalsFold ==
  ASSUME NEW U, NEW w \in [U -> Nat], NEW S \in SUBSET U, IsFiniteSet(S)
  PROVE  \E h : Sums(w, S, h)
<1> DEFINE g == [s \in SUBSET S |-> Total(w, s)]
<1>1. ASSUME NEW s \in SUBSET S
      PROVE  g[s] = IF s = {} THEN 0 ELSE w[Pick(s)] + g[s \ {Pick(s)}]
  <2>1. CASE s = {}
    BY <2>1, TotalOfNone
  <2>2. CASE s # {}
    <3>1. PICK x \in s : x = Pick(s)
      BY <2>2, PickIsElement
    <3>2. Total(w, s) = w[x] + Total(w, s \ {x})
      BY FS_Subset, TotalOfMore
    <3>3. g[s] = Total(w, s) /\ g[s \ {x}] = Total(w, s \ {x})
      OBVIOUS
    <3> HIDE DEF g
    <3> QED
      BY <2>2, <3>1, <3>2, <3>3
  <2> QED
    BY <2>1, <2>2
<1>2. g = [s \in SUBSET S |-> g[s]]
  OBVIOUS
<1> HIDE DEF g
<1>3. Sums(w, S, g)
  BY <1>1, <1>2 DEF Sums
<1> QED
  BY <1>3

LEMMA FoldIsTotal ==
  ASSUME NEW U, NEW w \in [U -> Nat], NEW S \in SUBSET U, IsFiniteSet(S),
         NEW g, Sums(w, S, g)
  PROVE  g[S] = Total(w, S)
<1>1. g[{}] = 0
  BY DEF Sums
<1>2. ASSUME NEW T \in SUBSET S, T # {}
      PROVE  \E x \in T : g[T] = w[x] + g[T \ {x}]
  <2>1. PICK x \in T : x = Pick(T)
    BY <1>2, PickIsElement
  <2>2. g[T] = w[Pick(T)] + g[T \ {Pick(T)}]
    BY <1>2 DEF Sums
  <2> QED
    BY <2>1, <2>2
<1> QED
  BY <1>1, <1>2, OnlyTotal DEF TakesAll

-----------------------------------------------------------------------------
(* The best of a finite set, where better is a transitive relation.        *)

Ranks(better, S) ==
  /\ \A x, y, z \in S : <<x, y>> \in better /\ <<y, z>> \in better => <<x, z>> \in better
  /\ \A x \in S : <<x, x>> \notin better

\* Some element has none better than it.
LEMMA HasBest ==
  ASSUME NEW S, IsFiniteSet(S), S # {}, NEW better, Ranks(better, S)
  PROVE  \E m \in S : \A d \in S : <<d, m>> \notin better
<1> DEFINE F == {T \in SUBSET S : T # {} /\ ~ \E m \in T : \A d \in T : <<d, m>> \notin better}
<1>1. ASSUME F # {} PROVE FALSE
  <2>1. PICK T \in F : \A x \in T : T \ {x} \notin F
    BY <1>1, SmallestSet
  <2>2. PICK y \in T : TRUE
    OBVIOUS
  <2>3. CASE T = {y}
    BY <2>1, <2>3 DEF Ranks
  <2>4. CASE T # {y}
    <3>1. T \ {y} \in SUBSET S /\ T \ {y} # {}
      BY <2>4
    <3>2. PICK m \in T \ {y} : \A d \in T \ {y} : <<d, m>> \notin better
      BY <2>1, <3>1
    <3>3. CASE <<y, m>> \notin better
      BY <2>1, <3>2, <3>3
    <3>4. CASE <<y, m>> \in better
      <4>1. \A d \in T : <<d, y>> \notin better
        BY <3>2, <3>4 DEF Ranks
      <4> QED
        BY <2>1, <4>1
    <3> QED
      BY <3>3, <3>4
  <2> QED
    BY <2>3, <2>4
<1> QED
  BY <1>1

\* So the best k exist, for every k.
LEMMA HasTop ==
  ASSUME NEW S, IsFiniteSet(S), NEW better, Ranks(better, S), NEW k \in 0 .. Cardinality(S)
  PROVE  \E C \in SUBSET S :
           Cardinality(C) = k /\ \A c \in C, d \in S \ C : <<d, c>> \notin better
<1> DEFINE Top(n) == \E C \in SUBSET S :
                       /\ Cardinality(C) = n
                       /\ \A c \in C, d \in S \ C : <<d, c>> \notin better
           Bad == {n \in 0 .. Cardinality(S) : ~Top(n)}
<1>1. Cardinality(S) \in Nat
  BY FS_CardinalityType
<1>2. ASSUME Bad # {} PROVE FALSE
  <2>0. Bad \in SUBSET Nat /\ \A n \in Bad : n \in 0 .. Cardinality(S) /\ ~Top(n)
    BY <1>1
  <2>1. PICK n \in Bad : (\A j \in Bad : n <= j) /\ n \in Nat
    <3> HIDE DEF Bad
    <3> QED
      BY <1>2, <2>0, LeastOf
  <2>2. n # 0
    <3>1. {} \in SUBSET S /\ Cardinality({}) = 0
      BY FS_EmptySet
    <3> QED
      BY <2>1, <3>1
  <2>3. n - 1 \in 0 .. Cardinality(S) /\ n - 1 \notin Bad
    BY <1>1, <2>1, <2>2
  <2>4. PICK C \in SUBSET S :
          Cardinality(C) = n - 1 /\ \A c \in C, d \in S \ C : <<d, c>> \notin better
    BY <2>3
  <2>5. IsFiniteSet(C) /\ IsFiniteSet(S \ C) /\ S \ C # {}
    <3>1. IsFiniteSet(C) /\ IsFiniteSet(S \ C)
      BY FS_Subset
    <3>2. ASSUME S \ C = {} PROVE FALSE
      <4>1. C = S
        BY <3>2
      <4>2. n - 1 # n /\ n <= Cardinality(S) /\ Cardinality(S) = n - 1
        BY <2>0, <2>1, <2>4, <4>1
      <4>3. PICK z \in Nat : z = Cardinality(S) /\ z = n - 1 /\ n <= z
        BY <1>1, <4>2
      <4> QED
        BY <2>1, <4>3
    <3> QED
      BY <3>1, <3>2
  <2>6. Ranks(better, S \ C)
    BY DEF Ranks
  <2>7. PICK m \in S \ C : \A d \in S \ C : <<d, m>> \notin better
    BY <2>5, <2>6, HasBest
  <2>8. Cardinality(C \cup {m}) = n
    <3>1. Cardinality(C \cup {m}) = Cardinality(C) + 1
      BY <2>5, <2>7, FS_AddElement
    <3> QED
      BY <2>1, <2>4, <3>1
  <2>9. (C \cup {m}) \in SUBSET S
        /\ \A c \in C \cup {m}, d \in S \ (C \cup {m}) : <<d, c>> \notin better
    BY <2>4, <2>7
  <2> QED
    BY <2>1, <2>8, <2>9
<1> QED
  BY <1>2
=============================================================================
