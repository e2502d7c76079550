------------------------------ MODULE SumFacts ------------------------------
(* What the provers need to know of SumFunctionOnSet, the sum of a function over
   a finite set: it does not depend on the order in which the elements are
   chosen, it only depends on the values, it is monotone in both.

   The definition folds over the subsets by recursion.  Facts are proved by the
   least counterexample, among the numbers or among the subsets of a finite set,
   from the well-foundedness of the two orders.                               *)
EXTENDS Integers, FiniteSets, Functions, FiniteSetTheorems, WellFoundedInduction, TLAPS

\* A set of naturals that is not empty has a least element.
LEMMA LeastNumber ==
  ASSUME NEW T, T \subseteq Nat, T # {}
  PROVE  \E n \in T : \A m \in T : n <= m
<1>1. \E n \in T : \A m \in T : ~(<<m, n>> \in OpToRel(<, Nat))
  BY NatLessThanWellFounded, WFMin
<1>2. PICK n \in T : \A m \in T : ~(<<m, n>> \in OpToRel(<, Nat))
  BY <1>1
<1>3. ASSUME NEW m \in T
      PROVE  n <= m
  <2>1. m \in Nat /\ n \in Nat
    BY <1>3
  <2>2. ~(m < n)
    BY <1>2, <1>3, <2>1 DEF OpToRel
  <2> QED
    BY <2>1, <2>2
<1> QED
  BY <1>3

\* A set of subsets of a finite set has one that contains no other of them.
LEMMA LeastSubset ==
  ASSUME NEW S, IsFiniteSet(S), NEW T, T \subseteq SUBSET S, T # {}
  PROVE  \E s \in T : \A u \in T : u \subseteq s => u = s
<1>1. IsWellFoundedOn(StrictSubsetOrdering(S), SUBSET S)
  BY FS_StrictSubsetOrderingWellFounded, FS_FiniteSubsetsOfFinite
<1>2. PICK s \in T : \A u \in T : ~(<<u, s>> \in StrictSubsetOrdering(S))
  BY <1>1, WFMin
<1>3. ASSUME NEW u \in T, u \subseteq s
      PROVE  u = s
  BY <1>2, <1>3 DEF StrictSubsetOrdering
<1> QED
  BY <1>3

-----------------------------------------------------------------------------
(* The recursion behind the sum *)

Pick(s) == CHOOSE x \in s : TRUE
Part(f, it, s) == IF s = {} THEN 0 ELSE f[Pick(s)] + it[s \ {Pick(s)}]
Unfolds(f, it, S) == it = [s \in SUBSET S |-> Part(f, it, s)]

LEMMA PickIn ==
  ASSUME NEW S, S # {}
  PROVE  Pick(S) \in S
  BY DEF Pick

LEMMA SumDefinition ==
  ASSUME NEW f, NEW S
  PROVE  SumFunctionOnSet(f, S) = (CHOOSE it : Unfolds(f, it, S))[S]
  BY DEF SumFunctionOnSet, FoldFunctionOnSet, MapThenFoldSet, Unfolds, Part, Pick

\* A function that satisfies the recursion on the subsets of up to n elements.
UnfoldsTo(f, it, S, n) ==
  /\ it = [s \in SUBSET S |-> it[s]]
  /\ \A s \in SUBSET S : Cardinality(s) <= n => it[s] = Part(f, it, s)

LEMMA UnfoldMore ==
  ASSUME NEW S, IsFiniteSet(S), NEW f, NEW n \in Nat, NEW it, UnfoldsTo(f, it, S, n)
  PROVE  \E new : UnfoldsTo(f, new, S, n + 1)
<1> DEFINE new == [s \in SUBSET S |-> Part(f, it, s)]
<1>1. ASSUME NEW s \in SUBSET S, Cardinality(s) <= n + 1
      PROVE  new[s] = Part(f, new, s)
  <2>1. CASE s = {}
    BY <2>1 DEF Part
  <2>2. CASE s # {}
    <3> DEFINE u == s \ {Pick(s)}
    <3>1. IsFiniteSet(s) /\ Pick(s) \in s
      BY <2>2, PickIn, FS_Subset
    <3>2. u \in SUBSET S /\ Cardinality(u) = Cardinality(s) - 1 /\ Cardinality(s) \in Nat
      BY <3>1, FS_RemoveElement, FS_CardinalityType
    <3>3. Cardinality(u) <= n
      BY <1>1, <3>2
    <3>4. it[u] = Part(f, it, u)
      BY <3>2, <3>3 DEF UnfoldsTo
    <3>5. new[u] = it[u]
      BY <3>2, <3>4
    <3> QED
      BY <2>2, <3>5 DEF Part
  <2> QED
    BY <2>1, <2>2
<1>2. new = [s \in SUBSET S |-> new[s]]
  OBVIOUS
<1> HIDE DEF new
<1> QED
  BY <1>1, <1>2 DEF UnfoldsTo

LEMMA UnfoldingExists ==
  ASSUME NEW S, IsFiniteSet(S), NEW f
  PROVE  \E it : Unfolds(f, it, S)
<1> DEFINE Bad == {n \in Nat : ~ \E it : UnfoldsTo(f, it, S, n)}
<1>1. Bad = {}
  <2> SUFFICES ASSUME Bad # {}
               PROVE  FALSE
    OBVIOUS
  <2>1. PICK n \in Bad : \A m \in Bad : n <= m
    BY LeastNumber
  <2>2. n # 0
    <3> DEFINE it == [s \in SUBSET S |-> 0]
    <3>1. it = [s \in SUBSET S |-> it[s]]
      OBVIOUS
    <3>2. ASSUME NEW s \in SUBSET S, Cardinality(s) <= 0
          PROVE  it[s] = Part(f, it, s)
      <4>1. IsFiniteSet(s) /\ Cardinality(s) \in Nat
        BY FS_Subset, FS_CardinalityType
      <4>2. s = {}
        BY <3>2, <4>1, FS_EmptySet
      <4> QED
        BY <4>2 DEF Part
    <3> HIDE DEF it
    <3>3. UnfoldsTo(f, it, S, 0)
      BY <3>1, <3>2 DEF UnfoldsTo
    <3> QED
      BY <2>1, <3>3
  <2>3. n - 1 \in Nat /\ n - 1 \notin Bad
    BY <2>1, <2>2
  <2>4. PICK it : UnfoldsTo(f, it, S, n - 1)
    BY <2>3
  <2>5. \E new : UnfoldsTo(f, new, S, (n - 1) + 1)
    BY <2>3, <2>4, UnfoldMore
  <2>6. (n - 1) + 1 = n
    BY <2>1
  <2> QED
    BY <2>1, <2>5, <2>6
<1>2. Cardinality(S) \in Nat
  BY FS_CardinalityType
<1>3. PICK it : UnfoldsTo(f, it, S, Cardinality(S))
  BY <1>1, <1>2
<1>4. \A s \in SUBSET S : Cardinality(s) <= Cardinality(S)
  BY FS_Subset
<1>5. it = [s \in SUBSET S |-> Part(f, it, s)]
  BY <1>3, <1>4 DEF UnfoldsTo
<1> QED
  BY <1>5 DEF Unfolds

LEMMA UnfoldingUnique ==
  ASSUME NEW S, IsFiniteSet(S), NEW T \in SUBSET S, NEW f,
         NEW i, Unfolds(f, i, S), NEW j, Unfolds(f, j, T)
  PROVE  i[T] = j[T]
<1> DEFINE Bad == {s \in SUBSET T : i[s] # j[s]}
<1>0. \A s \in SUBSET T : i[s] = Part(f, i, s) /\ j[s] = Part(f, j, s)
  BY DEF Unfolds
<1>1. Bad = {}
  <2> SUFFICES ASSUME Bad # {}
               PROVE  FALSE
    OBVIOUS
  <2>1. IsFiniteSet(T)
    BY FS_Subset
  <2>2. PICK s \in Bad : \A u \in Bad : u \subseteq s => u = s
    <3>1. Bad \subseteq SUBSET T
      OBVIOUS
    <3> HIDE DEF Bad
    <3> QED
      BY <2>1, <3>1, LeastSubset
  <2>3. s # {}
    BY <1>0, <2>2 DEF Part
  <2> DEFINE u == s \ {Pick(s)}
  <2>4. u \in SUBSET T /\ u \subseteq s /\ u # s
    BY <2>2, <2>3, PickIn
  <2>5. i[u] = j[u]
    BY <2>2, <2>4
  <2> QED
    BY <1>0, <2>2, <2>3, <2>5 DEF Part
<1> QED
  BY <1>1

LEMMA SumUnfolds ==
  ASSUME NEW S, IsFiniteSet(S), NEW f
  PROVE  /\ SumFunctionOnSet(f, {}) = 0
         /\ S # {} => SumFunctionOnSet(f, S) =
                        f[Pick(S)] + SumFunctionOnSet(f, S \ {Pick(S)})
<1> DEFINE It(T) == CHOOSE it : Unfolds(f, it, T)
<1>1. ASSUME NEW T, IsFiniteSet(T)
      PROVE  Unfolds(f, It(T), T)
  BY <1>1, UnfoldingExists
<1>2. ASSUME NEW T, IsFiniteSet(T), NEW U \in SUBSET T
      PROVE  It(T)[U] = SumFunctionOnSet(f, U)
  <2>1. IsFiniteSet(U)
    BY <1>2, FS_Subset
  <2>2. Unfolds(f, It(T), T) /\ Unfolds(f, It(U), U)
    BY <1>1, <1>2, <2>1
  <2> HIDE DEF It
  <2>3. It(T)[U] = It(U)[U]
    BY <1>2, <2>2, UnfoldingUnique
  <2> QED
    BY <2>3, SumDefinition DEF It
<1>3. SumFunctionOnSet(f, {}) = 0
  <2>1. IsFiniteSet({})
    BY FS_EmptySet
  <2>2. It({})[{}] = 0
    <3>1. Unfolds(f, It({}), {})
      BY <1>1, <2>1
    <3> HIDE DEF It
    <3> QED
      BY <3>1 DEF Unfolds, Part
  <2> QED
    BY <1>2, <2>1, <2>2
<1>4. ASSUME S # {}
      PROVE  SumFunctionOnSet(f, S) = f[Pick(S)] + SumFunctionOnSet(f, S \ {Pick(S)})
  <2>1. Unfolds(f, It(S), S)
    BY <1>1
  <2>2. It(S)[S] = SumFunctionOnSet(f, S)
        /\ It(S)[S \ {Pick(S)}] = SumFunctionOnSet(f, S \ {Pick(S)})
    BY <1>2
  <2> HIDE DEF It
  <2>3. It(S)[S] = Part(f, It(S), S)
    BY <2>1 DEF Unfolds
  <2> QED
    BY <1>4, <2>2, <2>3 DEF Part
<1> QED
  BY <1>3, <1>4

-----------------------------------------------------------------------------
(* The sum of natural numbers *)

NatValued(f, S) == \A x \in S : f[x] \in Nat

LEMMA SumNat ==
  ASSUME NEW S, IsFiniteSet(S), NEW f, NatValued(f, S)
  PROVE  SumFunctionOnSet(f, S) \in Nat
<1> DEFINE Bad == {s \in SUBSET S : SumFunctionOnSet(f, s) \notin Nat}
<1>1. Bad = {}
  <2> SUFFICES ASSUME Bad # {}
               PROVE  FALSE
    OBVIOUS
  <2>1. PICK s \in Bad : \A u \in Bad : u \subseteq s => u = s
    <3>1. Bad \subseteq SUBSET S
      OBVIOUS
    <3> HIDE DEF Bad
    <3> QED
      BY <3>1, LeastSubset
  <2>2. IsFiniteSet(s) /\ s \in SUBSET S /\ SumFunctionOnSet(f, s) \notin Nat
    BY <2>1, FS_Subset
  <2>3. s # {}
    <3>1. SumFunctionOnSet(f, {}) = 0
      BY SumUnfolds
    <3> QED
      BY <2>2, <3>1
  <2> DEFINE u == s \ {Pick(s)}
  <2>4. Pick(s) \in S /\ u \in SUBSET S /\ u \subseteq s /\ u # s
    BY <2>2, <2>3, PickIn
  <2>5. SumFunctionOnSet(f, u) \in Nat
    BY <2>1, <2>4
  <2>6. f[Pick(s)] \in Nat
    BY <2>4 DEF NatValued
  <2>7. SumFunctionOnSet(f, s) = f[Pick(s)] + SumFunctionOnSet(f, u)
    BY <2>2, <2>3, SumUnfolds
  <2> QED
    BY <2>2, <2>5, <2>6, <2>7
<1> QED
  BY <1>1

\* The order of the elements does not matter.
LEMMA SumTake ==
  ASSUME NEW S, IsFiniteSet(S), NEW f, NatValued(f, S), NEW x \in S
  PROVE  SumFunctionOnSet(f, S) = f[x] + SumFunctionOnSet(f, S \ {x})
<1> DEFINE Takes(s, y) == SumFunctionOnSet(f, s) = f[y] + SumFunctionOnSet(f, s \ {y})
           Bad == {s \in SUBSET S : \E y \in s : ~ Takes(s, y)}
<1>1. Bad = {}
  <2> SUFFICES ASSUME Bad # {}
               PROVE  FALSE
    OBVIOUS
  <2>1. PICK s \in Bad : \A u \in Bad : u \subseteq s => u = s
    <3>1. Bad \subseteq SUBSET S
      OBVIOUS
    <3> HIDE DEF Bad
    <3> QED
      BY <3>1, LeastSubset
  <2>2. IsFiniteSet(s) /\ s \in SUBSET S
    BY <2>1, FS_Subset
  <2>3. PICK y \in s : ~ Takes(s, y)
    BY <2>1
  <2> DEFINE p == Pick(s)
             rest == s \ {p, y}
  <2>4. p \in s /\ SumFunctionOnSet(f, s) = f[p] + SumFunctionOnSet(f, s \ {p})
    BY <2>2, <2>3, SumUnfolds, PickIn
  <2> HIDE DEF p
  <2>5. p # y
    BY <2>3, <2>4
  <2>6. Takes(s \ {p}, y)
    BY <2>1, <2>2, <2>3, <2>4, <2>5
  <2>7. Takes(s \ {y}, p)
    BY <2>1, <2>2, <2>3, <2>4, <2>5
  <2>8. (s \ {p}) \ {y} = rest /\ (s \ {y}) \ {p} = rest
    OBVIOUS
  <2>9. f[p] \in Nat /\ f[y] \in Nat /\ SumFunctionOnSet(f, rest) \in Nat
    <3>1. IsFiniteSet(rest) /\ NatValued(f, rest)
      BY <2>2, FS_Subset DEF NatValued
    <3>2. SumFunctionOnSet(f, rest) \in Nat
      BY <3>1, SumNat
    <3> QED
      BY <2>2, <2>3, <2>4, <3>2 DEF NatValued
  <2> HIDE DEF rest
  <2>10. SumFunctionOnSet(f, s) = f[p] + (f[y] + SumFunctionOnSet(f, rest))
    BY <2>4, <2>6, <2>8
  <2>11. SumFunctionOnSet(f, s \ {y}) = f[p] + SumFunctionOnSet(f, rest)
    BY <2>7, <2>8
  <2>12. SumFunctionOnSet(f, s) = f[y] + SumFunctionOnSet(f, s \ {y})
    BY <2>9, <2>10, <2>11
  <2> QED
    BY <2>3, <2>12
<1> QED
  BY <1>1

\* The sum over one more element.
LEMMA SumAdd ==
  ASSUME NEW S, IsFiniteSet(S), NEW f, NEW x, NatValued(f, S \cup {x}), x \notin S
  PROVE  SumFunctionOnSet(f, S \cup {x}) = SumFunctionOnSet(f, S) + f[x]
<1> DEFINE T == S \cup {x}
<1>1. IsFiniteSet(T)
  BY FS_AddElement
<1>2. SumFunctionOnSet(f, T) = f[x] + SumFunctionOnSet(f, T \ {x})
  BY <1>1, SumTake
<1>3. T \ {x} = S
  OBVIOUS
<1>4. f[x] \in Nat /\ SumFunctionOnSet(f, S) \in Nat
  <2>1. NatValued(f, S)
    BY DEF NatValued
  <2> QED
    BY <2>1, SumNat DEF NatValued
<1>5. SumFunctionOnSet(f, T) = f[x] + SumFunctionOnSet(f, S)
  BY <1>2, <1>3, Zenon
<1>6. SumFunctionOnSet(f, T) = SumFunctionOnSet(f, S) + f[x]
  <2> HIDE DEF T
  <2> QED
    BY <1>4, <1>5
<1> QED
  BY <1>6

\* A function that is not larger anywhere has no larger sum.
LEMMA SumLeq ==
  ASSUME NEW S, IsFiniteSet(S), NEW f, NEW g, NatValued(f, S), NatValued(g, S),
         \A x \in S : f[x] <= g[x]
  PROVE  SumFunctionOnSet(f, S) <= SumFunctionOnSet(g, S)
<1> DEFINE Bad == {s \in SUBSET S : ~(SumFunctionOnSet(f, s) <= SumFunctionOnSet(g, s))}
<1>1. Bad = {}
  <2> SUFFICES ASSUME Bad # {}
               PROVE  FALSE
    OBVIOUS
  <2>1. PICK s \in Bad : \A u \in Bad : u \subseteq s => u = s
    <3>1. Bad \subseteq SUBSET S
      OBVIOUS
    <3> HIDE DEF Bad
    <3> QED
      BY <3>1, LeastSubset
  <2>2. IsFiniteSet(s) /\ s \in SUBSET S
        /\ ~(SumFunctionOnSet(f, s) <= SumFunctionOnSet(g, s))
    BY <2>1, FS_Subset
  <2>3. s # {}
    <3>1. SumFunctionOnSet(f, {}) = 0 /\ SumFunctionOnSet(g, {}) = 0
      BY SumUnfolds
    <3> QED
      BY <2>2, <3>1
  <2> DEFINE p == Pick(s)
             u == s \ {p}
  <2>4. p \in S /\ u \in SUBSET S /\ u \subseteq s /\ u # s
    BY <2>2, <2>3, PickIn
  <2>5. SumFunctionOnSet(f, u) <= SumFunctionOnSet(g, u)
    BY <2>1, <2>4
  <2>6. /\ SumFunctionOnSet(f, s) = f[p] + SumFunctionOnSet(f, u)
        /\ SumFunctionOnSet(g, s) = g[p] + SumFunctionOnSet(g, u)
    BY <2>2, <2>3, SumUnfolds
  <2>7. f[p] \in Nat /\ g[p] \in Nat /\ f[p] <= g[p]
    BY <2>4 DEF NatValued
  <2>8. SumFunctionOnSet(f, u) \in Nat /\ SumFunctionOnSet(g, u) \in Nat
    <3>1. IsFiniteSet(u) /\ NatValued(f, u) /\ NatValued(g, u)
      BY <2>4, FS_Subset DEF NatValued
    <3> QED
      BY <3>1, SumNat
  <2> HIDE DEF u, p, Bad
  <2> QED
    BY <2>2, <2>5, <2>6, <2>7, <2>8
<1>2. S \in SUBSET S
  OBVIOUS
<1> QED
  BY <1>1, <1>2

\* Functions with the same values have the same sum.
LEMMA SumSame ==
  ASSUME NEW S, IsFiniteSet(S), NEW f, NEW g, NatValued(f, S),
         \A x \in S : f[x] = g[x]
  PROVE  SumFunctionOnSet(f, S) = SumFunctionOnSet(g, S)
<1>1. NatValued(g, S)
  BY DEF NatValued
<1>2. \A x \in S : f[x] <= g[x] /\ g[x] <= f[x]
  BY DEF NatValued
<1>3. /\ SumFunctionOnSet(f, S) <= SumFunctionOnSet(g, S)
      /\ SumFunctionOnSet(g, S) <= SumFunctionOnSet(f, S)
  BY <1>1, <1>2, SumLeq
<1>4. SumFunctionOnSet(f, S) \in Nat /\ SumFunctionOnSet(g, S) \in Nat
  BY <1>1, SumNat
<1> QED
  BY <1>3, <1>4

LEMMA SumZero ==
  ASSUME NEW S, IsFiniteSet(S), NEW f, \A x \in S : f[x] = 0
  PROVE  SumFunctionOnSet(f, S) = 0
<1> DEFINE Bad == {s \in SUBSET S : SumFunctionOnSet(f, s) # 0}
<1>1. Bad = {}
  <2> SUFFICES ASSUME Bad # {}
               PROVE  FALSE
    OBVIOUS
  <2>1. PICK s \in Bad : \A u \in Bad : u \subseteq s => u = s
    <3>1. Bad \subseteq SUBSET S
      OBVIOUS
    <3> HIDE DEF Bad
    <3> QED
      BY <3>1, LeastSubset
  <2>2. IsFiniteSet(s) /\ s \in SUBSET S /\ SumFunctionOnSet(f, s) # 0
    BY <2>1, FS_Subset
  <2>3. s # {}
    <3>1. SumFunctionOnSet(f, {}) = 0
      BY SumUnfolds
    <3> QED
      BY <2>2, <3>1
  <2> DEFINE u == s \ {Pick(s)}
  <2>4. Pick(s) \in S /\ u \in SUBSET S /\ u \subseteq s /\ u # s
    BY <2>2, <2>3, PickIn
  <2>5. SumFunctionOnSet(f, u) = 0 /\ f[Pick(s)] = 0
    BY <2>1, <2>4
  <2>6. SumFunctionOnSet(f, s) = f[Pick(s)] + SumFunctionOnSet(f, u)
    BY <2>2, <2>3, SumUnfolds
  <2> QED
    BY <2>2, <2>5, <2>6
<1>2. S \in SUBSET S
  OBVIOUS
<1> QED
  BY <1>1, <1>2

\* The sum over part of a set.
LEMMA SumSubset ==
  ASSUME NEW S, IsFiniteSet(S), NEW f, NatValued(f, S), NEW T \in SUBSET S
  PROVE  SumFunctionOnSet(f, T) <= SumFunctionOnSet(f, S)
<1> DEFINE Bad == {s \in SUBSET S : /\ T \subseteq s
                                    /\ ~(SumFunctionOnSet(f, T) <= SumFunctionOnSet(f, s))}
<1>1. Bad = {}
  <2> SUFFICES ASSUME Bad # {}
               PROVE  FALSE
    OBVIOUS
  <2>1. PICK s \in Bad : \A u \in Bad : u \subseteq s => u = s
    <3>1. Bad \subseteq SUBSET S
      OBVIOUS
    <3> HIDE DEF Bad
    <3> QED
      BY <3>1, LeastSubset
  <2>2. IsFiniteSet(s) /\ s \in SUBSET S /\ T \subseteq s /\ NatValued(f, s) /\ NatValued(f, T)
        /\ ~(SumFunctionOnSet(f, T) <= SumFunctionOnSet(f, s))
    BY <2>1, FS_Subset DEF NatValued
  <2>3. SumFunctionOnSet(f, T) \in Nat
    BY <2>2, FS_Subset, SumNat
  <2>4. s # T
    BY <2>2, <2>3
  <2>5. PICK x \in s : x \notin T
    BY <2>2, <2>4
  <2> DEFINE u == s \ {x}
  <2>6. u \in SUBSET S /\ T \subseteq u /\ u \subseteq s /\ u # s
    BY <2>2, <2>5
  <2>7. SumFunctionOnSet(f, T) <= SumFunctionOnSet(f, u)
    BY <2>1, <2>6
  <2>8. SumFunctionOnSet(f, s) = f[x] + SumFunctionOnSet(f, u)
    BY <2>2, SumTake
  <2>9. f[x] \in Nat /\ SumFunctionOnSet(f, u) \in Nat
    <3>1. IsFiniteSet(u) /\ NatValued(f, u)
      BY <2>2, FS_Subset DEF NatValued
    <3> QED
      BY <2>2, <3>1, SumNat DEF NatValued
  <2> HIDE DEF u, Bad
  <2> QED
    BY <2>2, <2>3, <2>7, <2>8, <2>9
<1>2. S \in SUBSET S
  OBVIOUS
<1> QED
  BY <1>1, <1>2

\* The sum of two functions.
LEMMA SumBoth ==
  ASSUME NEW S, IsFiniteSet(S), NEW f, NEW g, NEW h, NatValued(f, S), NatValued(g, S),
         \A x \in S : h[x] = f[x] + g[x]
  PROVE  SumFunctionOnSet(h, S) = SumFunctionOnSet(f, S) + SumFunctionOnSet(g, S)
<1> DEFINE Adds(s) == SumFunctionOnSet(h, s) = SumFunctionOnSet(f, s) + SumFunctionOnSet(g, s)
           Bad == {s \in SUBSET S : ~ Adds(s)}
<1>1. Bad = {}
  <2> SUFFICES ASSUME Bad # {}
               PROVE  FALSE
    OBVIOUS
  <2>1. PICK s \in Bad : \A u \in Bad : u \subseteq s => u = s
    <3>1. Bad \subseteq SUBSET S
      OBVIOUS
    <3> HIDE DEF Bad
    <3> QED
      BY <3>1, LeastSubset
  <2>2. IsFiniteSet(s) /\ s \in SUBSET S /\ ~ Adds(s)
    BY <2>1, FS_Subset
  <2>3. s # {}
    <3>1. SumFunctionOnSet(f, {}) = 0 /\ SumFunctionOnSet(g, {}) = 0
          /\ SumFunctionOnSet(h, {}) = 0
      BY SumUnfolds
    <3> QED
      BY <2>2, <3>1
  <2> DEFINE p == Pick(s)
             u == s \ {p}
  <2>4. p \in S /\ u \in SUBSET S /\ u \subseteq s /\ u # s
    BY <2>2, <2>3, PickIn
  <2>5. Adds(u)
    BY <2>1, <2>4
  <2>6. /\ SumFunctionOnSet(f, s) = f[p] + SumFunctionOnSet(f, u)
        /\ SumFunctionOnSet(g, s) = g[p] + SumFunctionOnSet(g, u)
        /\ SumFunctionOnSet(h, s) = h[p] + SumFunctionOnSet(h, u)
    BY <2>2, <2>3, SumUnfolds
  <2>7. f[p] \in Nat /\ g[p] \in Nat /\ h[p] = f[p] + g[p]
    BY <2>4 DEF NatValued
  <2>8. SumFunctionOnSet(f, u) \in Nat /\ SumFunctionOnSet(g, u) \in Nat
    <3>1. IsFiniteSet(u) /\ NatValued(f, u) /\ NatValued(g, u)
      BY <2>4, FS_Subset DEF NatValued
    <3> QED
      BY <3>1, SumNat
  <2> HIDE DEF u, p, Bad
  <2> QED
    BY <2>2, <2>5, <2>6, <2>7, <2>8
<1>2. S \in SUBSET S
  OBVIOUS
<1> QED
  BY <1>1, <1>2
=============================================================================
