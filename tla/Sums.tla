----------------------------------- MODULE Sums -----------------------------------
(***************************************************************************)
(* Lemmas about sums over finite sets.                                     *)
(*                                                                         *)
(* The models sum with MapThenSumSet, which FiniteSetsExt defines by a     *)
(* recursive function on the subsets of a set.  What is shown of such a    *)
(* function is shown by induction; as the induction theorems of the        *)
(* library take an operator as parameter, which the provers cannot         *)
(* instantiate, the principle is derived here for a set of numbers, from   *)
(* the theorem WFMin that a well-founded relation has minimal elements.    *)
(***************************************************************************)
EXTENDS Integers, FiniteSets, FiniteSetTheorems, TLAPS

(***************************************************************************)
(* Induction, for sets of numbers and for sets of subsets                  *)
(***************************************************************************)

\* A set that contains 0 and the successor of each of its numbers contains them all.
LEMMA NumbersByInduction ==
  ASSUME NEW T, 0 \in T, \A n \in Nat : n \in T => n + 1 \in T
  PROVE  Nat \subseteq T
<1> DEFINE Missing == Nat \ T
           Less == OpToRel(<, Nat)
<1>1. SUFFICES ASSUME Missing # {} PROVE FALSE
  OBVIOUS
<1>2. Missing \subseteq Nat
  OBVIOUS
<1>3. IsWellFoundedOn(Less, Nat)
  BY NatLessThanWellFounded
<1>4. PICK n \in Missing : \A m \in Missing : <<m, n>> \notin Less
  <2> HIDE DEF Less, Missing
  <2> QED
    BY <1>1, <1>2, <1>3, WFMin
<1>5. n \in Nat /\ n # 0 /\ n \notin T
  OBVIOUS
<1>6. <<n - 1, n>> \in Less /\ n - 1 \in Nat
  BY <1>5 DEF OpToRel
<1>7. n - 1 \in T
  BY <1>4, <1>6
<1>8. (n - 1) + 1 = n
  BY <1>5
<1> QED
  BY <1>5, <1>6, <1>7, <1>8

Some(s) == CHOOSE x \in s : TRUE

\* A nonempty set has the element that the folds take from it first.
LEMMA SomeIsMember ==
  ASSUME NEW s, s # {}
  PROVE  Some(s) \in s
BY DEF Some

\* Without that element a set has one element less.
LEMMA WithoutSome ==
  ASSUME NEW S, IsFiniteSet(S), NEW s \in SUBSET S, s # {}
  PROVE  /\ Cardinality(s) \in Nat /\ Cardinality(s) # 0
         /\ Cardinality(s \ {Some(s)}) = Cardinality(s) - 1
         /\ s \ {Some(s)} \in SUBSET S
<1>1. IsFiniteSet(s)
  BY FS_Subset
<1>2. Cardinality(s) \in Nat /\ Cardinality(s) # 0
  BY <1>1, FS_CardinalityType, FS_EmptySet
<1>3. Cardinality(s \ {Some(s)}) = Cardinality(s) - 1
  BY <1>1, SomeIsMember, FS_RemoveElement
<1> QED
  BY <1>2, <1>3

\* A set of subsets that contains the empty one, and every set that it contains
\* without an element, contains all subsets of a finite set.
LEMMA SubsetsByInduction ==
  ASSUME NEW S, IsFiniteSet(S), NEW T, {} \in T,
         \A s \in SUBSET S : s # {} /\ s \ {Some(s)} \in T => s \in T
  PROVE  SUBSET S \subseteq T
<1> DEFINE Sizes == {n \in Nat : \A s \in SUBSET S : Cardinality(s) = n => s \in T}
<1>1. 0 \in Sizes
  <2> SUFFICES ASSUME NEW s \in SUBSET S, Cardinality(s) = 0 PROVE s \in T
    OBVIOUS
  <2>1. IsFiniteSet(s)
    BY FS_Subset
  <2> QED
    BY <2>1, FS_EmptySet
<1>2. ASSUME NEW n \in Nat, n \in Sizes PROVE n + 1 \in Sizes
  <2> SUFFICES ASSUME NEW s \in SUBSET S, Cardinality(s) = n + 1 PROVE s \in T
    OBVIOUS
  <2>1. s # {}
    BY FS_EmptySet
  <2>2. Cardinality(s \ {Some(s)}) = n /\ s \ {Some(s)} \in SUBSET S
    BY <2>1, WithoutSome
  <2> QED
    BY <1>2, <2>1, <2>2
<1>3. Nat \subseteq Sizes
  <2> HIDE DEF Sizes
  <2> QED
    BY <1>1, <1>2, NumbersByInduction
<1>4. ASSUME NEW s \in SUBSET S PROVE Cardinality(s) \in Nat
  BY FS_Subset, FS_CardinalityType
<1> QED
  BY <1>3, <1>4

(***************************************************************************)
(* Sums                                                                    *)
(***************************************************************************)

\* g maps each set of P to the sum over it of the numbers w.
SumsOver(g, w, P) ==
  g = [s \in P |-> IF s = {} THEN 0 ELSE w[Some(s)] + g[s \ {Some(s)}]]

\* The recursive function of a sum exists.
LEMMA SumsExist ==
  ASSUME NEW S, IsFiniteSet(S), NEW w
  PROVE  \E g : SumsOver(g, w, SUBSET S)
<1> DEFINE UpTo(n) == {s \in SUBSET S : Cardinality(s) <= n}
           Sizes == {n \in Nat : \E g : SumsOver(g, w, UpTo(n))}
<1>1. 0 \in Sizes
  <2> DEFINE g == [s \in UpTo(0) |-> 0]
  <2>1. ASSUME NEW s \in UpTo(0) PROVE s = {}
    <3>1. s \in SUBSET S /\ Cardinality(s) <= 0
      OBVIOUS
    <3>2. s # {} => Cardinality(s) \in Nat /\ Cardinality(s) # 0
      BY <3>1, WithoutSome
    <3> QED
      BY <3>1, <3>2
  <2>2. SumsOver(g, w, UpTo(0))
    BY <2>1 DEF SumsOver
  <2> QED
    BY <2>2
<1>2. ASSUME NEW n \in Nat, n \in Sizes PROVE n + 1 \in Sizes
  <2>1. PICK g : SumsOver(g, w, UpTo(n))
    BY <1>2
  <2> DEFINE Step(f, s) == IF s = {} THEN 0 ELSE w[Some(s)] + f[s \ {Some(s)}]
             h == [s \in UpTo(n + 1) |-> IF s \in UpTo(n) THEN g[s] ELSE Step(g, s)]
  <2>2. ASSUME NEW s \in UpTo(n + 1), s # {}
        PROVE  /\ s \ {Some(s)} \in UpTo(n)
               /\ s \ {Some(s)} \in UpTo(n + 1)
    BY <2>2, WithoutSome
  <2>3. ASSUME NEW s \in UpTo(n) PROVE g[s] = Step(g, s)
    BY <2>1 DEF SumsOver
  <2>4. ASSUME NEW s \in UpTo(n + 1) PROVE h[s] = Step(h, s)
    <3>1. h[s] = Step(g, s)
      BY <2>3
    <3>2. s # {} => h[s \ {Some(s)}] = g[s \ {Some(s)}]
      BY <2>2
    <3> HIDE DEF h
    <3> QED
      BY <3>1, <3>2
  <2>5. SumsOver(h, w, UpTo(n + 1))
    <3> h = [s \in UpTo(n + 1) |-> h[s]]
      OBVIOUS
    <3> HIDE DEF h, UpTo
    <3> QED
      BY <2>4 DEF SumsOver
  <2>6. \E f : SumsOver(f, w, UpTo(n + 1))
    <3> HIDE DEF h, UpTo
    <3> QED
      BY <2>5
  <2> HIDE DEF UpTo
  <2> QED
    BY <2>6
<1>3. Nat \subseteq Sizes
  <2> HIDE DEF Sizes
  <2> QED
    BY <1>1, <1>2, NumbersByInduction
<1>4. Cardinality(S) \in Nat
  BY FS_CardinalityType
<1>5. UpTo(Cardinality(S)) = SUBSET S
  BY FS_Subset
<1> QED
  BY <1>3, <1>4, <1>5

\* The sum of nothing, and what an element adds.
Adds(g, w, S) ==
  \A s \in SUBSET S :
    /\ s = {} => g[s] = 0
    /\ s # {} => g[s] = w[Some(s)] + g[s \ {Some(s)}]

LEMMA SumsStep ==
  ASSUME NEW S, NEW w, NEW g, SumsOver(g, w, SUBSET S)
  PROVE  Adds(g, w, S)
BY DEF SumsOver, Adds

\* A sum of natural numbers is one.
LEMMA SumsAreNat ==
  ASSUME NEW S, IsFiniteSet(S), NEW w \in [S -> Nat], NEW g, SumsOver(g, w, SUBSET S)
  PROVE  \A s \in SUBSET S : g[s] \in Nat
<1> DEFINE T == {s \in SUBSET S : g[s] \in Nat}
<1>1. {} \in T
  <2>1. g[{}] = 0
    BY SumsStep DEF Adds
  <2> QED
    BY <2>1
<1>2. ASSUME NEW s \in SUBSET S, s # {}, s \ {Some(s)} \in T PROVE s \in T
  <2>1. g[s] = w[Some(s)] + g[s \ {Some(s)}]
    BY <1>2, SumsStep DEF Adds
  <2>2. w[Some(s)] \in Nat
    BY <1>2, SomeIsMember
  <2> QED
    BY <1>2, <2>1, <2>2
<1>3. SUBSET S \subseteq T
  <2> HIDE DEF T
  <2> QED
    BY <1>1, <1>2, SubsetsByInduction
<1> QED
  BY <1>3

(***************************************************************************)
(* The total of a set                                                      *)
(***************************************************************************)

\* n is the sum over S of the numbers w.
IsTotal(n, w, S) == \E g : SumsOver(g, w, SUBSET S) /\ n = g[S]

\* Nothing adds up to 0.
LEMMA TotalOfNothing ==
  ASSUME NEW n, NEW w, IsTotal(n, w, {})
  PROVE  n = 0
<1>1. PICK g : SumsOver(g, w, SUBSET {}) /\ n = g[{}]
  BY DEF IsTotal
<1> QED
  BY <1>1, SumsStep DEF Adds

\* Natural numbers add up to one.
LEMMA TotalIsNat ==
  ASSUME NEW S, IsFiniteSet(S), NEW w \in [S -> Nat], NEW n, IsTotal(n, w, S)
  PROVE  n \in Nat
<1>1. PICK g : SumsOver(g, w, SUBSET S) /\ n = g[S]
  BY DEF IsTotal
<1>2. \A s \in SUBSET S : g[s] \in Nat
  BY <1>1, SumsAreNat
<1> QED
  BY <1>1, <1>2

SameOn(v, w, S) == \A x \in S : v[x] = w[x]

\* A sum over more is one over less.
LEMMA AddsWithin ==
  ASSUME NEW P, NEW S \in SUBSET P, NEW w, NEW g, Adds(g, w, P)
  PROVE  Adds(g, w, S)
BY DEF Adds

\* Sums of the same numbers are the same.
LEMMA SumsAgree ==
  ASSUME NEW S, IsFiniteSet(S), NEW v, NEW w, SameOn(v, w, S),
         NEW g, Adds(g, v, S), NEW h, Adds(h, w, S)
  PROVE  g[S] = h[S]
<1> DEFINE T == {s \in SUBSET S : g[s] = h[s]}
<1>1. {} \in T
  <2>1. {} \in SUBSET S
    OBVIOUS
  <2>2. g[{}] = 0 /\ h[{}] = 0
    BY <2>1 DEF Adds
  <2> QED
    BY <2>1, <2>2
<1>2. ASSUME NEW s \in SUBSET S, s # {}, s \ {Some(s)} \in T PROVE s \in T
  <2>1. Some(s) \in S
    BY <1>2, SomeIsMember
  <2>2. g[s] = v[Some(s)] + g[s \ {Some(s)}]
    BY <1>2 DEF Adds
  <2>3. h[s] = w[Some(s)] + h[s \ {Some(s)}]
    BY <1>2 DEF Adds
  <2>4. g[s \ {Some(s)}] = h[s \ {Some(s)}] /\ v[Some(s)] = w[Some(s)]
    BY <1>2, <2>1 DEF SameOn
  <2> QED
    BY <2>2, <2>3, <2>4
<1>3. SUBSET S \subseteq T
  <2> HIDE DEF T
  <2> QED
    BY <1>1, <1>2, SubsetsByInduction
<1> QED
  BY <1>3

TakesAny(g, w, S) == \A s \in SUBSET S : \A y \in s : g[s] = w[y] + g[s \ {y}]

\* It does not matter which element is taken first.
LEMMA SumsTakeAny ==
  ASSUME NEW S, IsFiniteSet(S), NEW w \in [S -> Nat], NEW g, SumsOver(g, w, SUBSET S)
  PROVE  TakesAny(g, w, S)
<1> DEFINE Any(s) == \A y \in s : g[s] = w[y] + g[s \ {y}]
           Sizes == {n \in Nat : \A s \in SUBSET S : Cardinality(s) = n => Any(s)}
<1>1. Adds(g, w, S) /\ \A s \in SUBSET S : g[s] \in Nat
  BY SumsStep, SumsAreNat
<1>2. 0 \in Sizes
  <2> SUFFICES ASSUME NEW s \in SUBSET S, Cardinality(s) = 0 PROVE s = {}
    OBVIOUS
  <2> QED
    BY FS_Subset, FS_EmptySet
<1>3. ASSUME NEW n \in Nat, n \in Sizes PROVE n + 1 \in Sizes
  <2> SUFFICES ASSUME NEW s \in SUBSET S, Cardinality(s) = n + 1, NEW y \in s
               PROVE  g[s] = w[y] + g[s \ {y}]
    OBVIOUS
  <2> DEFINE z == Some(s)
  <2>1. z \in s /\ g[s] = w[z] + g[s \ {z}]
    BY <1>1, SomeIsMember DEF Adds
  <2> HIDE DEF z
  <2>2. CASE y = z
    BY <2>1, <2>2
  <2>3. CASE y # z
    <3>1. IsFiniteSet(s)
      BY FS_Subset
    <3>2. Cardinality(s \ {z}) = n /\ Cardinality(s \ {y}) = n
      <4>1. Cardinality(s \ {z}) = Cardinality(s) - 1
        BY <2>1, <3>1, FS_RemoveElement
      <4>2. Cardinality(s \ {y}) = Cardinality(s) - 1
        BY <3>1, FS_RemoveElement
      <4> QED
        BY <4>1, <4>2
    <3>3. g[s \ {z}] = w[y] + g[(s \ {z}) \ {y}]
      BY <1>3, <2>3, <3>2
    <3>4. g[s \ {y}] = w[z] + g[(s \ {y}) \ {z}]
      BY <1>3, <2>1, <2>3, <3>2
    <3>5. (s \ {z}) \ {y} = (s \ {y}) \ {z}
      OBVIOUS
    <3> DEFINE rest == g[(s \ {y}) \ {z}]
    <3>6. rest \in Nat /\ w[y] \in Nat /\ w[z] \in Nat
      BY <1>1, <2>1
    <3>7. g[s] = w[z] + (w[y] + rest) /\ g[s \ {y}] = w[z] + rest
      BY <2>1, <3>3, <3>4, <3>5
    <3> HIDE DEF rest
    <3> QED
      BY <3>6, <3>7
  <2> QED
    BY <2>2, <2>3
<1>4. Nat \subseteq Sizes
  <2> HIDE DEF Sizes
  <2> QED
    BY <1>2, <1>3, NumbersByInduction
<1>5. ASSUME NEW s \in SUBSET S PROVE Cardinality(s) \in Nat
  BY FS_Subset, FS_CardinalityType
<1> QED
  BY <1>4, <1>5 DEF TakesAny

\* The total does not depend on more than the numbers.
LEMMA TotalsAgree ==
  ASSUME NEW S, IsFiniteSet(S), NEW v, NEW w, SameOn(v, w, S),
         NEW m, IsTotal(m, v, S), NEW n, IsTotal(n, w, S)
  PROVE  m = n
<1>1. PICK g : SumsOver(g, v, SUBSET S) /\ m = g[S]
  BY DEF IsTotal
<1>2. PICK h : SumsOver(h, w, SUBSET S) /\ n = h[S]
  BY DEF IsTotal
<1>3. Adds(g, v, S) /\ Adds(h, w, S)
  BY <1>1, <1>2, SumsStep
<1>4. g[S] = h[S]
  BY <1>3, SumsAgree
<1> QED
  BY <1>1, <1>2, <1>4

\* One more element adds its number.
LEMMA TotalOfOneMore ==
  ASSUME NEW S, IsFiniteSet(S), NEW x, x \notin S, NEW w \in [S \cup {x} -> Nat],
         NEW v, SameOn(v, w, S),
         NEW m, IsTotal(m, v, S), NEW n, IsTotal(n, w, S \cup {x})
  PROVE  n = m + w[x]
<1> DEFINE R == S \cup {x}
<1>1. PICK g : SumsOver(g, v, SUBSET S) /\ m = g[S]
  BY DEF IsTotal
<1>2. PICK h : SumsOver(h, w, SUBSET R) /\ n = h[R]
  BY DEF IsTotal
<1>3. IsFiniteSet(R)
  BY FS_AddElement
<1>4. S \subseteq S /\ S \subseteq R
  OBVIOUS
<1> HIDE DEF R
<1>5. g[S] = h[S]
  <2>1. Adds(g, v, S) /\ Adds(h, w, R)
    BY <1>1, <1>2, SumsStep
  <2>2. Adds(h, w, S)
    BY <1>4, <2>1, AddsWithin
  <2> QED
    BY <2>1, <2>2, SumsAgree
<1>6. w \in [R -> Nat] /\ R \in SUBSET R /\ x \in R /\ R \ {x} = S
  BY DEF R
<1>7. TakesAny(h, w, R)
  BY <1>2, <1>3, <1>6, SumsTakeAny
<1>8. h[R] = w[x] + h[S]
  BY <1>6, <1>7 DEF TakesAny
<1>9. \A s \in SUBSET R : h[s] \in Nat
  BY <1>2, <1>3, <1>6, SumsAreNat
<1>10. h[S] \in Nat /\ w[x] \in Nat
  BY <1>4, <1>6, <1>9
<1>11. m = h[S] /\ n = h[R]
  BY <1>1, <1>2, <1>5
<1> QED
  BY <1>8, <1>10, <1>11
=============================================================================
