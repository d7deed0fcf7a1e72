---------------------------- MODULE FiniteSums ----------------------------
(***************************************************************************)
(* Induction over natural numbers and over finite sets, stated with sets   *)
(* instead of predicates, and what it says about SumFunctionOnSet of the   *)
(* module Functions: the sum of f[x] over the elements x of a finite set   *)
(* does not depend on the order in which they are chosen.                  *)
(***************************************************************************)
EXTENDS Integers, FiniteSets, Functions, FiniteSetTheorems, WellFoundedInduction, TLAPS

\* A set of natural numbers that holds 0 and, with each number, the next, holds all.
LEMMA NumberInduction ==
  ASSUME NEW S \in SUBSET Nat, 0 \in S, \A n \in S : n + 1 \in S
  PROVE  S = Nat
<1>1. SUFFICES ASSUME Nat \ S # {} PROVE FALSE
  OBVIOUS
<1>2. PICK x \in Nat \ S : \A y \in Nat \ S : ~(<<y, x>> \in OpToRel(<, Nat))
  <2>1. IsWellFoundedOn(OpToRel(<, Nat), Nat)
    BY NatLessThanWellFounded
  <2>2. Nat \ S \subseteq Nat
    OBVIOUS
  <2>3. QED
    BY <1>1, <2>1, <2>2, WFMin
<1>3. x - 1 \in Nat \ S /\ x # 0
  OBVIOUS
<1>4. <<x - 1, x>> \in OpToRel(<, Nat)
  BY <1>3 DEF OpToRel
<1>5. QED
  BY <1>2, <1>3, <1>4

\* A family of subsets that holds the empty one and, with each subset, every
\* extension by one element, holds the whole finite set.
LEMMA SetInduction ==
  ASSUME NEW S, IsFiniteSet(S), NEW Q \in SUBSET (SUBSET S), {} \in Q,
         \A T \in Q, x \in S : x \notin T => T \cup {x} \in Q
  PROVE  Q = SUBSET S
<1> DEFINE Good == {n \in Nat : \A T \in SUBSET S : Cardinality(T) = n => T \in Q}
<1>1. \A T \in SUBSET S : IsFiniteSet(T) /\ Cardinality(T) \in Nat
  BY FS_Subset, FS_CardinalityType
<1>2. 0 \in Good
  BY <1>1, FS_EmptySet
<1>3. ASSUME NEW n \in Good PROVE n + 1 \in Good
  <2>1. SUFFICES ASSUME NEW T \in SUBSET S, Cardinality(T) = n + 1 PROVE T \in Q
    OBVIOUS
  <2>2. PICK x : x \in T
    BY <1>1, <2>1, FS_EmptySet
  <2>3. Cardinality(T \ {x}) = n
    BY <1>1, <2>1, <2>2, FS_RemoveElement
  <2>4. T \ {x} \in Q
    BY <2>3
  <2>5. T = (T \ {x}) \cup {x}
    BY <2>2
  <2>6. QED
    BY <2>2, <2>4, <2>5
<1> HIDE DEF Good
<1>4. Good = Nat
  <2>1. Good \in SUBSET Nat
    BY DEF Good
  <2>2. QED
    BY <1>2, <1>3, <2>1, NumberInduction
<1>5. QED
  BY <1>1, <1>4 DEF Good
-----------------------------------------------------------------------------
Picked(s) == CHOOSE x \in s : TRUE

\* One unfolding of the recursion of a sum.
Unfold(f, g, s) == IF s = {} THEN 0 ELSE f[Picked(s)] + g[s \ {Picked(s)}]

\* g holds the sums over all subsets of S.
Sums(g, f, S) == g = [s \in SUBSET S |-> Unfold(f, g, s)]

\* The recursion has a solution.
LEMMA SumsExist == ASSUME NEW f, NEW S, IsFiniteSet(S) PROVE \E g : Sums(g, f, S)
<1> DEFINE UpTo(g, n) == \A s \in SUBSET S : Cardinality(s) <= n => g[s] = Unfold(f, g, s)
           Good == {n \in Nat : \E g : UpTo(g, n)}
<1>1. \A s \in SUBSET S : IsFiniteSet(s) /\ Cardinality(s) \in Nat /\ Cardinality(s) <= Cardinality(S)
  BY FS_Subset, FS_CardinalityType
<1>2. \A s \in SUBSET S : s # {} =>
        s \ {Picked(s)} \in SUBSET S /\ Cardinality(s \ {Picked(s)}) = Cardinality(s) - 1
  BY <1>1, FS_RemoveElement DEF Picked
<1>3. 0 \in Good
  <2>1. UpTo([s \in SUBSET S |-> 0], 0)
    BY <1>1, FS_EmptySet DEF Unfold
  <2>2. QED
    BY <2>1
<1>4. ASSUME NEW n \in Good PROVE n + 1 \in Good
  <2>1. PICK g : UpTo(g, n)
    OBVIOUS
  <2> DEFINE h == [s \in SUBSET S |-> Unfold(f, g, s)]
  <2>2. ASSUME NEW s \in SUBSET S, Cardinality(s) <= n + 1 PROVE h[s] = Unfold(f, h, s)
    <3>1. CASE s = {}
      BY <3>1 DEF Unfold
    <3>2. CASE s # {}
      <4>1. Cardinality(s \ {Picked(s)}) <= n
        BY <1>1, <1>2, <2>2, <3>2
      <4>2. h[s \ {Picked(s)}] = g[s \ {Picked(s)}]
        BY <1>2, <2>1, <3>2, <4>1
      <4>3. QED
        BY <3>2, <4>2 DEF Unfold
    <3>3. QED
      BY <3>1, <3>2
  <2>3. UpTo(h, n + 1)
    BY <2>2
  <2> HIDE DEF h
  <2>4. \E k : UpTo(k, n + 1)
    BY <2>3
  <2>5. n + 1 \in Nat
    OBVIOUS
  <2>6. QED
    BY <2>4, <2>5
<1> HIDE DEF Good
<1>5. Good = Nat
  <2>1. Good \in SUBSET Nat
    BY DEF Good
  <2>2. QED
    BY <1>3, <1>4, <2>1, NumberInduction
<1>6. PICK g : UpTo(g, Cardinality(S))
  BY <1>1, <1>5, FS_CardinalityType DEF Good
<1> DEFINE h == [s \in SUBSET S |-> g[s]]
<1>7. ASSUME NEW s \in SUBSET S PROVE h[s] = Unfold(f, h, s)
  BY <1>1, <1>2, <1>6 DEF Unfold
<1>8. Sums(h, f, S)
  BY <1>7 DEF Sums
<1>9. QED
  BY <1>8

\* The operator of the library is such a solution, taken at the whole set.
LEMMA SumIsSolution ==
  ASSUME NEW f, NEW S, IsFiniteSet(S)
  PROVE  \E g : Sums(g, f, S) /\ SumFunctionOnSet(f, S) = g[S]
<1> DEFINE g == CHOOSE h : h = [s \in SUBSET S |-> Unfold(f, h, s)]
<1>1. Sums(g, f, S)
  BY SumsExist DEF Sums
<1>2. SumFunctionOnSet(f, S) = g[S]
  BY DEF SumFunctionOnSet, FoldFunctionOnSet, MapThenFoldSet, Unfold, Picked
<1>3. QED
  BY <1>1, <1>2

\* Solutions agree wherever both are defined.
LEMMA SolutionsAgree ==
  ASSUME NEW f, NEW S, NEW T, NEW U \in SUBSET S, U \subseteq T, IsFiniteSet(U),
         NEW g, NEW h, Sums(g, f, S), Sums(h, f, T)
  PROVE  g[U] = h[U]
<1> DEFINE Good == {n \in Nat : \A V \in SUBSET U : Cardinality(V) = n => g[V] = h[V]}
<1>1. \A V \in SUBSET U : IsFiniteSet(V) /\ Cardinality(V) \in Nat
  BY FS_Subset, FS_CardinalityType
<1>2. \A V \in SUBSET U : g[V] = Unfold(f, g, V) /\ h[V] = Unfold(f, h, V)
  BY DEF Sums
<1>3. 0 \in Good
  BY <1>1, <1>2, FS_EmptySet DEF Unfold
<1>4. ASSUME NEW n \in Good PROVE n + 1 \in Good
  <2>1. SUFFICES ASSUME NEW V \in SUBSET U, Cardinality(V) = n + 1 PROVE g[V] = h[V]
    OBVIOUS
  <2>2. V # {} /\ Picked(V) \in V
    BY <1>1, <2>1, FS_EmptySet DEF Picked
  <2>3. Cardinality(V \ {Picked(V)}) = n
    BY <1>1, <2>1, <2>2, FS_RemoveElement
  <2>4. g[V \ {Picked(V)}] = h[V \ {Picked(V)}]
    BY <2>3
  <2>5. QED
    BY <1>2, <2>2, <2>4 DEF Unfold
<1> HIDE DEF Good
<1>5. Good = Nat
  <2>1. Good \in SUBSET Nat
    BY DEF Good
  <2>2. QED
    BY <1>3, <1>4, <2>1, NumberInduction
<1>6. QED
  BY <1>1, <1>5 DEF Good

\* The recursion of the sum, for the element the library happens to choose.
LEMMA SumUnfolds ==
  ASSUME NEW f, NEW S, IsFiniteSet(S)
  PROVE  /\ S = {} => SumFunctionOnSet(f, S) = 0
         /\ S # {} => /\ Picked(S) \in S
                      /\ SumFunctionOnSet(f, S) = f[Picked(S)] + SumFunctionOnSet(f, S \ {Picked(S)})
<1>1. PICK g : Sums(g, f, S) /\ SumFunctionOnSet(f, S) = g[S]
  BY SumIsSolution
<1>2. g[S] = Unfold(f, g, S)
  BY <1>1 DEF Sums
<1>3. CASE S = {}
  BY <1>1, <1>2, <1>3 DEF Unfold
<1>4. CASE S # {}
  <2> DEFINE T == S \ {Picked(S)}
  <2>1. Picked(S) \in S
    BY <1>4 DEF Picked
  <2>2. IsFiniteSet(T)
    BY FS_RemoveElement
  <2>3. PICK h : Sums(h, f, T) /\ SumFunctionOnSet(f, T) = h[T]
    BY <2>2, SumIsSolution
  <2>4. g[T] = h[T]
    BY <1>1, <2>2, <2>3, SolutionsAgree
  <2>5. QED
    BY <1>1, <1>2, <1>4, <2>1, <2>3, <2>4 DEF Unfold
<1>5. QED
  BY <1>3, <1>4

\* A sum of integers is an integer, a sum of natural numbers a natural number.
LEMMA SumType ==
  ASSUME NEW S, IsFiniteSet(S), NEW f, \A x \in S : f[x] \in Int
  PROVE  /\ SumFunctionOnSet(f, S) \in Int
         /\ (\A x \in S : f[x] >= 0) => SumFunctionOnSet(f, S) >= 0
<1> DEFINE Fine(T) == /\ SumFunctionOnSet(f, T) \in Int
                      /\ (\A x \in S : f[x] >= 0) => SumFunctionOnSet(f, T) >= 0
           Good == {n \in Nat : \A T \in SUBSET S : Cardinality(T) = n => Fine(T)}
<1>1. \A T \in SUBSET S : IsFiniteSet(T) /\ Cardinality(T) \in Nat
  BY FS_Subset, FS_CardinalityType
<1>2. 0 \in Good
  <2>1. SumFunctionOnSet(f, {}) = 0
    BY FS_EmptySet, SumUnfolds
  <2>2. Fine({})
    BY <2>1
  <2>3. QED
    BY <1>1, <2>2, FS_EmptySet
<1>3. ASSUME NEW n \in Good PROVE n + 1 \in Good
  <2>1. SUFFICES ASSUME NEW T \in SUBSET S, Cardinality(T) = n + 1 PROVE Fine(T)
    OBVIOUS
  <2>2. IsFiniteSet(T) /\ T # {}
    BY <1>1, <2>1, FS_EmptySet
  <2>3. Picked(T) \in T /\ SumFunctionOnSet(f, T) = f[Picked(T)] + SumFunctionOnSet(f, T \ {Picked(T)})
    BY <2>2, SumUnfolds
  <2>4. Cardinality(T \ {Picked(T)}) = n
    BY <1>1, <2>1, <2>3, FS_RemoveElement
  <2>5. Fine(T \ {Picked(T)})
    BY <2>4
  <2>6. QED
    BY <2>3, <2>5
<1> HIDE DEF Good
<1>4. Good = Nat
  <2>1. Good \in SUBSET Nat
    BY DEF Good
  <2>2. QED
    BY <1>2, <1>3, <2>1, NumberInduction
<1>5. QED
  BY <1>1, <1>4 DEF Good

\* Any element can be taken out of a sum.
LEMMA SumTakesOut ==
  ASSUME NEW S, IsFiniteSet(S), NEW f, \A x \in S : f[x] \in Int, NEW y \in S
  PROVE  SumFunctionOnSet(f, S) = f[y] + SumFunctionOnSet(f, S \ {y})
<1> DEFINE Sum(T) == SumFunctionOnSet(f, T)
           Fine(T) == \A x \in T : Sum(T) = f[x] + Sum(T \ {x})
           Good == {n \in Nat : \A T \in SUBSET S : Cardinality(T) = n => Fine(T)}
<1>1. \A T \in SUBSET S : IsFiniteSet(T) /\ Cardinality(T) \in Nat /\ Sum(T) \in Int
  BY FS_Subset, FS_CardinalityType, SumType
<1>2. \A T \in SUBSET S : T # {} => Picked(T) \in T /\ Sum(T) = f[Picked(T)] + Sum(T \ {Picked(T)})
  BY <1>1, SumUnfolds
<1> HIDE DEF Sum
<1>3. 0 \in Good
  BY <1>1, FS_EmptySet
<1>4. ASSUME NEW n \in Good PROVE n + 1 \in Good
  <2>1. SUFFICES ASSUME NEW T \in SUBSET S, Cardinality(T) = n + 1, NEW x \in T
                 PROVE  Sum(T) = f[x] + Sum(T \ {x})
    OBVIOUS
  <2> DEFINE p == Picked(T)
  <2>2. p \in T /\ Sum(T) = f[p] + Sum(T \ {p})
    BY <1>2
  <2>3. CASE x = p
    BY <2>2, <2>3
  <2>4. CASE x # p
    <3>1. Cardinality(T \ {p}) = n /\ Cardinality(T \ {x}) = n
      BY <1>1, <2>1, <2>2, FS_RemoveElement
    <3>2. x \in T \ {p} /\ p \in T \ {x}
      BY <2>2, <2>4
    <3>3. Sum(T \ {p}) = f[x] + Sum((T \ {p}) \ {x}) /\ Sum(T \ {x}) = f[p] + Sum((T \ {x}) \ {p})
      BY <3>1, <3>2
    <3>4. (T \ {p}) \ {x} = (T \ {x}) \ {p}
      OBVIOUS
    <3>5. f[x] \in Int /\ f[p] \in Int /\ Sum((T \ {x}) \ {p}) \in Int
      BY <1>1, <2>2
    <3>6. Sum(T) = f[p] + (f[x] + Sum((T \ {x}) \ {p}))
      BY <2>2, <3>3, <3>4
    <3> HIDE DEF p
    <3>7. QED
      BY <3>3, <3>5, <3>6
  <2>5. QED
    BY <2>3, <2>4
<1> HIDE DEF Good
<1>5. Good = Nat
  <2>1. Good \in SUBSET Nat
    BY DEF Good
  <2>2. QED
    BY <1>3, <1>4, <2>1, NumberInduction
<1>6. QED
  BY <1>1, <1>5 DEF Good, Sum

\* A sum depends on the values at its elements only.
LEMMA SumOfSame ==
  ASSUME NEW S, IsFiniteSet(S), NEW f, NEW g, \A x \in S : f[x] \in Int /\ g[x] = f[x]
  PROVE  SumFunctionOnSet(g, S) = SumFunctionOnSet(f, S)
<1> DEFINE Good == {T \in SUBSET S : SumFunctionOnSet(g, T) = SumFunctionOnSet(f, T)}
<1>1. \A T \in SUBSET S : IsFiniteSet(T)
  BY FS_Subset
<1>2. {} \in Good
  BY FS_EmptySet, SumUnfolds
<1>3. ASSUME NEW T \in Good, NEW x \in S, x \notin T PROVE T \cup {x} \in Good
  <2> DEFINE R == T \cup {x}
  <2>1. R \in SUBSET S /\ x \in R /\ R \ {x} = T
    BY <1>3
  <2>2. IsFiniteSet(R) /\ \A z \in R : f[z] \in Int /\ g[z] \in Int
    BY <1>1, <2>1
  <2> HIDE DEF R
  <2>3. /\ SumFunctionOnSet(f, R) = f[x] + SumFunctionOnSet(f, T)
        /\ SumFunctionOnSet(g, R) = g[x] + SumFunctionOnSet(g, T)
    BY <2>1, <2>2, SumTakesOut
  <2>4. SumFunctionOnSet(g, R) = SumFunctionOnSet(f, R)
    BY <2>3
  <2>5. QED
    BY <2>1, <2>4 DEF R
<1> HIDE DEF Good
<1>4. Good = SUBSET S
  <2>1. Good \in SUBSET (SUBSET S)
    BY DEF Good
  <2>2. QED
    BY <1>2, <1>3, <2>1, SetInduction
<1>5. QED
  BY <1>4 DEF Good

\* One more element adds its value.
LEMMA SumAdds ==
  ASSUME NEW S, IsFiniteSet(S), NEW f, NEW y, y \notin S, f[y] \in Int, \A x \in S : f[x] \in Int
  PROVE  SumFunctionOnSet(f, S \cup {y}) = SumFunctionOnSet(f, S) + f[y]
<1> DEFINE T == S \cup {y}
<1>1. T \ {y} = S /\ y \in T /\ \A x \in T : f[x] \in Int
  OBVIOUS
<1>2. IsFiniteSet(T)
  BY FS_AddElement
<1> HIDE DEF T
<1>3. SumFunctionOnSet(f, T) = f[y] + SumFunctionOnSet(f, S)
  BY <1>1, <1>2, SumTakesOut
<1>4. SumFunctionOnSet(f, S) \in Int
  BY SumType
<1>5. QED
  BY <1>3, <1>4 DEF T

\* A sum changes as its only value that changes.
LEMMA SumChanges ==
  ASSUME NEW S, IsFiniteSet(S), NEW f, NEW g, NEW y \in S,
         \A x \in S : f[x] \in Int /\ g[x] \in Int, \A x \in S \ {y} : g[x] = f[x]
  PROVE  SumFunctionOnSet(g, S) = SumFunctionOnSet(f, S) - f[y] + g[y]
<1> DEFINE T == S \ {y}
<1>1. T \in SUBSET S /\ \A x \in T : f[x] \in Int /\ g[x] = f[x]
  OBVIOUS
<1>2. IsFiniteSet(T)
  BY FS_RemoveElement
<1>3. /\ SumFunctionOnSet(f, S) = f[y] + SumFunctionOnSet(f, T)
      /\ SumFunctionOnSet(g, S) = g[y] + SumFunctionOnSet(g, T)
  BY SumTakesOut
<1>4. SumFunctionOnSet(g, T) = SumFunctionOnSet(f, T) /\ SumFunctionOnSet(f, T) \in Int
  <2> HIDE DEF T
  <2>1. SumFunctionOnSet(g, T) = SumFunctionOnSet(f, T)
    BY <1>1, <1>2, SumOfSame
  <2>2. SumFunctionOnSet(f, T) \in Int
    BY <1>1, <1>2, SumType
  <2>3. QED
    BY <2>1, <2>2
<1> HIDE DEF T
<1>5. QED
  BY <1>3, <1>4

\* No summand exceeds the sum where none is negative.
LEMMA SumBounds ==
  ASSUME NEW S, IsFiniteSet(S), NEW f, NEW y \in S, \A x \in S : f[x] \in Nat
  PROVE  f[y] <= SumFunctionOnSet(f, S)
<1> DEFINE T == S \ {y}
<1>1. IsFiniteSet(T) /\ \A x \in T : f[x] \in Int /\ f[x] >= 0
  BY FS_RemoveElement
<1>2. SumFunctionOnSet(f, S) = f[y] + SumFunctionOnSet(f, T)
  BY SumTakesOut
<1> HIDE DEF T
<1>3. SumFunctionOnSet(f, T) \in Int /\ SumFunctionOnSet(f, T) >= 0
  BY <1>1, SumType
<1>4. QED
  BY <1>2, <1>3

\* Only zeros add up to nothing.
LEMMA SumOfZeros ==
  ASSUME NEW S, IsFiniteSet(S), NEW f, \A x \in S : f[x] = 0
  PROVE  SumFunctionOnSet(f, S) = 0
<1> DEFINE Good == {T \in SUBSET S : SumFunctionOnSet(f, T) = 0}
<1>1. {} \in Good
  BY FS_EmptySet, SumUnfolds
<1>2. ASSUME NEW T \in Good, NEW x \in S, x \notin T PROVE T \cup {x} \in Good
  <2>1. T \in SUBSET S /\ f[x] = 0 /\ SumFunctionOnSet(f, T) = 0 /\ \A z \in T : f[z] = 0
    OBVIOUS
  <2>2. IsFiniteSet(T)
    BY <2>1, FS_Subset
  <2>3. f[x] \in Int /\ \A z \in T : f[z] \in Int
    BY <2>1
  <2> HIDE DEF Good
  <2>4. SumFunctionOnSet(f, T \cup {x}) = SumFunctionOnSet(f, T) + f[x]
    BY <1>2, <2>2, <2>3, SumAdds
  <2>5. QED
    BY <2>1, <2>4 DEF Good
<1> HIDE DEF Good
<1>3. Good = SUBSET S
  <2>1. Good \in SUBSET (SUBSET S)
    BY DEF Good
  <2>2. QED
    BY <1>1, <1>2, <2>1, SetInduction
<1>4. QED
  BY <1>3 DEF Good
=============================================================================
