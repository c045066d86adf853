-------------------------------- MODULE Sums --------------------------------
(***************************************************************************)
(* What the sum of the values of a function over a finite set obeys, and   *)
(* that a set of naturals has a least element.                             *)
(*                                                                         *)
(* The library defines the sum as a recursive function on the subsets of   *)
(* the set; that there is such a function is shown level by level (sets of *)
(* at most n elements), the rest by a minimal counterexample.              *)
(***************************************************************************)
EXTENDS Integers, FiniteSets, Functions, FiniteSetTheorems, WellFoundedInduction, TLAPS

---------------------------------------------------------------------------
(* Minimal counterexamples.                                                 *)

\* A nonempty set of naturals has a least element.
LEMMA LeastExists ==
  ASSUME NEW S \in SUBSET Nat, S # {}
  PROVE  \E x \in S : \A y \in S : x <= y
<1> DEFINE R == OpToRel(<, Nat)
<1>1. IsWellFoundedOn(R, Nat)
  BY NatLessThanWellFounded
<1>2. \E x \in S : \A y \in S : ~ (<<y, x>> \in R)
  <2> HIDE DEF R
  <2> QED BY <1>1, WFMin
<1>3. \A x, y \in S : y < x => <<y, x>> \in R
  BY DEF OpToRel
<1> HIDE DEF R
<1>4. PICK x \in S : \A y \in S : ~ (<<y, x>> \in R)
  BY <1>2
<1>5. \A y \in S : ~ (y < x)
  BY <1>3, <1>4
<1> QED BY <1>5

\* A set of finite sets has a member none of whose proper subsets is one.
LEMMA MinimalSet ==
  ASSUME NEW S, IsFiniteSet(S), NEW C \in SUBSET (SUBSET S), C # {}
  PROVE  \E T \in C : \A U \in C : U \subseteq T => U = T
<1> DEFINE Sizes == {Cardinality(T) : T \in C}
<1>1. \A T \in C : IsFiniteSet(T) /\ Cardinality(T) \in Nat
  BY FS_Subset, FS_CardinalityType
<1>2. PICK n \in Sizes : \A m \in Sizes : n <= m
  BY <1>1, LeastExists, Sizes \in SUBSET Nat, Sizes # {}
<1>3. PICK T \in C : n = Cardinality(T)
  OBVIOUS
<1>4. ASSUME NEW U \in C, U \subseteq T, U # T PROVE FALSE
  <2>1. PICK x \in T : x \notin U
    BY <1>4
  <2>2. IsFiniteSet(T \ {x}) /\ Cardinality(T \ {x}) = Cardinality(T) - 1
    BY <1>1, <2>1, FS_RemoveElement
  <2>3. Cardinality(U) <= Cardinality(T \ {x})
    BY <1>4, <2>1, <2>2, FS_Subset, U \in SUBSET (T \ {x})
  <2>4. n <= Cardinality(U)
    BY <1>2
  <2> QED BY <1>1, <1>3, <2>2, <2>3, <2>4
<1> QED BY <1>4

---------------------------------------------------------------------------
(* The sum, and the recursive function behind it.                           *)

Pick(s) == CHOOSE x \in s : TRUE

\* What g is on s, from what it is on less.
Step(g, f, s) == IF s = {} THEN 0 ELSE f[Pick(s)] + g[s \ {Pick(s)}]

Sums(g, f, S) == g = [s \in SUBSET S |-> Step(g, f, s)]

LEMMA SumUnfolds ==
  ASSUME NEW f, NEW S
  PROVE  SumFunctionOnSet(f, S) = (CHOOSE g : Sums(g, f, S))[S]
BY DEF SumFunctionOnSet, FoldFunctionOnSet, MapThenFoldSet, Sums, Step, Pick

\* A function that obeys the equation on the sets of at most n elements.
UpTo(n, g, f, S) ==
    /\ g = [s \in SUBSET S |-> g[s]]
    /\ \A s \in SUBSET S : Cardinality(s) <= n => g[s] = Step(g, f, s)

LEMMA NextLevel ==
  ASSUME NEW f, NEW S, IsFiniteSet(S), NEW n \in Nat, NEW g, UpTo(n, g, f, S)
  PROVE  \E h : UpTo(n + 1, h, f, S)
<1> DEFINE h == [s \in SUBSET S |-> IF Cardinality(s) <= n THEN g[s] ELSE Step(g, f, s)]
<1>1. ASSUME NEW s \in SUBSET S, Cardinality(s) <= n + 1 PROVE h[s] = Step(h, f, s)
  <2>1. IsFiniteSet(s) /\ Cardinality(s) \in Nat
    BY FS_Subset, FS_CardinalityType
  <2>2. CASE s = {}
    <3>1. Cardinality(s) <= n
      BY <2>2, FS_EmptySet
    <3> QED BY <2>2, <3>1 DEF Step, UpTo
  <2>3. CASE s # {}
    <3> DEFINE r == s \ {Pick(s)}
    <3>1. Pick(s) \in s
      BY <2>3 DEF Pick
    <3>2. r \in SUBSET S /\ Cardinality(r) <= n
      <4>1. Cardinality(r) = Cardinality(s) - 1
        BY <2>1, <3>1, FS_RemoveElement
      <4> QED BY <1>1, <2>1, <4>1
    <3>3. h[r] = g[r]
      BY <3>2
    <3>4. h[s] = Step(g, f, s)
      BY DEF UpTo
    <3> QED BY <2>3, <3>3, <3>4 DEF Step
  <2> QED BY <2>2, <2>3
<1>2. h = [s \in SUBSET S |-> h[s]]
  OBVIOUS
<1> HIDE DEF h
<1> QED BY <1>1, <1>2 DEF UpTo

LEMMA SumsExists ==
  ASSUME NEW f, NEW S, IsFiniteSet(S)
  PROVE  \E g : Sums(g, f, S)
<1> DEFINE Missing == {n \in Nat : ~ \E g : UpTo(n, g, f, S)}
<1>1. 0 \notin Missing
  <2> DEFINE g == [s \in SUBSET S |-> 0]
  <2>1. ASSUME NEW s \in SUBSET S, Cardinality(s) <= 0 PROVE s = {}
    BY <2>1, FS_Subset, FS_CardinalityType, FS_EmptySet
  <2>2. UpTo(0, g, f, S)
    BY <2>1 DEF UpTo, Step
  <2> HIDE DEF g
  <2> QED BY <2>2
<1>2. Missing = {}
  <2>1. SUFFICES ASSUME Missing # {} PROVE FALSE
    OBVIOUS
  <2>2. PICK n \in Missing : \A m \in Missing : n <= m
    BY <2>1, LeastExists, Missing \in SUBSET Nat
  <2>3. n - 1 \in Nat /\ n - 1 \notin Missing
    BY <1>1, <2>2
  <2>4. PICK g : UpTo(n - 1, g, f, S)
    BY <2>3
  <2>5. \E h : UpTo((n - 1) + 1, h, f, S)
    BY <2>3, <2>4, NextLevel
  <2> QED BY <2>2, <2>5
<1>3. Cardinality(S) \in Nat
  BY FS_CardinalityType
<1>4. PICK g : UpTo(Cardinality(S), g, f, S)
  BY <1>2, <1>3
<1>5. \A s \in SUBSET S : Cardinality(s) <= Cardinality(S)
  BY FS_Subset
<1> QED BY <1>4, <1>5 DEF UpTo, Sums

LEMMA SumsSame ==
  ASSUME NEW f, NEW S, IsFiniteSet(S), NEW T \in SUBSET S, NEW g, NEW h,
         Sums(g, f, S), Sums(h, f, T)
  PROVE  g[T] = h[T]
<1> DEFINE Differ == {s \in SUBSET T : g[s] # h[s]}
<1>1. SUFFICES ASSUME Differ # {} PROVE FALSE
  OBVIOUS
<1>2. PICK s \in Differ : \A u \in Differ : u \subseteq s => u = s
  <2>1. IsFiniteSet(T) /\ Differ \in SUBSET (SUBSET T)
    BY FS_Subset
  <2> HIDE DEF Differ
  <2> QED BY <1>1, <2>1, MinimalSet
<1>3. g[s] = Step(g, f, s) /\ h[s] = Step(h, f, s)
  BY DEF Sums
<1>4. s # {}
  BY <1>3 DEF Step
<1>5. Pick(s) \in s
  BY <1>4 DEF Pick
<1>6. s \ {Pick(s)} \notin Differ
  BY <1>2, <1>5
<1> QED BY <1>3, <1>4, <1>6 DEF Step

---------------------------------------------------------------------------
(* Facts to cite.                                                           *)

\* The sum over no element is zero, any other is a value and the sum of the rest.
LEMMA SumStep ==
  ASSUME NEW f, NEW S, IsFiniteSet(S)
  PROVE  SumFunctionOnSet(f, S) =
            IF S = {} THEN 0 ELSE f[Pick(S)] + SumFunctionOnSet(f, S \ {Pick(S)})
<1> DEFINE g == CHOOSE g : Sums(g, f, S)
           r == S \ {Pick(S)}
           h == CHOOSE h : Sums(h, f, r)
<1>1. IsFiniteSet(r) /\ r \in SUBSET S
  BY FS_Subset
<1>2. Sums(g, f, S) /\ Sums(h, f, r)
  BY <1>1, SumsExists
<1>3. g[r] = h[r]
  <2> HIDE DEF g, h, r
  <2> QED BY <1>1, <1>2, SumsSame
<1>4. g[S] = Step(g, f, S)
  <2> HIDE DEF g
  <2> QED BY <1>2 DEF Sums
<1>5. SumFunctionOnSet(f, S) = g[S] /\ SumFunctionOnSet(f, r) = h[r]
  BY SumUnfolds
<1> HIDE DEF g, h
<1> QED BY <1>3, <1>4, <1>5 DEF Step

LEMMA SumType ==
  ASSUME NEW f, NEW S, IsFiniteSet(S), \A x \in S : f[x] \in Nat
  PROVE  SumFunctionOnSet(f, S) \in Nat
<1> DEFINE Bad == {s \in SUBSET S : SumFunctionOnSet(f, s) \notin Nat}
<1>1. SUFFICES ASSUME Bad # {} PROVE FALSE
  OBVIOUS
<1>2. PICK s \in Bad : \A u \in Bad : u \subseteq s => u = s
  <2>1. Bad \in SUBSET (SUBSET S)
    OBVIOUS
  <2> HIDE DEF Bad
  <2> QED BY <1>1, <2>1, MinimalSet
<1>3. IsFiniteSet(s)
  BY FS_Subset
<1>4. SumFunctionOnSet(f, s) =
          IF s = {} THEN 0 ELSE f[Pick(s)] + SumFunctionOnSet(f, s \ {Pick(s)})
  BY <1>3, SumStep
<1>5. s # {} => Pick(s) \in s
  BY DEF Pick
<1>6. s # {} => s \ {Pick(s)} \notin Bad
  BY <1>2, <1>5
<1>7. s # {} => SumFunctionOnSet(f, s \ {Pick(s)}) \in Nat
  BY <1>6
<1>8. s # {} => f[Pick(s)] \in Nat
  BY <1>5
<1> QED BY <1>2, <1>4, <1>7, <1>8

\* Any element may be taken first.
LEMMA SumSplit ==
  ASSUME NEW f, NEW S, IsFiniteSet(S), \A y \in S : f[y] \in Nat, NEW x \in S
  PROVE  SumFunctionOnSet(f, S) = f[x] + SumFunctionOnSet(f, S \ {x})
<1> DEFINE Splits(s) ==
        \A y \in s : SumFunctionOnSet(f, s) = f[y] + SumFunctionOnSet(f, s \ {y})
           Bad == {s \in SUBSET S : ~ Splits(s)}
<1>1. SUFFICES ASSUME Bad # {} PROVE FALSE
  OBVIOUS
<1>2. PICK s \in Bad : \A u \in Bad : u \subseteq s => u = s
  <2>1. Bad \in SUBSET (SUBSET S)
    OBVIOUS
  <2> HIDE DEF Bad
  <2> QED BY <1>1, <2>1, MinimalSet
<1>3. \A u \in SUBSET S : SumFunctionOnSet(f, u) \in Nat
  <2>1. ASSUME NEW u \in SUBSET S PROVE SumFunctionOnSet(f, u) \in Nat
    BY SumType, FS_Subset
  <2> QED BY <2>1
<1>4. \A u \in SUBSET S : u # {} =>
        SumFunctionOnSet(f, u) = f[Pick(u)] + SumFunctionOnSet(f, u \ {Pick(u)})
  BY SumStep, FS_Subset
<1>5. ASSUME NEW y \in s
      PROVE SumFunctionOnSet(f, s) = f[y] + SumFunctionOnSet(f, s \ {y})
  <2>1. CASE y = Pick(s)
    BY <1>4, <2>1
  <2>2. CASE y # Pick(s)
    <3> DEFINE c == Pick(s)
    <3>1. c \in s
      BY DEF Pick
    <3>2. s \ {c} \notin Bad /\ s \ {y} \notin Bad
      BY <1>2, <3>1
    <3>3. SumFunctionOnSet(f, s \ {c}) = f[y] + SumFunctionOnSet(f, (s \ {c}) \ {y})
      BY <2>2, <3>2
    <3>4. SumFunctionOnSet(f, s \ {y}) = f[c] + SumFunctionOnSet(f, (s \ {y}) \ {c})
      BY <2>2, <3>1, <3>2
    <3>5. SumFunctionOnSet(f, (s \ {c}) \ {y}) = SumFunctionOnSet(f, (s \ {y}) \ {c})
      <4>1. (s \ {c}) \ {y} = (s \ {y}) \ {c}
        OBVIOUS
      <4> QED BY <4>1, Zenon
    <3>6. SumFunctionOnSet(f, s) = f[c] + SumFunctionOnSet(f, s \ {c})
      BY <1>4
    <3>7. f[c] \in Nat /\ f[y] \in Nat /\ SumFunctionOnSet(f, (s \ {c}) \ {y}) \in Nat
      BY <1>3, <3>1
    <3> HIDE DEF c, Splits, Bad
    <3> QED BY <3>3, <3>4, <3>5, <3>6, <3>7
  <2> QED BY <2>1, <2>2
<1> QED BY <1>2, <1>5

\* Only the values on the set matter.
LEMMA SumCongruent ==
  ASSUME NEW f, NEW g, NEW S, IsFiniteSet(S), \A x \in S : f[x] = g[x]
  PROVE  SumFunctionOnSet(f, S) = SumFunctionOnSet(g, S)
<1> DEFINE Bad == {s \in SUBSET S : SumFunctionOnSet(f, s) # SumFunctionOnSet(g, s)}
<1>1. SUFFICES ASSUME Bad # {} PROVE FALSE
  OBVIOUS
<1>2. PICK s \in Bad : \A u \in Bad : u \subseteq s => u = s
  <2>1. Bad \in SUBSET (SUBSET S)
    OBVIOUS
  <2> HIDE DEF Bad
  <2> QED BY <1>1, <2>1, MinimalSet
<1>3. IsFiniteSet(s)
  BY FS_Subset
<1>4. SumFunctionOnSet(f, s) =
          IF s = {} THEN 0 ELSE f[Pick(s)] + SumFunctionOnSet(f, s \ {Pick(s)})
  BY <1>3, SumStep
<1>5. SumFunctionOnSet(g, s) =
          IF s = {} THEN 0 ELSE g[Pick(s)] + SumFunctionOnSet(g, s \ {Pick(s)})
  BY <1>3, SumStep
<1>6. s # {} => Pick(s) \in s
  BY DEF Pick
<1>7. s # {} => s \ {Pick(s)} \notin Bad
  BY <1>2, <1>6
<1> QED BY <1>2, <1>4, <1>5, <1>6, <1>7

\* A sum of nothing but zeros.
LEMMA SumZero ==
  ASSUME NEW f, NEW S, IsFiniteSet(S), \A x \in S : f[x] = 0
  PROVE  SumFunctionOnSet(f, S) = 0
<1> DEFINE Bad == {s \in SUBSET S : SumFunctionOnSet(f, s) # 0}
<1>1. SUFFICES ASSUME Bad # {} PROVE FALSE
  OBVIOUS
<1>2. PICK s \in Bad : \A u \in Bad : u \subseteq s => u = s
  <2>1. Bad \in SUBSET (SUBSET S)
    OBVIOUS
  <2> HIDE DEF Bad
  <2> QED BY <1>1, <2>1, MinimalSet
<1>3. IsFiniteSet(s)
  BY FS_Subset
<1>4. SumFunctionOnSet(f, s) =
          IF s = {} THEN 0 ELSE f[Pick(s)] + SumFunctionOnSet(f, s \ {Pick(s)})
  BY <1>3, SumStep
<1>5. s # {} => Pick(s) \in s
  BY DEF Pick
<1>6. s # {} => s \ {Pick(s)} \notin Bad
  BY <1>2, <1>5
<1> QED BY <1>2, <1>4, <1>5, <1>6

\* The sums of two functions that differ on one element.
LEMMA SumChange ==
  ASSUME NEW f, NEW g, NEW S, IsFiniteSet(S), NEW x \in S,
         \A y \in S : f[y] \in Nat /\ g[y] \in Nat,
         \A y \in S \ {x} : g[y] = f[y]
  PROVE  SumFunctionOnSet(g, S) = SumFunctionOnSet(f, S) - f[x] + g[x]
<1>1. SumFunctionOnSet(f, S) = f[x] + SumFunctionOnSet(f, S \ {x})
  BY SumSplit
<1>2. SumFunctionOnSet(g, S) = g[x] + SumFunctionOnSet(g, S \ {x})
  BY SumSplit
<1>3. SumFunctionOnSet(g, S \ {x}) = SumFunctionOnSet(f, S \ {x})
  BY SumCongruent, FS_RemoveElement
<1>4. SumFunctionOnSet(f, S \ {x}) \in Nat
  BY SumType, FS_RemoveElement
<1> QED BY <1>1, <1>2, <1>3, <1>4

\* A sum is no less than any of its values.
LEMMA SumCovers ==
  ASSUME NEW f, NEW S, IsFiniteSet(S), \A y \in S : f[y] \in Nat, NEW x \in S
  PROVE  f[x] <= SumFunctionOnSet(f, S)
<1>1. SumFunctionOnSet(f, S) = f[x] + SumFunctionOnSet(f, S \ {x})
  BY SumSplit
<1>2. SumFunctionOnSet(f, S \ {x}) \in Nat
  BY SumType, FS_RemoveElement
<1> QED BY <1>1, <1>2

\* A sum of values each no greater is no greater.
LEMMA SumMonotone ==
  ASSUME NEW f, NEW g, NEW S, IsFiniteSet(S),
         \A x \in S : f[x] \in Nat /\ g[x] \in Nat /\ f[x] <= g[x]
  PROVE  SumFunctionOnSet(f, S) <= SumFunctionOnSet(g, S)
<1> DEFINE Bad == {s \in SUBSET S : ~ (SumFunctionOnSet(f, s) <= SumFunctionOnSet(g, s))}
<1>1. SUFFICES ASSUME Bad # {} PROVE FALSE
  OBVIOUS
<1>2. PICK s \in Bad : \A u \in Bad : u \subseteq s => u = s
  <2>1. Bad \in SUBSET (SUBSET S)
    OBVIOUS
  <2> HIDE DEF Bad
  <2> QED BY <1>1, <2>1, MinimalSet
<1>3. IsFiniteSet(s)
  BY FS_Subset
<1>4. SumFunctionOnSet(f, s) =
          IF s = {} THEN 0 ELSE f[Pick(s)] + SumFunctionOnSet(f, s \ {Pick(s)})
  BY <1>3, SumStep
<1>5. SumFunctionOnSet(g, s) =
          IF s = {} THEN 0 ELSE g[Pick(s)] + SumFunctionOnSet(g, s \ {Pick(s)})
  BY <1>3, SumStep
<1>6. s # {} => Pick(s) \in s
  BY DEF Pick
<1>7. s # {} => s \ {Pick(s)} \notin Bad
  BY <1>2, <1>6
<1>8. \A t \in SUBSET S : SumFunctionOnSet(f, t) \in Nat /\ SumFunctionOnSet(g, t) \in Nat
  BY SumType, FS_Subset
<1>9. CASE s = {}
  BY <1>2, <1>4, <1>5, <1>9
<1>10. CASE s # {}
  <2> DEFINE r == s \ {Pick(s)}
  <2>1. /\ f[Pick(s)] \in Nat /\ g[Pick(s)] \in Nat /\ f[Pick(s)] <= g[Pick(s)]
        /\ SumFunctionOnSet(f, r) \in Nat /\ SumFunctionOnSet(g, r) \in Nat
        /\ SumFunctionOnSet(f, r) <= SumFunctionOnSet(g, r)
    BY <1>6, <1>7, <1>8, <1>10
  <2> HIDE DEF r
  <2> QED BY <1>2, <1>4, <1>5, <1>10, <2>1 DEF r
<1> QED BY <1>9, <1>10
=============================================================================
