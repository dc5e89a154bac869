------------------------------ MODULE FiniteSums ------------------------------
(***************************************************************************)
(* Sums of a function over a finite set: what the proofs about balances    *)
(* and reserves need to know of SumFunction.                               *)
(*                                                                         *)
(* Each lemma about all finite sets is proved by a least counterexample: a *)
(* non-empty set of subsets of a finite set has a minimal member, and      *)
(* taking an element out of it gives a smaller one.                        *)
(***************************************************************************)
EXTENDS Integers, FiniteSets, Functions, TLAPS, FiniteSetTheorems,
        WellFoundedInduction

\* Among subsets of a finite set there is a minimal one.
LEMMA MinimalSubset ==
  ASSUME NEW S, IsFiniteSet(S), NEW Bad, Bad \subseteq SUBSET S, Bad # {}
  PROVE  \E U \in Bad : \A V \in Bad : V \subseteq U => V = U
  <1>1. IsWellFoundedOn(StrictSubsetOrdering(S), FiniteSubsetsOf(S))
    BY FS_StrictSubsetOrderingWellFounded
  <1>2. Bad \subseteq FiniteSubsetsOf(S)
    BY FS_Subset DEF FiniteSubsetsOf
  <1>3. \E U \in Bad : \A V \in Bad : <<V, U>> \notin StrictSubsetOrdering(S)
    BY <1>1, <1>2, WFMin
  <1> QED
    BY <1>3 DEF StrictSubsetOrdering

\* The element a fold takes first.
Pick(s) == CHOOSE x \in s : TRUE

\* h gives the sum of f over every subset of S: the equation that the fold of
\* the library solves.
Sums(h, f, S) ==
  h = [s \in SUBSET S |-> IF s = {} THEN 0 ELSE f[Pick(s)] + h[s \ {Pick(s)}]]

\* The library's sum is the value at S of a solution.
LEMMA SumIsSolution ==
  ASSUME NEW f, NEW S
  PROVE  SumFunctionOnSet(f, S) = (CHOOSE h : Sums(h, f, S))[S]
  BY Zenon DEF SumFunctionOnSet, FoldFunctionOnSet, MapThenFoldSet, Sums, Pick

\* Two solutions agree where both are defined.
LEMMA SolutionsAgree ==
  ASSUME NEW f, NEW S, IsFiniteSet(S), NEW T \in SUBSET S,
         NEW h, Sums(h, f, S), NEW k, Sums(k, f, T)
  PROVE  \A s \in SUBSET T : h[s] = k[s]
  <1> DEFINE Bad == {s \in SUBSET T : h[s] # k[s]}
  <1>1. SUFFICES ASSUME Bad # {}
                 PROVE  FALSE
    OBVIOUS
  <1>2. PICK U \in Bad : \A V \in Bad : V \subseteq U => V = U
    <2>1. Bad \subseteq SUBSET S
      OBVIOUS
    <2> HIDE DEF Bad
    <2> QED
      BY <1>1, <2>1, MinimalSubset
  <1>3. /\ U \in SUBSET T /\ U \in SUBSET S
        /\ h[U] = IF U = {} THEN 0 ELSE f[Pick(U)] + h[U \ {Pick(U)}]
        /\ k[U] = IF U = {} THEN 0 ELSE f[Pick(U)] + k[U \ {Pick(U)}]
    BY <1>2 DEF Sums
  <1>4. U # {}
    BY <1>2, <1>3
  <1>5. Pick(U) \in U
    BY <1>4 DEF Pick
  <1>6. h[U \ {Pick(U)}] = k[U \ {Pick(U)}]
    BY <1>2, <1>3, <1>5
  <1> QED
    BY <1>2, <1>3, <1>4, <1>6

Solution(f, S) == CHOOSE h : Sums(h, f, S)

\* There is a solution for every finite set.
LEMMA SolutionExists ==
  ASSUME NEW f, NEW S, IsFiniteSet(S)
  PROVE  Sums(Solution(f, S), f, S)
  <1> DEFINE Bad == {s \in SUBSET S : ~Sums(Solution(f, s), f, s)}
  <1>1. SUFFICES ASSUME Bad # {}
                 PROVE  FALSE
    OBVIOUS
  <1>2. PICK U \in Bad : \A V \in Bad : V \subseteq U => V = U
    <2>1. Bad \subseteq SUBSET S
      OBVIOUS
    <2> HIDE DEF Bad
    <2> QED
      BY <1>1, <2>1, MinimalSubset
  <1>3. \A V \in SUBSET U : V # U => Sums(Solution(f, V), f, V)
    BY <1>2
  <1> DEFINE At(s) == Solution(f, s)[s]
             h == [s \in SUBSET U |->
                     IF s = {} THEN 0 ELSE f[Pick(s)] + At(s \ {Pick(s)})]
  <1>4. ASSUME NEW s \in SUBSET U, s # {}
        PROVE  h[s \ {Pick(s)}] = At(s \ {Pick(s)})
    <2> DEFINE v == s \ {Pick(s)}
               w == v \ {Pick(v)}
    <2>1. Pick(s) \in s
      BY <1>4 DEF Pick
    <2>2. v \in SUBSET U /\ v # U /\ IsFiniteSet(v)
      BY <1>2, <2>1, FS_Subset
    <2>3. Sums(Solution(f, v), f, v)
      BY <1>3, <2>2
    <2>4. At(v) = IF v = {} THEN 0 ELSE f[Pick(v)] + Solution(f, v)[w]
      BY <2>3 DEF Sums
    <2>5. h[v] = IF v = {} THEN 0 ELSE f[Pick(v)] + At(w)
      BY <2>2
    <2>6. Solution(f, v)[w] = At(w)
      <3>1. w \in SUBSET v /\ w \in SUBSET U /\ w # U
        BY <2>2
      <3>2. Sums(Solution(f, w), f, w)
        BY <1>3, <3>1
      <3>3. \A r \in SUBSET w : Solution(f, v)[r] = Solution(f, w)[r]
        <4> HIDE DEF v, w
        <4> QED
          BY <2>2, <2>3, <3>1, <3>2, SolutionsAgree
      <3> QED
        BY <3>3
    <2> QED
      BY <2>4, <2>5, <2>6
  <1>5. Sums(h, f, U)
    BY <1>4 DEF Sums
  <1>6. Sums(Solution(f, U), f, U)
    BY <1>5 DEF Solution
  <1> QED
    BY <1>2, <1>6

\* The sum over a set, one element at a time.
LEMMA SumUnfold ==
  ASSUME NEW f, NEW S, IsFiniteSet(S)
  PROVE  SumFunctionOnSet(f, S) =
           IF S = {} THEN 0 ELSE f[Pick(S)] + SumFunctionOnSet(f, S \ {Pick(S)})
  <1> DEFINE T == S \ {Pick(S)}
  <1>1. /\ SumFunctionOnSet(f, S) = Solution(f, S)[S]
        /\ SumFunctionOnSet(f, T) = Solution(f, T)[T]
    BY SumIsSolution DEF Solution
  <1>2. T \in SUBSET S /\ IsFiniteSet(T)
    BY FS_Subset
  <1>3. Sums(Solution(f, S), f, S) /\ Sums(Solution(f, T), f, T)
    BY <1>2, SolutionExists
  <1>4. Solution(f, S)[S] = IF S = {} THEN 0 ELSE f[Pick(S)] + Solution(f, S)[T]
    BY <1>3 DEF Sums
  <1>5. Solution(f, S)[T] = Solution(f, T)[T]
    <2> HIDE DEF T
    <2>1. \A s \in SUBSET T : Solution(f, S)[s] = Solution(f, T)[s]
      BY <1>2, <1>3, SolutionsAgree
    <2> QED
      BY <2>1
  <1> QED
    BY <1>1, <1>4, <1>5

\* A sum of integers is an integer.
LEMMA SumType ==
  ASSUME NEW S, IsFiniteSet(S), NEW f, \A x \in S : f[x] \in Int
  PROVE  SumFunctionOnSet(f, S) \in Int
  <1> DEFINE Bad == {s \in SUBSET S : SumFunctionOnSet(f, s) \notin Int}
  <1>1. SUFFICES ASSUME Bad # {}
                 PROVE  FALSE
    OBVIOUS
  <1>2. PICK U \in Bad : \A V \in Bad : V \subseteq U => V = U
    <2>1. Bad \subseteq SUBSET S
      OBVIOUS
    <2> HIDE DEF Bad
    <2> QED
      BY <1>1, <2>1, MinimalSubset
  <1>3. SumFunctionOnSet(f, U) =
          IF U = {} THEN 0 ELSE f[Pick(U)] + SumFunctionOnSet(f, U \ {Pick(U)})
    BY FS_Subset, SumUnfold
  <1>4. U # {} /\ U \in SUBSET S
    BY <1>2, <1>3
  <1>5. Pick(U) \in U
    BY <1>4 DEF Pick
  <1>6. f[Pick(U)] \in Int /\ SumFunctionOnSet(f, U \ {Pick(U)}) \in Int
    BY <1>2, <1>4, <1>5
  <1> QED
    BY <1>2, <1>3, <1>4, <1>6

\* Any element may be taken out first.
LEMMA SumRemove ==
  ASSUME NEW S, IsFiniteSet(S), NEW f, \A y \in S : f[y] \in Int, NEW x \in S
  PROVE  SumFunctionOnSet(f, S) = f[x] + SumFunctionOnSet(f, S \ {x})
  <1> DEFINE Splits(s, y) == SumFunctionOnSet(f, s) = f[y] + SumFunctionOnSet(f, s \ {y})
             Bad == {s \in SUBSET S : \E y \in s : ~Splits(s, y)}
  <1>1. SUFFICES ASSUME Bad # {}
                 PROVE  FALSE
    OBVIOUS
  <1>2. PICK U \in Bad : \A V \in Bad : V \subseteq U => V = U
    <2>1. Bad \subseteq SUBSET S
      OBVIOUS
    <2> HIDE DEF Bad
    <2> QED
      BY <1>1, <2>1, MinimalSubset
  <1>3. PICK y \in U : ~Splits(U, y)
    BY <1>2
  <1> DEFINE p == Pick(U)
  <1>4. U \in SUBSET S /\ p \in U /\ IsFiniteSet(U)
    BY <1>2, <1>3, FS_Subset DEF Pick
  <1>5. Splits(U, p)
    BY <1>3, <1>4, SumUnfold
  <1>6. p # y
    BY <1>3, <1>5
  <1>7. \A V \in SUBSET U : V # U => \A z \in V : Splits(V, z)
    BY <1>2, <1>4
  <1>8. Splits(U \ {p}, y) /\ Splits(U \ {y}, p)
    BY <1>3, <1>4, <1>6, <1>7
  <1>9. (U \ {p}) \ {y} = (U \ {y}) \ {p}
    OBVIOUS
  <1> DEFINE rest == SumFunctionOnSet(f, (U \ {p}) \ {y})
  <1>10. /\ SumFunctionOnSet(f, U) = f[p] + SumFunctionOnSet(f, U \ {p})
         /\ SumFunctionOnSet(f, U \ {p}) = f[y] + rest
         /\ SumFunctionOnSet(f, U \ {y}) = f[p] + rest
    BY <1>5, <1>8, <1>9
  <1>11. f[p] \in Int /\ f[y] \in Int /\ rest \in Int
    <2>1. (U \ {p}) \ {y} \in SUBSET S
      BY <1>4
    <2>2. IsFiniteSet((U \ {p}) \ {y})
      BY <2>1, FS_Subset
    <2> QED
      BY <1>3, <1>4, <2>1, <2>2, SumType
  <1> HIDE DEF rest, p
  <1>12. SumFunctionOnSet(f, U) = f[y] + SumFunctionOnSet(f, U \ {y})
    BY <1>10, <1>11
  <1> QED
    BY <1>3, <1>12

\* The sum depends on the values only.
LEMMA SumSame ==
  ASSUME NEW S, IsFiniteSet(S), NEW f, NEW g, \A x \in S : f[x] = g[x]
  PROVE  SumFunctionOnSet(f, S) = SumFunctionOnSet(g, S)
  <1> DEFINE Bad == {s \in SUBSET S : SumFunctionOnSet(f, s) # SumFunctionOnSet(g, s)}
  <1>1. SUFFICES ASSUME Bad # {}
                 PROVE  FALSE
    OBVIOUS
  <1>2. PICK U \in Bad : \A V \in Bad : V \subseteq U => V = U
    <2>1. Bad \subseteq SUBSET S
      OBVIOUS
    <2> HIDE DEF Bad
    <2> QED
      BY <1>1, <2>1, MinimalSubset
  <1>3. /\ SumFunctionOnSet(f, U) =
             IF U = {} THEN 0 ELSE f[Pick(U)] + SumFunctionOnSet(f, U \ {Pick(U)})
        /\ SumFunctionOnSet(g, U) =
             IF U = {} THEN 0 ELSE g[Pick(U)] + SumFunctionOnSet(g, U \ {Pick(U)})
    BY FS_Subset, SumUnfold
  <1>4. U # {} /\ U \in SUBSET S
    BY <1>2, <1>3
  <1>5. Pick(U) \in U
    BY <1>4 DEF Pick
  <1>6. /\ f[Pick(U)] = g[Pick(U)]
        /\ SumFunctionOnSet(f, U \ {Pick(U)}) = SumFunctionOnSet(g, U \ {Pick(U)})
    BY <1>2, <1>4, <1>5
  <1> QED
    BY <1>2, <1>3, <1>4, <1>6

\* Changing one value changes the sum by as much.
LEMMA SumChange ==
  ASSUME NEW S, IsFiniteSet(S), NEW f \in [S -> Int], NEW g \in [S -> Int],
         NEW x \in S, \A y \in S : y # x => g[y] = f[y]
  PROVE  /\ SumFunction(f) \in Int
         /\ SumFunction(g) = SumFunction(f) + (g[x] - f[x])
  <1> DEFINE T == S \ {x}
  <1>1. SumFunction(f) = SumFunctionOnSet(f, S) /\ SumFunction(g) = SumFunctionOnSet(g, S)
    BY DEF SumFunction
  <1>2. /\ SumFunctionOnSet(f, S) = f[x] + SumFunctionOnSet(f, T)
        /\ SumFunctionOnSet(g, S) = g[x] + SumFunctionOnSet(g, T)
    BY SumRemove
  <1>3. IsFiniteSet(T)
    BY FS_Subset
  <1>4. SumFunctionOnSet(f, T) = SumFunctionOnSet(g, T)
    BY <1>3, SumSame
  <1>5. SumFunctionOnSet(f, T) \in Int
    BY <1>3, SumType
  <1>6. f[x] \in Int /\ g[x] \in Int
    OBVIOUS
  <1> HIDE DEF T
  <1> QED
    BY <1>1, <1>2, <1>4, <1>5, <1>6

\* Nothing adds up to nothing.
LEMMA SumZero ==
  ASSUME NEW S, IsFiniteSet(S)
  PROVE  SumFunction([x \in S |-> 0]) = 0
  <1> DEFINE f == [x \in S |-> 0]
             Bad == {s \in SUBSET S : SumFunctionOnSet(f, s) # 0}
  <1>1. SUFFICES ASSUME Bad # {}
                 PROVE  FALSE
    <2>1. SumFunction(f) = SumFunctionOnSet(f, S)
      BY DEF SumFunction
    <2>2. Bad = {} => SumFunctionOnSet(f, S) = 0
      <3> HIDE DEF f
      <3> QED
        OBVIOUS
    <2> QED
      BY <2>1, <2>2
  <1>2. PICK U \in Bad : \A V \in Bad : V \subseteq U => V = U
    <2>1. Bad \subseteq SUBSET S
      OBVIOUS
    <2> HIDE DEF Bad
    <2> QED
      BY <1>1, <2>1, MinimalSubset
  <1>3. SumFunctionOnSet(f, U) =
          IF U = {} THEN 0 ELSE f[Pick(U)] + SumFunctionOnSet(f, U \ {Pick(U)})
    BY FS_Subset, SumUnfold
  <1>4. U # {} /\ U \in SUBSET S
    BY <1>2, <1>3
  <1>5. Pick(U) \in U /\ Pick(U) \in S
    BY <1>4 DEF Pick
  <1>6. f[Pick(U)] = 0
    BY <1>5
  <1> HIDE DEF f
  <1>7. SumFunctionOnSet(f, U \ {Pick(U)}) = 0
    BY <1>2, <1>4, <1>5
  <1> QED
    BY <1>2, <1>3, <1>4, <1>6, <1>7

=============================================================================
