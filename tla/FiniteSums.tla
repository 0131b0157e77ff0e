----------------------------- MODULE FiniteSums -----------------------------
(***************************************************************************)
(* Sums of a function over a finite set, as SumFunctionOnSet of the        *)
(* community modules defines them: a fold that takes the elements in the   *)
(* order CHOOSE gives.  What is proved here is that the fold is well       *)
(* defined and that the order does not matter.  The proofs are by a        *)
(* smallest counterexample: strict inclusion is well-founded on the        *)
(* subsets of a finite set.                                                *)
(***************************************************************************)
EXTENDS FiniteSetsExt, FiniteSetTheorems, WellFoundedInduction, TLAPS

\* Every subset of S is good if a set is good as soon as its strict subsets are.
LEMMA SubsetInduction ==
  ASSUME NEW S, IsFiniteSet(S), NEW Good,
         \A T \in SUBSET S : (\A U \in SUBSET T : U # T => U \in Good) => T \in Good
  PROVE  \A T \in SUBSET S : T \in Good
<1> DEFINE Bad == {T \in SUBSET S : T \notin Good}
<1>1. SUFFICES ASSUME Bad # {} PROVE FALSE
  OBVIOUS
<1>2. IsWellFoundedOn(StrictSubsetOrdering(S), SUBSET S)
  BY FS_StrictSubsetOrderingWellFounded, FS_FiniteSubsetsOfFinite
<1>3. PICK T \in Bad : \A U \in Bad : <<U, T>> \notin StrictSubsetOrdering(S)
  <2>1. Bad \subseteq SUBSET S
    OBVIOUS
  <2> HIDE DEF Bad
  <2> QED
    BY <1>1, <1>2, <2>1, WFMin
<1>4. ASSUME NEW U \in SUBSET T, U # T PROVE U \in Good
  <2>1. U \in SUBSET S /\ T \in SUBSET S
    OBVIOUS
  <2>2. <<U, T>> \in StrictSubsetOrdering(S)
    BY <2>1, <1>4 DEF StrictSubsetOrdering
  <2> QED
    BY <1>3, <2>1, <2>2
<1> QED
  BY <1>3, <1>4

-----------------------------------------------------------------------------
(***************************************************************************)
(* The fold is well defined.                                               *)
(***************************************************************************)
Pick(T) == CHOOSE x \in T : TRUE

\* it[T] is the sum of f over T, for every subset T of S.
Sums(f, S, it) ==
  it = [T \in SUBSET S |-> IF T = {} THEN 0 ELSE f[Pick(T)] + it[T \ {Pick(T)}]]

LEMMA PickIn == ASSUME NEW T, T # {} PROVE Pick(T) \in T
  BY DEF Pick

LEMMA SumsStep ==
  ASSUME NEW f, NEW S, NEW it, Sums(f, S, it), NEW T \in SUBSET S
  PROVE  it[T] = IF T = {} THEN 0 ELSE f[Pick(T)] + it[T \ {Pick(T)}]
<1> DEFINE rest(U) == IF U = {} THEN 0 ELSE f[Pick(U)] + it[U \ {Pick(U)}]
<1>1. it = [U \in SUBSET S |-> rest(U)]
  BY DEF Sums
<1> HIDE DEF rest
<1>2. it[T] = rest(T)
  BY <1>1
<1> QED
  BY <1>2 DEF rest

\* Two folds agree wherever both are defined.
LEMMA SumsUnique ==
  ASSUME NEW f, NEW S, NEW g, Sums(f, S, g), NEW R, NEW h, Sums(f, R, h),
         NEW V, IsFiniteSet(V), V \subseteq S, V \subseteq R
  PROVE  g[V] = h[V]
<1> DEFINE Same == {T \in SUBSET V : g[T] = h[T]}
<1>1. ASSUME NEW T \in SUBSET V, \A U \in SUBSET T : U # T => U \in Same
      PROVE  T \in Same
  <2>1. T \in SUBSET S /\ T \in SUBSET R
    OBVIOUS
  <2>2. /\ g[T] = IF T = {} THEN 0 ELSE f[Pick(T)] + g[T \ {Pick(T)}]
        /\ h[T] = IF T = {} THEN 0 ELSE f[Pick(T)] + h[T \ {Pick(T)}]
    BY <2>1, SumsStep
  <2>3. T # {} => T \ {Pick(T)} \in Same
    BY <1>1, PickIn
  <2> QED
    BY <2>2, <2>3
<1> HIDE DEF Same
<1>2. V \in Same
  BY <1>1, SubsetInduction
<1> QED
  BY <1>2 DEF Same

LEMMA SumsExist ==
  ASSUME NEW f, NEW S, IsFiniteSet(S)
  PROVE  \E it : Sums(f, S, it)
<1> DEFINE Good == {T \in SUBSET S : \E it : Sums(f, T, it)}
<1>1. ASSUME NEW T \in SUBSET S, \A U \in SUBSET T : U # T => U \in Good
      PROVE  T \in Good
  <2> DEFINE fold(U) == CHOOSE it : Sums(f, U, it)
             value(U) == IF U = {} THEN 0 ELSE f[Pick(U)] + fold(U \ {Pick(U)})[U \ {Pick(U)}]
             it == [U \in SUBSET T |-> value(U)]
  <2>1. ASSUME NEW U \in SUBSET T, U # T PROVE Sums(f, U, fold(U))
    <3>1. \E i : Sums(f, U, i)
      BY <1>1, <2>1
    <3> QED
      BY <3>1
  <2>2. ASSUME NEW U \in SUBSET T, U # T PROVE fold(U)[U] = value(U)
    <3> DEFINE V == U \ {Pick(U)}
    <3>1. Sums(f, U, fold(U))
      BY <2>1, <2>2
    <3>2. fold(U)[U] = IF U = {} THEN 0 ELSE f[Pick(U)] + fold(U)[V]
      <4> HIDE DEF fold
      <4> QED
        BY <3>1, SumsStep, U \in SUBSET U
    <3>3. V \in SUBSET T /\ V # T
      BY <2>2
    <3>4. Sums(f, V, fold(V))
      BY <2>1, <3>3
    <3>5. IsFiniteSet(V)
      BY <3>3, FS_Subset
    <3>6. fold(U)[V] = fold(V)[V]
      <4>1. V \subseteq U /\ V \subseteq V
        OBVIOUS
      <4> HIDE DEF fold, V
      <4> QED
        BY <3>1, <3>4, <3>5, <4>1, SumsUnique
    <3> QED
      BY <3>2, <3>6
  <2>3. ASSUME NEW U \in SUBSET T, U # {}
        PROVE  fold(U \ {Pick(U)})[U \ {Pick(U)}] = it[U \ {Pick(U)}]
    <3>1. U \ {Pick(U)} \in SUBSET T /\ U \ {Pick(U)} # T
      BY <2>3, PickIn
    <3>2. fold(U \ {Pick(U)})[U \ {Pick(U)}] = value(U \ {Pick(U)})
      BY <2>2, <3>1
    <3> HIDE DEF value, fold
    <3> QED
      BY <3>1, <3>2
  <2>4. ASSUME NEW U \in SUBSET T
        PROVE  value(U) = IF U = {} THEN 0 ELSE f[Pick(U)] + it[U \ {Pick(U)}]
    <3> HIDE DEF it, fold
    <3> QED
      BY <2>3
  <2>5. Sums(f, T, it)
    <3>1. it = [U \in SUBSET T |-> IF U = {} THEN 0 ELSE f[Pick(U)] + it[U \ {Pick(U)}]]
      <4> HIDE DEF value
      <4> QED
        BY <2>4
    <3> HIDE DEF it
    <3> QED
      BY <3>1 DEF Sums
  <2> QED
    BY <2>5
<1> HIDE DEF Good
<1>2. S \in Good
  BY <1>1, SubsetInduction
<1> QED
  BY <1>2 DEF Good

LEMMA SumIsFold ==
  ASSUME NEW f, NEW S, IsFiniteSet(S)
  PROVE  \E it : Sums(f, S, it) /\ SumFunctionOnSet(f, S) = it[S]
<1> DEFINE it == CHOOSE i : Sums(f, S, i)
<1>1. Sums(f, S, it)
  BY SumsExist
<1>2. SumFunctionOnSet(f, S) = it[S]
  BY DEF SumFunctionOnSet, FoldFunctionOnSet, MapThenFoldSet, Sums, Pick
<1> QED
  BY <1>1, <1>2

-----------------------------------------------------------------------------
(***************************************************************************)
(* What a sum is.                                                          *)
(***************************************************************************)
LEMMA SumEmpty == ASSUME NEW f PROVE SumFunctionOnSet(f, {}) = 0
<1>1. IsFiniteSet({})
  BY FS_EmptySet
<1>2. PICK it : Sums(f, {}, it) /\ SumFunctionOnSet(f, {}) = it[{}]
  BY <1>1, SumIsFold
<1> QED
  BY <1>2, SumsStep

\* The sum in the order of the fold.
LEMMA SumPick ==
  ASSUME NEW f, NEW S, IsFiniteSet(S), S # {}
  PROVE  SumFunctionOnSet(f, S) = f[Pick(S)] + SumFunctionOnSet(f, S \ {Pick(S)})
<1> DEFINE R == S \ {Pick(S)}
<1>1. PICK it : Sums(f, S, it) /\ SumFunctionOnSet(f, S) = it[S]
  BY SumIsFold
<1>2. IsFiniteSet(R)
  BY FS_Subset
<1>3. PICK h : Sums(f, R, h) /\ SumFunctionOnSet(f, R) = h[R]
  BY <1>2, SumIsFold
<1>4. it[S] = f[Pick(S)] + it[R]
  BY <1>1, SumsStep, S \in SUBSET S
<1>5. it[R] = h[R]
  <2>1. R \subseteq S /\ R \subseteq R
    OBVIOUS
  <2> HIDE DEF R
  <2> QED
    BY <1>1, <1>2, <1>3, <2>1, SumsUnique
<1> QED
  BY <1>1, <1>3, <1>4, <1>5

LEMMA SumInt ==
  ASSUME NEW f, NEW S, IsFiniteSet(S), \A x \in S : f[x] \in Int
  PROVE  SumFunctionOnSet(f, S) \in Int
<1> DEFINE Good == {T \in SUBSET S : SumFunctionOnSet(f, T) \in Int}
<1>1. ASSUME NEW T \in SUBSET S, \A U \in SUBSET T : U # T => U \in Good
      PROVE  T \in Good
  <2>1. CASE T = {}
    BY <2>1, SumEmpty
  <2>2. CASE T # {}
    <3>1. Pick(T) \in T /\ T \ {Pick(T)} \in Good
      BY <1>1, <2>2, PickIn
    <3>2. SumFunctionOnSet(f, T) = f[Pick(T)] + SumFunctionOnSet(f, T \ {Pick(T)})
      BY <2>2, SumPick, FS_Subset
    <3> QED
      BY <3>1, <3>2
  <2> QED
    BY <2>1, <2>2
<1> HIDE DEF Good
<1>2. S \in Good
  BY <1>1, SubsetInduction
<1> QED
  BY <1>2 DEF Good

\* Any element may be taken out first.
LEMMA SumRemove ==
  ASSUME NEW f, NEW S, IsFiniteSet(S), \A x \in S : f[x] \in Int, NEW e \in S
  PROVE  SumFunctionOnSet(f, S) = f[e] + SumFunctionOnSet(f, S \ {e})
<1> DEFINE Good == {T \in SUBSET S :
             \A x \in T : SumFunctionOnSet(f, T) = f[x] + SumFunctionOnSet(f, T \ {x})}
<1>1. ASSUME NEW T \in SUBSET S, \A U \in SUBSET T : U # T => U \in Good, NEW x \in T
      PROVE  SumFunctionOnSet(f, T) = f[x] + SumFunctionOnSet(f, T \ {x})
  <2> DEFINE p == Pick(T)
  <2>1. p \in T
    BY PickIn
  <2>2. SumFunctionOnSet(f, T) = f[p] + SumFunctionOnSet(f, T \ {p})
    BY SumPick, FS_Subset
  <2> HIDE DEF p
  <2>3. CASE x = p
    BY <2>2, <2>3
  <2>4. CASE x # p
    <3> DEFINE W == (T \ {p}) \ {x}
    <3>1. T \ {p} \in Good /\ T \ {x} \in Good
      BY <1>1, <2>1
    <3>2. SumFunctionOnSet(f, T \ {p}) = f[x] + SumFunctionOnSet(f, W)
      BY <3>1, <2>4
    <3>3. (T \ {x}) \ {p} = W
      OBVIOUS
    <3>4. SumFunctionOnSet(f, T \ {x}) = f[p] + SumFunctionOnSet(f, W)
      BY <3>1, <3>3, <2>1, <2>4
    <3>5. W \in SUBSET S /\ IsFiniteSet(W)
      BY FS_Subset
    <3>6. SumFunctionOnSet(f, W) \in Int
      <4> HIDE DEF W
      <4> QED
        BY <3>5, SumInt
    <3>7. f[p] \in Int /\ f[x] \in Int
      BY <2>1
    <3> HIDE DEF W
    <3> QED
      BY <2>2, <3>2, <3>4, <3>6, <3>7
  <2> QED
    BY <2>3, <2>4
<1>2. \A T \in SUBSET S : (\A U \in SUBSET T : U # T => U \in Good) => T \in Good
  BY <1>1
<1> HIDE DEF Good
<1>3. S \in Good
  BY <1>2, SubsetInduction
<1> QED
  BY <1>3 DEF Good

\* Elements may be compared one by one.
LEMMA SumMonotonic ==
  ASSUME NEW f, NEW g, NEW S, IsFiniteSet(S),
         \A x \in S : f[x] \in Int /\ g[x] \in Int /\ f[x] <= g[x]
  PROVE  SumFunctionOnSet(f, S) <= SumFunctionOnSet(g, S)
<1> DEFINE Good == {T \in SUBSET S : SumFunctionOnSet(f, T) <= SumFunctionOnSet(g, T)}
<1>1. ASSUME NEW T \in SUBSET S, \A U \in SUBSET T : U # T => U \in Good
      PROVE  T \in Good
  <2>1. CASE T = {}
    BY <2>1, SumEmpty
  <2>2. CASE T # {}
    <3> DEFINE p == Pick(T)
    <3>1. p \in T /\ T \ {p} \in Good /\ IsFiniteSet(T) /\ IsFiniteSet(T \ {p})
      BY <1>1, <2>2, PickIn, FS_Subset
    <3>2. /\ SumFunctionOnSet(f, T) = f[p] + SumFunctionOnSet(f, T \ {p})
          /\ SumFunctionOnSet(g, T) = g[p] + SumFunctionOnSet(g, T \ {p})
      BY <2>2, <3>1, SumPick
    <3>3. SumFunctionOnSet(f, T \ {p}) \in Int /\ SumFunctionOnSet(g, T \ {p}) \in Int
      BY <3>1, SumInt
    <3>4. f[p] \in Int /\ g[p] \in Int /\ f[p] <= g[p]
      BY <3>1
    <3> HIDE DEF p
    <3> QED
      BY <3>1, <3>2, <3>3, <3>4
  <2> QED
    BY <2>1, <2>2
<1> HIDE DEF Good
<1>2. S \in Good
  BY <1>1, SubsetInduction
<1> QED
  BY <1>2 DEF Good

\* The sum looks at its elements only.
LEMMA SumEqual ==
  ASSUME NEW f, NEW g, NEW S, IsFiniteSet(S), \A x \in S : f[x] = g[x]
  PROVE  SumFunctionOnSet(f, S) = SumFunctionOnSet(g, S)
<1> DEFINE Good == {T \in SUBSET S : SumFunctionOnSet(f, T) = SumFunctionOnSet(g, T)}
<1>1. ASSUME NEW T \in SUBSET S, \A U \in SUBSET T : U # T => U \in Good
      PROVE  T \in Good
  <2>1. CASE T = {}
    BY <2>1, SumEmpty
  <2>2. CASE T # {}
    <3>1. Pick(T) \in T /\ T \ {Pick(T)} \in Good /\ IsFiniteSet(T)
      BY <1>1, <2>2, PickIn, FS_Subset
    <3>2. /\ SumFunctionOnSet(f, T) = f[Pick(T)] + SumFunctionOnSet(f, T \ {Pick(T)})
          /\ SumFunctionOnSet(g, T) = g[Pick(T)] + SumFunctionOnSet(g, T \ {Pick(T)})
      BY <2>2, <3>1, SumPick
    <3> QED
      BY <3>1, <3>2
  <2> QED
    BY <2>1, <2>2
<1> HIDE DEF Good
<1>2. S \in Good
  BY <1>1, SubsetInduction
<1> QED
  BY <1>2 DEF Good

LEMMA SumZero ==
  ASSUME NEW f, NEW S, IsFiniteSet(S), \A x \in S : f[x] = 0
  PROVE  SumFunctionOnSet(f, S) = 0
<1> DEFINE Good == {T \in SUBSET S : SumFunctionOnSet(f, T) = 0}
<1>1. ASSUME NEW T \in SUBSET S, \A U \in SUBSET T : U # T => U \in Good
      PROVE  T \in Good
  <2>1. CASE T = {}
    BY <2>1, SumEmpty
  <2>2. CASE T # {}
    <3>1. Pick(T) \in T /\ T \ {Pick(T)} \in Good /\ IsFiniteSet(T)
      BY <1>1, <2>2, PickIn, FS_Subset
    <3> QED
      BY <2>2, <3>1, SumPick
  <2> QED
    BY <2>1, <2>2
<1> HIDE DEF Good
<1>2. S \in Good
  BY <1>1, SubsetInduction
<1> QED
  BY <1>2 DEF Good

\* Sums add up.
LEMMA SumPlus ==
  ASSUME NEW f, NEW g, NEW h, NEW S, IsFiniteSet(S),
         \A x \in S : f[x] \in Int /\ g[x] \in Int /\ h[x] = f[x] + g[x]
  PROVE  SumFunctionOnSet(h, S) = SumFunctionOnSet(f, S) + SumFunctionOnSet(g, S)
<1> DEFINE Good == {T \in SUBSET S :
             SumFunctionOnSet(h, T) = SumFunctionOnSet(f, T) + SumFunctionOnSet(g, T)}
<1>1. ASSUME NEW T \in SUBSET S, \A U \in SUBSET T : U # T => U \in Good
      PROVE  T \in Good
  <2>1. CASE T = {}
    BY <2>1, SumEmpty
  <2>2. CASE T # {}
    <3> DEFINE p == Pick(T)
    <3>1. p \in T /\ T \ {p} \in Good /\ IsFiniteSet(T) /\ IsFiniteSet(T \ {p})
      BY <1>1, <2>2, PickIn, FS_Subset
    <3>2. /\ SumFunctionOnSet(f, T) = f[p] + SumFunctionOnSet(f, T \ {p})
          /\ SumFunctionOnSet(g, T) = g[p] + SumFunctionOnSet(g, T \ {p})
          /\ SumFunctionOnSet(h, T) = h[p] + SumFunctionOnSet(h, T \ {p})
      BY <2>2, <3>1, SumPick
    <3>3. SumFunctionOnSet(f, T \ {p}) \in Int /\ SumFunctionOnSet(g, T \ {p}) \in Int
      BY <3>1, SumInt
    <3>4. f[p] \in Int /\ g[p] \in Int /\ h[p] = f[p] + g[p]
      BY <3>1
    <3> HIDE DEF p
    <3> QED
      BY <3>1, <3>2, <3>3, <3>4
  <2> QED
    BY <2>1, <2>2
<1> HIDE DEF Good
<1>2. S \in Good
  BY <1>1, SubsetInduction
<1> QED
  BY <1>2 DEF Good

\* A sum of natural numbers is one, and is not below any of them.
LEMMA SumNat ==
  ASSUME NEW f, NEW S, IsFiniteSet(S), \A x \in S : f[x] \in Nat
  PROVE  /\ SumFunctionOnSet(f, S) \in Nat
         /\ \A x \in S : f[x] <= SumFunctionOnSet(f, S)
<1>1. ASSUME NEW T \in SUBSET S PROVE SumFunctionOnSet(f, T) \in Nat
  <2> DEFINE zero == [x \in T |-> 0]
  <2>1. IsFiniteSet(T)
    BY FS_Subset
  <2>2. SumFunctionOnSet(f, T) \in Int
    BY <2>1, SumInt
  <2>3. SumFunctionOnSet(zero, T) = 0
    <3>1. \A x \in T : zero[x] = 0
      OBVIOUS
    <3> HIDE DEF zero
    <3> QED
      BY <2>1, <3>1, SumZero
  <2>4. SumFunctionOnSet(zero, T) <= SumFunctionOnSet(f, T)
    <3>1. \A x \in T : zero[x] \in Int /\ f[x] \in Int /\ zero[x] <= f[x]
      OBVIOUS
    <3> HIDE DEF zero
    <3> QED
      BY <2>1, <3>1, SumMonotonic
  <2> QED
    BY <2>2, <2>3, <2>4
<1>2. ASSUME NEW x \in S PROVE f[x] <= SumFunctionOnSet(f, S)
  <2>1. SumFunctionOnSet(f, S) = f[x] + SumFunctionOnSet(f, S \ {x})
    BY SumRemove
  <2>2. SumFunctionOnSet(f, S \ {x}) \in Nat
    BY <1>1
  <2> QED
    BY <2>1, <2>2
<1> QED
  BY <1>1, <1>2, S \in SUBSET S

\* Changing one element changes the sum by as much.
LEMMA SumChange ==
  ASSUME NEW f, NEW g, NEW S, IsFiniteSet(S), NEW e \in S,
         \A x \in S : f[x] \in Int /\ g[x] \in Int,
         \A x \in S \ {e} : f[x] = g[x]
  PROVE  SumFunctionOnSet(g, S) = SumFunctionOnSet(f, S) + g[e] - f[e]
<1> DEFINE R == S \ {e}
<1>1. /\ SumFunctionOnSet(f, S) = f[e] + SumFunctionOnSet(f, R)
      /\ SumFunctionOnSet(g, S) = g[e] + SumFunctionOnSet(g, R)
  BY SumRemove
<1>2. IsFiniteSet(R) /\ R \subseteq S
  BY FS_Subset
<1>3. SumFunctionOnSet(f, R) = SumFunctionOnSet(g, R)
  BY <1>2, SumEqual
<1>4. SumFunctionOnSet(f, R) \in Int
  BY <1>2, SumInt
<1>5. f[e] \in Int /\ g[e] \in Int
  OBVIOUS
<1> HIDE DEF R
<1> QED
  BY <1>1, <1>3, <1>4, <1>5

\* Elements that add nothing may be left out.
LEMMA SumSupport ==
  ASSUME NEW f, NEW S, IsFiniteSet(S), NEW R \in SUBSET S,
         \A x \in S : f[x] \in Int, \A x \in S \ R : f[x] = 0
  PROVE  SumFunctionOnSet(f, R) = SumFunctionOnSet(f, S)
<1> DEFINE Good == {T \in SUBSET S : SumFunctionOnSet(f, T \intersect R) = SumFunctionOnSet(f, T)}
<1>1. ASSUME NEW T \in SUBSET S, \A U \in SUBSET T : U # T => U \in Good
      PROVE  T \in Good
  <2>1. CASE T = {}
    <3>1. T \intersect R = T
      BY <2>1
    <3> QED
      BY <3>1
  <2>2. CASE T # {}
    <3> DEFINE p == Pick(T)
               V == T \ {p}
    <3>1. p \in T /\ V \in Good /\ IsFiniteSet(T)
      BY <1>1, <2>2, PickIn, FS_Subset
    <3>2. SumFunctionOnSet(f, T) = f[p] + SumFunctionOnSet(f, V)
      BY <2>2, <3>1, SumPick
    <3>3. V \in SUBSET S /\ IsFiniteSet(V)
      BY FS_Subset
    <3>4. SumFunctionOnSet(f, V) \in Int
      <4> HIDE DEF V
      <4> QED
        BY <3>3, SumInt
    <3>5. CASE p \in R
      <4>1. (T \intersect R) \ {p} = V \intersect R /\ p \in T \intersect R
        BY <3>1, <3>5
      <4>2. IsFiniteSet(T \intersect R)
        BY FS_Subset
      <4>3. SumFunctionOnSet(f, T \intersect R) = f[p] + SumFunctionOnSet(f, V \intersect R)
        BY <4>1, <4>2, SumRemove
      <4> QED
        BY <3>1, <3>2, <4>3
    <3>6. CASE p \notin R
      <4>1. T \intersect R = V \intersect R /\ f[p] = 0
        BY <3>1, <3>6
      <4>2. SumFunctionOnSet(f, V \intersect R) = SumFunctionOnSet(f, V)
        BY <3>1
      <4>3. SumFunctionOnSet(f, T \intersect R) = SumFunctionOnSet(f, V)
        BY <4>1, <4>2, Zenon
      <4>4. SumFunctionOnSet(f, T) = SumFunctionOnSet(f, V)
        <5> HIDE DEF V, p
        <5> QED
          BY <3>2, <3>4, <4>1
      <4> QED
        BY <4>3, <4>4
    <3> QED
      BY <3>5, <3>6
  <2> QED
    BY <2>1, <2>2
<1> HIDE DEF Good
<1>2. S \in Good
  BY <1>1, SubsetInduction
<1>3. S \intersect R = R
  OBVIOUS
<1> QED
  BY <1>2, <1>3 DEF Good

\* A sum of numbers of which none is greater than a bound.
LEMMA SumAtMost ==
  ASSUME NEW f, NEW S, IsFiniteSet(S), NEW k \in Nat, \A x \in S : f[x] \in Int /\ f[x] <= k
  PROVE  SumFunctionOnSet(f, S) <= Cardinality(S) * k
<1> DEFINE Good == {T \in SUBSET S : SumFunctionOnSet(f, T) <= Cardinality(T) * k}
<1>1. ASSUME NEW T \in SUBSET S, \A U \in SUBSET T : U # T => U \in Good
      PROVE  T \in Good
  <2>1. CASE T = {}
    <3>1. SumFunctionOnSet(f, {}) = 0 /\ Cardinality({}) = 0
      BY SumEmpty, FS_EmptySet
    <3> QED
      BY <2>1, <3>1
  <2>2. CASE T # {}
    <3> DEFINE x == Pick(T)
               U == T \ {x}
    <3>1. x \in T /\ x \in S /\ IsFiniteSet(T) /\ IsFiniteSet(U) /\ U \in SUBSET T /\ U # T /\ x \notin U
      BY <2>2, PickIn, FS_Subset
    <3>2. SumFunctionOnSet(f, T) = f[x] + SumFunctionOnSet(f, U)
      BY <2>2, <3>1, SumPick
    <3>3. Cardinality(T) = Cardinality(U) + 1 /\ Cardinality(U) \in Nat
      BY <3>1, FS_RemoveElement, FS_CardinalityType
    <3>4. SumFunctionOnSet(f, U) <= Cardinality(U) * k
      BY <1>1, <3>1
    <3>5. SumFunctionOnSet(f, U) \in Int /\ f[x] \in Int /\ f[x] <= k
      BY <3>1, SumInt
    <3> HIDE DEF x, U
    <3>6. \A n \in Nat : \A a, b \in Int : a <= n * k /\ b <= k => b + a <= (n + 1) * k
      BY k \in Nat
    <3>7. SumFunctionOnSet(f, T) <= Cardinality(T) * k
      BY <3>2, <3>3, <3>4, <3>5, <3>6
    <3> QED
      BY <3>7
  <2> QED
    BY <2>1, <2>2
<1>2. \A T \in SUBSET S : T \in Good
  <2> HIDE DEF Good
  <2> QED
    BY <1>1, SubsetInduction
<1> QED
  BY <1>2
=============================================================================
