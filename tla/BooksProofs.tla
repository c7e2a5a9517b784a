----------------------------- MODULE BooksProofs -----------------------------
(***************************************************************************)
(* Proofs about the books, for any accounts, currencies, entries, requests *)
(* and number of transactions: the laws of the sums a balance is; that the *)
(* operations are those of the atomic ledger; and that the books balance,  *)
(* reversals net to nothing and guarded accounts are never overdrawn.      *)
(***************************************************************************)
EXTENDS Books, FiniteSetTheorems, SequenceTheorems, WellFoundedInduction, TLAPS

-----------------------------------------------------------------------------
(* Induction over the subsets of a finite set. *)

\* A family of subsets of a finite set that has {} and every set all of whose
\* elements can be taken away within it, has all subsets.
LEMMA SubsetInduction ==
  ASSUME NEW D, IsFiniteSet(D), NEW Good, {} \in Good,
         \A S \in SUBSET D : S # {} /\ (\A x \in S : S \ {x} \in Good) => S \in Good
  PROVE  \A S \in SUBSET D : S \in Good
<1> DEFINE Bad == {S \in SUBSET D : S \notin Good}
<1>1. SUFFICES ASSUME Bad # {} PROVE FALSE
  OBVIOUS
<1>2. IsWellFoundedOn(StrictSubsetOrdering(D), SUBSET D)
  BY FS_StrictSubsetOrderingWellFounded, FS_FiniteSubsetsOfFinite
<1>3. PICK S \in Bad : \A T \in Bad : ~(<<T, S>> \in StrictSubsetOrdering(D))
  <2>1. Bad \subseteq SUBSET D
    OBVIOUS
  <2> HIDE DEF Bad
  <2>2. QED
    BY <1>1, <1>2, <2>1, WFMin
<1>4. ASSUME NEW x \in S PROVE S \ {x} \in Good
  <2>1. S \ {x} \in SUBSET D /\ S \ {x} \subseteq S /\ S \ {x} # S
    BY <1>3, <1>4
  <2>2. <<S \ {x}, S>> \in StrictSubsetOrdering(D)
    BY <1>3, <2>1 DEF StrictSubsetOrdering
  <2>3. QED
    BY <1>3, <2>1, <2>2
<1>5. S # {} /\ S \in SUBSET D /\ S \notin Good
  BY <1>3
<1>6. QED
  BY <1>4, <1>5

-----------------------------------------------------------------------------
(* The sum is defined by recursion; this section shows that there is a     *)
(* function that satisfies the recursion, so the sum does too.             *)

Pick(s) == CHOOSE x \in s : TRUE

\* One more element of the recursion.
Unfold(F, g, s) == IF s = {} THEN 0 ELSE F[Pick(s)] + g[s \ {Pick(s)}]

Folds(F, D, g) == g = [s \in SUBSET D |-> Unfold(F, g, s)]

\* Below any size the recursion has a solution.
LEMMA FoldExists ==
  ASSUME NEW D, IsFiniteSet(D), NEW F
  PROVE  \E g : Folds(F, D, g)
<1> DEFINE Small(n) == {s \in SUBSET D : Cardinality(s) <= n}
           Upto(n, g) == g = [s \in Small(n) |-> Unfold(F, g, s)]
           Sizes == {S \in SUBSET D : \E g : Upto(Cardinality(S), g)}
<1>1. \A s \in SUBSET D : /\ IsFiniteSet(s) /\ Cardinality(s) \in Nat
                          /\ Cardinality(s) <= Cardinality(D)
                          /\ Cardinality(s) = 0 <=> s = {}
  BY FS_Subset, FS_CardinalityType, FS_EmptySet
<1>2. \A s \in SUBSET D : \A x \in s : Cardinality(s \ {x}) = Cardinality(s) - 1
  BY <1>1, FS_RemoveElement
<1>3. \A s : s # {} => Pick(s) \in s
  BY DEF Pick
<1>4. {} \in Sizes
  <2>1. Small(Cardinality({})) = {{}}
    BY <1>1
  <2>2. Upto(Cardinality({}), [s \in {{}} |-> 0])
    BY <2>1 DEF Unfold
  <2>3. QED
    BY <2>2
<1>5. ASSUME NEW S \in SUBSET D, NEW x \in S, S \ {x} \in Sizes PROVE S \in Sizes
  <2> DEFINE n == Cardinality(S)
  <2>1. n \in Nat /\ Cardinality(S \ {x}) = n - 1
    BY <1>1, <1>2
  <2>2. PICK g : Upto(n - 1, g)
    BY <1>5, <2>1
  <2> DEFINE h == [s \in Small(n) |-> Unfold(F, g, s)]
  <2>3. ASSUME NEW s \in Small(n) PROVE Unfold(F, h, s) = Unfold(F, g, s)
    <3>1. CASE s = {}
      BY <3>1 DEF Unfold
    <3>2. CASE s # {}
      <4> DEFINE r == s \ {Pick(s)}
      <4>1. r \in SUBSET D /\ Cardinality(r) = Cardinality(s) - 1
        BY <1>2, <1>3, <3>2
      <4>2. r \in Small(n - 1) /\ r \in Small(n)
        BY <1>1, <2>1, <2>3, <4>1
      <4>3. h[r] = g[r]
        <5>1. h[r] = Unfold(F, g, r)
          BY <4>2
        <5>2. g[r] = Unfold(F, g, r)
          BY <2>2, <4>2
        <5>3. QED
          BY <5>1, <5>2
      <4>4. QED
        BY <4>3 DEF Unfold
    <3>3. QED
      BY <3>1, <3>2
  <2>4. Upto(n, h)
    BY <2>3
  <2>5. QED
    BY <2>4
<1>6. \A S \in SUBSET D : S # {} /\ (\A x \in S : S \ {x} \in Sizes) => S \in Sizes
  BY <1>5
<1>7. D \in Sizes
  <2> HIDE DEF Sizes
  <2>1. \A S \in SUBSET D : S \in Sizes
    BY <1>4, <1>6, SubsetInduction
  <2>2. QED
    BY <2>1
<1>8. PICK g : Upto(Cardinality(D), g)
  BY <1>7
<1>9. Small(Cardinality(D)) = SUBSET D
  BY <1>1
<1>10. QED
  BY <1>8, <1>9 DEF Folds

\* So the sum follows the recursion.
LEMMA SumIsFold ==
  ASSUME NEW D, IsFiniteSet(D), NEW F
  PROVE  \E g : Folds(F, D, g) /\ SumFunctionOnSet(F, D) = g[D]
<1>1. PICK g : Folds(F, D, g)
  BY FoldExists
<1>2. QED
  BY <1>1 DEF SumFunctionOnSet, FoldFunctionOnSet, MapThenFoldSet, Folds, Unfold, Pick

\* Two solutions agree where both are defined.
LEMMA FoldUnique ==
  ASSUME NEW D, NEW E, NEW F, NEW g, NEW h, Folds(F, D, g), Folds(F, E, h),
         NEW S, IsFiniteSet(S), S \subseteq D, S \subseteq E
  PROVE  g[S] = h[S]
<1> DEFINE Same == {T \in SUBSET S : g[T] = h[T]}
<1>1. ASSUME NEW T \in SUBSET S PROVE g[T] = Unfold(F, g, T) /\ h[T] = Unfold(F, h, T)
  <2>1. T \in SUBSET D /\ T \in SUBSET E
    OBVIOUS
  <2>2. QED
    BY <2>1 DEF Folds
<1>2. {} \in Same
  BY <1>1 DEF Unfold
<1>3. ASSUME NEW T \in SUBSET S, T # {}, \A x \in T : T \ {x} \in Same PROVE T \in Same
  <2>1. T \ {Pick(T)} \in Same
    BY <1>3 DEF Pick
  <2>2. QED
    BY <1>1, <2>1 DEF Unfold
<1>4. \A T \in SUBSET S : T \in Same
  <2>1. \A T \in SUBSET S : T # {} /\ (\A x \in T : T \ {x} \in Same) => T \in Same
    BY <1>3
  <2> HIDE DEF Same
  <2>2. QED
    BY <1>2, <2>1, SubsetInduction
<1>5. S \in Same
  BY <1>4
<1>6. QED
  BY <1>5

-----------------------------------------------------------------------------
(* The laws of sums. *)

\* The sum over nothing, and the sum with the chosen element split off.
LEMMA SumUnfold ==
  ASSUME NEW D, IsFiniteSet(D), NEW F
  PROVE  /\ SumFunctionOnSet(F, {}) = 0
         /\ D # {} => SumFunctionOnSet(F, D) = F[Pick(D)] + SumFunctionOnSet(F, D \ {Pick(D)})
<1>1. PICK g : Folds(F, D, g) /\ SumFunctionOnSet(F, D) = g[D]
  BY SumIsFold
<1>2. ASSUME NEW S \in SUBSET D PROVE SumFunctionOnSet(F, S) = g[S]
  <2>1. IsFiniteSet(S)
    BY FS_Subset
  <2>2. PICK h : Folds(F, S, h) /\ SumFunctionOnSet(F, S) = h[S]
    BY <2>1, SumIsFold
  <2>3. QED
    BY <1>1, <2>1, <2>2, FoldUnique
<1>3. g[D] = Unfold(F, g, D) /\ g[{}] = Unfold(F, g, {})
  BY <1>1 DEF Folds
<1>4. D \ {Pick(D)} \in SUBSET D /\ {} \in SUBSET D
  OBVIOUS
<1>5. QED
  BY <1>1, <1>2, <1>3, <1>4 DEF Unfold

\* A sum of integers is one.
LEMMA SumType ==
  ASSUME NEW D, IsFiniteSet(D), NEW F, \A x \in D : F[x] \in Int
  PROVE  SumFunctionOnSet(F, D) \in Int
<1> DEFINE Good == {S \in SUBSET D : SumFunctionOnSet(F, S) \in Int}
<1>1. {} \in Good
  <2>1. SumFunctionOnSet(F, {}) = 0
    BY SumUnfold
  <2>2. QED
    BY <2>1
<1>2. ASSUME NEW S \in SUBSET D, S # {}, \A x \in S : S \ {x} \in Good PROVE S \in Good
  <2>1. Pick(S) \in S /\ IsFiniteSet(S)
    BY <1>2, FS_Subset DEF Pick
  <2>2. SumFunctionOnSet(F, S) = F[Pick(S)] + SumFunctionOnSet(F, S \ {Pick(S)})
    BY <1>2, <2>1, SumUnfold
  <2>3. QED
    BY <1>2, <2>1, <2>2
<1>3. \A S \in SUBSET D : S \in Good
  <2>1. \A S \in SUBSET D : S # {} /\ (\A x \in S : S \ {x} \in Good) => S \in Good
    BY <1>2
  <2> HIDE DEF Good
  <2>2. QED
    BY <1>1, <2>1, SubsetInduction
<1>4. D \in Good
  BY <1>3
<1>5. QED
  BY <1>4

\* Any element may be split off.
LEMMA SumSplit ==
  ASSUME NEW D, IsFiniteSet(D), NEW F, \A x \in D : F[x] \in Int, NEW x \in D
  PROVE  SumFunctionOnSet(F, D) = F[x] + SumFunctionOnSet(F, D \ {x})
<1> DEFINE Total(S) == SumFunctionOnSet(F, S)
           Good == {S \in SUBSET D : \A y \in S : Total(S) = F[y] + Total(S \ {y})}
<1>1. {} \in Good
  OBVIOUS
<1>2. \A S \in SUBSET D : IsFiniteSet(S) /\ Total(S) \in Int
  BY FS_Subset, SumType
<1>3. ASSUME NEW S \in SUBSET D, S # {}, \A y \in S : S \ {y} \in Good PROVE S \in Good
  <2> DEFINE p == Pick(S)
  <2>1. p \in S
    BY <1>3 DEF Pick
  <2>2. Total(S) = F[p] + Total(S \ {p})
    BY <1>2, <1>3, SumUnfold
  <2>3. ASSUME NEW y \in S PROVE Total(S) = F[y] + Total(S \ {y})
    <3>1. CASE y = p
      BY <2>2, <3>1
    <3>2. CASE y # p
      <4>1. Total(S \ {p}) = F[y] + Total((S \ {p}) \ {y})
        BY <1>3, <2>1, <3>2
      <4>2. Total(S \ {y}) = F[p] + Total((S \ {y}) \ {p})
        BY <1>3, <2>1, <3>2
      <4>3. (S \ {p}) \ {y} = (S \ {y}) \ {p}
        OBVIOUS
      <4>4. F[y] \in Int /\ F[p] \in Int /\ Total((S \ {y}) \ {p}) \in Int
        BY <1>2, <2>1
      <4>5. Total(S \ {p}) = F[y] + Total((S \ {y}) \ {p})
        BY <4>1, <4>3
      <4> HIDE DEF Total, p
      <4>6. F[p] + (F[y] + Total((S \ {y}) \ {p})) = F[y] + (F[p] + Total((S \ {y}) \ {p}))
        BY <4>4
      <4>7. QED
        BY <2>2, <4>2, <4>5, <4>6
    <3>3. QED
      BY <3>1, <3>2
  <2>4. QED
    BY <2>3
<1>4. \A S \in SUBSET D : S \in Good
  <2>1. \A S \in SUBSET D : S # {} /\ (\A y \in S : S \ {y} \in Good) => S \in Good
    BY <1>3
  <2> HIDE DEF Good
  <2>2. QED
    BY <1>1, <2>1, SubsetInduction
<1>5. D \in Good
  BY <1>4
<1>6. QED
  BY <1>5

\* Only the values on the set count.
LEMMA SumSame ==
  ASSUME NEW D, IsFiniteSet(D), NEW F, NEW G,
         \A x \in D : F[x] \in Int /\ G[x] = F[x]
  PROVE  SumFunctionOnSet(F, D) = SumFunctionOnSet(G, D)
<1> DEFINE Good == {S \in SUBSET D : SumFunctionOnSet(F, S) = SumFunctionOnSet(G, S)}
<1>1. {} \in Good
  <2>1. SumFunctionOnSet(F, {}) = 0 /\ SumFunctionOnSet(G, {}) = 0
    BY SumUnfold
  <2>2. QED
    BY <2>1
<1>2. ASSUME NEW S \in SUBSET D, S # {}, \A x \in S : S \ {x} \in Good PROVE S \in Good
  <2>1. IsFiniteSet(S) /\ Pick(S) \in S
    BY <1>2, FS_Subset DEF Pick
  <2>2. /\ SumFunctionOnSet(F, S) = F[Pick(S)] + SumFunctionOnSet(F, S \ {Pick(S)})
        /\ SumFunctionOnSet(G, S) = G[Pick(S)] + SumFunctionOnSet(G, S \ {Pick(S)})
    BY <1>2, <2>1, SumUnfold
  <2>3. QED
    BY <1>2, <2>1, <2>2
<1>3. \A S \in SUBSET D : S \in Good
  <2>1. \A S \in SUBSET D : S # {} /\ (\A x \in S : S \ {x} \in Good) => S \in Good
    BY <1>2
  <2> HIDE DEF Good
  <2>2. QED
    BY <1>1, <2>1, SubsetInduction
<1>4. D \in Good
  BY <1>3
<1>5. QED
  BY <1>4

\* Sums of sums: the sum of F + G is the sum of F and that of G.
LEMMA SumPlus ==
  ASSUME NEW D, IsFiniteSet(D), NEW F, NEW G, NEW H,
         \A x \in D : F[x] \in Int /\ G[x] \in Int /\ H[x] = F[x] + G[x]
  PROVE  SumFunctionOnSet(H, D) = SumFunctionOnSet(F, D) + SumFunctionOnSet(G, D)
<1> DEFINE Total(K, S) == SumFunctionOnSet(K, S)
           Good == {S \in SUBSET D : Total(H, S) = Total(F, S) + Total(G, S)}
<1>1. {} \in Good
  <2>1. Total(F, {}) = 0 /\ Total(G, {}) = 0 /\ Total(H, {}) = 0
    BY SumUnfold
  <2>2. QED
    BY <2>1
<1>2. \A S \in SUBSET D : IsFiniteSet(S) /\ Total(F, S) \in Int /\ Total(G, S) \in Int
  BY FS_Subset, SumType
<1>3. ASSUME NEW S \in SUBSET D, S # {}, \A x \in S : S \ {x} \in Good PROVE S \in Good
  <2> DEFINE p == Pick(S)
  <2>1. IsFiniteSet(S) /\ p \in S
    BY <1>2, <1>3 DEF Pick
  <2>2. /\ Total(F, S) = F[p] + Total(F, S \ {p})
        /\ Total(G, S) = G[p] + Total(G, S \ {p})
        /\ Total(H, S) = H[p] + Total(H, S \ {p})
    BY <1>3, <2>1, SumUnfold
  <2>3. Total(H, S \ {p}) = Total(F, S \ {p}) + Total(G, S \ {p})
    BY <1>3, <2>1
  <2>4. /\ F[p] \in Int /\ G[p] \in Int /\ H[p] = F[p] + G[p]
        /\ Total(F, S \ {p}) \in Int /\ Total(G, S \ {p}) \in Int
    BY <1>2, <2>1
  <2>5. Total(H, S) = Total(F, S) + Total(G, S)
    <3> HIDE DEF Total, p
    <3>1. QED
      BY <2>2, <2>3, <2>4
  <2>6. QED
    BY <2>5
<1>4. \A S \in SUBSET D : S \in Good
  <2>1. \A S \in SUBSET D : S # {} /\ (\A x \in S : S \ {x} \in Good) => S \in Good
    BY <1>3
  <2> HIDE DEF Good
  <2>2. QED
    BY <1>1, <2>1, SubsetInduction
<1>5. D \in Good
  BY <1>4
<1>6. QED
  BY <1>5

\* A sum of zeros is zero, and of one value beside zeros that value.
LEMMA SumZero ==
  ASSUME NEW D, IsFiniteSet(D), NEW F, \A x \in D : F[x] = 0
  PROVE  SumFunctionOnSet(F, D) = 0
<1> DEFINE total == SumFunctionOnSet(F, D)
<1>1. total = total + total
  BY SumPlus
<1>2. total \in Int
  BY SumType
<1> HIDE DEF total
<1>3. total = 0
  BY <1>1, <1>2
<1>4. QED
  BY <1>3 DEF total

LEMMA SumSingle ==
  ASSUME NEW D, IsFiniteSet(D), NEW F, NEW x \in D, F[x] \in Int,
         \A y \in D \ {x} : F[y] = 0
  PROVE  SumFunctionOnSet(F, D) = F[x]
<1>1. SumFunctionOnSet(F, D) = F[x] + SumFunctionOnSet(F, D \ {x})
  <2>1. \A y \in D : F[y] \in Int
    OBVIOUS
  <2>2. QED
    BY <2>1, SumSplit
<1>2. IsFiniteSet(D \ {x})
  BY FS_Subset
<1>3. SumFunctionOnSet(F, D \ {x}) = 0
  BY <1>2, SumZero
<1>4. QED
  BY <1>1, <1>3

\* The sum of the opposites is the opposite of the sum.
LEMMA SumOpposite ==
  ASSUME NEW D, IsFiniteSet(D), NEW F, NEW G,
         \A x \in D : F[x] \in Int /\ G[x] = -F[x]
  PROVE  SumFunctionOnSet(G, D) = -SumFunctionOnSet(F, D)
<1> DEFINE Zero == [x \in D |-> 0]
<1>1. SumFunctionOnSet(Zero, D) = 0
  BY SumZero
<1>2. SumFunctionOnSet(Zero, D) = SumFunctionOnSet(F, D) + SumFunctionOnSet(G, D)
  <2>1. \A x \in D : F[x] \in Int /\ G[x] \in Int /\ Zero[x] = F[x] + G[x]
    OBVIOUS
  <2> HIDE DEF Zero
  <2>2. QED
    BY <2>1, SumPlus
<1>3. SumFunctionOnSet(F, D) \in Int /\ SumFunctionOnSet(G, D) \in Int
  BY SumType
<1>4. QED
  BY <1>1, <1>2, <1>3

\* A sum of naturals is one.
LEMMA SumNat ==
  ASSUME NEW D, IsFiniteSet(D), NEW F, \A x \in D : F[x] \in Nat
  PROVE  SumFunctionOnSet(F, D) \in Nat
<1> DEFINE Good == {S \in SUBSET D : SumFunctionOnSet(F, S) \in Nat}
<1>1. {} \in Good
  <2>1. SumFunctionOnSet(F, {}) = 0
    BY SumUnfold
  <2>2. QED
    BY <2>1
<1>2. ASSUME NEW S \in SUBSET D, S # {}, \A x \in S : S \ {x} \in Good PROVE S \in Good
  <2>1. Pick(S) \in S /\ IsFiniteSet(S)
    BY <1>2, FS_Subset DEF Pick
  <2>2. SumFunctionOnSet(F, S) = F[Pick(S)] + SumFunctionOnSet(F, S \ {Pick(S)})
    BY <1>2, <2>1, SumUnfold
  <2>3. QED
    BY <1>2, <2>1, <2>2
<1>3. \A S \in SUBSET D : S \in Good
  <2>1. \A S \in SUBSET D : S # {} /\ (\A x \in S : S \ {x} \in Good) => S \in Good
    BY <1>2
  <2> HIDE DEF Good
  <2>2. QED
    BY <1>1, <2>1, SubsetInduction
<1>4. D \in Good
  BY <1>3
<1>5. QED
  BY <1>4

\* The sum of a part and that of the rest.
LEMMA SumParts ==
  ASSUME NEW D, IsFiniteSet(D), NEW F, \A x \in D : F[x] \in Int, NEW A \in SUBSET D
  PROVE  SumFunctionOnSet(F, D) = SumFunctionOnSet(F, A) + SumFunctionOnSet(F, D \ A)
<1> DEFINE Total(S) == SumFunctionOnSet(F, S)
           Good == {S \in SUBSET D : Total(D) = Total(S) + Total(D \ S)}
<1>1. \A S \in SUBSET D : IsFiniteSet(S) /\ Total(S) \in Int
  BY FS_Subset, SumType
<1>2. {} \in Good
  <2>1. Total({}) = 0
    BY SumUnfold
  <2>2. D \ {} = D /\ Total(D) \in Int
    BY <1>1
  <2>3. QED
    BY <2>1, <2>2
<1>3. ASSUME NEW S \in SUBSET D, S # {}, \A x \in S : S \ {x} \in Good PROVE S \in Good
  <2>1. PICK x \in S : TRUE
    BY <1>3
  <2> DEFINE R == D \ (S \ {x})
  <2>2. Total(D) = Total(S \ {x}) + Total(R)
    BY <1>3
  <2>3. Total(S) = F[x] + Total(S \ {x})
    BY <1>1, SumSplit
  <2>4. Total(R) = F[x] + Total(D \ S)
    <3>1. R \in SUBSET D /\ x \in R /\ R \ {x} = D \ S
      OBVIOUS
    <3> HIDE DEF R
    <3>2. Total(R) = F[x] + Total(R \ {x})
      BY <1>1, <3>1, SumSplit
    <3>3. QED
      BY <3>1, <3>2
  <2>5. Total(S \ {x}) \in Int /\ Total(D \ S) \in Int /\ F[x] \in Int
    BY <1>1
  <2>6. Total(D) = Total(S) + Total(D \ S)
    <3> HIDE DEF Total, R
    <3>1. QED
      BY <2>2, <2>3, <2>4, <2>5
  <2>7. QED
    BY <2>6
<1>4. \A S \in SUBSET D : S \in Good
  <2>1. \A S \in SUBSET D : S # {} /\ (\A x \in S : S \ {x} \in Good) => S \in Good
    BY <1>3
  <2> HIDE DEF Good
  <2>2. QED
    BY <1>2, <2>1, SubsetInduction
<1>5. A \in Good
  BY <1>4
<1>6. QED
  BY <1>5

\* A set may be summed by the values of a function on it.
LEMMA SumFibres ==
  ASSUME NEW D, IsFiniteSet(D), NEW F, \A x \in D : F[x] \in Int,
         NEW E, IsFiniteSet(E), NEW f, \A x \in D : f[x] \in E,
         NEW G, \A y \in E : G[y] = SumFunctionOnSet(F, {x \in D : f[x] = y})
  PROVE  SumFunctionOnSet(G, E) = SumFunctionOnSet(F, D)
<1> DEFINE Over(S) == {x \in D : f[x] \in S}
           Good == {S \in SUBSET E : SumFunctionOnSet(G, S) = SumFunctionOnSet(F, Over(S))}
<1>1. \A S : IsFiniteSet(Over(S)) /\ SumFunctionOnSet(F, Over(S)) \in Int
  <2>1. ASSUME NEW S PROVE IsFiniteSet(Over(S)) /\ SumFunctionOnSet(F, Over(S)) \in Int
    <3>1. IsFiniteSet(Over(S))
      BY FS_Subset
    <3>2. QED
      BY <3>1, SumType
  <2>2. QED
    BY <2>1
<1>2. \A y \in E : G[y] \in Int /\ G[y] = SumFunctionOnSet(F, Over({y}))
  <2>1. ASSUME NEW y \in E PROVE G[y] = SumFunctionOnSet(F, Over({y}))
    <3>1. Over({y}) = {x \in D : f[x] = y}
      OBVIOUS
    <3>2. QED
      BY <3>1
  <2>2. QED
    BY <1>1, <2>1
<1>3. {} \in Good
  <2>1. Over({}) = {}
    OBVIOUS
  <2>2. SumFunctionOnSet(G, {}) = 0 /\ SumFunctionOnSet(F, {}) = 0
    BY SumUnfold
  <2>3. QED
    BY <2>1, <2>2
<1>4. ASSUME NEW S \in SUBSET E, S # {}, \A y \in S : S \ {y} \in Good PROVE S \in Good
  <2>1. PICK y \in S : TRUE
    BY <1>4
  <2>2. IsFiniteSet(S)
    BY FS_Subset
  <2>3. SumFunctionOnSet(G, S) = G[y] + SumFunctionOnSet(G, S \ {y})
    <3>1. \A z \in S : G[z] \in Int
      BY <1>2
    <3>2. QED
      BY <2>2, <3>1, SumSplit
  <2>4. SumFunctionOnSet(G, S \ {y}) = SumFunctionOnSet(F, Over(S \ {y}))
    BY <1>4
  <2>5. SumFunctionOnSet(F, Over(S)) =
          SumFunctionOnSet(F, Over({y})) + SumFunctionOnSet(F, Over(S \ {y}))
    <3>1. Over({y}) \in SUBSET Over(S) /\ Over(S) \ Over({y}) = Over(S \ {y})
      OBVIOUS
    <3>2. \A x \in Over(S) : F[x] \in Int
      OBVIOUS
    <3>3. IsFiniteSet(Over(S))
      BY <1>1
    <3> HIDE DEF Over
    <3>4. SumFunctionOnSet(F, Over(S)) =
            SumFunctionOnSet(F, Over({y})) + SumFunctionOnSet(F, Over(S) \ Over({y}))
      BY <3>1, <3>2, <3>3, SumParts
    <3>5. QED
      BY <3>1, <3>4
  <2>6. SumFunctionOnSet(G, S) = SumFunctionOnSet(F, Over(S))
    BY <1>2, <2>3, <2>4, <2>5
  <2>7. QED
    BY <2>6
<1>5. \A S \in SUBSET E : S \in Good
  <2>1. \A S \in SUBSET E : S # {} /\ (\A y \in S : S \ {y} \in Good) => S \in Good
    BY <1>4
  <2> HIDE DEF Good
  <2>2. QED
    BY <1>3, <2>1, SubsetInduction
<1>6. E \in Good
  BY <1>5
<1>7. Over(E) = D
  OBVIOUS
<1>8. QED
  BY <1>6, <1>7

\* If every column of a table adds up to nothing, so do the totals of its rows.
LEMMA SumColumns ==
  ASSUME NEW D, IsFiniteSet(D), NEW E, IsFiniteSet(E), NEW M,
         \A y \in E : \A x \in D : M[y][x] \in Int,
         \A x \in D : SumFunctionOnSet([y \in E |-> M[y][x]], E) = 0,
         NEW G, \A y \in E : G[y] = SumFunctionOnSet(M[y], D)
  PROVE  SumFunctionOnSet(G, E) = 0
<1> DEFINE Column(x) == [y \in E |-> M[y][x]]
           Rows(S) == [y \in E |-> SumFunctionOnSet(M[y], S)]
           Good == {S \in SUBSET D : SumFunctionOnSet(Rows(S), E) = 0}
<1>1. \A S \in SUBSET D : IsFiniteSet(S) /\ \A y \in E : SumFunctionOnSet(M[y], S) \in Int
  BY FS_Subset, SumType
<1>2. {} \in Good
  <2>1. \A y \in E : Rows({})[y] = 0
    BY SumUnfold
  <2> HIDE DEF Rows
  <2>2. SumFunctionOnSet(Rows({}), E) = 0
    BY <2>1, SumZero
  <2>3. QED
    BY <2>2
<1>3. ASSUME NEW S \in SUBSET D, S # {}, \A x \in S : S \ {x} \in Good PROVE S \in Good
  <2>1. PICK x \in S : TRUE
    BY <1>3
  <2>2. SumFunctionOnSet(Rows(S \ {x}), E) = 0 /\ SumFunctionOnSet(Column(x), E) = 0
    BY <1>3
  <2>3. \A y \in E : /\ Column(x)[y] \in Int /\ Rows(S \ {x})[y] \in Int
                     /\ Rows(S)[y] = Column(x)[y] + Rows(S \ {x})[y]
    <3>1. \A y \in E : SumFunctionOnSet(M[y], S) = M[y][x] + SumFunctionOnSet(M[y], S \ {x})
      BY <1>1, SumSplit
    <3>2. S \ {x} \in SUBSET D
      OBVIOUS
    <3>3. \A y \in E : M[y][x] \in Int /\ SumFunctionOnSet(M[y], S \ {x}) \in Int
      BY <1>1, <3>2
    <3>4. QED
      BY <3>1, <3>3
  <2>4. SumFunctionOnSet(Rows(S), E) =
          SumFunctionOnSet(Column(x), E) + SumFunctionOnSet(Rows(S \ {x}), E)
    <3> DEFINE all == Rows(S)
               one == Column(x)
               rest == Rows(S \ {x})
    <3>1. \A y \in E : one[y] \in Int /\ rest[y] \in Int /\ all[y] = one[y] + rest[y]
      BY <2>3
    <3> HIDE DEF all, one, rest
    <3>2. SumFunctionOnSet(all, E) = SumFunctionOnSet(one, E) + SumFunctionOnSet(rest, E)
      BY <3>1, SumPlus
    <3>3. QED
      BY <3>2 DEF all, one, rest
  <2> HIDE DEF Column, Rows
  <2>5. SumFunctionOnSet(Rows(S), E) = 0
    BY <2>2, <2>4
  <2>6. QED
    BY <2>5
<1>4. \A S \in SUBSET D : S \in Good
  <2>1. \A S \in SUBSET D : S # {} /\ (\A x \in S : S \ {x} \in Good) => S \in Good
    BY <1>3
  <2> HIDE DEF Good
  <2>2. QED
    BY <1>2, <2>1, SubsetInduction
<1>5. SumFunctionOnSet(Rows(D), E) = 0
  <2>1. D \in Good
    BY <1>4
  <2>2. QED
    BY <2>1
<1>6. \A y \in E : Rows(D)[y] \in Int /\ G[y] = Rows(D)[y]
  BY <1>1
<1>7. SumFunctionOnSet(Rows(D), E) = SumFunctionOnSet(G, E)
  <2> HIDE DEF Rows
  <2>1. QED
    BY <1>6, SumSame
<1>8. QED
  BY <1>5, <1>7

-----------------------------------------------------------------------------
(* The books implement the ledger. *)

\* A post of the books is a post of one row.
LEMMA PostIsPost ==
  ASSUME LedgerTypeOK, NEW r \in Requests, NEW t \in Txn, Post(r, t)
  PROVE  L!Post
<1> DEFINE S     == {t}
           key   == [u \in S |-> NoKey]
           state == [u \in S |-> r.state]
<1>1. S \in (SUBSET {u \in Txn : ~L!Exists(u)}) \ {{}}
  BY DEF Post, Exists, L!Exists
<1>2. key \in [S -> Key \union {NoKey}] /\ state \in [S -> Posted]
  BY BooksAssumption
<1>3. \A u \in S : ~L!KeyCommitted(key[u])
  BY DEF L!KeyCommitted
<1>4. \A u, v \in S : key[u] = key[v] /\ key[u] # NoKey => u = v
  OBVIOUS
<1>5. ledger' = [u \in Txn |-> IF u \in S THEN L!NewRow(key[u], state[u], NoTxn)
                                         ELSE ledger[u]]
  BY DEF Post, LedgerTypeOK, NewRow, L!NewRow
<1>6. Posted = L!Posted
  BY DEF Posted, L!Posted
<1>7. QED
  BY <1>1, <1>2, <1>3, <1>4, <1>5, <1>6 DEF L!Post

\* A batch of the books is a post of two rows.
LEMMA BatchIsPost ==
  ASSUME LedgerTypeOK, NEW r \in Requests, NEW s \in Requests,
         NEW t \in Txn, NEW u \in Txn, PostBatch(r, s, t, u)
  PROVE  L!Post
<1> DEFINE S     == {t, u}
           key   == [v \in S |-> NoKey]
           state == [v \in S |-> IF v = t THEN r.state ELSE s.state]
<1>1. S \in (SUBSET {v \in Txn : ~L!Exists(v)}) \ {{}}
  BY DEF PostBatch, Exists, L!Exists
<1>2. key \in [S -> Key \union {NoKey}] /\ state \in [S -> Posted]
  BY BooksAssumption
<1>3. \A v \in S : ~L!KeyCommitted(key[v])
  BY DEF L!KeyCommitted
<1>4. \A v, w \in S : key[v] = key[w] /\ key[v] # NoKey => v = w
  OBVIOUS
<1>5. ledger' = [v \in Txn |-> IF v \in S THEN L!NewRow(key[v], state[v], NoTxn)
                                         ELSE ledger[v]]
  BY DEF PostBatch, LedgerTypeOK, NewRow, L!NewRow
<1>6. Posted = L!Posted
  BY DEF Posted, L!Posted
<1>7. QED
  BY <1>1, <1>2, <1>3, <1>4, <1>5, <1>6 DEF L!Post

\* A reversal of the books is a reversal of the ledger.
LEMMA ReverseIsReverse ==
  ASSUME LedgerTypeOK, NEW t \in Txn, NEW st \in Posted, NEW r \in Txn, Reverse(t, st, r)
  PROVE  L!Reverse(t, r)
<1>1. t # r
  BY DEF Reverse, Reversible, Exists
<1>2. ledger' = [ledger EXCEPT ![t] = L!ReversedRow(ledger[t], r), ![r] = L!NewRow(NoKey, st, t)]
  BY <1>1 DEF Reverse, LedgerTypeOK, ReversedRow, NewRow, L!ReversedRow, L!NewRow
<1>3. ~L!KeyCommitted(NoKey)
  BY DEF L!KeyCommitted
<1>4. L!Reversible(ledger[t]) /\ ~L!Exists(r) /\ st \in L!Posted
  BY DEF Reverse, Reversible, Exists, Posted, L!Reversible, L!Exists, L!Posted
<1>5. QED
  BY <1>2, <1>3, <1>4 DEF L!Reverse

\* Every operation of the books is one of the ledger.
LEMMA BooksStep == LedgerTypeOK /\ Next => L!Next
<1> SUFFICES ASSUME LedgerTypeOK, Next PROVE L!Next
  OBVIOUS
<1>1. ASSUME NEW t \in Txn, Settle(t) PROVE L!Settle(t)
  BY <1>1 DEF Settle, SettledRow, L!Settle, L!SettledRow, LedgerTypeOK
<1>2. ASSUME NEW t \in Txn, Cancel(t) PROVE L!Cancel(t)
  BY <1>2 DEF Cancel, CancelledRow, L!Cancel, L!CancelledRow, LedgerTypeOK
<1>3. CASE \E r \in Requests, t \in Txn : Post(r, t)
  BY <1>3, PostIsPost DEF L!Next
<1>4. CASE \E r, s \in Requests, t, u \in Txn : PostBatch(r, s, t, u)
  BY <1>4, BatchIsPost DEF L!Next
<1>5. CASE \E t, r \in Txn, st \in Posted : Reverse(t, st, r)
  BY <1>5, ReverseIsReverse DEF L!Next
<1>6. CASE \E t \in Txn : Settle(t) \/ Cancel(t)
  BY <1>6, <1>1, <1>2 DEF L!Next
<1>7. QED
  BY <1>3, <1>4, <1>5, <1>6 DEF Next

\* The books keep the rows well typed.
LEMMA BooksTypeStep == LedgerTypeOK /\ [Next]_vars => LedgerTypeOK'
<1> SUFFICES ASSUME LedgerTypeOK, [Next]_vars PROVE LedgerTypeOK'
  OBVIOUS
<1> USE DEF LedgerTypeOK, Row, States, Posted, NewRow
<1>1. ASSUME NEW r \in Requests, NEW t \in Txn, Post(r, t) PROVE LedgerTypeOK'
  BY <1>1, BooksAssumption DEF Post
<1>2. ASSUME NEW r \in Requests, NEW s \in Requests, NEW t \in Txn, NEW u \in Txn,
             PostBatch(r, s, t, u)
      PROVE  LedgerTypeOK'
  BY <1>2, BooksAssumption DEF PostBatch
<1>3. ASSUME NEW t \in Txn, NEW r \in Txn, NEW st \in Posted, Reverse(t, st, r)
      PROVE  LedgerTypeOK'
  BY <1>3 DEF Reverse, ReversedRow
<1>4. ASSUME NEW t \in Txn, Settle(t) \/ Cancel(t) PROVE LedgerTypeOK'
  BY <1>4 DEF Settle, Cancel, SettledRow, CancelledRow
<1>5. CASE UNCHANGED vars
  BY <1>5 DEF vars
<1>6. QED
  BY <1>1, <1>2, <1>3, <1>4, <1>5 DEF Next

\* The empty books are typed.
LEMMA BooksTypeInit == Init => LedgerTypeOK
BY DEF Init, LedgerTypeOK, Row, NoRow, States

\* Every behaviour of the books is one of the atomic ledger, whatever the
\* entries, accounts and policies are.
THEOREM BooksRefineLedger == Spec => BooksImplementLedger
<1>1. Init => L!Init
  BY DEF Init, L!Init, NoRow, L!NoRow
<1>2. LedgerTypeOK /\ [Next]_vars => [L!Next]_ledger
  BY BooksStep DEF vars
<1>3. QED
  BY <1>1, <1>2, BooksTypeInit, BooksTypeStep, PTL DEF Spec, BooksImplementLedger, L!Spec

-----------------------------------------------------------------------------
(* What is entered. *)

\* Entries that are in the books: they balance, and take nothing out of a
\* guarded account.
EntriesOK(es) == es \in Seq(Entry) /\ \A i \in DOMAIN es : EntryOK(es[i])

Sound(es) ==
  /\ EntriesOK(es) /\ DoubleEntry(es)
  /\ \A pair \in Guarded : Impact(es, pair) >= 0

\* The entries of a transaction are finitely many amounts.
LEMMA EntriesFacts ==
  ASSUME NEW es \in Seq(Entry)
  PROVE  /\ IsFiniteSet(DOMAIN es)
         /\ \A i \in DOMAIN es : es[i] \in Entry /\ Signed(es[i]) \in Int
         /\ \A S \in SUBSET DOMAIN es : IsFiniteSet(S) /\ Net(es, S) \in Int
         /\ \A pair : Impact(es, pair) \in Int
<1>1. IsFiniteSet(DOMAIN es)
  <2>1. DOMAIN es = 1..Len(es) /\ Len(es) \in Nat
    OBVIOUS
  <2>2. QED
    BY <2>1, FS_Interval
<1>2. \A i \in DOMAIN es : es[i] \in Entry
  OBVIOUS
<1>3. \A i \in DOMAIN es : Signed(es[i]) \in Int
  BY <1>2 DEF Signed, Entry
<1>4. ASSUME NEW S \in SUBSET DOMAIN es PROVE IsFiniteSet(S) /\ Net(es, S) \in Int
  <2>1. IsFiniteSet(S)
    BY <1>1, FS_Subset
  <2> DEFINE F == [i \in DOMAIN es |-> Signed(es[i])]
  <2>2. \A i \in S : F[i] \in Int
    BY <1>3
  <2> HIDE DEF F
  <2>3. SumFunctionOnSet(F, S) \in Int
    BY <2>1, <2>2, SumType
  <2>4. QED
    BY <2>1, <2>3 DEF Net, F
<1>5. \A pair : Impact(es, pair) \in Int
  BY <1>4 DEF Impact
<1>6. QED
  BY <1>1, <1>2, <1>3, <1>4, <1>5

\* The net of entries that differ in no amount is the same.
LEMMA NetSame ==
  ASSUME NEW es \in Seq(Entry), NEW fs, DOMAIN fs = DOMAIN es,
         \A i \in DOMAIN es : Signed(fs[i]) = Signed(es[i]),
         NEW S \in SUBSET DOMAIN es
  PROVE  Net(fs, S) = Net(es, S)
<1> DEFINE F == [i \in DOMAIN es |-> Signed(es[i])]
           G == [i \in DOMAIN fs |-> Signed(fs[i])]
<1>1. IsFiniteSet(S) /\ \A i \in S : F[i] \in Int /\ G[i] = F[i]
  BY EntriesFacts
<1> HIDE DEF F, G
<1>2. SumFunctionOnSet(F, S) = SumFunctionOnSet(G, S)
  BY <1>1, SumSame
<1>3. QED
  BY <1>2 DEF Net, F, G

\* The net of the opposite amounts is the opposite.
LEMMA NetOpposite ==
  ASSUME NEW es \in Seq(Entry), NEW fs, DOMAIN fs = DOMAIN es,
         \A i \in DOMAIN es : Signed(fs[i]) = -Signed(es[i]),
         NEW S \in SUBSET DOMAIN es
  PROVE  Net(fs, S) = -Net(es, S)
<1> DEFINE F == [i \in DOMAIN es |-> Signed(es[i])]
           G == [i \in DOMAIN fs |-> Signed(fs[i])]
<1>1. IsFiniteSet(S) /\ \A i \in S : F[i] \in Int /\ G[i] = -F[i]
  BY EntriesFacts
<1> HIDE DEF F, G
<1>2. SumFunctionOnSet(G, S) = -SumFunctionOnSet(F, S)
  BY <1>1, SumOpposite
<1>3. QED
  BY <1>2 DEF Net, F, G

\* An account that has no entry in a transaction is not moved by it.
LEMMA NoEntryNoImpact ==
  ASSUME NEW es \in Seq(Entry), NEW pair, \A i \in DOMAIN es : PairOf(es[i]) # pair
  PROVE  Impact(es, pair) = 0
<1>1. {i \in DOMAIN es : PairOf(es[i]) = pair} = {}
  OBVIOUS
<1>2. IsFiniteSet({})
  BY FS_EmptySet
<1>3. SumFunctionOnSet([i \in DOMAIN es |-> Signed(es[i])], {}) = 0
  BY <1>2, SumUnfold
<1>4. QED
  BY <1>1, <1>3 DEF Impact, Net

\* What a transaction moves on all accounts together is its net.
LEMMA ImpactsAddUp ==
  ASSUME NEW es, EntriesOK(es)
  PROVE  SumFunctionOnSet([pair \in Pairs |-> Impact(es, pair)], Pairs) = Net(es, DOMAIN es)
<1> DEFINE D == DOMAIN es
           F == [i \in D |-> Signed(es[i])]
           f == [i \in D |-> PairOf(es[i])]
           G == [pair \in Pairs |-> Impact(es, pair)]
<1>1. IsFiniteSet(D) /\ \A i \in D : F[i] \in Int
  BY EntriesFacts DEF EntriesOK
<1>2. \A i \in D : f[i] \in Pairs
  BY DEF EntriesOK, EntryOK
<1>3. \A pair \in Pairs : G[pair] = SumFunctionOnSet(F, {i \in D : f[i] = pair})
  <2>1. ASSUME NEW pair \in Pairs
        PROVE  G[pair] = SumFunctionOnSet(F, {i \in D : f[i] = pair})
    <3>1. {i \in D : f[i] = pair} = {i \in DOMAIN es : PairOf(es[i]) = pair}
      OBVIOUS
    <3>2. QED
      BY <3>1 DEF Impact, Net
  <2>2. QED
    BY <2>1
<1>4. IsFiniteSet(Pairs)
  BY BooksAssumption
<1> HIDE DEF D, F, f, G
<1>5. SumFunctionOnSet(G, Pairs) = SumFunctionOnSet(F, D)
  BY <1>1, <1>2, <1>3, <1>4, SumFibres
<1>6. SumFunctionOnSet(F, D) = Net(es, DOMAIN es)
  BY Zenon DEF Net, D, F
<1>7. G = [pair \in Pairs |-> Impact(es, pair)]
  BY Zenon DEF G
<1>8. QED
  BY <1>5, <1>6, <1>7, Zenon

\* The column keeps an amount that has no more places than it has.
LEMMA RoundingKeeps ==
  ASSUME NEW u \in Int, u % Unit = 0
  PROVE  ((u + (Unit \div 2)) \div Unit) * Unit = u
<1>1. Unit \in Nat \ {0}
  BY BooksAssumption
<1> DEFINE q == u \div Unit
           h == Unit \div 2
<1>2. q \in Int /\ u = q * Unit
  BY <1>1
<1>3. h \in Nat /\ h < Unit
  BY <1>1
<1> HIDE DEF q, h
<1>4. (q * Unit + h) \div Unit = q
  BY <1>1, <1>2, <1>3
<1>5. QED
  BY <1>2, <1>4 DEF h

\* What is stored of entries that were let in are these entries.
LEMMA StoredFacts ==
  ASSUME NEW es \in Seq(Entry),
         \A i \in DOMAIN es : ValidEntry(es[i]) /\ AmountOK(es[i])
  PROVE  /\ Stored(es) \in Seq(Entry) /\ DOMAIN Stored(es) = DOMAIN es
         /\ \A i \in DOMAIN es :
              Stored(es)[i] = [es[i] EXCEPT !.places = MaxPlaces]
<1>1. \A i \in DOMAIN es : es[i] \in Entry
  OBVIOUS
<1>2. ASSUME NEW i \in DOMAIN es
      PROVE  Stored(es)[i] = [es[i] EXCEPT !.places = MaxPlaces]
  <2>1. es[i].units \in Int /\ es[i].units % Unit = 0
    BY <1>1 DEF Entry, ValidEntry, ValidPrecision, AmountOK
  <2>2. ((es[i].units + (Unit \div 2)) \div Unit) * Unit = es[i].units
    BY <2>1, RoundingKeeps
  <2>3. QED
    BY <1>1, <2>2 DEF Stored, Entry
<1>3. DOMAIN Stored(es) = DOMAIN es
  BY DEF Stored
<1>4. \A i \in DOMAIN es : Stored(es)[i] \in Entry
  BY <1>1, <1>2, BooksAssumption DEF Entry
<1>5. Stored(es) \in Seq(Entry)
  <2>1. Stored(es) = [i \in DOMAIN es |-> Stored(es)[i]]
    BY DEF Stored
  <2>2. Stored(es) \in [1..Len(es) -> Entry] /\ Len(es) \in Nat
    BY <1>4, <2>1
  <2>3. QED
    BY <2>2
<1>6. QED
  BY <1>2, <1>3, <1>5

\* What is let in is sound, and moves every account as it said.
LEMMA AcceptedSound ==
  ASSUME NEW es \in Seq(Entry), \A i \in DOMAIN es : AmountOK(es[i]), Accepted(es)
  PROVE  /\ Sound(Stored(es)) /\ Stored(es) # <<>>
         /\ \A pair : Impact(Stored(es), pair) = Impact(es, pair)
<1> DEFINE fs == Stored(es)
<1>1. \A i \in DOMAIN es : /\ es[i] \in Entry /\ ValidEntry(es[i])
                          /\ PairOf(es[i]) \in Pairs
                          /\ PolicyAllows(PairOf(es[i]), Impact(es, PairOf(es[i])))
  BY DEF Accepted, ValidateTransaction, AccountsAllow
<1>2. /\ fs \in Seq(Entry) /\ DOMAIN fs = DOMAIN es
      /\ \A i \in DOMAIN es : fs[i] = [es[i] EXCEPT !.places = MaxPlaces]
  BY <1>1, StoredFacts
<1> HIDE DEF fs
<1>3. \A i \in DOMAIN es : PairOf(fs[i]) = PairOf(es[i]) /\ Signed(fs[i]) = Signed(es[i])
  BY <1>1, <1>2 DEF PairOf, Signed, Entry
<1>4. \A S \in SUBSET DOMAIN es : Net(fs, S) = Net(es, S)
  BY <1>2, <1>3, NetSame
<1>5. ASSUME NEW pair PROVE Impact(fs, pair) = Impact(es, pair)
  <2>1. {i \in DOMAIN fs : PairOf(fs[i]) = pair} = {i \in DOMAIN es : PairOf(es[i]) = pair}
    BY <1>2, <1>3
  <2>2. {i \in DOMAIN es : PairOf(es[i]) = pair} \in SUBSET DOMAIN es
    OBVIOUS
  <2>3. QED
    BY <1>4, <2>1, <2>2 DEF Impact
<1>6. EntriesOK(fs)
  <2>1. ASSUME NEW i \in DOMAIN fs PROVE EntryOK(fs[i])
    <3>1. /\ es[i] \in Entry /\ ValidEntry(es[i]) /\ PairOf(fs[i]) \in Pairs
          /\ fs[i] = [es[i] EXCEPT !.places = MaxPlaces]
      BY <1>1, <1>2, <1>3
    <3>2. /\ fs[i].type = es[i].type /\ fs[i].units = es[i].units
          /\ fs[i].places = MaxPlaces /\ es[i].units \in Int
      BY <3>1 DEF Entry
    <3>3. es[i].units % Unit = 0
      BY <1>2, <3>1 DEF ValidEntry, ValidPrecision, AmountOK
    <3>4. es[i].type \in {Debit, Credit} /\ es[i].units \in Nat
      BY <3>1, <3>2 DEF ValidEntry
    <3>5. QED
      BY <3>1, <3>2, <3>3, <3>4 DEF EntryOK, AmountOK
  <2>2. QED
    BY <1>2, <2>1 DEF EntriesOK
<1>7. DoubleEntry(fs) /\ fs # <<>>
  <2>1. DoubleEntry(es) /\ es # <<>>
    BY DEF Accepted, ValidateTransaction
  <2>2. QED
    BY <1>2, <1>4, <2>1 DEF DoubleEntry
<1>8. ASSUME NEW pair \in Guarded PROVE Impact(fs, pair) >= 0
  <2>1. CASE \E i \in DOMAIN es : PairOf(es[i]) = pair
    <3>1. PolicyAllows(pair, Impact(es, pair)) /\ pair \notin Open
      BY <1>1, <2>1, BooksAssumption
    <3>2. QED
      BY <1>5, <3>1 DEF PolicyAllows, LockingSumWorks
  <2>2. CASE \A i \in DOMAIN es : PairOf(es[i]) # pair
    BY <1>5, <2>2, NoEntryNoImpact
  <2>3. QED
    BY <2>1, <2>2
<1>9. Sound(fs)
  BY <1>6, <1>7, <1>8 DEF Sound
<1>10. QED
  BY <1>5, <1>7, <1>9 DEF fs

\* A reversal moves every account back.
LEMMA ReversalFacts ==
  ASSUME NEW es, EntriesOK(es)
  PROVE  /\ ReversalOf(es) \in Seq(Entry)
         /\ \A i \in DOMAIN ReversalOf(es) : AmountOK(ReversalOf(es)[i])
         /\ \A pair : Impact(ReversalOf(es), pair) = -Impact(es, pair)
<1> DEFINE fs == ReversalOf(es)
<1>1. /\ es \in Seq(Entry)
      /\ \A i \in DOMAIN es : /\ es[i] \in Entry /\ AmountOK(es[i])
                             /\ es[i].type \in {Debit, Credit}
  BY DEF EntriesOK, EntryOK
<1>2. /\ DOMAIN fs = DOMAIN es
      /\ \A i \in DOMAIN es : fs[i] = [es[i] EXCEPT !.type = Opposite(es[i].type)]
  BY DEF ReversalOf
<1>3. \A i \in DOMAIN es : Opposite(es[i].type) \in {Debit, Credit}
  BY DEF Opposite
<1>4. fs \in Seq(Entry)
  <2>1. \A i \in DOMAIN es : fs[i] \in Entry
    BY <1>1, <1>2, <1>3 DEF Entry
  <2>2. fs \in [1..Len(es) -> Entry] /\ Len(es) \in Nat
    BY <1>1, <2>1 DEF ReversalOf
  <2>3. QED
    BY <2>2
<1> HIDE DEF fs
<1>5. \A i \in DOMAIN es : /\ AmountOK(fs[i]) /\ PairOf(fs[i]) = PairOf(es[i])
                          /\ Signed(fs[i]) = -Signed(es[i])
  <2>1. ASSUME NEW i \in DOMAIN es
        PROVE  /\ AmountOK(fs[i]) /\ PairOf(fs[i]) = PairOf(es[i])
               /\ Signed(fs[i]) = -Signed(es[i])
    <3>1. /\ fs[i].units = es[i].units /\ fs[i].places = es[i].places
          /\ fs[i].account = es[i].account /\ fs[i].currency = es[i].currency
          /\ fs[i].type = Opposite(es[i].type) /\ es[i].units \in Int
      BY <1>1, <1>2 DEF Entry
    <3>2. Signed(fs[i]) = -Signed(es[i])
      BY <1>1, <3>1 DEF Signed, Opposite, Debit, Credit
    <3>3. QED
      BY <1>1, <3>1, <3>2 DEF AmountOK, PairOf
  <2>2. QED
    BY <2>1
<1>6. ASSUME NEW pair PROVE Impact(fs, pair) = -Impact(es, pair)
  <2>1. {i \in DOMAIN fs : PairOf(fs[i]) = pair} = {i \in DOMAIN es : PairOf(es[i]) = pair}
    BY <1>2, <1>5
  <2>2. \A S \in SUBSET DOMAIN es : Net(fs, S) = -Net(es, S)
    BY <1>1, <1>2, <1>5, NetOpposite
  <2>3. {i \in DOMAIN es : PairOf(es[i]) = pair} \in SUBSET DOMAIN es
    OBVIOUS
  <2>4. QED
    BY <2>1, <2>2, <2>3 DEF Impact
<1>7. QED
  BY <1>2, <1>4, <1>5, <1>6 DEF fs

-----------------------------------------------------------------------------
(* The invariant of the books. *)

Present == {t \in Txn : Exists(t)}

\* A reversal moves every account against its original.
Undoes(t, original) ==
  /\ original # t /\ Exists(original)
  /\ \A pair \in Pairs : Impact(entries[t], pair) = -Impact(entries[original], pair)

\* The books are finite, what is in them is sound and reversals are those of
\* what is there.  None of this changes as transactions change their states.
BooksInv ==
  /\ TypeOK /\ IsFiniteSet(Present)
  /\ \A t \in Txn : Exists(t) => Sound(entries[t])
  /\ \A t \in Txn : ledger[t].reverses # NoTxn => Undoes(t, ledger[t].reverses)

\* The empty books.
LEMMA BooksInvInit == Init => BooksInv
<1> SUFFICES ASSUME Init PROVE BooksInv
  OBVIOUS
<1>1. \A t \in Txn : ~Exists(t) /\ entries[t] = <<>> /\ ledger[t].reverses = NoTxn
  BY DEF Init, NoRow, Exists
<1>2. TypeOK
  <2>1. \A t \in Txn : \A i \in DOMAIN entries[t] : FALSE
    BY <1>1
  <2>2. LedgerTypeOK
    BY BooksTypeInit
  <2>3. entries \in [Txn -> Seq(Entry)]
    BY DEF Init
  <2>4. QED
    BY <1>1, <2>1, <2>2, <2>3 DEF TypeOK
<1>3. IsFiniteSet(Present)
  <2>1. Present = {}
    BY <1>1 DEF Present
  <2>2. QED
    BY <2>1, FS_EmptySet
<1>4. QED
  BY <1>1, <1>2, <1>3 DEF BooksInv

\* New transactions with sound entries keep it, if those that are reversals
\* undo others that are there; so does no new transaction.
LEMMA EnterSound ==
  ASSUME BooksInv, LedgerTypeOK', entries' \in [Txn -> Seq(Entry)],
         NEW N \in SUBSET Txn, IsFiniteSet(N),
         \A t \in N : ~Exists(t) /\ Exists(t)' /\ Sound(entries'[t]) /\ entries'[t] # <<>>,
         \A t \in Txn \ N : /\ entries'[t] = entries[t] /\ (Exists(t)' <=> Exists(t))
                            /\ ledger'[t].reverses = ledger[t].reverses,
         \A t \in N : LET o == ledger'[t].reverses IN o # NoTxn =>
           /\ o \in Txn /\ Exists(o)
           /\ \A pair \in Pairs : Impact(entries'[t], pair) = -Impact(entries[o], pair)
  PROVE  BooksInv'
<1> USE DEF BooksInv
<1>1. TypeOK'
  <2>1. ASSUME NEW t \in Txn
        PROVE  /\ entries'[t] = <<>> <=> ~Exists(t)'
               /\ \A i \in DOMAIN entries'[t] : EntryOK(entries'[t][i])
    <3>1. CASE t \in N
      BY <3>1 DEF Sound, EntriesOK
    <3>2. CASE t \notin N
      BY <3>2 DEF TypeOK
    <3>3. QED
      BY <3>1, <3>2
  <2>2. QED
    BY <2>1 DEF TypeOK
<1>2. IsFiniteSet(Present)'
  <2>1. Present' = Present \union N
    BY DEF Present
  <2>2. QED
    BY <2>1, FS_Union
<1>3. \A t \in Txn : Exists(t)' => Sound(entries'[t])
  OBVIOUS
<1>4. ASSUME NEW t \in Txn, ledger'[t].reverses # NoTxn
      PROVE  Undoes(t, ledger[t].reverses)'
  <2>o. PICK o \in Txn : o = ledger'[t].reverses
    BY <1>4 DEF LedgerTypeOK, Row
  <2>1. /\ o # t /\ Exists(o)
        /\ \A pair \in Pairs : Impact(entries'[t], pair) = -Impact(entries[o], pair)
    <3>1. CASE t \in N
      BY <1>4, <2>o, <3>1
    <3>2. CASE t \notin N
      <4>1. o = ledger[t].reverses
        BY <2>o, <3>2
      <4>2. QED
        BY <1>4, <2>o, <3>2, <4>1 DEF Undoes
    <3>3. QED
      BY <3>1, <3>2
  <2>2. o \notin N
    BY <2>1
  <2>3. entries'[o] = entries[o] /\ Exists(o)'
    BY <2>1, <2>2
  <2>4. Undoes(t, o)'
    BY <2>1, <2>3 DEF Undoes
  <2>5. QED
    BY <2>o, <2>4 DEF Undoes
<1>5. QED
  BY <1>1, <1>2, <1>3, <1>4

\* A post enters what is sound.
LEMMA PostSound ==
  ASSUME BooksInv, LedgerTypeOK', NEW r \in Requests, NEW t \in Txn, Post(r, t)
  PROVE  BooksInv'
<1>1. /\ r.state \in Posted /\ r.entries \in Seq(Entry)
      /\ \A i \in DOMAIN r.entries : AmountOK(r.entries[i])
  BY BooksAssumption
<1>2. Sound(Stored(r.entries)) /\ Stored(r.entries) # <<>> /\ Stored(r.entries) \in Seq(Entry)
  BY <1>1, AcceptedSound DEF Post, Sound, EntriesOK
<1>3. /\ entries \in [Txn -> Seq(Entry)] /\ LedgerTypeOK /\ ~Exists(t)
      /\ entries' = [entries EXCEPT ![t] = Stored(r.entries)]
      /\ ledger' = [ledger EXCEPT ![t] = NewRow(NoKey, r.state, NoTxn)]
  BY DEF BooksInv, TypeOK, Post
<1>4. /\ ledger'[t].reverses = NoTxn /\ Exists(t)'
      /\ \A u \in Txn \ {t} : ledger'[u] = ledger[u] /\ entries'[u] = entries[u]
      /\ entries'[t] = Stored(r.entries) /\ entries' \in [Txn -> Seq(Entry)]
  BY <1>1, <1>2, <1>3 DEF LedgerTypeOK, NewRow, Exists, Posted
<1>5. IsFiniteSet({t})
  BY FS_Singleton
<1>6. \A u \in Txn \ {t} : Exists(u)' <=> Exists(u)
  BY <1>4 DEF Exists
<1> DEFINE N == {t}
<1>7. \A u \in N : ~Exists(u) /\ Exists(u)' /\ Sound(entries'[u]) /\ entries'[u] # <<>>
  BY <1>2, <1>3, <1>4
<1>8. \A u \in N : ledger'[u].reverses = NoTxn
  BY <1>4
<1>9. N \in SUBSET Txn /\ IsFiniteSet(N)
  BY <1>5
<1>10. \A u \in Txn \ N : /\ entries'[u] = entries[u] /\ (Exists(u)' <=> Exists(u))
                         /\ ledger'[u].reverses = ledger[u].reverses
  BY <1>4, <1>6
<1> HIDE DEF N
<1>11. QED
  BY <1>4, <1>7, <1>8, <1>9, <1>10, EnterSound

\* So does a batch.
LEMMA BatchSound ==
  ASSUME BooksInv, LedgerTypeOK', NEW r \in Requests, NEW s \in Requests,
         NEW t \in Txn, NEW u \in Txn, PostBatch(r, s, t, u)
  PROVE  BooksInv'
<1> DEFINE N == {t, u}
<1>1. /\ r.state \in Posted /\ r.entries \in Seq(Entry)
      /\ s.state \in Posted /\ s.entries \in Seq(Entry)
      /\ \A i \in DOMAIN r.entries : AmountOK(r.entries[i])
      /\ \A i \in DOMAIN s.entries : AmountOK(s.entries[i])
  BY BooksAssumption
<1>2. /\ Sound(Stored(r.entries)) /\ Stored(r.entries) # <<>> /\ Stored(r.entries) \in Seq(Entry)
      /\ Sound(Stored(s.entries)) /\ Stored(s.entries) # <<>> /\ Stored(s.entries) \in Seq(Entry)
  BY <1>1, AcceptedSound DEF PostBatch, Sound, EntriesOK
<1>3. /\ entries \in [Txn -> Seq(Entry)] /\ LedgerTypeOK /\ t # u /\ ~Exists(t) /\ ~Exists(u)
      /\ entries' = [entries EXCEPT ![t] = Stored(r.entries), ![u] = Stored(s.entries)]
      /\ ledger' = [ledger EXCEPT ![t] = NewRow(NoKey, r.state, NoTxn),
                                  ![u] = NewRow(NoKey, s.state, NoTxn)]
  BY DEF BooksInv, TypeOK, PostBatch
<1>4. /\ ledger'[t].reverses = NoTxn /\ Exists(t)' /\ entries'[t] = Stored(r.entries)
      /\ ledger'[u].reverses = NoTxn /\ Exists(u)' /\ entries'[u] = Stored(s.entries)
      /\ \A v \in Txn \ N : ledger'[v] = ledger[v] /\ entries'[v] = entries[v]
      /\ entries' \in [Txn -> Seq(Entry)]
  BY <1>1, <1>2, <1>3 DEF LedgerTypeOK, NewRow, Exists, Posted
<1>5. \A v \in N : ~Exists(v) /\ Exists(v)' /\ Sound(entries'[v]) /\ entries'[v] # <<>>
  BY <1>2, <1>3, <1>4
<1>6. \A v \in N : ledger'[v].reverses = NoTxn
  BY <1>4
<1>7. N \in SUBSET Txn /\ IsFiniteSet(N)
  <2>1. N = {t} \union {u}
    OBVIOUS
  <2>2. IsFiniteSet({t}) /\ IsFiniteSet({u})
    BY FS_Singleton
  <2>3. IsFiniteSet({t} \union {u})
    BY <2>2, FS_Union
  <2>4. QED
    BY <2>1, <2>3
<1>8. \A v \in Txn \ N : /\ entries'[v] = entries[v] /\ (Exists(v)' <=> Exists(v))
                         /\ ledger'[v].reverses = ledger[v].reverses
  BY <1>4 DEF Exists
<1> HIDE DEF N
<1>9. QED
  BY <1>4, <1>5, <1>6, <1>7, <1>8, EnterSound

\* A reversal enters the opposite of what is there.
LEMMA ReverseSound ==
  ASSUME BooksInv, LedgerTypeOK', NEW t \in Txn, NEW st \in Posted, NEW r \in Txn,
         Reverse(t, st, r)
  PROVE  BooksInv'
<1> DEFINE N  == {r}
           es == ReversalOf(entries[t])
<1>1. /\ entries \in [Txn -> Seq(Entry)] /\ LedgerTypeOK /\ Exists(t) /\ ~Exists(r) /\ t # r
      /\ entries' = [entries EXCEPT ![r] = Stored(es)] /\ Accepted(es)
      /\ ledger' = [ledger EXCEPT ![r] = NewRow(NoKey, st, t), ![t] = ReversedRow(ledger[t], r)]
  BY DEF BooksInv, TypeOK, Reverse, Reversible, Exists
<1>2. /\ es \in Seq(Entry) /\ \A i \in DOMAIN es : AmountOK(es[i])
      /\ \A pair : Impact(es, pair) = -Impact(entries[t], pair)
  <2>1. EntriesOK(entries[t])
    BY <1>1 DEF BooksInv, Sound
  <2>2. QED
    BY <2>1, ReversalFacts
<1> HIDE DEF es
<1>3. /\ Sound(Stored(es)) /\ Stored(es) # <<>> /\ Stored(es) \in Seq(Entry)
      /\ \A pair : Impact(Stored(es), pair) = -Impact(entries[t], pair)
  BY <1>1, <1>2, AcceptedSound DEF Sound, EntriesOK
<1>4. /\ ledger'[r].reverses = t /\ Exists(r)' /\ entries'[r] = Stored(es)
      /\ \A v \in Txn \ N : /\ ledger'[v].reverses = ledger[v].reverses
                            /\ ledger'[v].state = ledger[v].state
                            /\ entries'[v] = entries[v]
      /\ entries' \in [Txn -> Seq(Entry)]
  BY <1>1, <1>3 DEF LedgerTypeOK, Row, NewRow, ReversedRow, Exists, Posted
<1>5. \A v \in N : ~Exists(v) /\ Exists(v)' /\ Sound(entries'[v]) /\ entries'[v] # <<>>
  BY <1>1, <1>3, <1>4
<1>6. \A v \in N : LET o == ledger'[v].reverses IN o # NoTxn =>
        /\ o \in Txn /\ Exists(o)
        /\ \A pair \in Pairs : Impact(entries'[v], pair) = -Impact(entries[o], pair)
  <2>1. \A pair \in Pairs : Impact(entries'[r], pair) = -Impact(entries[t], pair)
    BY <1>3, <1>4
  <2>2. t \in Txn /\ Exists(t) /\ ledger'[r].reverses = t
    BY <1>1, <1>4
  <2>3. \A v \in N : v = r
    OBVIOUS
  <2> HIDE DEF N
  <2>4. QED
    BY <2>1, <2>2, <2>3
<1>7. N \in SUBSET Txn /\ IsFiniteSet(N)
  BY FS_Singleton
<1>8. \A v \in Txn \ N : /\ entries'[v] = entries[v] /\ (Exists(v)' <=> Exists(v))
                         /\ ledger'[v].reverses = ledger[v].reverses
  BY <1>4 DEF Exists
<1> HIDE DEF N
<1>9. QED
  BY <1>4, <1>5, <1>6, <1>7, <1>8, EnterSound

\* Every operation keeps the invariant.
LEMMA BooksInvStep == BooksInv /\ [Next]_vars => BooksInv'
<1> SUFFICES ASSUME BooksInv, [Next]_vars PROVE BooksInv'
  OBVIOUS
<1>1. LedgerTypeOK'
  BY BooksTypeStep DEF BooksInv, TypeOK
<1>2. ASSUME UNCHANGED entries,
             \A t \in Txn : /\ Exists(t)' <=> Exists(t)
                            /\ ledger'[t].reverses = ledger[t].reverses
      PROVE  BooksInv'
  <2>1. IsFiniteSet({}) /\ entries' \in [Txn -> Seq(Entry)]
    BY <1>2, FS_EmptySet DEF BooksInv, TypeOK
  <2> DEFINE N == {}
  <2>2. N \in SUBSET Txn /\ IsFiniteSet(N) /\ (\A t \in N : FALSE) /\ Txn \ N = Txn
    BY <2>1
  <2> HIDE DEF N
  <2>3. QED
    BY <1>1, <1>2, <2>1, <2>2, EnterSound
<1>3. ASSUME NEW t \in Txn, Settle(t) \/ Cancel(t) PROVE BooksInv'
  <2>1. LedgerTypeOK
    BY DEF BooksInv, TypeOK
  <2>2. \A u \in Txn : /\ Exists(u)' <=> Exists(u)
                      /\ ledger'[u].reverses = ledger[u].reverses
    BY <1>3, <2>1 DEF Settle, Cancel, SettledRow, CancelledRow, Exists, LedgerTypeOK, Row
  <2>3. UNCHANGED entries
    BY <1>3 DEF Settle, Cancel
  <2>4. QED
    BY <1>2, <2>2, <2>3
<1>4. CASE UNCHANGED vars
  BY <1>2, <1>4 DEF vars, Exists
<1>5. QED
  BY <1>1, <1>3, <1>4, PostSound, BatchSound, ReverseSound DEF Next

\* The tables of the books are always well typed, and a transaction is there
\* exactly if its entries are.
THEOREM BooksTyped == Spec => []TypeOK
<1>1. BooksInv => TypeOK
  BY DEF BooksInv
<1>2. QED
  BY <1>1, BooksInvInit, BooksInvStep, PTL DEF Spec

-----------------------------------------------------------------------------
(* Balances. *)

\* The transactions in a state are finitely many, and each moves an account by
\* an integer.
LEMMA StateFacts ==
  ASSUME BooksInv, NEW s \in {"settled", "pending"}, NEW pair
  PROVE  /\ IsFiniteSet(InState(s))
         /\ \A t \in InState(s) : t \in Txn /\ Exists(t) /\ Impact(entries[t], pair) \in Int
         /\ Sum(InState(s), pair) \in Int
<1>1. InState(s) \subseteq Present
  BY DEF InState, Present, Exists
<1>2. IsFiniteSet(InState(s))
  BY <1>1, FS_Subset DEF BooksInv
<1>3. \A t \in InState(s) : t \in Txn /\ Exists(t) /\ Impact(entries[t], pair) \in Int
  BY <1>1, EntriesFacts DEF Present, BooksInv, TypeOK
<1> DEFINE F == [t \in InState(s) |-> Impact(entries[t], pair)]
<1>4. \A t \in InState(s) : F[t] \in Int
  BY <1>3
<1>5. DOMAIN F = InState(s)
  OBVIOUS
<1> HIDE DEF F
<1>6. SumFunctionOnSet(F, InState(s)) \in Int
  BY <1>2, <1>4, SumType
<1>7. QED
  BY <1>2, <1>3, <1>5, <1>6 DEF Sum, SumFunction, F

\* Transactions in any state leave nothing over all accounts.
LEMMA StateBalances ==
  ASSUME BooksInv, NEW s \in {"settled", "pending"}
  PROVE  SumFunctionOnSet([pair \in Pairs |-> Sum(InState(s), pair)], Pairs) = 0
<1> DEFINE D == InState(s)
           M == [pair \in Pairs |-> [t \in D |-> Impact(entries[t], pair)]]
           G == [pair \in Pairs |-> Sum(D, pair)]
<1>1. IsFiniteSet(Pairs) /\ IsFiniteSet(D)
  BY BooksAssumption, StateFacts
<1>2. \A pair \in Pairs : \A t \in D : M[pair][t] \in Int
  BY StateFacts
<1>3. \A t \in D : SumFunctionOnSet([pair \in Pairs |-> M[pair][t]], Pairs) = 0
  <2>1. ASSUME NEW t \in D
        PROVE  SumFunctionOnSet([pair \in Pairs |-> M[pair][t]], Pairs) = 0
    <3>1. EntriesOK(entries[t]) /\ DoubleEntry(entries[t])
      BY StateFacts DEF BooksInv, Sound
    <3>2. [pair \in Pairs |-> M[pair][t]] = [pair \in Pairs |-> Impact(entries[t], pair)]
      OBVIOUS
    <3> HIDE DEF M
    <3>3. QED
      BY <3>1, <3>2, ImpactsAddUp DEF DoubleEntry
  <2>2. QED
    BY <2>1
<1>4. \A pair \in Pairs : G[pair] = SumFunctionOnSet(M[pair], D)
  BY DEF Sum, SumFunction
<1> HIDE DEF D, M, G
<1>5. SumFunctionOnSet(G, Pairs) = 0
  BY <1>1, <1>2, <1>3, <1>4, SumColumns
<1>6. QED
  BY <1>5 DEF G, D

\* Debits equal credits over all accounts, whatever was posted, settled,
\* cancelled and reversed, settled alone or with what is pending.
THEOREM BooksTrialBalance == Spec => []TrialBalance
<1>1. BooksInv => TrialBalance
  <2> SUFFICES ASSUME BooksInv PROVE TrialBalance
    OBVIOUS
  <2> DEFINE S == [pair \in Pairs |-> Settled(pair)]
             P == [pair \in Pairs |-> Pending(pair)]
             A == [pair \in Pairs |-> Available(pair)]
  <2>1. SumFunctionOnSet(S, Pairs) = 0 /\ SumFunctionOnSet(P, Pairs) = 0
    BY StateBalances DEF Settled, Pending
  <2>2. \A pair \in Pairs : S[pair] \in Int /\ P[pair] \in Int /\ A[pair] = S[pair] + P[pair]
    BY StateFacts DEF Settled, Pending, Available
  <2>3. IsFiniteSet(Pairs) /\ DOMAIN S = Pairs /\ DOMAIN A = Pairs
    BY BooksAssumption
  <2> HIDE DEF S, P, A
  <2>4. SumFunctionOnSet(A, Pairs) = SumFunctionOnSet(S, Pairs) + SumFunctionOnSet(P, Pairs)
    BY <2>2, <2>3, SumPlus
  <2>5. SumFunction(S) = 0 /\ SumFunction(A) = 0
    BY <2>1, <2>3, <2>4 DEF SumFunction
  <2>6. QED
    BY <2>5 DEF TrialBalance, S, A
<1>2. QED
  BY <1>1, BooksInvInit, BooksInvStep, PTL DEF Spec

\* A settled reversal and its original leave every balance as it was before.
THEOREM BooksReversalNets == Spec => []ReversalNets
<1>1. BooksInv => ReversalNets
  <2> SUFFICES ASSUME BooksInv, NEW t \in InState("settled"), ledger[t].reverses # NoTxn,
                      NEW pair \in Pairs
               PROVE  Sum({t, ledger[t].reverses}, pair) = 0
    BY DEF ReversalNets
  <2> DEFINE o == ledger[t].reverses
             D == {t, o}
             F == [u \in D |-> Impact(entries[u], pair)]
  <2>1. t \in Txn /\ o \in Txn /\ Undoes(t, o)
    BY DEF InState, BooksInv, TypeOK, LedgerTypeOK, Row
  <2>2. o # t /\ F[t] = -F[o] /\ F[t] \in Int /\ F[o] \in Int
    BY <2>1, EntriesFacts DEF Undoes, BooksInv, TypeOK
  <2>3. IsFiniteSet(D) /\ IsFiniteSet({o}) /\ D \ {t} = {o} /\ {o} \ {o} = {}
    <3>1. D = {t} \union {o}
      OBVIOUS
    <3>2. IsFiniteSet({t}) /\ IsFiniteSet({o})
      BY FS_Singleton
    <3>3. IsFiniteSet({t} \union {o})
      BY <3>2, FS_Union
    <3>4. QED
      BY <2>2, <3>1, <3>2, <3>3
  <2>4. DOMAIN F = D /\ (\A u \in D : F[u] \in Int) /\ (\A u \in {o} : F[u] \in Int) /\ t \in D
    BY <2>2
  <2> HIDE DEF F
  <2>5. SumFunctionOnSet(F, D) = F[t] + SumFunctionOnSet(F, {o})
    BY <2>3, <2>4, SumSplit
  <2>6. SumFunctionOnSet(F, {o}) = F[o]
    <3>1. SumFunctionOnSet(F, {o}) = F[o] + SumFunctionOnSet(F, {})
      BY <2>3, <2>4, SumSplit
    <3>2. SumFunctionOnSet(F, {}) = 0
      BY <2>3, SumUnfold
    <3>3. QED
      BY <2>2, <3>1, <3>2
  <2>7. SumFunction(F) = 0
    BY <2>2, <2>4, <2>5, <2>6 DEF SumFunction
  <2>8. QED
    BY <2>7 DEF Sum, F
<1>2. QED
  BY <1>1, BooksInvInit, BooksInvStep, PTL DEF Spec

\* No order of operations overdraws a guarded account, settled or available.
THEOREM BooksPolicyKept == Spec => []PolicyKept
<1>1. ASSUME BooksInv, NEW pair \in Guarded, NEW s \in {"settled", "pending"}
      PROVE  Sum(InState(s), pair) \in Nat
  <2> DEFINE F == [t \in InState(s) |-> Impact(entries[t], pair)]
  <2>1. IsFiniteSet(InState(s)) /\ DOMAIN F = InState(s)
    BY <1>1, StateFacts
  <2>2. \A t \in InState(s) : F[t] \in Nat
    <3>1. ASSUME NEW t \in InState(s) PROVE Impact(entries[t], pair) \in Nat
      <4>1. t \in Txn /\ Exists(t) /\ Impact(entries[t], pair) \in Int
        BY <1>1, StateFacts
      <4>2. Impact(entries[t], pair) >= 0
        BY <1>1, <4>1 DEF BooksInv, Sound
      <4>3. QED
        BY <4>1, <4>2
    <3>2. QED
      BY <3>1
  <2> HIDE DEF F
  <2>3. SumFunctionOnSet(F, InState(s)) \in Nat
    BY <2>1, <2>2, SumNat
  <2>4. QED
    BY <2>1, <2>3 DEF Sum, SumFunction, F
<1>2. BooksInv => PolicyKept
  BY <1>1 DEF PolicyKept, Settled, Pending, Available
<1>3. QED
  BY <1>2, BooksInvInit, BooksInvStep, PTL DEF Spec
=============================================================================
