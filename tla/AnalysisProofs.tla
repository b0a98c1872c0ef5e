--------------------------- MODULE AnalysisProofs ---------------------------
(***************************************************************************)
(* Proofs about Analysis, for every set of rows, configurations, questions *)
(* and scores: the inductive invariant, the four invariants the run checks *)
(* and what each command shows as the best.                                *)
(*                                                                         *)
(* The operators of the aggregation are sums and counts over finite sets,  *)
(* folds over lists and the halving of list.sort.  What holds of them is   *)
(* proved by the least counterexample: Nat is well founded, so a set of    *)
(* numbers that is not empty has a least element.                          *)
(***************************************************************************)
EXTENDS Analysis, FiniteSetTheorems, WellFoundedInduction, TLAPS

(***************************************************************************)
(* Least elements.  They stand for the induction over data that the        *)
(* provers cannot instantiate.                                             *)
(***************************************************************************)
LEMMA LeastNumber ==
  ASSUME NEW S \in SUBSET Nat, S # {}
  PROVE  \E n \in S : \A m \in S : n <= m
<1>. DEFINE R == OpToRel(<, Nat)
<1>1. IsWellFoundedOn(R, Nat)
  BY NatLessThanWellFounded
<1>2. \A x, y \in Nat : x < y => <<x, y>> \in R
  BY DEF OpToRel
<1>. HIDE DEF R
<1>3. PICK n \in S : \A m \in S : ~(<<m, n>> \in R)
  BY <1>1, WFMin
<1>4. \A m \in S : ~(m < n)
  BY <1>2, <1>3
<1>. QED BY <1>4

LEMMA MinIsLeast ==
  ASSUME NEW S \in SUBSET Nat, S # {}
  PROVE  Min(S) \in S /\ \A m \in S : Min(S) <= m
BY LeastNumber DEF Min

LEMMA GreatestNumber ==
  ASSUME NEW N \in Nat, NEW S \in SUBSET (0..N), S # {}
  PROVE  \E n \in S : \A m \in S : m <= n
<1>. DEFINE T == {N - v : v \in S}
<1>1. T \in SUBSET Nat /\ T # {}
  <2>1. \A v \in S : v \in 0..N
    OBVIOUS
  <2>2. \A v \in S : N - v \in Nat
    BY <2>1
  <2>. QED BY <2>2
<1>2. PICK t \in T : \A m \in T : t <= m
  <2>. HIDE DEF T
  <2>. QED BY <1>1, LeastNumber
<1>3. PICK n \in S : t = N - n
  OBVIOUS
<1>4. \A m \in S : t <= N - m
  BY <1>2
<1>. QED BY <1>3, <1>4

(***************************************************************************)
(* A set of subsets of a finite set that a subset enters when what is left *)
(* without its chosen element is in it has all of them.                    *)
(***************************************************************************)
Chosen(s) == CHOOSE x \in s : TRUE

LEMMA SubsetFacts ==
  ASSUME NEW X, IsFiniteSet(X), NEW s \in SUBSET X
  PROVE  /\ IsFiniteSet(s)
         /\ Cardinality(s) \in Nat /\ Cardinality(s) <= Cardinality(X)
         /\ Cardinality(s) = 0 <=> s = {}
         /\ s # {} => /\ Chosen(s) \in s
                      /\ s \ {Chosen(s)} \in SUBSET X
                      /\ Cardinality(s \ {Chosen(s)}) = Cardinality(s) - 1
<1>1. IsFiniteSet(s) /\ Cardinality(s) \in Nat /\ Cardinality(s) <= Cardinality(X)
  BY FS_Subset, FS_CardinalityType
<1>2. ASSUME s # {} PROVE Chosen(s) \in s
  BY <1>2 DEF Chosen
<1>3. ASSUME s # {} PROVE Cardinality(s \ {Chosen(s)}) = Cardinality(s) - 1
  BY <1>1, <1>2, <1>3, FS_RemoveElement
<1>. QED BY <1>1, <1>2, <1>3, FS_EmptySet

LEMMA SubsetInduction ==
  ASSUME NEW X, IsFiniteSet(X), NEW G,
         \A s \in SUBSET X : (s = {} \/ s \ {Chosen(s)} \in G) => s \in G
  PROVE  \A s \in SUBSET X : s \in G
<1>. DEFINE Bad == {n \in Nat : \E s \in SUBSET X : s \notin G /\ Cardinality(s) = n}
<1>. SUFFICES ASSUME NEW u \in SUBSET X, u \notin G PROVE FALSE
  OBVIOUS
<1>0. \A s \in SUBSET X : /\ Cardinality(s) \in Nat
                          /\ s # {} => /\ s \ {Chosen(s)} \in SUBSET X
                                       /\ Cardinality(s \ {Chosen(s)}) = Cardinality(s) - 1
  BY SubsetFacts
<1>1. Bad \in SUBSET Nat /\ Bad # {}
  BY <1>0
<1>2. PICK n \in Bad : \A m \in Bad : n <= m
  <2>. HIDE DEF Bad
  <2>. QED BY <1>1, LeastNumber
<1>3. PICK s \in SUBSET X : s \notin G /\ Cardinality(s) = n
  OBVIOUS
<1>4. s # {} /\ s \ {Chosen(s)} \notin G /\ s \ {Chosen(s)} \in SUBSET X
  BY <1>0, <1>3
<1>5. Cardinality(s \ {Chosen(s)}) = n - 1 /\ n - 1 \in Nat
  <2>1. Cardinality(s \ {Chosen(s)}) \in Nat /\ Cardinality(s \ {Chosen(s)}) = Cardinality(s) - 1
    BY <1>0, <1>4
  <2>. QED BY <1>3, <2>1
<1>6. n - 1 \in Bad
  BY <1>4, <1>5
<1>. QED BY <1>2, <1>5, <1>6

(***************************************************************************)
(* SumFunctionOnSet unfolds: its CHOOSE is met, and by one function only.  *)
(***************************************************************************)
Unfolds(h, f, D) == h = [s \in D |-> IF s = {} THEN 0 ELSE f[Chosen(s)] + h[s \ {Chosen(s)}]]

LEMMA SumIs ==
  ASSUME NEW f, NEW X
  PROVE  SumFunctionOnSet(f, X) = (CHOOSE h : Unfolds(h, f, SUBSET X))[X]
BY DEF SumFunctionOnSet, FoldFunctionOnSet, MapThenFoldSet, Unfolds, Chosen

LEMMA UnfoldsExists ==
  ASSUME NEW f, NEW X, IsFiniteSet(X)
  PROVE \E h : Unfolds(h, f, SUBSET X)
<1>. DEFINE Small(n) == {s \in SUBSET X : Cardinality(s) <= n}
            Bad == {n \in Nat : ~ \E h : Unfolds(h, f, Small(n))}
<1>0. \A s \in SUBSET X : /\ Cardinality(s) \in Nat /\ Cardinality(s) <= Cardinality(X)
                          /\ Cardinality(s) = 0 <=> s = {}
                          /\ s # {} => /\ s \ {Chosen(s)} \in SUBSET X
                                       /\ Cardinality(s \ {Chosen(s)}) = Cardinality(s) - 1
  BY SubsetFacts
<1>1. Cardinality(X) \in Nat /\ Small(Cardinality(X)) = SUBSET X
  BY <1>0
<1>2. SUFFICES ASSUME Bad # {} PROVE FALSE
  BY <1>1
<1>3. PICK n \in Bad : \A m \in Bad : n <= m
  <2>. Bad \in SUBSET Nat
    OBVIOUS
  <2>. HIDE DEF Bad
  <2>. QED BY <1>2, LeastNumber
<1>4. n \in Nat
  OBVIOUS
<1>5. n # 0
  <2>1. \A s : s \in Small(0) <=> s = {}
    <3>1. \A s \in SUBSET X : Cardinality(s) <= 0 <=> s = {}
      <4>. TAKE s \in SUBSET X
      <4>1. Cardinality(s) \in Nat /\ (Cardinality(s) = 0 <=> s = {})
        BY <1>0
      <4>. QED BY <4>1
    <3>. QED BY <3>1
  <2>. DEFINE z == [s \in Small(0) |-> 0]
  <2>2. z = [s \in Small(0) |-> IF s = {} THEN 0 ELSE f[Chosen(s)] + z[s \ {Chosen(s)}]]
    <3>. HIDE DEF Small
    <3>. QED BY <2>1
  <2>3. Unfolds(z, f, Small(0))
    BY <2>2 DEF Unfolds
  <2>. QED BY <2>3
<1>6. PICK g : Unfolds(g, f, Small(n - 1))
  <2>1. n - 1 \in Nat /\ ~(n <= n - 1)
    BY <1>4, <1>5
  <2>2. n - 1 \notin Bad
    <3>. HIDE DEF Bad
    <3>. QED BY <1>3, <2>1
  <2>. QED BY <2>1, <2>2
<1>7. /\ Small(n - 1) \subseteq Small(n)
      /\ \A s \in Small(n) : s # {} => s \ {Chosen(s)} \in Small(n - 1)
  <2>1. \A s \in SUBSET X : Cardinality(s) <= n - 1 => Cardinality(s) <= n
    <3>. TAKE s \in SUBSET X
    <3>1. Cardinality(s) \in Nat
      BY <1>0
    <3>. QED BY <3>1, <1>4
  <2>2. \A s \in SUBSET X : Cardinality(s) <= n /\ s # {} => Cardinality(s \ {Chosen(s)}) <= n - 1
    BY <1>0, <1>4
  <2>. QED BY <1>0, <2>1, <2>2
<1>. DEFINE h == [s \in Small(n) |-> IF s = {} THEN 0 ELSE f[Chosen(s)] + g[s \ {Chosen(s)}]]
<1>8. Unfolds(h, f, Small(n))
  <2>. HIDE DEF Small, Bad
  <2>1. g = [s \in Small(n - 1) |-> IF s = {} THEN 0 ELSE f[Chosen(s)] + g[s \ {Chosen(s)}]]
    BY <1>6 DEF Unfolds
  <2>2. \A s \in Small(n - 1) : h[s] = g[s]
    BY <1>7, <2>1
  <2>3. h = [s \in Small(n) |-> IF s = {} THEN 0 ELSE f[Chosen(s)] + h[s \ {Chosen(s)}]]
    BY <1>7, <2>2
  <2>. HIDE DEF h
  <2>. QED BY <2>3 DEF Unfolds
<1>. QED BY <1>3, <1>8

LEMMA UnfoldsUnique ==
  ASSUME NEW f, NEW X, IsFiniteSet(X), NEW Y \in SUBSET X, NEW g, NEW h,
         Unfolds(g, f, SUBSET X), Unfolds(h, f, SUBSET Y)
  PROVE  \A s \in SUBSET Y : g[s] = h[s]
<1>. DEFINE G == {s \in SUBSET Y : g[s] = h[s]}
<1>1. IsFiniteSet(Y)
  BY FS_Subset
<1>2. \A s \in SUBSET Y : (s = {} \/ s \ {Chosen(s)} \in G) => s \in G
  <2>. SUFFICES ASSUME NEW s \in SUBSET Y, s = {} \/ s \ {Chosen(s)} \in G PROVE g[s] = h[s]
    OBVIOUS
  <2>1. /\ g[s] = IF s = {} THEN 0 ELSE f[Chosen(s)] + g[s \ {Chosen(s)}]
        /\ h[s] = IF s = {} THEN 0 ELSE f[Chosen(s)] + h[s \ {Chosen(s)}]
    BY DEF Unfolds
  <2>. QED BY <2>1
<1>3. \A s \in SUBSET Y : s \in G
  <2>. HIDE DEF G
  <2>. QED BY <1>1, <1>2, SubsetInduction
<1>. QED BY <1>3

LEMMA SumUnfolds ==
  ASSUME NEW f, NEW s, IsFiniteSet(s)
  PROVE  s # {} => SumFunctionOnSet(f, s) = f[Chosen(s)] + SumFunctionOnSet(f, s \ {Chosen(s)})
<1>. DEFINE u == s \ {Chosen(s)}
            g == CHOOSE h : Unfolds(h, f, SUBSET s)
            k == CHOOSE h : Unfolds(h, f, SUBSET u)
<1>1. u \in SUBSET s /\ IsFiniteSet(u)
  BY FS_Subset
<1>2. Unfolds(g, f, SUBSET s) /\ Unfolds(k, f, SUBSET u)
  BY <1>1, UnfoldsExists
<1>3. g[u] = k[u]
  <2>. HIDE DEF g, k, u
  <2>. QED BY <1>1, <1>2, UnfoldsUnique
<1>4. SumFunctionOnSet(f, s) = g[s] /\ SumFunctionOnSet(f, u) = k[u]
  BY SumIs
<1>5. s # {} => g[s] = f[Chosen(s)] + g[u]
  <2>. HIDE DEF g, k
  <2>. QED BY <1>2 DEF Unfolds
<1>. QED BY <1>3, <1>4, <1>5

LEMMA SumOfNone == \A f : SumFunctionOnSet(f, {}) = 0
<1>. TAKE f
<1>. DEFINE g == CHOOSE h : Unfolds(h, f, SUBSET {})
<1>1. Unfolds(g, f, SUBSET {})
  BY FS_EmptySet, UnfoldsExists
<1>2. g[{}] = 0
  <2>. HIDE DEF g
  <2>. QED BY <1>1 DEF Unfolds
<1>. QED BY <1>2, SumIs

(***************************************************************************)
(* Sums over a finite set.                                                 *)
(***************************************************************************)
LEMMA SumType ==
  ASSUME NEW X, IsFiniteSet(X), NEW f, \A x \in X : f[x] \in Int
  PROVE  \A s \in SUBSET X : SumFunctionOnSet(f, s) \in Int
<1>. DEFINE G == {s \in SUBSET X : SumFunctionOnSet(f, s) \in Int}
<1>1. \A s \in SUBSET X : (s = {} \/ s \ {Chosen(s)} \in G) => s \in G
  <2>. SUFFICES ASSUME NEW s \in SUBSET X, s = {} \/ s \ {Chosen(s)} \in G
                PROVE  SumFunctionOnSet(f, s) \in Int
    OBVIOUS
  <2>1. CASE s = {}
    BY <2>1, SumOfNone
  <2>2. CASE s # {}
    <3>1. Chosen(s) \in X /\ IsFiniteSet(s)
      BY <2>2, SubsetFacts
    <3>2. SumFunctionOnSet(f, s) = f[Chosen(s)] + SumFunctionOnSet(f, s \ {Chosen(s)})
      BY <2>2, <3>1, SumUnfolds
    <3>3. SumFunctionOnSet(f, s \ {Chosen(s)}) \in Int
      BY <2>2
    <3>. QED BY <3>1, <3>2, <3>3
  <2>. QED BY <2>1, <2>2
<1>2. \A s \in SUBSET X : s \in G
  <2>. HIDE DEF G
  <2>. QED BY <1>1, SubsetInduction
<1>. QED BY <1>2

LEMMA SumMonotone ==
  ASSUME NEW X, IsFiniteSet(X), NEW f, NEW g,
         \A x \in X : f[x] \in Int /\ g[x] \in Int /\ f[x] <= g[x]
  PROVE  SumFunctionOnSet(f, X) <= SumFunctionOnSet(g, X)
<1>. DEFINE G == {s \in SUBSET X : SumFunctionOnSet(f, s) <= SumFunctionOnSet(g, s)}
<1>1. ASSUME NEW s \in SUBSET X, s = {} \/ s \ {Chosen(s)} \in G
      PROVE  SumFunctionOnSet(f, s) <= SumFunctionOnSet(g, s)
  <2>. DEFINE u == s \ {Chosen(s)}
  <2>1. CASE s = {}
    BY <2>1, SumOfNone
  <2>2. CASE s # {}
    <3>1. Chosen(s) \in X /\ u \in SUBSET X /\ IsFiniteSet(s)
      BY <2>2, SubsetFacts
    <3>2. SumFunctionOnSet(f, u) \in Int /\ SumFunctionOnSet(g, u) \in Int
      BY <3>1, SumType
    <3>3. /\ SumFunctionOnSet(f, s) = f[Chosen(s)] + SumFunctionOnSet(f, u)
          /\ SumFunctionOnSet(g, s) = g[Chosen(s)] + SumFunctionOnSet(g, u)
      BY <2>2, <3>1, SumUnfolds
    <3>4. SumFunctionOnSet(f, u) <= SumFunctionOnSet(g, u)
      BY <1>1, <2>2
    <3>. QED BY <3>1, <3>2, <3>3, <3>4
  <2>. QED BY <2>1, <2>2
<1>2. \A s \in SUBSET X : s \in G
  <2>1. \A s \in SUBSET X : (s = {} \/ s \ {Chosen(s)} \in G) => s \in G
    BY <1>1
  <2>. HIDE DEF G
  <2>. QED BY <2>1, SubsetInduction
<1>. QED BY <1>2

\* The sum of a function that is a on A and 0 elsewhere.
LEMMA SumIndicator ==
  ASSUME NEW X, IsFiniteSet(X), NEW A, NEW a \in Int, NEW f,
         \A x \in X : f[x] = IF x \in A THEN a ELSE 0
  PROVE  SumFunctionOnSet(f, X) = a * Cardinality(X \cap A)
<1>. DEFINE G == {s \in SUBSET X : SumFunctionOnSet(f, s) = a * Cardinality(s \cap A)}
<1>0. a * 0 = 0
  OBVIOUS
<1>1. ASSUME NEW s \in SUBSET X, s = {} \/ s \ {Chosen(s)} \in G
      PROVE  SumFunctionOnSet(f, s) = a * Cardinality(s \cap A)
  <2>. DEFINE c == Chosen(s)
              u == s \ {c}
  <2>1. CASE s = {}
    <3>1. SumFunctionOnSet(f, s) = 0 /\ s \cap A = {} /\ Cardinality({}) = 0
      BY <2>1, FS_EmptySet, SumOfNone
    <3>. QED BY <1>0, <3>1
  <2>2. CASE s # {}
    <3>1. c \in s /\ c \in X /\ IsFiniteSet(s)
      BY <2>2, SubsetFacts
    <3>2. SumFunctionOnSet(f, s) = f[c] + SumFunctionOnSet(f, u)
      BY <2>2, <3>1, SumUnfolds
    <3>3. SumFunctionOnSet(f, u) = a * Cardinality(u \cap A)
      BY <1>1, <2>2
    <3>4. IsFiniteSet(s \cap A) /\ IsFiniteSet(u \cap A)
      BY <3>1, FS_Subset
    <3>5. Cardinality(s \cap A) \in Nat /\ Cardinality(u \cap A) \in Nat
      BY <3>4, FS_CardinalityType
    <3>6. CASE c \in A
      <4>1. u \cap A = (s \cap A) \ {c} /\ c \in s \cap A
        BY <3>1, <3>6
      <4>2. Cardinality(u \cap A) = Cardinality(s \cap A) - 1
        <5>. DEFINE w == s \cap A
        <5>1. IsFiniteSet(w) /\ c \in w
          BY <3>4, <4>1
        <5>. HIDE DEF w, c
        <5>2. Cardinality(w \ {c}) = Cardinality(w) - 1
          BY <5>1, FS_RemoveElement
        <5>. QED BY <4>1, <5>2 DEF w
      <4>3. f[c] = a
        BY <3>1, <3>6
      <4>. DEFINE k == Cardinality(s \cap A)
      <4>4. k \in Nat /\ a * (k - 1) = a * k - a
        BY <3>5
      <4>. QED BY <3>2, <3>3, <3>5, <4>2, <4>3, <4>4
    <3>7. CASE c \notin A
      <4>1. u \cap A = s \cap A /\ f[c] = 0
        BY <3>1, <3>7
      <4>. QED BY <3>2, <3>3, <3>5, <4>1
    <3>. QED BY <3>6, <3>7
  <2>. QED BY <2>1, <2>2
<1>2. \A s \in SUBSET X : s \in G
  <2>1. \A s \in SUBSET X : (s = {} \/ s \ {Chosen(s)} \in G) => s \in G
    BY <1>1
  <2>. HIDE DEF G
  <2>. QED BY <2>1, SubsetInduction
<1>. QED BY <1>2

LEMMA SumAdd ==
  ASSUME NEW X, IsFiniteSet(X), NEW f, NEW g, NEW h,
         \A x \in X : f[x] \in Int /\ g[x] \in Int /\ h[x] = f[x] + g[x]
  PROVE  SumFunctionOnSet(h, X) = SumFunctionOnSet(f, X) + SumFunctionOnSet(g, X)
<1>. DEFINE G == {s \in SUBSET X :
                   SumFunctionOnSet(h, s) = SumFunctionOnSet(f, s) + SumFunctionOnSet(g, s)}
<1>1. ASSUME NEW s \in SUBSET X, s = {} \/ s \ {Chosen(s)} \in G
      PROVE  SumFunctionOnSet(h, s) = SumFunctionOnSet(f, s) + SumFunctionOnSet(g, s)
  <2>. DEFINE c == Chosen(s)
              u == s \ {c}
  <2>1. CASE s = {}
    BY <2>1, SumOfNone
  <2>2. CASE s # {}
    <3>1. c \in X /\ u \in SUBSET X /\ IsFiniteSet(s)
      BY <2>2, SubsetFacts
    <3>2. SumFunctionOnSet(f, u) \in Int /\ SumFunctionOnSet(g, u) \in Int
      BY <3>1, SumType
    <3>3. /\ SumFunctionOnSet(f, s) = f[c] + SumFunctionOnSet(f, u)
          /\ SumFunctionOnSet(g, s) = g[c] + SumFunctionOnSet(g, u)
          /\ SumFunctionOnSet(h, s) = h[c] + SumFunctionOnSet(h, u)
      BY <2>2, <3>1, SumUnfolds
    <3>4. SumFunctionOnSet(h, u) = SumFunctionOnSet(f, u) + SumFunctionOnSet(g, u)
      BY <1>1, <2>2
    <3>. QED BY <3>1, <3>2, <3>3, <3>4
  <2>. QED BY <2>1, <2>2
<1>2. \A s \in SUBSET X : s \in G
  <2>1. \A s \in SUBSET X : (s = {} \/ s \ {Chosen(s)} \in G) => s \in G
    BY <1>1
  <2>. HIDE DEF G
  <2>. QED BY <2>1, SubsetInduction
<1>. QED BY <1>2

LEMMA SumScale ==
  ASSUME NEW X, IsFiniteSet(X), NEW n \in Int, NEW f, NEW g,
         \A x \in X : f[x] \in Int /\ g[x] = n * f[x]
  PROVE  SumFunctionOnSet(g, X) = n * SumFunctionOnSet(f, X)
<1>. DEFINE G == {s \in SUBSET X : SumFunctionOnSet(g, s) = n * SumFunctionOnSet(f, s)}
<1>0. n * 0 = 0
  OBVIOUS
<1>1. ASSUME NEW s \in SUBSET X, s = {} \/ s \ {Chosen(s)} \in G
      PROVE  SumFunctionOnSet(g, s) = n * SumFunctionOnSet(f, s)
  <2>. DEFINE c == Chosen(s)
              u == s \ {c}
  <2>1. CASE s = {}
    BY <1>0, <2>1, SumOfNone
  <2>2. CASE s # {}
    <3>1. c \in X /\ u \in SUBSET X /\ IsFiniteSet(s)
      BY <2>2, SubsetFacts
    <3>2. SumFunctionOnSet(f, u) \in Int
      BY <3>1, SumType
    <3>3. /\ SumFunctionOnSet(f, s) = f[c] + SumFunctionOnSet(f, u)
          /\ SumFunctionOnSet(g, s) = g[c] + SumFunctionOnSet(g, u)
      BY <2>2, <3>1, SumUnfolds
    <3>4. SumFunctionOnSet(g, u) = n * SumFunctionOnSet(f, u)
      BY <1>1, <2>2
    <3>5. f[c] \in Int /\ g[c] = n * f[c]
      BY <3>1
    <3>6. n * (f[c] + SumFunctionOnSet(f, u)) = n * f[c] + n * SumFunctionOnSet(f, u)
      BY <3>2, <3>5
    <3>. QED BY <3>3, <3>4, <3>5, <3>6
  <2>. QED BY <2>1, <2>2
<1>2. \A s \in SUBSET X : s \in G
  <2>1. \A s \in SUBSET X : (s = {} \/ s \ {Chosen(s)} \in G) => s \in G
    BY <1>1
  <2>. HIDE DEF G
  <2>. QED BY <2>1, SubsetInduction
<1>. QED BY <1>2

\* Summing a matrix by rows or by columns gives the same.
LEMMA SumSwap ==
  ASSUME NEW X, IsFiniteSet(X), NEW Y, IsFiniteSet(Y), NEW M,
         \A x \in X, y \in Y : M[x][y] \in Int
  PROVE  SumFunctionOnSet([x \in X |-> SumFunctionOnSet([y \in Y |-> M[x][y]], Y)], X)
           = SumFunctionOnSet([y \in Y |-> SumFunctionOnSet([x \in X |-> M[x][y]], X)], Y)
<1>. DEFINE col(s) == [y \in Y |-> SumFunctionOnSet([x \in X |-> M[x][y]], s)]
            row == [x \in X |-> SumFunctionOnSet([y \in Y |-> M[x][y]], Y)]
            G == {s \in SUBSET X : SumFunctionOnSet(row, s) = SumFunctionOnSet(col(s), Y)}
<1>0. \A x \in X : row[x] \in Int
  BY SumType
<1>1. ASSUME NEW s \in SUBSET X, s = {} \/ s \ {Chosen(s)} \in G
      PROVE  SumFunctionOnSet(row, s) = SumFunctionOnSet(col(s), Y)
  <2>. DEFINE c == Chosen(s)
              u == s \ {c}
              here == [y \in Y |-> M[c][y]]
  <2>1. CASE s = {}
    <3>1. SumFunctionOnSet(row, s) = 0
      BY <2>1, SumOfNone
    <3>2. \A y \in Y : col(s)[y] = IF y \in {} THEN 1 ELSE 0
      BY <2>1, SumOfNone
    <3>3. SumFunctionOnSet(col(s), Y) = 1 * Cardinality(Y \cap {})
      <4>. DEFINE none == col(s)
      <4>. HIDE DEF col, none
      <4>1. \A y \in Y : none[y] = IF y \in {} THEN 1 ELSE 0
        BY <3>2 DEF none
      <4>2. 1 \in Int
        OBVIOUS
      <4>3. SumFunctionOnSet(none, Y) = 1 * Cardinality(Y \cap {})
        BY ONLY IsFiniteSet(Y), <4>1, <4>2, SumIndicator
      <4>. QED BY <4>3 DEF none
    <3>4. Y \cap {} = {} /\ Cardinality({}) = 0
      BY FS_EmptySet
    <3>. QED BY <3>1, <3>3, <3>4
  <2>2. CASE s # {}
    <3>1. c \in X /\ u \in SUBSET X /\ IsFiniteSet(s)
      BY <2>2, SubsetFacts
    <3>2. SumFunctionOnSet(row, s) = row[c] + SumFunctionOnSet(row, u)
      <4>. HIDE DEF row
      <4>. QED BY <2>2, <3>1, SumUnfolds
    <3>3. \A y \in Y : here[y] \in Int /\ col(u)[y] \in Int /\ col(s)[y] = here[y] + col(u)[y]
      <4>. TAKE y \in Y
      <4>. DEFINE f == [x \in X |-> M[x][y]]
      <4>1. f[c] = here[y] /\ here[y] \in Int
        BY <3>1
      <4>2. SumFunctionOnSet(f, s) = f[c] + SumFunctionOnSet(f, u)
        <5>. HIDE DEF f
        <5>. QED BY <2>2, <3>1, SumUnfolds
      <4>3. SumFunctionOnSet(f, u) \in Int
        BY <3>1, SumType
      <4>. QED BY <4>1, <4>2, <4>3
    <3>4. SumFunctionOnSet(col(s), Y) = SumFunctionOnSet(here, Y) + SumFunctionOnSet(col(u), Y)
      <4>. HIDE DEF here, col
      <4>. QED BY <3>3, SumAdd
    <3>5. SumFunctionOnSet(row, u) = SumFunctionOnSet(col(u), Y)
      BY <1>1, <2>2
    <3>6. row[c] = SumFunctionOnSet(here, Y)
      BY <3>1
    <3>. QED BY <3>2, <3>4, <3>5, <3>6
  <2>. QED BY <2>1, <2>2
<1>2. \A s \in SUBSET X : s \in G
  <2>1. \A s \in SUBSET X : (s = {} \/ s \ {Chosen(s)} \in G) => s \in G
    BY <1>1
  <2>. HIDE DEF G
  <2>. QED BY <2>1, SubsetInduction
<1>. QED BY <1>2

(***************************************************************************)
(* InOrder lists a finite set by a strict total order: the number of       *)
(* elements before an element is its place, no two have the same, so every *)
(* place is taken.                                                         *)
(***************************************************************************)
StrictTotalOrder(R, D) ==
  /\ \A i \in D : <<i, i>> \notin R
  /\ \A i, j, k \in D : <<i, j>> \in R /\ <<j, k>> \in R => <<i, k>> \in R
  /\ \A i, j \in D : i = j \/ <<i, j>> \in R \/ <<j, i>> \in R

LEMMA PlacesTaken ==
  ASSUME NEW D, IsFiniteSet(D), NEW R, StrictTotalOrder(R, D)
  PROVE  LET place(i) == Cardinality({j \in D : <<j, i>> \in R})
         IN  /\ Cardinality(D) \in Nat
             /\ \A i \in D : place(i) \in 0..(Cardinality(D) - 1)
             /\ \A i, j \in D : <<i, j>> \in R => place(i) < place(j)
             /\ \A k \in 1..Cardinality(D) : \E i \in D : place(i) = k - 1
<1>. DEFINE below(i) == {j \in D : <<j, i>> \in R}
            place(i) == Cardinality(below(i))
            n == Cardinality(D)
<1>1. n \in Nat
  BY FS_CardinalityType
<1>2. \A i \in D : IsFiniteSet(below(i)) /\ place(i) \in Nat
  BY FS_Subset, FS_CardinalityType
<1>3. ASSUME NEW i \in D, NEW j \in D, <<i, j>> \in R PROVE place(i) < place(j)
  <2>1. below(i) \subseteq below(j) /\ i \in below(j) /\ i \notin below(i)
    BY <1>3 DEF StrictTotalOrder
  <2>2. place(i) <= place(j) /\ (place(j) = place(i) => below(j) = below(i))
    BY <1>2, <2>1, FS_Subset
  <2>. HIDE DEF below
  <2>. QED BY <1>2, <2>1, <2>2
<1>4. \A i \in D : place(i) \in 0..(n - 1)
  <2>. TAKE i \in D
  <2>1. below(i) \subseteq D /\ i \notin below(i)
    BY DEF StrictTotalOrder
  <2>2. place(i) <= n /\ (n = place(i) => D = below(i))
    BY <2>1, FS_Subset
  <2>3. place(i) # n
    BY <2>1, <2>2
  <2>4. place(i) \in Nat
    BY <1>2
  <2>. HIDE DEF place, n
  <2>. QED BY <1>1, <2>2, <2>3, <2>4
<1>5. ASSUME NEW k \in 1..n PROVE \E i \in D : place(i) = k - 1
  <2>. SUFFICES ASSUME \A i \in D : place(i) # k - 1 PROVE FALSE
    OBVIOUS
  <2>. DEFINE T == (0..(n - 1)) \ {k - 1}
              f == [i \in D |-> place(i)]
  <2>1. IsFiniteSet(0..(n - 1)) /\ Cardinality(0..(n - 1)) = n
    <3>. HIDE DEF n
    <3>1. 0 \in Int /\ n - 1 \in Int /\ ~(0 > n - 1) /\ n - 1 - 0 + 1 = n
      BY <1>1
    <3>2. IsFiniteSet(0..(n - 1)) /\ Cardinality(0..(n - 1)) = n - 1 - 0 + 1
      BY <3>1, FS_Interval
    <3>. QED BY <3>1, <3>2
  <2>2. IsFiniteSet(T) /\ Cardinality(T) = n - 1
    <3>. HIDE DEF n
    <3>1. k - 1 \in 0..(n - 1)
      BY <1>1
    <3>. QED BY <2>1, <3>1, FS_RemoveElement
  <2>3. f \in [D -> T]
    BY <1>4
  <2>4. Cardinality(T) < Cardinality(D)
    BY <1>1, <2>2
  <2>5. PICK i, j \in D : i # j /\ f[i] = f[j]
    <3>. HIDE DEF T, f
    <3>. QED BY <2>2, <2>3, <2>4, FS_PigeonHole
  <2>6. place(i) = place(j) /\ (<<i, j>> \in R \/ <<j, i>> \in R)
    BY <2>5 DEF StrictTotalOrder
  <2>7. place(i) < place(j) \/ place(j) < place(i)
    BY <1>3, <2>6
  <2>8. place(i) \in Nat /\ place(j) \in Nat
    BY <1>2
  <2>. HIDE DEF place
  <2>. QED BY <2>6, <2>7, <2>8
<1>. QED BY <1>1, <1>3, <1>4, <1>5

LEMMA InOrderLists ==
  ASSUME NEW D, IsFiniteSet(D), NEW R, StrictTotalOrder(R, D)
  PROVE  LET o == InOrder(D, R)
         IN  /\ Cardinality(D) \in Nat /\ DOMAIN o = 1..Cardinality(D)
             /\ \A k \in DOMAIN o : o[k] \in D
             /\ \A i \in D : \E k \in DOMAIN o : o[k] = i
             /\ \A k, l \in DOMAIN o : k < l => <<o[k], o[l]>> \in R
<1>. DEFINE place(i) == Cardinality({j \in D : <<j, i>> \in R})
            n == Cardinality(D)
            o == InOrder(D, R)
<1>1. /\ n \in Nat
      /\ \A i \in D : place(i) \in 0..(n - 1)
      /\ \A i, j \in D : <<i, j>> \in R => place(i) < place(j)
      /\ \A k \in 1..n : \E i \in D : place(i) = k - 1
  BY PlacesTaken
<1>2. DOMAIN o = 1..n
  BY DEF InOrder
<1>3. \A k \in 1..n : o[k] \in D /\ place(o[k]) = k - 1
  <2>. TAKE k \in 1..n
  <2>1. o[k] = CHOOSE i \in D : place(i) = k - 1
    BY DEF InOrder
  <2>. HIDE DEF place, o
  <2>. QED BY <1>1, <2>1
<1>. HIDE DEF place, o, n
<1>4. ASSUME NEW k \in 1..n, NEW l \in 1..n, k < l PROVE <<o[k], o[l]>> \in R
  <2>1. o[k] \in D /\ o[l] \in D /\ place(o[k]) < place(o[l])
    BY <1>1, <1>3, <1>4
  <2>2. ~(<<o[l], o[k]>> \in R) /\ o[k] # o[l]
    <3>1. place(o[k]) \in Int /\ place(o[l]) \in Int
      BY <1>1, <2>1
    <3>. QED BY <1>1, <2>1, <3>1
  <2>. QED BY <2>1, <2>2 DEF StrictTotalOrder
<1>5. ASSUME NEW i \in D PROVE \E k \in 1..n : o[k] = i
  <2>. DEFINE k == place(i) + 1
  <2>1. k \in 1..n
    BY <1>1
  <2>2. o[k] \in D /\ place(o[k]) = place(i)
    <3>1. place(i) \in Int
      BY <1>1
    <3>. QED BY <1>3, <2>1, <3>1
  <2>3. ~(<<o[k], i>> \in R) /\ ~(<<i, o[k]>> \in R)
    <3>1. place(i) \in Int
      BY <1>1
    <3>. QED BY <1>1, <2>2, <3>1
  <2>4. o[k] = i
    BY <2>2, <2>3 DEF StrictTotalOrder
  <2>. QED BY <2>1, <2>4
<1>. QED BY <1>1, <1>2, <1>3, <1>4, <1>5 DEF o, n

LEMMA AscendingLists ==
  ASSUME NEW D \in SUBSET Nat, IsFiniteSet(D)
  PROVE  LET o == Ascending(D)
         IN  /\ Cardinality(D) \in Nat /\ DOMAIN o = 1..Cardinality(D)
             /\ \A k \in DOMAIN o : o[k] \in D
             /\ \A i \in D : \E k \in DOMAIN o : o[k] = i
             /\ \A k, l \in DOMAIN o : k < l => o[k] < o[l]
<1>. DEFINE R == {e \in D \X D : e[1] < e[2]}
<1>1. \A i, j \in D : <<i, j>> \in R <=> i < j
  OBVIOUS
<1>2. StrictTotalOrder(R, D)
  <2>. HIDE DEF R
  <2>1. \A i \in D : i \in Nat
    OBVIOUS
  <2>. QED BY <1>1, <2>1 DEF StrictTotalOrder
<1>3. Ascending(D) = InOrder(D, R)
  BY DEF Ascending
<1>. HIDE DEF R
<1>. DEFINE o == InOrder(D, R)
<1>4. /\ Cardinality(D) \in Nat /\ DOMAIN o = 1..Cardinality(D)
      /\ \A k \in DOMAIN o : o[k] \in D
      /\ \A i \in D : \E k \in DOMAIN o : o[k] = i
      /\ \A k, l \in DOMAIN o : k < l => <<o[k], o[l]>> \in R
  BY <1>2, InOrderLists
<1>. HIDE DEF o
<1>. QED BY <1>1, <1>3, <1>4 DEF o

(***************************************************************************)
(* Division by a positive number: bounds, and growth with the numerator    *)
(* and with a smaller divisor.                                             *)
(***************************************************************************)
LEMMA DivIs ==
  ASSUME NEW a \in Int, NEW n \in Nat \ {0}
  PROVE  a \div n \in Int /\ n * (a \div n) <= a /\ a < n * (a \div n) + n
OBVIOUS

LEMMA DivMonotone ==
  ASSUME NEW a \in Int, NEW b \in Int, NEW n \in Nat \ {0}, a <= b
  PROVE  a \div n <= b \div n
OBVIOUS

LEMMA DivBounds ==
  ASSUME NEW S \in Nat, NEW n \in Nat \ {0}, NEW a \in 0..(n * S)
  PROVE  a \div n \in 0..S
<1>1. n * S \in Nat /\ a \in Nat /\ a <= n * S
  OBVIOUS
<1>2. a \div n \in Int /\ n * (a \div n) <= n * S /\ a < n * (a \div n) + n
  BY <1>1, DivIs
<1>. DEFINE q == a \div n
<1>3. q <= S
  <2>. SUFFICES ASSUME S + 1 <= q PROVE FALSE
    BY <1>2
  <2>1. n * (S + 1) <= n * q
    BY <1>2
  <2>2. n * (S + 1) = n * S + n
    OBVIOUS
  <2>. QED BY <1>2, <2>1, <2>2
<1>4. q >= 0
  <2>. SUFFICES ASSUME q + 1 <= 0 PROVE FALSE
    BY <1>2
  <2>1. n * (q + 1) <= 0
    BY <1>2
  <2>2. n * (q + 1) = n * q + n
    BY <1>2
  <2>. QED BY <1>1, <1>2, <2>1, <2>2
<1>. QED BY <1>2, <1>3, <1>4

LEMMA DivExact ==
  ASSUME NEW a \in Int, NEW n \in Nat \ {0}
  PROVE  (n * a) \div n = a
OBVIOUS

LEMMA SumBounds ==
  ASSUME NEW X, IsFiniteSet(X), NEW S \in Nat, NEW f, \A x \in X : f[x] \in 0..S
  PROVE  SumFunctionOnSet(f, X) \in 0..(Cardinality(X) * S)
<1>. DEFINE low == [x \in X |-> 0]
            high == [x \in X |-> S]
<1>1. \A x \in X : /\ low[x] = IF x \in X THEN 0 ELSE 0
                   /\ high[x] = IF x \in X THEN S ELSE 0
                   /\ f[x] \in Int /\ low[x] \in Int /\ high[x] \in Int
                   /\ low[x] <= f[x] /\ f[x] <= high[x]
  OBVIOUS
<1>. HIDE DEF low, high
<1>2. Cardinality(X) \in Nat /\ X \cap X = X
  BY FS_CardinalityType
<1>3. SumFunctionOnSet(low, X) = 0
  <2>1. SumFunctionOnSet(low, X) = 0 * Cardinality(X \cap X)
    <3>1. \A x \in X : low[x] = IF x \in X THEN 0 ELSE 0
      BY <1>1
    <3>2. 0 \in Int
      OBVIOUS
    <3>. QED BY ONLY IsFiniteSet(X), <3>1, <3>2, SumIndicator
  <2>. QED BY <1>2, <2>1
<1>4. SumFunctionOnSet(high, X) = Cardinality(X) * S
  <2>1. SumFunctionOnSet(high, X) = S * Cardinality(X \cap X)
    <3>1. \A x \in X : high[x] = IF x \in X THEN S ELSE 0
      BY <1>1
    <3>2. S \in Int
      OBVIOUS
    <3>. QED BY ONLY IsFiniteSet(X), <3>1, <3>2, SumIndicator
  <2>2. S * Cardinality(X) = Cardinality(X) * S
    BY <1>2
  <2>. QED BY <1>2, <2>1, <2>2
<1>5. SumFunctionOnSet(f, X) \in Int
  BY <1>1, SumType
<1>6. SumFunctionOnSet(low, X) <= SumFunctionOnSet(f, X)
  BY <1>1, SumMonotone
<1>7. SumFunctionOnSet(f, X) <= SumFunctionOnSet(high, X)
  BY <1>1, SumMonotone
<1>. QED BY <1>2, <1>3, <1>4, <1>5, <1>6, <1>7

(***************************************************************************)
(* What the operators of the aggregation return.                           *)
(***************************************************************************)
LEMMA ScoreIsNumber ==
  /\ NaN \notin Int /\ Scale \in Nat \ {0} /\ FailureThreshold \in Int
  /\ \A v \in Levels : v \in 0..Scale
  /\ IsFiniteSet(Cells)
BY AnalysisAssumption

LEMMA LoadIsFrame ==
  ASSUME NEW s, Frame(s), NEW runs, NEW phases
  PROVE  Frame(Load(s, runs, phases))
BY DEF Frame, Load

LEMMA RowsOfFrame ==
  ASSUME NEW s, Frame(s)
  PROVE  /\ IsFiniteSet(DOMAIN s)
         /\ \A x \in DOMAIN s : s[x] \in Row /\ Final(s[x]) \in Levels \cup {NaN}
         /\ \A x \in DOMAIN s : Final(s[x]) # NaN => Final(s[x]) \in 0..Scale
<1>1. IsFiniteSet(DOMAIN s)
  BY ScoreIsNumber, FS_Subset DEF Frame
<1>2. \A x \in DOMAIN s : s[x] \in Row
  BY DEF Frame
<1>3. \A x \in DOMAIN s : Final(s[x]) \in Levels \cup {NaN}
  BY <1>2 DEF Row, Final
<1>. QED BY <1>1, <1>2, <1>3, ScoreIsNumber

LEMMA SetsOfFrame ==
  ASSUME NEW s, Frame(s), NEW c
  PROVE  /\ IsFiniteSet(Group(s, c)) /\ IsFiniteSet(Valid(s, c))
         /\ \A A \in SUBSET Group(s, c) : IsFiniteSet(A) /\ Cardinality(A) \in Nat
         /\ Valid(s, c) \in SUBSET Group(s, c) /\ Group(s, c) \in SUBSET DOMAIN s
         /\ Cardinality(Valid(s, c)) \in Nat
         /\ Cardinality(Valid(s, c)) = 0 <=> Valid(s, c) = {}
         /\ \A x \in Valid(s, c) : Final(s[x]) \in Levels /\ Final(s[x]) \in 0..Scale
<1>1. Valid(s, c) \in SUBSET Group(s, c) /\ Group(s, c) \in SUBSET DOMAIN s
  BY DEF Valid, Group
<1>2. IsFiniteSet(Group(s, c))
  BY <1>1, RowsOfFrame, FS_Subset
<1>3. \A A \in SUBSET Group(s, c) : IsFiniteSet(A) /\ Cardinality(A) \in Nat
  BY <1>2, FS_Subset, FS_CardinalityType
<1>4. \A x \in Valid(s, c) : Final(s[x]) \in Levels /\ Final(s[x]) \in 0..Scale
  BY <1>1, RowsOfFrame DEF Valid
<1>. QED BY <1>1, <1>2, <1>3, <1>4, FS_EmptySet

LEMMA RatioType ==
  ASSUME NEW n \in Nat, NEW k \in 0..n
  PROVE  Ratio(k, n) \in 0..Scale \cup {NaN} /\ (Ratio(k, n) = NaN <=> n = 0)
<1>1. CASE n = 0
  BY <1>1 DEF Ratio
<1>2. CASE n # 0
  <2>1. k * Scale \in 0..(n * Scale)
    <3>1. k * Scale \in Nat /\ n * Scale \in Nat
      BY ScoreIsNumber
    <3>2. k * Scale <= n * Scale
      BY ScoreIsNumber
    <3>. QED BY <3>1, <3>2
  <2>2. (k * Scale) \div n \in 0..Scale
    BY <1>2, <2>1, ScoreIsNumber, DivBounds
  <2>. QED BY <1>2, <2>2, ScoreIsNumber DEF Ratio
<1>. QED BY <1>1, <1>2

LEMMA RatesType ==
  ASSUME NEW s, Frame(s), NEW c
  PROVE  /\ FailureRate(s, c) \in 0..Scale \cup {NaN}
         /\ CriticalFailureRate(s, c) \in 0..Scale \cup {NaN}
<1>1. FailureRate(s, c) \in 0..Scale \cup {NaN}
  <2>. DEFINE F == {x \in Valid(s, c) : Final(s[x]) < FailureThreshold}
  <2>1. Cardinality(F) \in Nat /\ Cardinality(F) <= Cardinality(Valid(s, c))
    BY SetsOfFrame, FS_Subset, FS_CardinalityType
  <2>2. Cardinality(F) \in 0..Cardinality(Valid(s, c))
    BY <2>1, SetsOfFrame
  <2>. QED BY <2>2, SetsOfFrame, RatioType DEF FailureRate
<1>2. CriticalFailureRate(s, c) \in 0..Scale \cup {NaN}
  <2>. DEFINE A == Annotated(s, Group(s, c))
              F == {x \in A : s[x].flag = 1}
  <2>1. A \in SUBSET Group(s, c) /\ IsFiniteSet(A) /\ Cardinality(A) \in Nat
    BY SetsOfFrame DEF Annotated
  <2>2. Cardinality(F) \in Nat /\ Cardinality(F) <= Cardinality(A)
    <3>. HIDE DEF A
    <3>. QED BY <2>1, FS_Subset, FS_CardinalityType
  <2>3. Cardinality(F) \in 0..Cardinality(A)
    BY <2>1, <2>2
  <2>. QED BY <2>1, <2>3, RatioType DEF CriticalFailureRate
<1>. QED BY <1>1, <1>2

\* The k-th score exists: the levels that k scores do not exceed have a least.
NotExceeded(s, c, k) ==
  {v \in Levels : Cardinality({x \in Valid(s, c) : Final(s[x]) <= v}) >= k}

LEMMA SmallestIs ==
  ASSUME NEW s, Frame(s), NEW c, NEW k \in 1..Cardinality(Valid(s, c))
  PROVE  /\ NotExceeded(s, c, k) \in SUBSET (0..Scale)
         /\ Smallest(s, c, k) \in NotExceeded(s, c, k)
         /\ Smallest(s, c, k) \in 0..Scale
         /\ \A v \in NotExceeded(s, c, k) : Smallest(s, c, k) <= v
<1>. DEFINE T == {Final(s[x]) : x \in Valid(s, c)}
<1>1. NotExceeded(s, c, k) \in SUBSET (0..Scale)
  BY ScoreIsNumber DEF NotExceeded
<1>2. T \in SUBSET (0..Scale) /\ T # {}
  BY SetsOfFrame, FS_EmptySet
<1>3. PICK v \in T : \A m \in T : m <= v
  <2>. HIDE DEF T
  <2>. QED BY <1>2, ScoreIsNumber, GreatestNumber
<1>4. v \in NotExceeded(s, c, k)
  <2>1. {x \in Valid(s, c) : Final(s[x]) <= v} = Valid(s, c)
    BY <1>3
  <2>2. v \in Levels
    BY SetsOfFrame
  <2>3. Cardinality(Valid(s, c)) >= k
    BY SetsOfFrame
  <2>. HIDE DEF T
  <2>. QED BY <2>1, <2>2, <2>3 DEF NotExceeded
<1>5. Smallest(s, c, k) = Min(NotExceeded(s, c, k))
  BY DEF Smallest, NotExceeded
<1>6. NotExceeded(s, c, k) \in SUBSET Nat
  BY <1>1
<1>. HIDE DEF T
<1>. QED BY <1>1, <1>4, <1>5, <1>6, MinIsLeast

LEMMA MedianType ==
  ASSUME NEW s, Frame(s), NEW c
  PROVE  /\ Median(s, c) \in 0..Scale \cup {NaN}
         /\ Median(s, c) = NaN <=> Valid(s, c) = {}
<1>. DEFINE n == Cardinality(Valid(s, c))
            h == (n + 1) \div 2
            l == n \div 2 + 1
<1>1. n \in Nat /\ (n = 0 <=> Valid(s, c) = {})
  BY SetsOfFrame
<1>2. CASE n = 0
  BY <1>1, <1>2 DEF Median
<1>3. CASE n # 0
  <2>1. h \in 1..n /\ l \in 1..n
    <3>. HIDE DEF n
    <3>. QED BY <1>1, <1>3
  <2>2. Smallest(s, c, h) \in 0..Scale /\ Smallest(s, c, l) \in 0..Scale
    <3>. HIDE DEF h, l
    <3>. QED BY <2>1, SmallestIs
  <2>3. (Smallest(s, c, h) + Smallest(s, c, l)) \div 2 \in 0..Scale
    <3>. HIDE DEF h, l
    <3>. QED BY <2>2, ScoreIsNumber
  <2>4. Median(s, c) = (Smallest(s, c, h) + Smallest(s, c, l)) \div 2
    BY <1>3 DEF Median
  <2>. QED BY <1>1, <1>3, <2>3, <2>4, ScoreIsNumber
<1>. QED BY <1>2, <1>3

LEMMA AttemptsFacts ==
  ASSUME NEW s, Frame(s), NEW c, NEW q
  PROVE  /\ Attempts(s, c, q) \in SUBSET Valid(s, c)
         /\ IsFiniteSet(Attempts(s, c, q)) /\ Cardinality(Attempts(s, c, q)) \in Nat
         /\ Cardinality(Attempts(s, c, q)) = 0 <=> Attempts(s, c, q) = {}
         /\ \A x \in Attempts(s, c, q) : Final(s[x]) \in 0..Scale
<1>1. Attempts(s, c, q) \in SUBSET Valid(s, c)
  BY DEF Attempts
<1>2. IsFiniteSet(Attempts(s, c, q))
  BY <1>1, SetsOfFrame, FS_Subset
<1>. QED BY <1>1, <1>2, SetsOfFrame, FS_CardinalityType, FS_EmptySet

LEMMA QuestionMeanIs ==
  ASSUME NEW s, Frame(s), NEW c, NEW q, Attempts(s, c, q) # {}
  PROVE  /\ QuestionMean(s, c, q) =
              SumFunctionOnSet([x \in Attempts(s, c, q) |-> Final(s[x])], Attempts(s, c, q))
                \div Cardinality(Attempts(s, c, q))
         /\ QuestionMean(s, c, q) \in 0..Scale
<1>. DEFINE A == Attempts(s, c, q)
            f == [x \in A |-> Final(s[x])]
<1>1. QuestionMean(s, c, q) = SumFunctionOnSet(f, A) \div Cardinality(A)
  BY DEF QuestionMean, SumFunction
<1>2. \A x \in A : f[x] \in 0..Scale
  BY AttemptsFacts
<1>3. IsFiniteSet(A) /\ Cardinality(A) \in Nat \ {0}
  BY AttemptsFacts
<1>. HIDE DEF A, f
<1>4. SumFunctionOnSet(f, A) \in 0..(Cardinality(A) * Scale)
  BY <1>2, <1>3, ScoreIsNumber, SumBounds
<1>5. SumFunctionOnSet(f, A) \div Cardinality(A) \in 0..Scale
  BY <1>3, <1>4, ScoreIsNumber, DivBounds
<1>. QED BY <1>1, <1>5 DEF A, f

LEMMA ConfigsFinite == IsFiniteSet(Configs)
<1>. DEFINE n == Len(ConfigOrder)
            T == {ConfigOrder[i] : i \in 1..n}
<1>1. ConfigOrder \in Seq(Configs) /\ n \in Nat /\ DOMAIN ConfigOrder = 1..n
  BY AnalysisAssumption
<1>2. Configs = T
  BY <1>1 DEF Configs, ToSet
<1>3. IsFiniteSet(1..n)
  BY <1>1, FS_Interval
<1>4. [i \in 1..n |-> ConfigOrder[i]] \in Surjection(1..n, T)
  BY DEF Surjection
<1>. HIDE DEF n, T
<1>. QED BY <1>2, <1>3, <1>4, FS_Surjection

LEMMA QuestionsFinite ==
  ASSUME NEW s, Frame(s)
  PROVE  /\ IsFiniteSet(QuestionsOf(s))
         /\ Cardinality(QuestionsOf(s)) \in Nat
         /\ Cardinality(QuestionsOf(s)) = 0 <=> QuestionsOf(s) = {}
<1>. DEFINE D == DOMAIN s
            f == [x \in D |-> x.question]
<1>1. f \in Surjection(D, QuestionsOf(s))
  BY DEF Surjection, QuestionsOf
<1>2. IsFiniteSet(D)
  BY RowsOfFrame
<1>3. IsFiniteSet(QuestionsOf(s))
  <2>. HIDE DEF D, f
  <2>. QED BY <1>1, <1>2, FS_Surjection
<1>. QED BY <1>3, FS_CardinalityType, FS_EmptySet

LEMMA WinnersFacts ==
  ASSUME NEW s, NEW q
  PROVE  /\ Winners(s, q) \in SUBSET Configs
         /\ IsFiniteSet(Winners(s, q)) /\ Cardinality(Winners(s, q)) \in Nat
         /\ Cardinality(Winners(s, q)) <= Cardinality(Configs)
         /\ Cardinality(Winners(s, q)) = 0 <=> Winners(s, q) = {}
<1>1. Winners(s, q) \in SUBSET Configs
  BY DEF Winners
<1>2. IsFiniteSet(Winners(s, q)) /\ Cardinality(Winners(s, q)) <= Cardinality(Configs)
  BY <1>1, ConfigsFinite, FS_Subset
<1>. QED BY <1>1, <1>2, FS_CardinalityType, FS_EmptySet

LEMMA WinShareType ==
  ASSUME NEW s, NEW c, NEW q
  PROVE  WinShare(s, c, q) \in 0..Scale
<1>1. CASE c \in Winners(s, q)
  <2>1. Cardinality(Winners(s, q)) \in Nat \ {0}
    BY <1>1, WinnersFacts
  <2>2. Scale \in 0..(Cardinality(Winners(s, q)) * Scale)
    <3>. DEFINE k == Cardinality(Winners(s, q))
    <3>1. k \in Nat \ {0}
      BY <2>1
    <3>. HIDE DEF k
    <3>2. k * Scale \in Nat /\ Scale <= k * Scale
      BY <3>1, ScoreIsNumber
    <3>. QED BY <3>2, ScoreIsNumber DEF k
  <2>3. Scale \div Cardinality(Winners(s, q)) \in 0..Scale
    BY <2>1, <2>2, ScoreIsNumber, DivBounds
  <2>. QED BY <1>1, <2>3 DEF WinShare
<1>2. CASE c \notin Winners(s, q)
  BY <1>2, ScoreIsNumber DEF WinShare
<1>. QED BY <1>1, <1>2

LEMMA WinRateIs ==
  ASSUME NEW s, Frame(s), QuestionsOf(s) # {}, NEW c
  PROVE  /\ WinRate(s, c) =
              SumFunctionOnSet([q \in QuestionsOf(s) |-> WinShare(s, c, q)], QuestionsOf(s))
                \div Cardinality(QuestionsOf(s))
         /\ WinRate(s, c) \in 0..Scale
<1>. DEFINE Q == QuestionsOf(s)
            f == [q \in Q |-> WinShare(s, c, q)]
<1>1. WinRate(s, c) = SumFunctionOnSet(f, Q) \div Cardinality(Q)
  BY DEF WinRate, SumFunction
<1>2. \A q \in Q : f[q] \in 0..Scale
  BY WinShareType
<1>3. IsFiniteSet(Q) /\ Cardinality(Q) \in Nat \ {0}
  BY QuestionsFinite
<1>. HIDE DEF Q, f
<1>4. SumFunctionOnSet(f, Q) \in 0..(Cardinality(Q) * Scale)
  BY <1>2, <1>3, ScoreIsNumber, SumBounds
<1>5. SumFunctionOnSet(f, Q) \div Cardinality(Q) \in 0..Scale
  BY <1>3, <1>4, ScoreIsNumber, DivBounds
<1>. QED BY <1>1, <1>5 DEF Q, f

LEMMA RankScoreIs ==
  ASSUME NEW s, NEW c
  PROVE  RankScore(s, c) =
           IF NaN \in {Median(s, c), FailureRate(s, c), WinRate(s, c), CriticalFailureRate(s, c)}
             THEN NaN
             ELSE 10 * Median(s, c) + 4 * (Scale - FailureRate(s, c)) + 3 * WinRate(s, c)
                    - 3 * CriticalFailureRate(s, c)
<1>. DEFINE inputs == <<Median(s, c), FailureRate(s, c), WinRate(s, c), CriticalFailureRate(s, c)>>
<1>1. ToSet(inputs) = {Median(s, c), FailureRate(s, c), WinRate(s, c), CriticalFailureRate(s, c)}
  BY DEF ToSet
<1>2. /\ inputs[1] = Median(s, c) /\ inputs[2] = FailureRate(s, c)
      /\ inputs[3] = WinRate(s, c) /\ inputs[4] = CriticalFailureRate(s, c)
  OBVIOUS
<1>. QED BY <1>1, <1>2 DEF RankScore

LEMMA RankScoreType ==
  ASSUME NEW s, Frame(s), QuestionsOf(s) # {}, NEW c
  PROVE  RankScore(s, c) \in Ranks
<1>. DEFINE m == Median(s, c)
            f == FailureRate(s, c)
            w == WinRate(s, c)
            k == CriticalFailureRate(s, c)
<1>1. /\ m \in 0..Scale \cup {NaN} /\ f \in 0..Scale \cup {NaN}
      /\ w \in 0..Scale /\ k \in 0..Scale \cup {NaN}
  BY MedianType, RatesType, WinRateIs
<1>2. RankScore(s, c) = IF NaN \in {m, f, w, k} THEN NaN
                        ELSE 10 * m + 4 * (Scale - f) + 3 * w - 3 * k
  BY RankScoreIs
<1>. HIDE DEF m, f, w, k
<1>3. CASE NaN \in {m, f, w, k}
  BY <1>2, <1>3 DEF Ranks
<1>4. CASE NaN \notin {m, f, w, k}
  <2>1. m \in 0..Scale /\ f \in 0..Scale /\ k \in 0..Scale
    BY <1>1, <1>4
  <2>2. 10 * m + 4 * (Scale - f) + 3 * w - 3 * k \in (-3 * Scale)..(17 * Scale)
    BY <1>1, <2>1, ScoreIsNumber
  <2>. QED BY <1>2, <1>4, <2>2 DEF Ranks
<1>. QED BY <1>3, <1>4

LEMMA AggregatesListed ==
  ASSUME NEW s, Frame(s)
  PROVE  AggregateAll(s) \in Seq(Aggregates) /\ ListsRows(AggregateAll(s), s)
<1>. DEFINE D == {i \in DOMAIN ConfigOrder : Group(s, ConfigOrder[i]) # {}}
            o == Ascending(D)
            n == Cardinality(D)
<1>1. DOMAIN ConfigOrder = 1..Len(ConfigOrder) /\ Len(ConfigOrder) \in Nat
  BY AnalysisAssumption
<1>2. D \in SUBSET Nat /\ IsFiniteSet(D)
  <2>1. IsFiniteSet(DOMAIN ConfigOrder)
    BY <1>1, FS_Interval
  <2>. QED BY <1>1, <2>1, FS_Subset
<1>3. /\ n \in Nat /\ DOMAIN o = 1..n /\ \A k \in 1..n : o[k] \in D
      /\ \A i \in D : \E k \in 1..n : o[k] = i
      /\ \A k, j \in 1..n : k < j => o[k] < o[j]
  <2>. HIDE DEF D
  <2>1. /\ n \in Nat /\ DOMAIN o = 1..n /\ \A k \in DOMAIN o : o[k] \in D
        /\ \A i \in D : \E k \in DOMAIN o : o[k] = i
        /\ \A k, j \in DOMAIN o : k < j => o[k] < o[j]
    BY <1>2, AscendingLists
  <2>. QED BY <2>1
<1>4. \A i \in D : Aggregate(s, ConfigOrder[i]) \in Aggregates
  <2>. TAKE i \in D
  <2>. DEFINE c == ConfigOrder[i]
  <2>1. c \in Configs /\ Group(s, c) # {}
    BY AnalysisAssumption
  <2>2. QuestionsOf(s) # {}
    BY <2>1 DEF Group, QuestionsOf
  <2>3. Cardinality(Valid(s, c)) \in Nat /\ Cardinality(Group(s, c) \ Valid(s, c)) \in Nat
    BY SetsOfFrame
  <2>4. RankScore(s, c) \in Ranks
    BY <2>2, RankScoreType
  <2>. QED BY <2>1, <2>3, <2>4 DEF Aggregate, Aggregates
<1>5. AggregateAll(s) = [k \in 1..n |-> Aggregate(s, ConfigOrder[o[k]])]
  BY <1>3 DEF AggregateAll
<1>. DEFINE l == AggregateAll(s)
            config(k) == ConfigOrder[o[k]]
<1>6. DOMAIN l = 1..n /\ \A k \in 1..n : l[k].config = config(k) /\ l[k].rank = RankScore(s, config(k))
  <2>. HIDE DEF D, o, n
  <2>1. l = [k \in 1..n |-> Aggregate(s, config(k))]
    BY <1>5
  <2>. HIDE DEF l, config
  <2>. QED BY <2>1 DEF Aggregate
<1>7. l \in Seq(Aggregates)
  <2>. HIDE DEF D, o, n
  <2>. QED BY <1>3, <1>4, <1>5
<1>. HIDE DEF l
<1>8. {l[k].config : k \in DOMAIN l} = {c \in Configs : Group(s, c) # {}}
  <2>1. \A k \in 1..n : config(k) \in Configs /\ Group(s, config(k)) # {}
    <3>1. \A i \in D : ConfigOrder[i] \in Configs /\ Group(s, ConfigOrder[i]) # {}
      BY AnalysisAssumption
    <3>. HIDE DEF D, o, n
    <3>. QED BY <1>3, <3>1
  <2>2. ASSUME NEW c \in Configs, Group(s, c) # {} PROVE \E k \in 1..n : config(k) = c
    <3>1. PICK i \in DOMAIN ConfigOrder : ConfigOrder[i] = c
      BY DEF Configs, ToSet
    <3>2. i \in D
      BY <2>2, <3>1
    <3>. HIDE DEF D, o, n
    <3>. QED BY <1>3, <3>1, <3>2
  <2>. HIDE DEF config, D, o, n
  <2>. QED BY <1>6, <2>1, <2>2
<1>9. ASSUME NEW k \in 1..n, NEW j \in 1..n, config(k) = config(j) PROVE k = j
  <2>1. o[k] = o[j] /\ o[k] \in Nat
    <3>1. o[k] \in D /\ o[j] \in D
      <4>. HIDE DEF D, o, n
      <4>. QED BY <1>3
    <3>2. o[k] \in DOMAIN ConfigOrder /\ o[j] \in DOMAIN ConfigOrder
      <4>. HIDE DEF o, n
      <4>. QED BY <3>1
    <3>. HIDE DEF D, o, n
    <3>. QED BY <1>1, <1>9, <3>2, AnalysisAssumption
  <2>. HIDE DEF D, o, n
  <2>2. ~(o[k] < o[j]) /\ ~(o[j] < o[k])
    BY <2>1
  <2>. QED BY <1>3, <2>2
<1>10. ListsRows(l, s)
  <2>. HIDE DEF config, D, o, n
  <2>. QED BY <1>6, <1>8, <1>9 DEF ListsRows
<1>. QED BY <1>7, <1>10 DEF l

(***************************************************************************)
(* The ranking, and the sort of the report on top of it.                   *)
(***************************************************************************)
LEMMA KeysAreNumbers ==
  ASSUME NEW a \in Aggregates
  PROVE  RankKey(a) \in Int /\ (a.rank # NaN <=> RankKey(a) > -100 * Scale)
<1>1. a.rank \in Ranks
  BY DEF Aggregates
<1>2. CASE a.rank = NaN
  BY <1>2, ScoreIsNumber DEF RankKey
<1>3. CASE a.rank # NaN
  <2>1. a.rank \in (-3 * Scale)..(17 * Scale)
    BY <1>1, <1>3 DEF Ranks
  <2>. QED BY <1>3, <2>1, ScoreIsNumber DEF RankKey
<1>. QED BY <1>2, <1>3

Places(l) == InOrder(DOMAIN l, Before(l))

\* The ranking of every list is a rearrangement of it by key, highest first,
\* that keeps the order of equal keys.
THEOREM RankingRearranges ==
  ASSUME NEW l \in Seq(Aggregates)
  PROVE  LET o == Places(l)
         IN  /\ Ranking(l) = [k \in DOMAIN l |-> l[o[k]]]
             /\ \A k \in DOMAIN l : o[k] \in DOMAIN l
             /\ \A i \in DOMAIN l : \E k \in DOMAIN l : o[k] = i
             /\ \A i, j \in DOMAIN l : i < j =>
                  \/ RankKey(l[o[i]]) > RankKey(l[o[j]])
                  \/ RankKey(l[o[i]]) = RankKey(l[o[j]]) /\ o[i] < o[j]
<1>. DEFINE D == DOMAIN l
            R == Before(l)
            o == InOrder(D, R)
            key(i) == RankKey(l[i])
<1>1. D = 1..Len(l) /\ Len(l) \in Nat /\ D \in SUBSET Nat
  OBVIOUS
<1>2. \A i \in D : l[i] \in Aggregates /\ key(i) \in Int
  BY KeysAreNumbers
<1>3. IsFiniteSet(D) /\ Cardinality(D) = Len(l)
  BY <1>1, FS_Interval
<1>4. \A i, j \in D : <<i, j>> \in R <=> (key(i) > key(j) \/ (key(i) = key(j) /\ i < j))
  BY DEF Before
<1>5. StrictTotalOrder(R, D)
  <2>. HIDE DEF R, key
  <2>1. \A i \in D : key(i) \in Int /\ i \in Nat
    BY <1>1, <1>2
  <2>. HIDE DEF D
  <2>. QED BY <2>1, <1>4 DEF StrictTotalOrder
<1>6. Places(l) = o /\ Ranking(l) = [k \in D |-> l[o[k]]]
  BY DEF Ranking, Places
<1>. HIDE DEF R, key
<1>7. /\ \A k \in D : o[k] \in D
      /\ \A i \in D : \E k \in D : o[k] = i
      /\ \A i, j \in D : i < j => <<o[i], o[j]>> \in R
  <2>. HIDE DEF D
  <2>1. /\ DOMAIN o = 1..Cardinality(D) /\ \A k \in DOMAIN o : o[k] \in D
        /\ \A i \in D : \E k \in DOMAIN o : o[k] = i
        /\ \A i, j \in DOMAIN o : i < j => <<o[i], o[j]>> \in R
    BY <1>3, <1>5, InOrderLists
  <2>2. DOMAIN o = D
    BY <1>1, <1>3, <2>1
  <2>. HIDE DEF o
  <2>. QED BY <2>1, <2>2
<1>. HIDE DEF o, D
<1>8. \A i, j \in D : i < j => key(o[i]) > key(o[j]) \/ (key(o[i]) = key(o[j]) /\ o[i] < o[j])
  BY <1>4, <1>7
<1>. QED BY <1>6, <1>7, <1>8 DEF key, D

LEMMA RankingRanks ==
  ASSUME NEW l \in Seq(Aggregates), l # <<>>
  PROVE  Ranking(l) \in Seq(Aggregates) /\ Ranked(Ranking(l))
<1>. DEFINE o == Places(l)
            r == Ranking(l)
<1>1. /\ r = [k \in DOMAIN l |-> l[o[k]]]
      /\ \A k \in DOMAIN l : o[k] \in DOMAIN l
      /\ \A i, j \in DOMAIN l : i < j =>
           RankKey(l[o[i]]) > RankKey(l[o[j]]) \/ RankKey(l[o[i]]) = RankKey(l[o[j]])
  BY RankingRearranges
<1>. HIDE DEF o, r
<1>2. r \in Seq(Aggregates) /\ r # <<>> /\ DOMAIN r = DOMAIN l
  BY <1>1
<1>3. ASSUME NEW i \in DOMAIN l, NEW j \in DOMAIN l, i < j
      PROVE  RankKey(r[i]) >= RankKey(r[j])
  <2>1. r[i] = l[o[i]] /\ r[j] = l[o[j]] /\ r[i] \in Aggregates /\ r[j] \in Aggregates
    BY <1>1, <1>2
  <2>2. RankKey(r[i]) \in Int /\ RankKey(r[j]) \in Int
    BY <2>1, KeysAreNumbers
  <2>3. RankKey(l[o[i]]) > RankKey(l[o[j]]) \/ RankKey(l[o[i]]) = RankKey(l[o[j]])
    BY <1>1, <1>3
  <2>4. RankKey(r[i]) > RankKey(r[j]) \/ RankKey(r[i]) = RankKey(r[j])
    BY <2>1, <2>3
  <2>. QED BY <2>2, <2>4
<1>4. Ranked(r)
  BY <1>2, <1>3 DEF Ranked
<1>. QED BY <1>2, <1>4 DEF r

LEMMA RankingListsRows ==
  ASSUME NEW s, NEW l \in Seq(Aggregates), ListsRows(l, s)
  PROVE  ListsRows(Ranking(l), s)
<1>. DEFINE o == Places(l)
            r == Ranking(l)
            D == DOMAIN l
<1>1. /\ r = [k \in D |-> l[o[k]]]
      /\ \A k \in D : o[k] \in D
      /\ \A i \in D : \E k \in D : o[k] = i
      /\ \A i, j \in D : i < j => l[o[i]] # l[o[j]] \/ o[i] < o[j]
  <2>. HIDE DEF o
  <2>1. \A i, j \in D : i < j =>
          \/ RankKey(l[o[i]]) > RankKey(l[o[j]])
          \/ RankKey(l[o[i]]) = RankKey(l[o[j]]) /\ o[i] < o[j]
    BY RankingRearranges DEF o
  <2>2. \A i \in D : RankKey(l[i]) \in Int
    BY KeysAreNumbers
  <2>3. r = [k \in D |-> l[o[k]]] /\ (\A k \in D : o[k] \in D) /\ \A i \in D : \E k \in D : o[k] = i
    BY RankingRearranges DEF o
  <2>. HIDE DEF D, r
  <2>4. ASSUME NEW i \in D, NEW j \in D, i < j PROVE l[o[i]] # l[o[j]] \/ o[i] < o[j]
    <3>1. o[j] \in D
      BY <2>3
    <3>2. RankKey(l[o[j]]) \in Int
      BY <2>2, <3>1
    <3>3. \/ RankKey(l[o[i]]) > RankKey(l[o[j]])
          \/ RankKey(l[o[i]]) = RankKey(l[o[j]]) /\ o[i] < o[j]
      BY <2>1, <2>4
    <3>4. l[o[i]] = l[o[j]] => ~(RankKey(l[o[i]]) > RankKey(l[o[j]]))
      BY <3>2
    <3>. QED BY <3>3, <3>4
  <2>. QED BY <2>3, <2>4
<1>2. \A i \in D : i \in Nat
  OBVIOUS
<1>. HIDE DEF o, r, D
<1>3. DOMAIN r = D /\ \A k \in D : r[k] = l[o[k]]
  BY <1>1
<1>4. {r[k].config : k \in D} = {l[k].config : k \in D}
  BY <1>1, <1>3
<1>5. ASSUME NEW i \in D, NEW j \in D, r[i].config = r[j].config PROVE i = j
  <2>1. o[i] = o[j]
    BY <1>1, <1>3, <1>5 DEF ListsRows, D
  <2>2. o[i] \in Nat
    BY <1>1, <1>2
  <2>3. ~(i < j) /\ ~(j < i)
    BY <1>1, <2>1, <2>2
  <2>. QED BY <1>2, <2>3
<1>6. \A k \in D : r[k].rank = RankScore(s, r[k].config)
  BY <1>1, <1>3 DEF ListsRows, D
<1>7. ListsRows(r, s)
  BY <1>3, <1>4, <1>5, <1>6 DEF ListsRows, D
<1>. QED BY <1>7 DEF r

LEMMA ReverseIs ==
  ASSUME NEW S, NEW l \in Seq(S)
  PROVE  /\ Reverse(l) \in Seq(S) /\ Len(Reverse(l)) = Len(l)
         /\ \A i \in 1..Len(l) : Reverse(l)[i] = l[Len(l) - i + 1]
         /\ Reverse(Reverse(l)) = l
<1>1. Len(Reverse(l)) = Len(l) /\ \A i \in 1..Len(l) : Reverse(l)[i] = l[Len(l) - i + 1]
  BY DEF Reverse
<1>2. \A i \in 1..Len(l) : Len(l) - i + 1 \in 1..Len(l)
  OBVIOUS
<1>3. Reverse(l) \in Seq(S)
  BY <1>2 DEF Reverse
<1>4. Reverse(Reverse(l)) = l
  BY <1>1 DEF Reverse
<1>. QED BY <1>1, <1>3, <1>4

LEMMA NothingInserted ==
  ASSUME NEW l
  PROVE  FoldLeft(InsertSorted, l, <<>>) = l
<1>. DEFINE Folds(h) == h = [s \in SUBSET (DOMAIN <<>>) |->
                              IF s = {} THEN l
                              ELSE InsertSorted(h[s \ {Max(s)}], <<>>[Max(s)])]
            z == [s \in SUBSET (DOMAIN <<>>) |-> l]
            g == CHOOSE h : Folds(h)
<1>1. FoldLeft(InsertSorted, l, <<>>) = g[DOMAIN <<>>]
  BY DEF FoldLeft, MapThenFoldSet
<1>2. DOMAIN <<>> = {}
  OBVIOUS
<1>3. Folds(z)
  <2>1. \A s \in SUBSET (DOMAIN <<>>) : s = {}
    BY <1>2
  <2>. QED BY <2>1
<1>4. Folds(g)
  <2>. HIDE DEF Folds, z
  <2>. QED BY <1>3
<1>5. g[{}] = l
  <2>. HIDE DEF g
  <2>. QED BY <1>2, <1>4
<1>. QED BY <1>1, <1>2, <1>5

\* A list no element of which is below the one before it is left as it is.
LEMMA SortedListKept ==
  ASSUME NEW S, NEW l \in Seq(S), l # <<>>,
         \A i \in 2..Len(l) : ~Less(l[i], l[i - 1])
  PROVE  ListSort(l) = l
<1>. DEFINE down == Len(l) > 1 /\ Less(l[2], l[1])
            fits == {n \in DOMAIN l : \A i \in 2..n : Less(l[i], l[i - 1]) <=> down}
            n == CHOOSE k \in fits : \A j \in fits : j <= k
<1>1. ~down
  BY Z3
<1>2. fits = DOMAIN l
  <2>1. \A m \in DOMAIN l : \A i \in 2..m : ~Less(l[i], l[i - 1])
    OBVIOUS
  <2>2. ASSUME NEW m \in DOMAIN l, NEW i \in 2..m PROVE Less(l[i], l[i - 1]) <=> down
    <3>1. ~Less(l[i], l[i - 1])
      BY <2>1
    <3>. HIDE DEF down
    <3>. QED BY <1>1, <3>1, Zenon
  <2>. HIDE DEF down
  <2>. QED BY <2>2, Zenon
<1>3. DOMAIN l = 1..Len(l) /\ Len(l) \in Nat \ {0}
  OBVIOUS
<1>4. n = Len(l)
  <2>. HIDE DEF fits
  <2>1. Len(l) \in fits /\ \A j \in fits : j <= Len(l) /\ j \in Nat
    BY <1>2, <1>3
  <2>. QED BY <2>1
<1>5. FirstRun(l) = SubSeq(l, 1, n)
  <2>1. FirstRun(l) = IF down THEN Reverse(SubSeq(l, 1, n)) ELSE SubSeq(l, 1, n)
    BY DEF FirstRun
  <2>. QED BY <1>1, <2>1
<1>. HIDE DEF n
<1>6. FirstRun(l) = l
  BY <1>3, <1>4, <1>5
<1>7. SubSeq(l, Len(l) + 1, Len(l)) = <<>>
  BY <1>3
<1>. QED BY <1>6, <1>7, NothingInserted DEF ListSort

LEMMA RankedListKept ==
  ASSUME NEW l \in Seq(Aggregates), Ranked(l)
  PROVE  SortedByRawRank(l) = l
<1>. DEFINE r == Reverse(l)
<1>1. r \in Seq(Aggregates) /\ Len(r) = Len(l) /\ Reverse(r) = l
  BY ReverseIs
<1>2. ASSUME NEW i \in 2..Len(l) PROVE ~Less(r[i], r[i - 1])
  <2>. DEFINE a == Len(l) - i + 1
              b == Len(l) - (i - 1) + 1
  <2>1. a \in DOMAIN l /\ b \in DOMAIN l /\ a < b /\ i \in 1..Len(l) /\ i - 1 \in 1..Len(l)
    OBVIOUS
  <2>2. r[i] = l[a] /\ r[i - 1] = l[b]
    BY <2>1, ReverseIs
  <2>3. RankKey(l[a]) >= RankKey(l[b]) /\ l[a] \in Aggregates /\ l[b] \in Aggregates
    BY <2>1 DEF Ranked
  <2>. HIDE DEF r, a, b
  <2>4. ~RawLess(l[a].rank, l[b].rank)
    <3>. SUFFICES ASSUME l[a].rank # NaN, l[b].rank # NaN, l[a].rank < l[b].rank PROVE FALSE
      BY DEF RawLess
    <3>1. RankKey(l[a]) = l[a].rank /\ RankKey(l[b]) = l[b].rank
      BY DEF RankKey
    <3>2. RankKey(l[a]) \in Int /\ RankKey(l[b]) \in Int
      BY <2>3, KeysAreNumbers
    <3>. QED BY <2>3, <3>1, <3>2
  <2>. QED BY <2>2, <2>4 DEF Less
<1>3. r # <<>>
  BY <1>1 DEF Ranked
<1>. HIDE DEF r
<1>4. ListSort(r) = r
  BY <1>1, <1>2, <1>3, SortedListKept
<1>. QED BY <1>1, <1>4 DEF SortedByRawRank, r

LEMMA FirstRankedIsBest ==
  ASSUME NEW l \in Seq(Aggregates), Ranked(l)
  PROVE  Best(Head(l), l)
<1>1. Head(l) = l[1] /\ 1 \in DOMAIN l
  BY DEF Ranked
<1>2. l[1] \in ToSet(l) /\ l[1] \in Aggregates
  BY <1>1 DEF ToSet
<1>3. ASSUME NEW b \in ToSet(l), b.rank # NaN
      PROVE  l[1].rank # NaN /\ l[1].rank >= b.rank
  <2>1. PICK j \in DOMAIN l : b = l[j]
    BY DEF ToSet
  <2>2. b \in Aggregates
    BY <2>1
  <2>3. RankKey(l[1]) >= RankKey(b)
    <3>1. CASE j = 1
      BY <2>1, <3>1, <1>2, KeysAreNumbers
    <3>2. CASE j # 1
      <4>1. 1 < j
        BY <3>2
      <4>. QED BY <1>1, <2>1, <4>1 DEF Ranked
    <3>. QED BY <3>1, <3>2
  <2>4. RankKey(b) \in Int /\ RankKey(l[1]) \in Int /\ RankKey(b) > -100 * Scale
    BY <1>2, <1>3, <2>2, KeysAreNumbers
  <2>5. l[1].rank # NaN
    <3>1. RankKey(l[1]) > -100 * Scale
      BY <2>3, <2>4, ScoreIsNumber
    <3>. QED BY <1>2, <3>1, KeysAreNumbers
  <2>6. RankKey(l[1]) = l[1].rank /\ RankKey(b) = b.rank
    BY <1>3, <2>5 DEF RankKey
  <2>. QED BY <2>3, <2>5, <2>6
<1>. QED BY <1>1, <1>2, <1>3 DEF Best
-----------------------------------------------------------------------------
(***************************************************************************)
(* The folds over a list, of `max` and of `list.sort`, are met element by  *)
(* element: their CHOOSE is.                                               *)
(***************************************************************************)
HigherOf(best, a) == IF Less(best, a) THEN a ELSE best
Step(how, sofar, a) == IF how = "max" THEN HigherOf(sofar, a) ELSE InsertSorted(sofar, a)

Picks(h, how, base, t, D) ==
  h = [s \in D |-> IF s = {} THEN base ELSE Step(how, h[s \ {Max(s)}], t[Max(s)])]

LEMMA MaxIsGreatest ==
  ASSUME NEW n \in Nat, NEW s \in SUBSET (1..n), s # {}
  PROVE  Max(s) \in s /\ \A m \in s : m <= Max(s)
<1>1. s \in SUBSET (0..n)
  OBVIOUS
<1>2. \E k \in s : \A m \in s : m <= k
  BY <1>1, GreatestNumber
<1>3. \E k \in s : \A m \in s : k >= m
  BY <1>2
<1>. QED BY <1>3 DEF Max

LEMMA LastTaken ==
  ASSUME NEW n \in Nat \ {0}
  PROVE  Max(1..n) = n /\ (1..n) \ {n} = 1..(n - 1)
<1>1. Max(1..n) \in 1..n /\ \A m \in 1..n : m <= Max(1..n)
  <2>1. 1..n # {}
    OBVIOUS
  <2>. QED BY <2>1, MaxIsGreatest
<1>2. n \in 1..n
  OBVIOUS
<1>3. n <= Max(1..n) /\ Max(1..n) <= n /\ Max(1..n) \in Int
  BY <1>1, <1>2
<1>. QED BY <1>3

LEMMA PicksExists ==
  ASSUME NEW how, NEW base, NEW t, NEW N \in Nat
  PROVE  \E h : Picks(h, how, base, t, SUBSET (1..N))
<1>. DEFINE Bad == {n \in Nat : ~ \E h : Picks(h, how, base, t, SUBSET (1..n))}
<1>1. SUFFICES ASSUME Bad # {} PROVE FALSE
  OBVIOUS
<1>2. PICK n \in Bad : \A m \in Bad : n <= m
  <2>. Bad \in SUBSET Nat
    OBVIOUS
  <2>. HIDE DEF Bad
  <2>. QED BY <1>1, LeastNumber
<1>3. n \in Nat
  OBVIOUS
<1>4. n # 0
  <2>. DEFINE z == [s \in SUBSET (1..0) |-> base]
  <2>1. \A s \in SUBSET (1..0) : s = {}
    OBVIOUS
  <2>2. z = [s \in SUBSET (1..0) |-> IF s = {} THEN base ELSE Step(how, z[s \ {Max(s)}], t[Max(s)])]
    BY <2>1
  <2>3. Picks(z, how, base, t, SUBSET (1..0))
    <3>. HIDE DEF z
    <3>. QED BY <2>2 DEF Picks
  <2>. QED BY <2>3
<1>5. PICK g : Picks(g, how, base, t, SUBSET (1..(n - 1)))
  <2>1. n - 1 \in Nat /\ ~(n <= n - 1)
    BY <1>3, <1>4
  <2>2. n - 1 \notin Bad
    <3>. HIDE DEF Bad
    <3>. QED BY <1>2, <2>1
  <2>. QED BY <2>1, <2>2
<1>6. \A s \in SUBSET (1..n) : s # {} => s \ {Max(s)} \in SUBSET (1..(n - 1))
  <2>. SUFFICES ASSUME NEW s \in SUBSET (1..n), s # {} PROVE s \ {Max(s)} \in SUBSET (1..(n - 1))
    OBVIOUS
  <2>1. Max(s) \in s /\ \A m \in s : m <= Max(s)
    BY <1>3, MaxIsGreatest
  <2>2. \A m \in s : m # n /\ m \in 1..n => m \in 1..(n - 1)
    BY <1>3
  <2>3. n \in s => Max(s) = n
    <3>1. Max(s) \in 1..n
      BY <2>1
    <3>2. n \in s => n <= Max(s)
      BY <2>1
    <3>. QED BY <1>3, <3>1, <3>2
  <2>. QED BY <2>1, <2>2, <2>3
<1>7. SUBSET (1..(n - 1)) \subseteq SUBSET (1..n)
  BY <1>3
<1>. DEFINE h == [s \in SUBSET (1..n) |-> IF s = {} THEN base ELSE Step(how, g[s \ {Max(s)}], t[Max(s)])]
<1>8. Picks(h, how, base, t, SUBSET (1..n))
  <2>. HIDE DEF Bad
  <2>1. g = [s \in SUBSET (1..(n - 1)) |-> IF s = {} THEN base ELSE Step(how, g[s \ {Max(s)}], t[Max(s)])]
    BY <1>5 DEF Picks
  <2>2. \A s \in SUBSET (1..(n - 1)) : h[s] = g[s]
    BY <1>7, <2>1
  <2>3. h = [s \in SUBSET (1..n) |-> IF s = {} THEN base ELSE Step(how, h[s \ {Max(s)}], t[Max(s)])]
    BY <1>6, <2>2
  <2>. HIDE DEF h
  <2>. QED BY <2>3 DEF Picks
<1>. QED BY <1>2, <1>8

\* A fold has made a step of each of the first elements.
LEMMA FoldSteps ==
  ASSUME NEW S, NEW t \in Seq(S), NEW how, NEW base, NEW g,
         Picks(g, how, base, t, SUBSET (DOMAIN t))
  PROVE  /\ DOMAIN t = 1..Len(t)
         /\ g[{}] = base
         /\ \A k \in 1..Len(t) : g[1..k] = Step(how, g[1..(k - 1)], t[k])
<1>. DEFINE N == Len(t)
<1>1. N \in Nat /\ DOMAIN t = 1..N
  OBVIOUS
<1>. HIDE DEF N
<1>2. \A s \in SUBSET (1..N) : g[s] = IF s = {} THEN base ELSE Step(how, g[s \ {Max(s)}], t[Max(s)])
  BY <1>1 DEF Picks
<1>3. g[{}] = base
  BY <1>2
<1>4. ASSUME NEW k \in 1..N PROVE g[1..k] = Step(how, g[1..(k - 1)], t[k])
  <2>1. 1..k \in SUBSET (1..N) /\ 1..k # {} /\ k \in Nat \ {0}
    <3>1. \A i \in 1..k : i \in 1..N
      BY <1>1
    <3>2. 1 \in 1..k
      OBVIOUS
    <3>3. k \in Nat \ {0}
      BY <1>1
    <3>. QED BY <3>1, <3>2, <3>3
  <2>2. Max(1..k) = k /\ (1..k) \ {k} = 1..(k - 1)
    BY <2>1, LastTaken
  <2>. QED BY <1>2, <2>1, <2>2
<1>. QED BY <1>1, <1>3, <1>4 DEF N

LEMMA BestSoFar ==
  ASSUME NEW S, NEW l \in Seq(S), l # <<>>
  PROVE  \E e : /\ MaxByRawRank(l) = e[Len(l) - 1]
                /\ e[0] = l[1]
                /\ \A k \in 1..(Len(l) - 1) : e[k] = HigherOf(e[k - 1], l[k + 1])
<1>. DEFINE t == Tail(l)
            P(h) == h = [s \in SUBSET (DOMAIN t) |->
                           IF s = {} THEN Head(l) ELSE HigherOf(h[s \ {Max(s)}], t[Max(s)])]
            g == CHOOSE h : P(h)
            N == Len(l) - 1
            e == [k \in 0..N |-> g[1..k]]
<1>1. /\ t \in Seq(S) /\ DOMAIN t = 1..Len(t) /\ Len(t) = N /\ N \in Nat
      /\ Head(l) = l[1] /\ \A k \in 1..N : t[k] = l[k + 1]
  OBVIOUS
<1>2. MaxByRawRank(l) = g[DOMAIN t]
  BY DEF MaxByRawRank, FoldLeft, MapThenFoldSet, HigherOf
<1>. HIDE DEF t, N
<1>3. \A h : P(h) <=> Picks(h, "max", Head(l), t, SUBSET (DOMAIN t))
  BY DEF Picks, Step
<1>4. Picks(g, "max", Head(l), t, SUBSET (DOMAIN t))
  <2>. HIDE DEF P
  <2>1. \E h : Picks(h, "max", Head(l), t, SUBSET (DOMAIN t))
    BY <1>1, PicksExists
  <2>. QED BY <1>3, <2>1
<1>. HIDE DEF g
<1>5. /\ g[{}] = Head(l)
      /\ \A k \in 1..N : g[1..k] = Step("max", g[1..(k - 1)], t[k])
  <2>. DEFINE base == Head(l)
  <2>. HIDE DEF P, base, e
  <2>1. t \in Seq(S) /\ Picks(g, "max", base, t, SUBSET (DOMAIN t))
    BY <1>1, <1>4 DEF base
  <2>2. g[{}] = base /\ \A k \in 1..Len(t) : g[1..k] = Step("max", g[1..(k - 1)], t[k])
    BY <2>1, FoldSteps
  <2>. QED BY <1>1, <2>2 DEF base
<1>6. \A k \in 1..N : g[1..k] = HigherOf(g[1..(k - 1)], l[k + 1])
  BY <1>1, <1>5 DEF Step
<1>7. e[0] = l[1] /\ e[N] = g[DOMAIN t]
  <2>1. 1..0 = {} /\ 0 \in 0..N /\ N \in 0..N
    BY <1>1
  <2>. QED BY <1>1, <1>5, <2>1
<1>8. ASSUME NEW k \in 1..N PROVE e[k] = HigherOf(e[k - 1], l[k + 1])
  <2>1. k \in 0..N /\ k - 1 \in 0..N
    BY <1>1
  <2>. QED BY <1>6, <2>1
<1>. HIDE DEF e
<1>. QED BY <1>2, <1>7, <1>8 DEF N

\* What `max` returns when the first element has a rank.
LEMMA MaxFollowsTheFirst ==
  ASSUME NEW l \in Seq(Aggregates), l # <<>>, l[1].rank # NaN
  PROVE  Best(MaxByRawRank(l), l)
<1>1. PICK e : /\ MaxByRawRank(l) = e[Len(l) - 1]
               /\ e[0] = l[1]
               /\ \A k \in 1..(Len(l) - 1) : e[k] = HigherOf(e[k - 1], l[k + 1])
  BY BestSoFar
<1>. DEFINE N == Len(l) - 1
            Good(k) == /\ e[k] \in ToSet(l) /\ e[k].rank # NaN
                       /\ \A i \in 1..(k + 1) : l[i].rank # NaN => e[k].rank >= l[i].rank
            Bad == {k \in 0..N : ~Good(k)}
<1>2. N \in Nat /\ DOMAIN l = 1..(N + 1)
  OBVIOUS
<1>3. \A b \in ToSet(l) : b \in Aggregates /\ (b.rank # NaN => b.rank \in Int)
  <2>1. \A b \in ToSet(l) : b \in Aggregates
    BY DEF ToSet
  <2>2. \A b \in Aggregates : b.rank # NaN => b.rank \in Int
    BY ScoreIsNumber DEF Aggregates, Ranks
  <2>. QED BY <2>1, <2>2
<1>4. \A i \in 1..(N + 1) : l[i] \in ToSet(l)
  BY <1>2 DEF ToSet
<1>5. Good(0)
  <2>1. \A i \in 1..(0 + 1) : i = 1
    OBVIOUS
  <2>2. l[1] \in ToSet(l) /\ l[1].rank \in Int
    BY <1>2, <1>3, <1>4
  <2>. QED BY <1>1, <2>1, <2>2
<1>6. ASSUME NEW k \in 1..N, Good(k - 1) PROVE Good(k)
  <2>. DEFINE b == e[k - 1]
              a == l[k + 1]
  <2>1. /\ b \in ToSet(l) /\ b.rank # NaN
        /\ \A i \in 1..k : l[i].rank # NaN => b.rank >= l[i].rank
    BY <1>6
  <2>2. a \in ToSet(l) /\ e[k] = IF Less(b, a) THEN a ELSE b
    BY <1>1, <1>2, <1>4 DEF HigherOf
  <2>3. \A i \in 1..(k + 1) : i \in 1..k \/ i = k + 1
    OBVIOUS
  <2>4. \A i \in 1..(k + 1) : l[i] \in ToSet(l)
    BY <1>2, <1>4
  <2>. HIDE DEF a, b
  <2>5. CASE Less(b, a)
    <3>1. e[k] = a /\ a.rank # NaN /\ b.rank < a.rank
      BY <2>2, <2>5 DEF Less, RawLess
    <3>2. a.rank \in Int /\ b.rank \in Int
      BY <1>3, <2>1, <2>2, <3>1
    <3>3. ASSUME NEW i \in 1..(k + 1), l[i].rank # NaN PROVE a.rank >= l[i].rank
      <4>1. l[i].rank \in Int
        BY <1>3, <2>4, <3>3
      <4>2. CASE i \in 1..k
        BY <2>1, <3>1, <3>2, <3>3, <4>1, <4>2
      <4>3. CASE i = k + 1
        BY <3>2, <4>3 DEF a
      <4>. QED BY <2>3, <4>2, <4>3
    <3>. QED BY <2>2, <3>1, <3>3
  <2>6. CASE ~Less(b, a)
    <3>1. e[k] = b /\ (a.rank # NaN => ~(b.rank < a.rank))
      BY <2>1, <2>2, <2>6 DEF Less, RawLess
    <3>2. b.rank \in Int
      BY <1>3, <2>1
    <3>3. ASSUME NEW i \in 1..(k + 1), l[i].rank # NaN PROVE b.rank >= l[i].rank
      <4>1. l[i].rank \in Int
        BY <1>3, <2>4, <3>3
      <4>2. CASE i \in 1..k
        BY <2>1, <3>3, <4>2
      <4>3. CASE i = k + 1
        BY <3>1, <3>2, <3>3, <4>1, <4>3 DEF a
      <4>. QED BY <2>3, <4>2, <4>3
    <3>. QED BY <2>1, <3>1, <3>3
  <2>. QED BY <2>5, <2>6
<1>7. Good(N)
  <2>. SUFFICES ASSUME ~Good(N) PROVE FALSE
    OBVIOUS
  <2>1. Bad \in SUBSET Nat /\ N \in Bad
    <3>. HIDE DEF Good
    <3>. QED BY <1>2
  <2>2. PICK k \in Bad : \A m \in Bad : k <= m
    <3>. HIDE DEF Bad
    <3>. QED BY <2>1, LeastNumber
  <2>. HIDE DEF Good
  <2>3. k \in 1..N /\ k - 1 \in 0..N
    BY <1>2, <1>5
  <2>4. Good(k - 1)
    BY <2>2, <2>3
  <2>. QED BY <1>6, <2>3, <2>4
<1>8. \A b \in ToSet(l) : \E i \in 1..(N + 1) : b = l[i]
  BY <1>2 DEF ToSet
<1>. QED BY <1>1, <1>7, <1>8 DEF Best
-----------------------------------------------------------------------------
(***************************************************************************)
(* list.sort of aggregates that all have a rank: the place of an element   *)
(* is found by halving, the first run and what is inserted stay in order.  *)
(***************************************************************************)
Numbered == {a \in Aggregates : a.rank # NaN}
Ordered(l) == \A i, j \in DOMAIN l : i <= j => l[i].rank <= l[j].rank

LEMMA NumberedRanks ==
  ASSUME NEW a \in Numbered
  PROVE  a.rank \in Int /\ a.rank # NaN
BY ScoreIsNumber DEF Numbered, Aggregates, Ranks

LEMMA NumberedLess ==
  ASSUME NEW a \in Numbered, NEW b \in Numbered
  PROVE  Less(a, b) <=> a.rank < b.rank
BY NumberedRanks DEF Less, RawLess

Windows(n) == (1..(n + 1)) \X (1..(n + 1))
Halves(p, l, x, D) ==
  p = [w \in D |->
         IF w[1] >= w[2] THEN w[1]
         ELSE LET mid == (w[1] + w[2]) \div 2
              IN  IF Less(x, l[mid]) THEN p[<<w[1], mid>>] ELSE p[<<mid + 1, w[2]>>]]

LEMMA Halfway ==
  ASSUME NEW N \in Nat, NEW w \in Windows(N), w[1] < w[2]
  PROVE  LET mid == (w[1] + w[2]) \div 2
         IN  /\ mid \in w[1]..(w[2] - 1) /\ mid \in 1..N
             /\ <<w[1], mid>> \in Windows(N) /\ <<mid + 1, w[2]>> \in Windows(N)
<1>. DEFINE a == w[1]
            b == w[2]
            mid == (a + b) \div 2
<1>1. a \in 1..(N + 1) /\ b \in 1..(N + 1) /\ a < b
  BY DEF Windows
<1>. HIDE DEF a, b
<1>2. mid \in a..(b - 1)
  BY <1>1
<1>. HIDE DEF mid
<1>3. mid \in 1..N /\ mid \in 1..(N + 1) /\ mid + 1 \in 1..(N + 1)
  BY <1>1, <1>2
<1>4. <<a, mid>> \in Windows(N) /\ <<mid + 1, b>> \in Windows(N)
  BY <1>1, <1>3 DEF Windows
<1>. QED BY <1>2, <1>3, <1>4 DEF a, b, mid

LEMMA HalvesExists ==
  ASSUME NEW l, NEW x, NEW N \in Nat
  PROVE  \E p : Halves(p, l, x, Windows(N))
<1>. DEFINE Narrow(n) == {w \in Windows(N) : w[2] - w[1] <= n}
            Bad == {n \in Nat : ~ \E p : Halves(p, l, x, Narrow(n))}
<1>0. \A w \in Windows(N) : w[1] \in 1..(N + 1) /\ w[2] \in 1..(N + 1)
  BY DEF Windows
<1>1. Narrow(N) = Windows(N)
  <2>1. \A w \in Windows(N) : w[2] - w[1] <= N
    BY <1>0
  <2>. QED BY <2>1
<1>2. SUFFICES ASSUME Bad # {} PROVE FALSE
  BY <1>1
<1>3. PICK n \in Bad : \A m \in Bad : n <= m
  <2>. Bad \in SUBSET Nat
    OBVIOUS
  <2>. HIDE DEF Bad
  <2>. QED BY <1>2, LeastNumber
<1>4. n \in Nat
  OBVIOUS
<1>5. n # 0
  <2>. DEFINE z == [w \in Narrow(0) |-> w[1]]
  <2>1. \A w \in Narrow(0) : w[1] >= w[2]
    BY <1>0
  <2>2. Halves(z, l, x, Narrow(0))
    <3>. HIDE DEF Narrow
    <3>. QED BY <2>1 DEF Halves
  <2>. QED BY <2>2
<1>6. PICK g : Halves(g, l, x, Narrow(n - 1))
  <2>1. n - 1 \in Nat /\ ~(n <= n - 1)
    BY <1>4, <1>5
  <2>2. n - 1 \notin Bad
    <3>. HIDE DEF Bad
    <3>. QED BY <1>3, <2>1
  <2>. QED BY <2>1, <2>2
<1>7. Narrow(n - 1) \subseteq Narrow(n)
  BY <1>0, <1>4
<1>8. ASSUME NEW w \in Narrow(n), ~(w[1] >= w[2])
      PROVE  LET mid == (w[1] + w[2]) \div 2
             IN  <<w[1], mid>> \in Narrow(n - 1) /\ <<mid + 1, w[2]>> \in Narrow(n - 1)
  <2>. DEFINE mid == (w[1] + w[2]) \div 2
  <2>1. w \in Windows(N) /\ w[1] < w[2] /\ w[1] \in Int /\ w[2] \in Int /\ w[2] - w[1] <= n
    BY <1>0, <1>8
  <2>2. /\ mid \in w[1]..(w[2] - 1)
        /\ <<w[1], mid>> \in Windows(N) /\ <<mid + 1, w[2]>> \in Windows(N)
    BY <2>1, Halfway
  <2>. HIDE DEF mid
  <2>3. mid - w[1] <= n - 1 /\ w[2] - (mid + 1) <= n - 1
    BY <1>4, <2>1, <2>2
  <2>4. <<w[1], mid>> \in Narrow(n - 1) /\ <<mid + 1, w[2]>> \in Narrow(n - 1)
    BY <2>2, <2>3
  <2>. QED BY <2>4 DEF mid
<1>. DEFINE h == [w \in Narrow(n) |->
                    IF w[1] >= w[2] THEN w[1]
                    ELSE LET mid == (w[1] + w[2]) \div 2
                         IN  IF Less(x, l[mid]) THEN g[<<w[1], mid>>] ELSE g[<<mid + 1, w[2]>>]]
<1>9. Halves(h, l, x, Narrow(n))
  <2>. HIDE DEF Narrow, Bad
  <2>1. \A w \in Narrow(n - 1) : h[w] = g[w]
    BY <1>6, <1>7 DEF Halves
  <2>2. ASSUME NEW w \in Narrow(n)
        PROVE  h[w] = IF w[1] >= w[2] THEN w[1]
                      ELSE LET mid == (w[1] + w[2]) \div 2
                           IN  IF Less(x, l[mid]) THEN h[<<w[1], mid>>] ELSE h[<<mid + 1, w[2]>>]
    BY <1>8, <2>1
  <2>3. h = [w \in Narrow(n) |-> h[w]]
    OBVIOUS
  <2>. HIDE DEF h
  <2>. QED BY <2>2, <2>3 DEF Halves
<1>. QED BY <1>3, <1>9

LEMMA HalvingFindsPlace ==
  ASSUME NEW l \in Seq(Numbered), NEW x \in Numbered, Ordered(l),
         NEW p, Halves(p, l, x, Windows(Len(l)))
  PROVE  /\ p[<<1, Len(l) + 1>>] \in 1..(Len(l) + 1)
         /\ \A i \in 1..Len(l) :
              /\ i < p[<<1, Len(l) + 1>>] => l[i].rank <= x.rank
              /\ i >= p[<<1, Len(l) + 1>>] => x.rank <= l[i].rank
<1>. DEFINE N == Len(l)
            Fits(a, b) == \A i \in 1..N : /\ i < a => l[i].rank <= x.rank
                                          /\ i >= b => x.rank <= l[i].rank
            Found(r) == r \in 1..(N + 1) /\ Fits(r, r)
            Lost(w) == w[1] <= w[2] /\ Fits(w[1], w[2]) /\ ~Found(p[w])
            Bad == {w[2] - w[1] : w \in {v \in Windows(N) : Lost(v)}}
<1>1. N \in Nat /\ DOMAIN l = 1..N
  OBVIOUS
<1>2. \A i \in 1..N : l[i] \in Numbered /\ l[i].rank \in Int
  <2>1. \A i \in 1..N : l[i] \in Numbered
    OBVIOUS
  <2>. QED BY <2>1, NumberedRanks
<1>3. x.rank \in Int
  BY NumberedRanks
<1>. HIDE DEF N
<1>4. \A i, j \in 1..N : i <= j => l[i].rank <= l[j].rank
  BY <1>1 DEF Ordered
<1>5. \A w \in Windows(N) : w[1] \in 1..(N + 1) /\ w[2] \in 1..(N + 1) /\ w = <<w[1], w[2]>>
  BY DEF Windows
<1>6. \A w \in Windows(N) :
        p[w] = IF w[1] >= w[2] THEN w[1]
               ELSE LET mid == (w[1] + w[2]) \div 2
                    IN  IF Less(x, l[mid]) THEN p[<<w[1], mid>>] ELSE p[<<mid + 1, w[2]>>]
  BY DEF Halves, N
<1>7. ASSUME NEW w \in Windows(N), Lost(w)
      PROVE  \E v \in Windows(N) : Lost(v) /\ v[2] - v[1] < w[2] - w[1]
  <2>. DEFINE a == w[1]
              b == w[2]
              mid == (a + b) \div 2
  <2>1. a \in 1..(N + 1) /\ b \in 1..(N + 1) /\ a <= b /\ Fits(a, b) /\ ~Found(p[w])
    BY <1>5, <1>7
  <2>2. a < b
    <3>. SUFFICES ASSUME a = b PROVE FALSE
      BY <2>1
    <3>1. p[w] = a
      BY <1>6, <2>1
    <3>. HIDE DEF Fits, a, b
    <3>2. Fits(a, a)
      BY <2>1
    <3>. QED BY <2>1, <3>1, <3>2
  <2>3. p[w] = IF Less(x, l[mid]) THEN p[<<a, mid>>] ELSE p[<<mid + 1, b>>]
    BY <1>6, <2>1, <2>2
  <2>4. /\ mid \in a..(b - 1) /\ mid \in 1..N
        /\ <<a, mid>> \in Windows(N) /\ <<mid + 1, b>> \in Windows(N)
    BY <1>1, <2>2, Halfway
  <2>. HIDE DEF a, b, mid
  <2>5. CASE Less(x, l[mid])
    <3>1. x.rank < l[mid].rank
      BY <1>2, <2>4, <2>5, NumberedLess
    <3>2. \A i \in 1..N : i >= mid => x.rank <= l[i].rank
      BY <1>2, <1>3, <1>4, <2>4, <3>1
    <3>3. Fits(a, mid)
      BY <2>1, <3>2
    <3>4. a <= mid /\ mid - a < b - a
      BY <2>1, <2>4
    <3>5. p[w] = p[<<a, mid>>]
      BY <2>3, <2>5
    <3>. HIDE DEF Fits, Found
    <3>6. Lost(<<a, mid>>)
      BY <2>1, <3>3, <3>4, <3>5
    <3>. HIDE DEF Lost
    <3>. QED BY <2>4, <3>4, <3>6 DEF a, b
  <2>6. CASE ~Less(x, l[mid])
    <3>1. l[mid].rank <= x.rank
      BY <1>2, <1>3, <2>4, <2>6, NumberedLess
    <3>2. \A i \in 1..N : i < mid + 1 => l[i].rank <= x.rank
      BY <1>2, <1>3, <1>4, <2>4, <3>1
    <3>3. Fits(mid + 1, b)
      BY <2>1, <3>2
    <3>4. mid + 1 <= b /\ b - (mid + 1) < b - a
      BY <2>1, <2>4
    <3>5. p[w] = p[<<mid + 1, b>>]
      BY <2>3, <2>6
    <3>. HIDE DEF Fits, Found
    <3>6. Lost(<<mid + 1, b>>)
      BY <2>1, <3>3, <3>4, <3>5
    <3>. HIDE DEF Lost
    <3>. QED BY <2>4, <3>4, <3>6 DEF a, b
  <2>. QED BY <2>5, <2>6
<1>8. Bad = {}
  <2>. SUFFICES ASSUME Bad # {} PROVE FALSE
    OBVIOUS
  <2>1. \A v \in Windows(N) : Lost(v) => v[2] - v[1] \in Nat
    BY <1>5
  <2>. HIDE DEF Lost
  <2>2. Bad \in SUBSET Nat
    BY <2>1
  <2>3. PICK n \in Bad : \A m \in Bad : n <= m
    <3>. HIDE DEF Bad
    <3>. QED BY <2>2, LeastNumber
  <2>4. PICK w \in Windows(N) : Lost(w) /\ n = w[2] - w[1]
    OBVIOUS
  <2>5. PICK v \in Windows(N) : Lost(v) /\ v[2] - v[1] < w[2] - w[1]
    BY <1>7, <2>4
  <2>6. v[2] - v[1] \in Bad
    BY <2>5
  <2>7. n <= v[2] - v[1] /\ n \in Nat /\ v[2] - v[1] \in Nat
    BY <2>1, <2>2, <2>3, <2>5, <2>6
  <2>. QED BY <2>4, <2>5, <2>7
<1>. DEFINE all == <<1, N + 1>>
<1>9. all \in Windows(N) /\ all[1] = 1 /\ all[2] = N + 1
  BY <1>1 DEF Windows
<1>10. Fits(1, N + 1)
  BY <1>1
<1>11. Found(p[all])
  <2>1. ~Lost(all)
    <3>. HIDE DEF Lost
    <3>. QED BY <1>8, <1>9
  <2>. HIDE DEF Fits, Found, all
  <2>. QED BY <1>1, <1>9, <1>10, <2>1
<1>. QED BY <1>11 DEF N

LEMMA InsertedAt ==
  ASSUME NEW S, NEW l \in Seq(S), NEW x \in S, NEW r \in 1..(Len(l) + 1)
  PROVE  /\ InsertAt(l, r, x) \in Seq(S) /\ Len(InsertAt(l, r, x)) = Len(l) + 1
         /\ \A i \in 1..(Len(l) + 1) :
              InsertAt(l, r, x)[i] = IF i < r THEN l[i] ELSE IF i = r THEN x ELSE l[i - 1]
<1>. DEFINE a == SubSeq(l, 1, r - 1)
            b == SubSeq(l, r, Len(l))
            N == Len(l)
<1>1. N \in Nat /\ r \in Nat /\ r >= 1 /\ r <= N + 1
  OBVIOUS
<1>2. a \in Seq(S) /\ Len(a) = r - 1 /\ \A i \in 1..(r - 1) : a[i] = l[i]
  OBVIOUS
<1>3. b \in Seq(S) /\ Len(b) = N - r + 1 /\ \A i \in 1..(N - r + 1) : b[i] = l[r + i - 1]
  OBVIOUS
<1>4. <<x>> \in Seq(S) /\ Len(<<x>>) = 1 /\ <<x>>[1] = x
  OBVIOUS
<1>5. InsertAt(l, r, x) = (a \o <<x>>) \o b
  BY DEF InsertAt
<1>. HIDE DEF a, b, N
<1>6. a \o <<x>> \in Seq(S) /\ Len(a \o <<x>>) = r
      /\ \A i \in 1..r : (a \o <<x>>)[i] = IF i < r THEN l[i] ELSE x
  BY <1>1, <1>2
<1>. DEFINE c == a \o <<x>>
<1>7. /\ c \in Seq(S) /\ Len(c) = r
      /\ \A i \in 1..r : c[i] = IF i < r THEN l[i] ELSE x
  BY <1>6
<1>. HIDE DEF c
<1>8. c \o b \in Seq(S) /\ Len(c \o b) = N + 1
  <2>1. c \o b \in Seq(S) /\ Len(c \o b) = Len(c) + Len(b)
    <3>1. b \in Seq(S) /\ c \in Seq(S)
      BY <1>3, <1>7
    <3>. QED BY <3>1
  <2>. QED BY <1>1, <1>3, <1>7, <2>1
<1>9. ASSUME NEW i \in 1..(N + 1)
      PROVE  (c \o b)[i] = IF i < r THEN l[i] ELSE IF i = r THEN x ELSE l[i - 1]
  <2>1. CASE i <= r
    BY <1>1, <1>3, <1>7, <2>1
  <2>2. CASE i > r
    <3>1. (c \o b)[i] = b[i - r] /\ i - r \in 1..(N - r + 1) /\ r + (i - r) - 1 = i - 1
      BY <1>1, <1>3, <1>7, <2>2
    <3>. QED BY <1>1, <1>3, <2>2, <3>1
  <2>3. i <= r \/ i > r
    BY <1>1
  <2>. QED BY <2>1, <2>2, <2>3, Zenon
<1>. QED BY <1>5, <1>8, <1>9 DEF c, N

\* What a halving insertion makes of a list in order.
LEMMA InsertionKeepsOrder ==
  ASSUME NEW l \in Seq(Numbered), NEW x \in Numbered, Ordered(l)
  PROVE  /\ InsertSorted(l, x) \in Seq(Numbered) /\ Len(InsertSorted(l, x)) = Len(l) + 1
         /\ Ordered(InsertSorted(l, x))
         /\ ToSet(InsertSorted(l, x)) = ToSet(l) \cup {x}
<1>. DEFINE N == Len(l)
            p == CHOOSE f : Halves(f, l, x, Windows(N))
            r == p[<<1, N + 1>>]
            m == InsertAt(l, r, x)
<1>1. N \in Nat /\ DOMAIN l = 1..N /\ \A i \in 1..N : l[i] \in Numbered
  OBVIOUS
<1>2. InsertSorted(l, x) = m
  BY DEF InsertSorted, Halves, Windows
<1>. HIDE DEF N
<1>3. Halves(p, l, x, Windows(N))
  BY <1>1, HalvesExists
<1>. HIDE DEF p
<1>4. /\ r \in 1..(N + 1)
      /\ \A i \in 1..N : /\ i < r => l[i].rank <= x.rank
                         /\ i >= r => x.rank <= l[i].rank
  BY <1>3, HalvingFindsPlace DEF N
<1>. HIDE DEF r
<1>5. /\ m \in Seq(Numbered) /\ Len(m) = N + 1
      /\ \A i \in 1..(N + 1) : m[i] = IF i < r THEN l[i] ELSE IF i = r THEN x ELSE l[i - 1]
  BY <1>4, InsertedAt DEF N
<1>6. DOMAIN m = 1..(N + 1)
  BY <1>5
<1>. HIDE DEF m
<1>7. x.rank \in Int /\ \A i \in 1..N : l[i].rank \in Int
  BY <1>1, NumberedRanks
<1>8. ASSUME NEW i \in 1..(N + 1), NEW j \in 1..(N + 1), i <= j
      PROVE  m[i].rank <= m[j].rank
  <2>1. \A a, b \in 1..N : a <= b => l[a].rank <= l[b].rank
    BY <1>1 DEF Ordered
  <2>2. r \in 1..(N + 1) /\ N \in Nat
    BY <1>1, <1>4
  <2>3. CASE j < r
    <3>1. m[i] = l[i] /\ m[j] = l[j] /\ i \in 1..N /\ j \in 1..N
      BY <1>5, <1>8, <2>2, <2>3
    <3>. QED BY <1>8, <2>1, <3>1
  <2>4. CASE j = r
    <3>1. m[j] = x
      BY <1>5, <2>4
    <3>2. CASE i = r
      BY <1>7, <2>4, <3>1, <3>2
    <3>3. CASE i < r
      <4>1. m[i] = l[i] /\ i \in 1..N
        BY <1>5, <2>2, <3>3
      <4>. QED BY <1>4, <3>1, <3>3, <4>1
    <3>. QED BY <1>8, <2>2, <2>4, <3>2, <3>3
  <2>5. CASE j > r
    <3>1. m[j] = l[j - 1] /\ j - 1 \in 1..N /\ j - 1 >= r
      BY <1>5, <2>2, <2>5
    <3>2. x.rank <= l[j - 1].rank
      BY <1>4, <3>1
    <3>3. CASE i < r
      <4>1. m[i] = l[i] /\ i \in 1..N
        BY <1>5, <2>2, <3>3
      <4>2. i <= j - 1
        BY <3>1, <3>3, <2>2
      <4>. QED BY <2>1, <3>1, <4>1, <4>2
    <3>4. CASE i = r
      <4>1. m[i] = x
        BY <1>5, <3>4
      <4>. QED BY <3>1, <3>2, <4>1
    <3>5. CASE i > r
      <4>1. m[i] = l[i - 1] /\ i - 1 \in 1..N
        BY <1>5, <2>2, <3>5
      <4>2. i - 1 <= j - 1
        BY <1>8
      <4>. QED BY <2>1, <3>1, <4>1, <4>2
    <3>. QED BY <2>2, <3>3, <3>4, <3>5
  <2>. QED BY <2>2, <2>3, <2>4, <2>5
<1>9. Ordered(m)
  BY <1>6, <1>8 DEF Ordered
<1>10. ToSet(m) = ToSet(l) \cup {x}
  <2>1. ToSet(m) = {m[i] : i \in 1..(N + 1)} /\ ToSet(l) = {l[i] : i \in 1..N}
    BY <1>1, <1>6 DEF ToSet
  <2>2. ASSUME NEW i \in 1..(N + 1) PROVE m[i] \in {l[k] : k \in 1..N} \cup {x}
    <3>1. CASE i < r
      <4>1. m[i] = l[i] /\ i \in 1..N
        BY <1>1, <1>4, <1>5, <3>1
      <4>. QED BY <4>1
    <3>2. CASE i = r
      BY <1>5, <3>2
    <3>3. CASE i > r
      <4>1. m[i] = l[i - 1] /\ i - 1 \in 1..N
        BY <1>1, <1>4, <1>5, <3>3
      <4>. QED BY <4>1
    <3>. QED BY <1>1, <1>4, <3>1, <3>2, <3>3
  <2>3. ASSUME NEW k \in 1..N PROVE l[k] \in {m[i] : i \in 1..(N + 1)}
    <3>1. CASE k < r
      <4>1. k \in 1..(N + 1) /\ m[k] = l[k]
        BY <1>1, <1>5, <3>1
      <4>. QED BY <4>1
    <3>2. CASE k >= r
      <4>1. k + 1 \in 1..(N + 1) /\ ~(k + 1 < r) /\ k + 1 # r /\ (k + 1) - 1 = k
        BY <1>1, <1>4, <3>2
      <4>2. m[k + 1] = l[k]
        BY <1>5, <4>1
      <4>. QED BY <4>1, <4>2
    <3>. QED BY <1>1, <1>4, <3>1, <3>2
  <2>4. x \in {m[i] : i \in 1..(N + 1)}
    <3>1. m[r] = x
      BY <1>4, <1>5
    <3>. QED BY <1>4, <3>1
  <2>. QED BY <2>1, <2>2, <2>3, <2>4
<1>. QED BY <1>2, <1>5, <1>9, <1>10 DEF N

LEMMA NeighboursOrder ==
  ASSUME NEW l \in Seq(Numbered), \A i \in 2..Len(l) : l[i - 1].rank <= l[i].rank
  PROVE  Ordered(l)
<1>. SUFFICES ASSUME NEW i \in 1..Len(l), NEW k \in 1..Len(l), i <= k, ~(l[i].rank <= l[k].rank)
              PROVE  FALSE
  BY DEF Ordered
<1>. DEFINE Bad == {j \in 1..Len(l) : i <= j /\ ~(l[i].rank <= l[j].rank)}
<1>1. Bad \in SUBSET Nat /\ Bad # {}
  OBVIOUS
<1>2. PICK j \in Bad : \A m \in Bad : j <= m
  <2>. HIDE DEF Bad
  <2>. QED BY <1>1, LeastNumber
<1>3. \A m \in 1..Len(l) : l[m].rank \in Int
  <2>1. \A m \in 1..Len(l) : l[m] \in Numbered
    OBVIOUS
  <2>. QED BY <2>1, NumberedRanks
<1>4. j # i
  BY <1>3
<1>5. j \in 2..Len(l) /\ j - 1 \in 1..Len(l) /\ i <= j - 1
  BY <1>4
<1>6. j - 1 \notin Bad
  <2>1. ~(j <= j - 1)
    BY <1>5
  <2>. HIDE DEF Bad
  <2>. QED BY <1>2, <2>1
<1>7. l[i].rank <= l[j - 1].rank /\ l[j - 1].rank <= l[j].rank
  BY <1>5, <1>6
<1>8. ~(l[i].rank <= l[j].rank)
  OBVIOUS
<1>. QED BY <1>3, <1>5, <1>7, <1>8

LEMMA ReverseSet ==
  ASSUME NEW S, NEW l \in Seq(S)
  PROVE  ToSet(Reverse(l)) = ToSet(l)
<1>. DEFINE r == Reverse(l)
            N == Len(l)
<1>1. N \in Nat /\ DOMAIN l = 1..N
  OBVIOUS
<1>2. r \in Seq(S) /\ Len(r) = N /\ \A i \in 1..N : r[i] = l[N - i + 1]
  BY ReverseIs
<1>. HIDE DEF r, N
<1>3. \A i \in 1..N : N - i + 1 \in 1..N /\ N - (N - i + 1) + 1 = i
  BY <1>1
<1>4. DOMAIN r = 1..N
  BY <1>2
<1>5. ToSet(r) = ToSet(l)
  BY <1>1, <1>2, <1>3, <1>4 DEF ToSet
<1>. QED BY <1>5 DEF r

LEMMA FirstRunOrdered ==
  ASSUME NEW l \in Seq(Numbered), l # <<>>
  PROVE  \E n \in 1..Len(l) :
           /\ FirstRun(l) \in Seq(Numbered) /\ Len(FirstRun(l)) = n
           /\ Ordered(FirstRun(l))
           /\ ToSet(FirstRun(l)) = {l[i] : i \in 1..n}
<1>. DEFINE N == Len(l)
            down == Len(l) > 1 /\ Less(l[2], l[1])
            fits == {n \in DOMAIN l : \A i \in 2..n : Less(l[i], l[i - 1]) <=> down}
            n == CHOOSE k \in fits : \A j \in fits : j <= k
            run == SubSeq(l, 1, n)
<1>1. N \in Nat \ {0} /\ DOMAIN l = 1..N /\ \A i \in 1..N : l[i] \in Numbered
  OBVIOUS
<1>2. FirstRun(l) = IF down THEN Reverse(run) ELSE run
  BY DEF FirstRun
<1>. HIDE DEF N, down
<1>3. n \in fits
  <2>1. 1 \in fits
    <3>1. \A i \in 2..1 : FALSE
      OBVIOUS
    <3>. QED BY <1>1, <3>1
  <2>2. fits \in SUBSET (0..N) /\ fits # {}
    <3>1. \A i \in 1..N : i \in 0..N
      BY <1>1
    <3>. QED BY <1>1, <2>1, <3>1
  <2>. HIDE DEF fits
  <2>3. \E k \in fits : \A j \in fits : j <= k
    BY <1>1, <2>2, GreatestNumber
  <2>. QED BY <2>3
<1>4. n \in 1..N /\ \A i \in 2..n : Less(l[i], l[i - 1]) <=> down
  BY <1>1, <1>3
<1>. HIDE DEF n
<1>5. run \in Seq(Numbered) /\ Len(run) = n /\ \A i \in 1..n : run[i] = l[i]
  BY <1>1, <1>4 DEF N
<1>6. DOMAIN run = 1..n
  BY <1>5
<1>. HIDE DEF run
<1>7. \A i \in 1..n : run[i] \in Numbered /\ run[i].rank \in Int
  <2>1. \A i \in 1..n : run[i] \in Numbered
    BY <1>5
  <2>. QED BY <2>1, NumberedRanks
<1>8. \A i \in 2..n : i \in 1..n /\ i - 1 \in 1..n /\ (run[i].rank < run[i - 1].rank <=> down)
  <2>. TAKE i \in 2..n
  <2>1. i \in 1..n /\ i - 1 \in 1..n
    BY <1>1, <1>4
  <2>2. Less(run[i], run[i - 1]) <=> down
    BY <1>4, <1>5, <2>1
  <2>. QED BY <1>7, <2>1, <2>2, NumberedLess
<1>9. ToSet(run) = {l[i] : i \in 1..n}
  BY <1>5, <1>6 DEF ToSet
<1>10. CASE ~down
  <2>1. \A i \in 2..n : run[i - 1].rank <= run[i].rank
    BY <1>7, <1>8, <1>10
  <2>2. Ordered(run)
    BY <1>5, <2>1, NeighboursOrder
  <2>. QED BY <1>2, <1>4, <1>5, <1>9, <1>10, <2>2 DEF N
<1>11. CASE down
  <2>. DEFINE r == Reverse(run)
  <2>1. r \in Seq(Numbered) /\ Len(r) = n /\ \A i \in 1..n : r[i] = run[n - i + 1]
    BY <1>5, ReverseIs
  <2>2. DOMAIN r = 1..n /\ n \in Nat
    BY <1>1, <1>4, <2>1
  <2>. HIDE DEF r
  <2>3. ASSUME NEW i \in 2..n PROVE r[i - 1].rank <= r[i].rank
    <3>. DEFINE k == n - i + 2
    <3>1. k \in 2..n /\ i \in 1..n /\ i - 1 \in 1..n /\ n - i + 1 = k - 1 /\ n - (i - 1) + 1 = k
      BY <2>2
    <3>2. r[i] = run[k - 1] /\ r[i - 1] = run[k]
      BY <2>1, <3>1
    <3>. HIDE DEF k
    <3>3. run[k].rank < run[k - 1].rank
      BY <1>8, <1>11, <3>1
    <3>4. run[k].rank \in Int /\ run[k - 1].rank \in Int
      BY <1>7, <1>8, <3>1
    <3>. QED BY <3>2, <3>3, <3>4
  <2>4. Ordered(r)
    BY <2>1, <2>3, NeighboursOrder
  <2>5. ToSet(r) = ToSet(run)
    BY <1>5, ReverseSet DEF r
  <2>6. FirstRun(l) = r
    BY <1>2, <1>11 DEF r
  <2>. QED BY <1>4, <1>9, <2>1, <2>4, <2>5, <2>6 DEF N
<1>. QED BY <1>10, <1>11

\* What the insertions have made of the first run.
Inserted(base, t) == FoldLeft(InsertSorted, base, t)
Inserts(e, base, t) ==
  /\ Inserted(base, t) = e[Len(t)]
  /\ e[0] = base
  /\ \A k \in 1..Len(t) : e[k] = InsertSorted(e[k - 1], t[k])

LEMMA InsertedSoFar ==
  ASSUME NEW t \in Seq(Numbered), NEW base
  PROVE  \E e : Inserts(e, base, t)
<1>. DEFINE P(h) == h = [s \in SUBSET (DOMAIN t) |->
                           IF s = {} THEN base ELSE InsertSorted(h[s \ {Max(s)}], t[Max(s)])]
            g == CHOOSE h : P(h)
            N == Len(t)
            e == [k \in 0..N |-> g[1..k]]
<1>1. DOMAIN t = 1..N /\ N \in Nat
  OBVIOUS
<1>2. Inserted(base, t) = g[DOMAIN t]
  BY DEF Inserted, FoldLeft, MapThenFoldSet
<1>. HIDE DEF N
<1>3. \A h : P(h) <=> Picks(h, "sort", base, t, SUBSET (DOMAIN t))
  BY DEF Picks, Step
<1>4. Picks(g, "sort", base, t, SUBSET (DOMAIN t))
  <2>. HIDE DEF P
  <2>1. \E h : Picks(h, "sort", base, t, SUBSET (DOMAIN t))
    BY <1>1, PicksExists
  <2>. QED BY <1>3, <2>1
<1>. HIDE DEF g
<1>5. /\ g[{}] = base
      /\ \A k \in 1..N : g[1..k] = Step("sort", g[1..(k - 1)], t[k])
  <2>. HIDE DEF P, e
  <2>. QED BY <1>4, FoldSteps DEF N
<1>6. \A k \in 1..N : g[1..k] = InsertSorted(g[1..(k - 1)], t[k])
  BY <1>5 DEF Step
<1>7. e[0] = base /\ e[N] = g[DOMAIN t]
  <2>1. 1..0 = {} /\ 0 \in 0..N /\ N \in 0..N
    BY <1>1
  <2>. QED BY <1>1, <1>5, <2>1
<1>8. ASSUME NEW k \in 1..N PROVE e[k] = InsertSorted(e[k - 1], t[k])
  <2>1. k \in 0..N /\ k - 1 \in 0..N
    BY <1>1
  <2>. QED BY <1>6, <2>1
<1>. HIDE DEF e
<1>9. Inserts(e, base, t)
  BY <1>2, <1>7, <1>8 DEF N, Inserts
<1>. QED BY <1>9

\* list.sort returns every list of aggregates that have a rank in the order of
\* their ranks, with its length and its elements.
THEOREM ListSorts ==
  ASSUME NEW l \in Seq(Numbered), l # <<>>
  PROVE  /\ ListSort(l) \in Seq(Numbered) /\ Len(ListSort(l)) = Len(l)
         /\ Ordered(ListSort(l))
         /\ ToSet(ListSort(l)) = ToSet(l)
<1>. DEFINE N == Len(l)
            f == FirstRun(l)
<1>1. PICK n \in 1..N : /\ f \in Seq(Numbered) /\ Len(f) = n /\ Ordered(f)
                        /\ ToSet(f) = {l[i] : i \in 1..n}
  BY FirstRunOrdered
<1>. DEFINE t == SubSeq(l, n + 1, N)
<1>2. ListSort(l) = Inserted(f, t)
  BY <1>1 DEF ListSort, Inserted
<1>3. N \in Nat \ {0} /\ DOMAIN l = 1..N /\ \A i \in 1..N : l[i] \in Numbered
  OBVIOUS
<1>4. t \in Seq(Numbered) /\ Len(t) = N - n /\ \A k \in 1..(N - n) : t[k] = l[n + k]
  <2>1. n \in 1..N
    OBVIOUS
  <2>2. t \in Seq(Numbered)
    BY <1>3, <2>1
  <2>3. Len(t) = N - n
    <3>0. N \in Nat /\ n \in Nat /\ n <= N
      BY <1>3, <2>1
    <3>1. N - (n + 1) + 1 = N - n /\ (n + 1 <= N \/ N - n = 0)
      <4>. HIDE DEF N
      <4>. QED BY <3>0
    <3>2. Len(t) = IF n + 1 <= N THEN N - (n + 1) + 1 ELSE 0
      BY <1>3, <2>1
    <3>. QED BY <1>3, <2>1, <3>1, <3>2
  <2>4. ASSUME NEW k \in 1..(N - n) PROVE t[k] = l[n + k]
    <3>1. k \in 1..(N - (n + 1) + 1) /\ (n + 1) + k - 1 = n + k
      BY <1>3, <2>1
    <3>. QED BY <1>3, <2>1, <3>1
  <2>. QED BY <2>2, <2>3, <2>4
<1>. HIDE DEF f, t, N
<1>5. PICK e : Inserts(e, f, t)
  <2>1. t \in Seq(Numbered)
    BY <1>4
  <2>. QED BY <2>1, InsertedSoFar
<1>. DEFINE Good(k) == /\ e[k] \in Seq(Numbered) /\ Len(e[k]) = n + k /\ Ordered(e[k])
                       /\ ToSet(e[k]) = {l[i] : i \in 1..(n + k)}
            Bad == {k \in 0..(N - n) : ~Good(k)}
<1>6. n \in 1..N /\ N - n \in Nat
  BY <1>3
<1>7. Good(0)
  BY <1>1, <1>5, <1>6 DEF Inserts
<1>8. ASSUME NEW k \in 1..(N - n), Good(k - 1) PROVE Good(k)
  <2>1. e[k] = InsertSorted(e[k - 1], l[n + k]) /\ l[n + k] \in Numbered
    BY <1>3, <1>4, <1>5, <1>6 DEF Inserts
  <2>2. /\ e[k] \in Seq(Numbered) /\ Len(e[k]) = (n + (k - 1)) + 1 /\ Ordered(e[k])
        /\ ToSet(e[k]) = {l[i] : i \in 1..(n + (k - 1))} \cup {l[n + k]}
    BY <1>8, <2>1, InsertionKeepsOrder
  <2>3. (n + (k - 1)) + 1 = n + k /\ 1..(n + k) = 1..(n + (k - 1)) \cup {n + k}
    BY <1>6
  <2>4. ToSet(e[k]) = {l[i] : i \in 1..(n + k)}
    BY <2>2, <2>3
  <2>. QED BY <2>2, <2>3, <2>4
<1>9. Good(N - n)
  <2>. SUFFICES ASSUME ~Good(N - n) PROVE FALSE
    OBVIOUS
  <2>. HIDE DEF Good
  <2>1. Bad \in SUBSET Nat /\ Bad # {}
    BY <1>6
  <2>2. PICK k \in Bad : \A m \in Bad : k <= m
    <3>. HIDE DEF Bad
    <3>. QED BY <2>1, LeastNumber
  <2>3. k \in 1..(N - n) /\ k - 1 \in 0..(N - n)
    BY <1>6, <1>7
  <2>4. Good(k - 1)
    BY <2>2, <2>3
  <2>. QED BY <1>8, <2>3, <2>4
<1>10. n + (N - n) = N /\ ToSet(l) = {l[i] : i \in 1..N}
  BY <1>3, <1>6 DEF ToSet
<1>. QED BY <1>2, <1>4, <1>5, <1>9, <1>10 DEF N, Inserts

\* When all have a rank, the first of the sorted aggregates is the best.
LEMMA SortedHeadIsBest ==
  ASSUME NEW l \in Seq(Aggregates), l # <<>>, \A i \in DOMAIN l : l[i].rank # NaN
  PROVE  Best(Head(SortedByRawRank(l)), l)
<1>. DEFINE r == Reverse(l)
            s == ListSort(r)
            N == Len(l)
<1>1. l \in Seq(Numbered) /\ N \in Nat \ {0} /\ DOMAIN l = 1..N
  <2>1. \A i \in DOMAIN l : l[i] \in Numbered
    BY DEF Numbered
  <2>. QED BY <2>1
<1>2. r \in Seq(Numbered) /\ Len(r) = N /\ \A i \in 1..N : r[i] = l[N - i + 1]
  BY <1>1, ReverseIs
<1>3. ToSet(r) = ToSet(l)
  BY <1>1, ReverseSet
<1>. HIDE DEF r, N
<1>4. s \in Seq(Numbered) /\ Len(s) = N /\ Ordered(s) /\ ToSet(s) = ToSet(r)
  <2>1. r # <<>>
    BY <1>1, <1>2
  <2>. QED BY <1>2, <2>1, ListSorts
<1>5. DOMAIN s = 1..N /\ N \in 1..N
  BY <1>1, <1>4
<1>. HIDE DEF s
<1>6. Head(Reverse(s)) = s[N]
  <2>1. Reverse(s) \in Seq(Numbered) /\ Len(Reverse(s)) = N /\ Reverse(s)[1] = s[N - 1 + 1]
    BY <1>1, <1>4, ReverseIs
  <2>2. Head(Reverse(s)) = Reverse(s)[1] /\ N - 1 + 1 = N
    BY <1>1, <2>1
  <2>. QED BY <2>1, <2>2
<1>7. s[N] \in ToSet(l) /\ s[N].rank # NaN
  <2>1. s[N] \in Numbered /\ s[N] \in ToSet(s)
    BY <1>4, <1>5 DEF ToSet
  <2>. QED BY <1>3, <1>4, <2>1, NumberedRanks
<1>8. ASSUME NEW b \in ToSet(l) PROVE s[N].rank >= b.rank
  <2>1. PICK j \in 1..N : b = s[j]
    BY <1>3, <1>4, <1>5 DEF ToSet
  <2>2. j <= N /\ s[j] \in Numbered /\ s[N] \in Numbered
    BY <1>1, <1>4, <1>5
  <2>3. s[j].rank <= s[N].rank
    BY <1>4, <1>5, <2>2 DEF Ordered
  <2>. QED BY <2>1, <2>2, <2>3, NumberedRanks
<1>. QED BY <1>6, <1>7, <1>8 DEF SortedByRawRank, Best, r, s

(***************************************************************************)
(* The correction for multiple tests.                                      *)
(***************************************************************************)
LEMMA ScaledBack ==
  ASSUME NEW v \in Nat, NEW m \in Nat, NEW r \in 1..m
  PROVE  (v * m) \div r \in Nat /\ (v * m) \div r >= v
<1>1. (v * m) \div r >= v
  OBVIOUS
<1>. QED BY <1>1

LEMMA PlaceFacts ==
  ASSUME NEW p \in Seq(Nat), \A j \in DOMAIN p : p[j] <= One
  PROVE  /\ \A j \in DOMAIN p : PlaceOf(p, j) \in 1..Len(p)
         /\ \A i, j \in DOMAIN p : PlaceOf(p, i) <= PlaceOf(p, j) => p[i] <= p[j]
<1>. DEFINE D == DOMAIN p
            upto(j) == {k \in D : p[k] < p[j] \/ (p[k] = p[j] /\ k <= j)}
<1>1. D = 1..Len(p) /\ Len(p) \in Nat /\ \A j \in D : p[j] \in Nat /\ j \in Nat
  <2>1. D = 1..Len(p) /\ Len(p) \in Nat
    OBVIOUS
  <2>2. \A j \in D : p[j] \in Nat
    OBVIOUS
  <2>. QED BY <2>1, <2>2
<1>2. IsFiniteSet(D) /\ Cardinality(D) = Len(p)
  <2>1. 1 \in Int /\ Len(p) \in Int /\ Len(p) >= 0
    BY <1>1
  <2>2. IsFiniteSet(1..Len(p)) /\ Cardinality(1..Len(p)) = IF 1 > Len(p) THEN 0 ELSE Len(p) - 1 + 1
    BY <2>1, FS_Interval
  <2>. QED BY <1>1, <2>1, <2>2
<1>3. \A j \in D : PlaceOf(p, j) = Cardinality(upto(j))
  BY DEF PlaceOf
<1>4. \A j \in D : upto(j) \in SUBSET D /\ j \in upto(j)
  BY <1>1
<1>. HIDE DEF D
<1>5. \A j \in D : /\ IsFiniteSet(upto(j)) /\ Cardinality(upto(j)) \in Nat
                   /\ Cardinality(upto(j)) <= Len(p) /\ Cardinality(upto(j)) # 0
  <2>. TAKE j \in D
  <2>1. upto(j) \in SUBSET D /\ upto(j) # {}
    BY <1>4
  <2>. HIDE DEF upto
  <2>2. IsFiniteSet(upto(j)) /\ Cardinality(upto(j)) <= Len(p)
    BY <1>2, <2>1, FS_Subset
  <2>. QED BY <2>1, <2>2, FS_CardinalityType, FS_EmptySet
<1>6. ASSUME NEW i \in D, NEW j \in D, p[j] < p[i]
      PROVE  Cardinality(upto(j)) < Cardinality(upto(i))
  <2>1. upto(j) \in SUBSET upto(i) /\ i \in upto(i) /\ i \notin upto(j)
    <3>1. \A k \in D : k \in upto(j) => p[k] < p[i]
      BY <1>1, <1>6
    <3>. QED BY <1>1, <1>6, <3>1
  <2>. HIDE DEF upto
  <2>2. /\ Cardinality(upto(j)) <= Cardinality(upto(i))
        /\ Cardinality(upto(i)) = Cardinality(upto(j)) => upto(i) = upto(j)
    BY <1>5, <2>1, FS_Subset
  <2>3. Cardinality(upto(i)) # Cardinality(upto(j))
    BY <2>1, <2>2
  <2>4. Cardinality(upto(i)) \in Nat /\ Cardinality(upto(j)) \in Nat
    BY <1>5
  <2>. QED BY <2>2, <2>3, <2>4
<1>7. \A j \in D : PlaceOf(p, j) \in 1..Len(p)
  <2>. TAKE j \in D
  <2>. HIDE DEF upto
  <2>1. Cardinality(upto(j)) \in Nat /\ Cardinality(upto(j)) <= Len(p) /\ Cardinality(upto(j)) # 0
    BY <1>5
  <2>. QED BY <1>1, <1>3, <2>1
<1>8. ASSUME NEW i \in D, NEW j \in D, PlaceOf(p, i) <= PlaceOf(p, j) PROVE p[i] <= p[j]
  <2>. SUFFICES ASSUME p[j] < p[i] PROVE FALSE
    BY <1>1
  <2>1. PlaceOf(p, j) < PlaceOf(p, i)
    BY <1>3, <1>6
  <2>2. PlaceOf(p, i) \in Int /\ PlaceOf(p, j) \in Int
    BY <1>1, <1>7
  <2>. QED BY <1>8, <2>1, <2>2
<1>. QED BY <1>7, <1>8 DEF D

LEMMA AdjustedFacts ==
  ASSUME NEW p \in Seq(Nat), \A j \in DOMAIN p : p[j] <= One
  PROVE  LET a == AdjustBH(p)
         IN  /\ DOMAIN a = DOMAIN p
             /\ \A i \in DOMAIN p : a[i] \in Nat /\ a[i] >= p[i]
             /\ \A i, j \in DOMAIN p : p[i] <= p[j] => a[i] <= a[j]
<1>. DEFINE a == AdjustBH(p)
            D == DOMAIN p
            value(j) == (p[j] * Len(p)) \div PlaceOf(p, j)
            S(i) == {One} \cup {value(j) : j \in Later(p, i)}
<1>1. DOMAIN a = D /\ \A i \in D : a[i] = Min(S(i))
  BY DEF AdjustBH
<1>2. \A j \in D : /\ p[j] \in Nat /\ p[j] <= One /\ PlaceOf(p, j) \in Nat \ {0}
                   /\ PlaceOf(p, j) <= Len(p)
  <2>. TAKE j \in D
  <2>2. p[j] \in Nat /\ p[j] <= One
    OBVIOUS
  <2>3. PlaceOf(p, j) \in 1..Len(p) /\ Len(p) \in Nat
    BY PlaceFacts
  <2>. QED BY <2>2, <2>3
<1>3. Len(p) \in Nat /\ One \in Nat
  BY DEF One
<1>4. \A j \in D : value(j) \in Nat /\ value(j) >= p[j]
  <2>. TAKE j \in D
  <2>. DEFINE r == PlaceOf(p, j)
              m == Len(p)
              v == p[j]
  <2>1. v \in Nat /\ m \in Nat /\ r \in 1..m
    BY <1>2, <1>3
  <2>. HIDE DEF r, m, v
  <2>2. (v * m) \div r \in Nat /\ (v * m) \div r >= v
    BY ONLY <2>1, ScaledBack
  <2>. QED BY <2>2 DEF r, m, v
<1>5. \A i \in D : Later(p, i) \in SUBSET D /\ i \in Later(p, i)
  BY <1>2 DEF Later
<1>6. \A i \in D : S(i) \in SUBSET Nat /\ S(i) # {}
  <2>. HIDE DEF value
  <2>. QED BY <1>3, <1>4, <1>5
<1>7. \A i \in D : a[i] \in S(i) /\ a[i] \in Nat /\ \A e \in S(i) : a[i] <= e
  <2>. HIDE DEF S, a
  <2>. QED BY <1>1, <1>6, MinIsLeast
<1>8. ASSUME NEW i \in D PROVE a[i] \in Nat /\ a[i] >= p[i]
  <2>1. \A j \in Later(p, i) : value(j) >= p[i]
    <3>. TAKE j \in Later(p, i)
    <3>1. j \in D /\ PlaceOf(p, i) <= PlaceOf(p, j)
      BY <1>2, <1>5 DEF Later
    <3>2. p[i] <= p[j]
      BY <3>1, PlaceFacts
    <3>3. value(j) \in Nat /\ value(j) >= p[j] /\ p[j] \in Nat /\ p[i] \in Nat
      BY <1>2, <1>4, <3>1
    <3>. HIDE DEF value
    <3>. QED BY <3>2, <3>3
  <2>2. \A e \in S(i) : e >= p[i]
    <3>. HIDE DEF value
    <3>. QED BY <1>2, <1>3, <2>1
  <2>. HIDE DEF S, a
  <2>. QED BY <1>7, <2>2
<1>9. ASSUME NEW i \in D, NEW j \in D, p[i] <= p[j] PROVE a[i] <= a[j]
  <2>1. ASSUME NEW e \in Later(p, j) PROVE a[i] <= value(e)
    <3>0. e \in D /\ PlaceOf(p, j) <= PlaceOf(p, e)
      BY <1>2, <1>5 DEF Later
    <3>1. CASE PlaceOf(p, i) <= PlaceOf(p, e)
      <4>1. e \in Later(p, i)
        BY <1>2, <3>0, <3>1 DEF Later
      <4>2. value(e) \in S(i)
        BY <4>1
      <4>. HIDE DEF S, value, a
      <4>. QED BY <1>7, <4>2
    <3>2. CASE ~(PlaceOf(p, i) <= PlaceOf(p, e))
      <4>1. PlaceOf(p, e) <= PlaceOf(p, i)
        BY <1>2, <3>0, <3>2
      <4>2. p[j] <= p[e] /\ p[e] <= p[i]
        BY <3>0, <4>1, PlaceFacts
      <4>3. p[e] = p[i]
        BY <1>2, <1>9, <3>0, <4>2
      <4>. DEFINE r == PlaceOf(p, i)
                  q == PlaceOf(p, e)
                  n == p[i] * Len(p)
      <4>4. r \in Nat \ {0} /\ q \in Nat \ {0} /\ q <= r /\ n \in Nat
        BY <1>2, <1>3, <3>0, <4>1
      <4>5. value(e) = n \div q /\ value(i) = n \div r
        BY <4>3
      <4>6. n \div r <= n \div q /\ n \div r \in Nat /\ n \div q \in Nat
        <5>. HIDE DEF r, q, n
        <5>. QED BY <4>4
      <4>7. value(i) \in S(i)
        BY <1>5
      <4>. HIDE DEF r, q, n, value, S, a
      <4>8. a[i] \in Nat /\ a[i] <= value(i)
        BY <1>7, <4>7
      <4>. QED BY <4>5, <4>6, <4>8
    <3>. QED BY <3>1, <3>2
  <2>2. \A e \in S(j) : a[i] <= e
    <3>1. a[i] <= One
      <4>1. One \in S(i)
        OBVIOUS
      <4>. HIDE DEF S, a
      <4>. QED BY <1>7, <4>1
    <3>. HIDE DEF value, a
    <3>. QED BY <2>1, <3>1
  <2>. HIDE DEF S, a
  <2>. QED BY <1>7, <2>2
<1>. QED BY <1>1, <1>8, <1>9

LEMMA CorrectFacts ==
  ASSUME NEW n \in Nat, NEW p, DOMAIN p = 1..n,
         \A i \in 1..n : p[i] # NaN => p[i] \in Nat /\ p[i] <= One
  PROVE  LET c == Correct(p)
         IN  \A i, j \in DOMAIN p :
               /\ p[i] = NaN <=> c[i] = NaN
               /\ p[i] # NaN => c[i] >= p[i]
               /\ NaN \notin {p[i], p[j]} /\ p[i] <= p[j] => c[i] <= c[j]
<1>. DEFINE N == {i \in DOMAIN p : p[i] # NaN}
            at == Positions(p)
            q == [k \in DOMAIN at |-> p[at[k]]]
            a == AdjustBH(q)
            c == Correct(p)
            k(i) == CHOOSE e \in DOMAIN at : at[e] = i
<1>1. N \in SUBSET Nat /\ IsFiniteSet(N)
  <2>1. IsFiniteSet(DOMAIN p)
    BY FS_Interval
  <2>. QED BY <2>1, FS_Subset
<1>2. at = Ascending(N)
  BY DEF Positions
<1>. HIDE DEF at
<1>3. /\ Cardinality(N) \in Nat /\ DOMAIN at = 1..Cardinality(N)
      /\ \A e \in DOMAIN at : at[e] \in N
      /\ \A i \in N : \E e \in DOMAIN at : at[e] = i
  <2>. HIDE DEF N
  <2>. QED BY <1>1, <1>2, AscendingLists
<1>4. q \in Seq(Nat) /\ DOMAIN q = DOMAIN at /\ \A e \in DOMAIN q : q[e] <= One
  <2>1. \A e \in 1..Cardinality(N) : p[at[e]] \in Nat /\ p[at[e]] <= One
    BY <1>3
  <2>2. q = [e \in 1..Cardinality(N) |-> p[at[e]]]
    BY <1>3
  <2>. HIDE DEF N, q
  <2>3. q \in [1..Cardinality(N) -> Nat]
    BY <2>1, <2>2
  <2>4. q \in Seq(Nat)
    BY <1>3, <2>3
  <2>. QED BY <1>3, <2>1, <2>2, <2>4
<1>. HIDE DEF q
<1>5. /\ \A e \in DOMAIN at : a[e] \in Nat /\ a[e] >= q[e]
      /\ \A e, f \in DOMAIN at : q[e] <= q[f] => a[e] <= a[f]
  BY <1>4, AdjustedFacts
<1>6. \A i \in DOMAIN p : c[i] = IF p[i] = NaN THEN NaN ELSE a[k(i)]
  BY DEF Correct, at, q
<1>. HIDE DEF a, c
<1>7. \A i \in N : k(i) \in DOMAIN at /\ q[k(i)] = p[i]
  <2>. TAKE i \in N
  <2>1. k(i) \in DOMAIN at /\ at[k(i)] = i
    BY <1>3
  <2>. HIDE DEF k
  <2>. QED BY <2>1 DEF q
<1>. HIDE DEF k
<1>8. ASSUME NEW i \in N PROVE c[i] \in Nat /\ c[i] # NaN /\ c[i] >= p[i]
  BY <1>5, <1>6, <1>7, ScoreIsNumber
<1>9. ASSUME NEW i \in N, NEW j \in N, p[i] <= p[j] PROVE c[i] <= c[j]
  BY <1>5, <1>6, <1>7, <1>9
<1>10. \A i \in DOMAIN p : p[i] = NaN => c[i] = NaN
  BY <1>6
<1>. QED BY <1>8, <1>9, <1>10 DEF c

LEMMA TestsCorrected ==
  ASSUME NEW s, NEW r \in Tests(s)
  PROVE  /\ DOMAIN r.p = 1..2 /\ r.corrected = Correct(r.p)
         /\ \A i \in 1..2 : r.p[i] # NaN => r.p[i] \in Nat /\ r.p[i] <= One
<1>1. \A v \in PValues : v \in 0..100
  BY AnalysisAssumption
<1>2. \A v \in WilcoxonP(s) \cup FriedmanP(s) : v # NaN => v \in Nat /\ v <= One
  BY <1>1 DEF WilcoxonP, FriedmanP, One
<1>3. PICK w \in WilcoxonP(s), f \in FriedmanP(s) :
        r.p = <<w, f>> /\ r.corrected = Correct(<<w, f>>)
  BY DEF Tests, StatsReports
<1>4. DOMAIN <<w, f>> = 1..2 /\ <<w, f>>[1] = w /\ <<w, f>>[2] = f
  OBVIOUS
<1>. QED BY <1>2, <1>3, <1>4
-----------------------------------------------------------------------------
(***************************************************************************)
(* The inductive invariant: one lemma for every part an action can         *)
(* disturb.                                                                *)
(***************************************************************************)
LEMMA InitEstablishes == Init => IInv
<1>. SUFFICES ASSUME Init PROVE IInv
  OBVIOUS
<1>1. Frame(rows)
  BY AnalysisAssumption DEF Init, Frame
<1>2. Frame(frame)
  <2>1. frame = <<>> /\ DOMAIN <<>> = {} /\ <<>> \in [{} -> Row]
    BY DEF Init
  <2>. QED BY <2>1 DEF Frame
<1>3. TypeOK
  <2>1. <<>> \in Seq(Aggregates)
    OBVIOUS
  <2>2. 0 \in 0..MaxWrites
    BY AnalysisAssumption
  <2>. QED BY <1>1, <1>2, <2>1, <2>2 DEF Init, TypeOK
<1>4. ShownBestIsBest
  BY DEF Init, Nothing, ShownBestIsBest, ReportMarksTheBest, StatusFollowsTheFirst, SummaryNamesTheBest
<1>5. CorrectionFollowsTests
  <2>1. DOMAIN stats.p = {}
    BY DEF Init, NoStats
  <2>. QED BY <2>1 DEF CorrectionFollowsTests
<1>. QED BY <1>3, <1>4, <1>5 DEF IInv, Init

\* What a command has shown stays true as long as it and its table are kept.
LEMMA ShownKept ==
  ASSUME IInv, UNCHANGED <<table, shown>>
  PROVE  ShownBestIsBest'
BY DEF IInv, ShownBestIsBest, ReportMarksTheBest, StatusFollowsTheFirst, SummaryNamesTheBest, Best

LEMMA NothingShown ==
  ASSUME shown' = Nothing
  PROVE  ShownBestIsBest'
BY DEF Nothing, ShownBestIsBest, ReportMarksTheBest, StatusFollowsTheFirst, SummaryNamesTheBest

LEMMA RowWritten ==
  ASSUME IInv, NEW x \in DOMAIN rows, NEW r \in Row, Write(x, r)
  PROVE  IInv'
<1>1. Frame(rows') /\ UNCHANGED <<stage, frame, table, stats, shown>> /\ stage # "shown"
  BY DEF Write, Writable, IInv, TypeOK, Frame
<1>2. writes' \in 0..MaxWrites
  BY AnalysisAssumption DEF Write, Writable, IInv, TypeOK
<1>. QED BY <1>1, <1>2, ShownKept DEF IInv, TypeOK, CorrectionFollowsTests, Ranked

LEMMA JudgeKeeps ==
  ASSUME IInv, NEW x \in DOMAIN rows, Judge(x)
  PROVE  IInv'
<1>1. PICK v \in Levels : Write(x, [rows[x] EXCEPT !.rubric = v])
  BY DEF Judge
<1>2. rows[x] \in Row
  BY DEF IInv, TypeOK, Frame
<1>3. [rows[x] EXCEPT !.rubric = v] \in Row
  BY <1>2 DEF Row
<1>. QED BY <1>1, <1>3, RowWritten

LEMMA AnnotateKeeps ==
  ASSUME IInv, NEW x \in DOMAIN rows, Annotate(x)
  PROVE  IInv'
<1>1. PICK f \in {0, 1} : Write(x, [rows[x] EXCEPT !.flag = f])
  BY DEF Annotate
<1>2. rows[x] \in Row
  BY DEF IInv, TypeOK, Frame
<1>3. [rows[x] EXCEPT !.flag = f] \in Row
  BY <1>2 DEF Row
<1>. QED BY <1>1, <1>3, RowWritten

LEMMA ReportLoadKeeps ==
  ASSUME IInv, ReportLoad
  PROVE  IInv'
<1>1. Frame(frame')
  BY LoadIsFrame DEF ReportLoad, IInv, TypeOK
<1>2. UNCHANGED <<table, shown>>
  BY DEF ReportLoad
<1>. QED BY <1>1, <1>2, ShownKept DEF ReportLoad, IInv, TypeOK, CorrectionFollowsTests

LEMMA ReportAggregateKeeps ==
  ASSUME IInv, ReportAggregate
  PROVE  IInv'
<1>. DEFINE aggs == AggregateAll(Load(rows, {Run}, {"A"}))
<1>1. aggs \in Seq(Aggregates)
  BY LoadIsFrame, AggregatesListed DEF IInv, TypeOK
<1>2. stage = "loaded"
  BY DEF ReportAggregate
<1>3. CASE aggs = <<>>
  <2>1. Show([by |-> "traceback"]) /\ UNCHANGED <<frame, table, stats>>
    BY <1>3 DEF ReportAggregate
  <2>2. writes' \in 0..MaxWrites
    BY <2>1, AnalysisAssumption DEF Show
  <2>3. ShownBestIsBest'
    BY <2>1 DEF Show, ShownBestIsBest, ReportMarksTheBest, StatusFollowsTheFirst, SummaryNamesTheBest
  <2>. QED BY <2>1, <2>2, <2>3 DEF Show, IInv, TypeOK, CorrectionFollowsTests
<1>4. CASE aggs # <<>>
  <2>1. stage' = "aggregated" /\ table' = Ranking(aggs) /\ UNCHANGED <<rows, frame, stats, shown, writes>>
    BY <1>4 DEF ReportAggregate
  <2>. HIDE DEF aggs
  <2>2. table' \in Seq(Aggregates) /\ Ranked(table')
    BY <1>1, <1>4, <2>1, RankingRanks
  <2>3. shown' = Nothing
    BY <1>2, <2>1 DEF IInv
  <2>4. ShownBestIsBest'
    BY <2>3, NothingShown
  <2>5. Ranked(table)'
    BY <2>2 DEF Ranked, RankKey
  <2>. QED BY <2>1, <2>2, <2>3, <2>4, <2>5 DEF IInv, TypeOK, CorrectionFollowsTests
<1>. QED BY <1>3, <1>4

LEMMA ReportShowKeeps ==
  ASSUME IInv, ReportShow
  PROVE  IInv'
<1>1. /\ stage = "aggregated" /\ stage' = "shown" /\ writes' = 0
      /\ shown' = [by |-> "report", best |-> Head(SortedByRawRank(table)),
                   questions |-> Cardinality(QuestionsOf(frame))]
      /\ UNCHANGED <<rows, frame, table, stats>>
  BY DEF ReportShow, Show
<1>2. table \in Seq(Aggregates) /\ Ranked(table)
  BY <1>1 DEF IInv, TypeOK
<1>3. shown'.best = Head(table)
  BY <1>1, <1>2, RankedListKept
<1>4. Best(shown.best, table)'
  <2>1. Best(Head(table), table)
    BY <1>2, FirstRankedIsBest
  <2>. QED BY <1>1, <1>3, <2>1 DEF Best
<1>5. 0 \in 0..MaxWrites
  BY AnalysisAssumption
<1>6. ShownBestIsBest'
  BY <1>1, <1>4 DEF ShownBestIsBest, ReportMarksTheBest, StatusFollowsTheFirst, SummaryNamesTheBest
<1>. QED BY <1>1, <1>5, <1>6 DEF IInv, TypeOK, CorrectionFollowsTests

\* A command other than `report` that shows what it has read.
LEMMA ShowKeeps ==
  ASSUME IInv, NEW what, what.by # "report", Show(what), UNCHANGED frame,
         (table \in Seq(Aggregates))', CorrectionFollowsTests',
         StatusFollowsTheFirst', SummaryNamesTheBest'
  PROVE  IInv'
<1>1. 0 \in 0..MaxWrites
  BY AnalysisAssumption
<1>2. ShownBestIsBest'
  BY DEF Show, ShownBestIsBest, ReportMarksTheBest
<1>. QED BY <1>1, <1>2 DEF Show, IInv, TypeOK

\* ... and names no configuration.
LEMMA VerdictKeeps ==
  ASSUME IInv, NEW what, what.by \notin {"report", "status", "summary"}, Show(what),
         UNCHANGED <<frame, table>>, CorrectionFollowsTests'
  PROVE  IInv'
<1>1. (table \in Seq(Aggregates))'
  BY DEF IInv, TypeOK
<1>2. StatusFollowsTheFirst' /\ SummaryNamesTheBest'
  BY DEF Show, StatusFollowsTheFirst, SummaryNamesTheBest
<1>. QED BY <1>1, <1>2, ShowKeeps

LEMMA StatusKeeps ==
  ASSUME IInv, Status
  PROVE  IInv'
<1>. DEFINE aggs == AggregateAll(Load(rows, {Run}, AllPhases))
            best == IF aggs = <<>> THEN Nothing ELSE MaxByRawRank(aggs)
            what == [by |-> "status", best |-> best]
<1>1. aggs \in Seq(Aggregates)
  BY LoadIsFrame, AggregatesListed DEF IInv, TypeOK
<1>2. table' = aggs /\ Show(what) /\ UNCHANGED <<frame, stats>>
  BY DEF Status
<1>3. CorrectionFollowsTests'
  BY <1>2 DEF IInv, CorrectionFollowsTests
<1>. HIDE DEF aggs
<1>4. aggs # <<>> /\ aggs[1].rank # NaN => Best(best, aggs)
  BY <1>1, MaxFollowsTheFirst
<1>. HIDE DEF best
<1>5. what.by = "status" /\ what.best = best /\ shown' = what
  BY <1>2 DEF Show
<1>. HIDE DEF what
<1>6. StatusFollowsTheFirst' /\ SummaryNamesTheBest'
  BY <1>2, <1>4, <1>5 DEF StatusFollowsTheFirst, SummaryNamesTheBest, Best
<1>. QED BY <1>1, <1>2, <1>3, <1>5, <1>6, ShowKeeps

LEMMA SummaryKeeps ==
  ASSUME IInv, Summary
  PROVE  IInv'
<1>. DEFINE aggs == AggregateAll(Load(rows, AllRuns, AllPhases))
            best == Head(SortedByRawRank(aggs))
            what == [by |-> "summary", best |-> best]
<1>1. aggs \in Seq(Aggregates)
  BY LoadIsFrame, AggregatesListed DEF IInv, TypeOK
<1>2. aggs # <<>> /\ table' = aggs /\ Show(what) /\ UNCHANGED <<frame, stats>>
  BY DEF Summary
<1>3. CorrectionFollowsTests'
  BY <1>2 DEF IInv, CorrectionFollowsTests
<1>. HIDE DEF aggs
<1>4. (\A i \in DOMAIN aggs : aggs[i].rank # NaN) => Best(best, aggs)
  BY <1>1, <1>2, SortedHeadIsBest
<1>. HIDE DEF best
<1>5. what.by = "summary" /\ what.best = best /\ shown' = what
  BY <1>2 DEF Show
<1>. HIDE DEF what
<1>6. StatusFollowsTheFirst' /\ SummaryNamesTheBest'
  BY <1>2, <1>4, <1>5 DEF StatusFollowsTheFirst, SummaryNamesTheBest, Best
<1>. QED BY <1>1, <1>2, <1>3, <1>5, <1>6, ShowKeeps

LEMMA AnalyzeKeeps ==
  ASSUME IInv, Analyze
  PROVE  IInv'
<1>1. UNCHANGED <<frame, table>>
  BY DEF Analyze
<1>2. CASE /\ stats' \in Tests(Load(rows, {Run}, {"A"}))
           /\ Show([by |-> "analyze"])
  <2>1. /\ DOMAIN stats'.p = 1..2 /\ stats'.corrected = Correct(stats'.p)
        /\ \A i \in 1..2 : stats'.p[i] # NaN => stats'.p[i] \in Nat /\ stats'.p[i] <= One
    BY <1>2, TestsCorrected
  <2>. DEFINE p == stats'.p
  <2>. HIDE DEF p
  <2>2. \A i, j \in DOMAIN p :
          /\ p[i] = NaN <=> Correct(p)[i] = NaN
          /\ p[i] # NaN => Correct(p)[i] >= p[i]
          /\ NaN \notin {p[i], p[j]} /\ p[i] <= p[j] => Correct(p)[i] <= Correct(p)[j]
    <3>1. /\ 2 \in Nat /\ DOMAIN p = 1..2
          /\ \A i \in 1..2 : p[i] # NaN => p[i] \in Nat /\ p[i] <= One
      BY <2>1 DEF p
    <3>. QED BY <3>1, CorrectFacts
  <2>3. CorrectionFollowsTests'
    BY <2>1, <2>2 DEF p, CorrectionFollowsTests
  <2>. QED BY <1>1, <1>2, <2>3, VerdictKeeps
<1>3. CASE Show([by |-> "traceback"]) /\ UNCHANGED stats
  <2>1. CorrectionFollowsTests'
    BY <1>3 DEF IInv, CorrectionFollowsTests
  <2>. QED BY <1>1, <1>3, <2>1, VerdictKeeps
<1>. QED BY <1>2, <1>3 DEF Analyze

LEMMA ValidateJudgeKeeps ==
  ASSUME IInv, ValidateJudge
  PROVE  IInv'
<1>. DEFINE m == Matrix(Load(rows, {Run}, AllPhases))
            low == [by |-> "insufficient"]
            verdict == [by |-> "validate", matrix |-> m, kappa |-> Kappa(m),
                        reading |-> InterpretKappa(Kappa(m))]
<1>1. {low.by, verdict.by} \cap {"report", "status", "summary"} = {}
  OBVIOUS
<1>2. (Show(low) \/ Show(verdict)) /\ UNCHANGED <<frame, table, stats>>
  BY DEF ValidateJudge
<1>3. CorrectionFollowsTests'
  BY <1>2 DEF IInv, CorrectionFollowsTests
<1>. HIDE DEF low, verdict
<1>. QED BY <1>1, <1>2, <1>3, VerdictKeeps

LEMMA CloseKeeps ==
  ASSUME IInv, Close
  PROVE  IInv'
<1>1. Frame(frame') /\ table' \in Seq(Aggregates)
  <2>1. frame' = <<>> /\ table' = <<>> /\ DOMAIN <<>> = {} /\ <<>> \in [{} -> Row]
    BY DEF Close
  <2>. QED BY <2>1 DEF Frame
<1>2. ShownBestIsBest'
  BY NothingShown DEF Close
<1>3. CorrectionFollowsTests'
  <2>1. DOMAIN stats'.p = {}
    BY DEF Close, NoStats
  <2>. QED BY <2>1 DEF CorrectionFollowsTests
<1>. QED BY <1>1, <1>2, <1>3 DEF Close, IInv, TypeOK

LEMMA NextKeeps == IInv /\ [Next]_vars => IInv'
<1>. SUFFICES ASSUME IInv, [Next]_vars PROVE IInv'
  OBVIOUS
<1>1. CASE \E x \in DOMAIN rows : Judge(x) \/ Annotate(x)
  BY <1>1, JudgeKeeps, AnnotateKeeps
<1>2. CASE ReportLoad
  BY <1>2, ReportLoadKeeps
<1>3. CASE ReportAggregate
  BY <1>3, ReportAggregateKeeps
<1>4. CASE ReportShow
  BY <1>4, ReportShowKeeps
<1>5. CASE Status
  BY <1>5, StatusKeeps
<1>6. CASE Summary
  BY <1>6, SummaryKeeps
<1>7. CASE Analyze
  BY <1>7, AnalyzeKeeps
<1>8. CASE ValidateJudge
  BY <1>8, ValidateJudgeKeeps
<1>9. CASE Close
  BY <1>9, CloseKeeps
<1>10. CASE UNCHANGED vars
  BY <1>10, ShownKept DEF vars, IInv, TypeOK, Ranked, CorrectionFollowsTests
<1>. QED BY <1>1, <1>2, <1>3, <1>4, <1>5, <1>6, <1>7, <1>8, <1>9, <1>10 DEF Next

\* The inductive invariant holds in every reachable state.
THEOREM Invariant == Spec => []IInv
<1>1. Init => IInv
  BY InitEstablishes
<1>2. IInv /\ [Next]_vars => IInv'
  BY NextKeeps
<1>. QED BY <1>1, <1>2, PTL DEF Spec

\* What a command calls the best is the best it could know, for every store
\* and whatever is written while a report is made: list.sort, with its runs
\* and its halving, puts what has a rank in order, `max` follows the first.
THEOREM ShownBestIsAlwaysBest == Spec => []ShownBestIsBest
<1>1. IInv => ShownBestIsBest
  BY DEF IInv
<1>. QED BY <1>1, Invariant, PTL

\* Every corrected p-value belongs to its test, is not below it, and keeps
\* the order of the tests.
THEOREM CorrectionAlwaysFollowsTests == Spec => []CorrectionFollowsTests
<1>1. IInv => CorrectionFollowsTests
  BY DEF IInv
<1>. QED BY <1>1, Invariant, PTL

-----------------------------------------------------------------------------
(***************************************************************************)
(* The kappa of validate-judge.  With r1, r0 the rows the reviewers fail   *)
(* and pass and c1, c0 those of the judge, n * n - chance is               *)
(* r1 * c0 + r0 * c1: what a kappa is divided by is 0 only when all labels *)
(* are the same, and chance agreement only takes from the observed one.    *)
(***************************************************************************)
LEMMA CountsOfLabels ==
  ASSUME NEW s, Frame(s)
  PROVE  Matrix(s) \in [tp : Nat, tn : Nat, fp : Nat, fn : Nat]
<1>. DEFINE X == {x \in Annotated(s, DOMAIN s) : s[x].rubric # NaN}
            S(h, j) == {x \in X : s[x].flag = h /\ JudgeBinary(s[x]) = j}
<1>1. \A h, j : S(h, j) \in SUBSET DOMAIN s
  BY DEF Annotated
<1>2. \A h, j : Cardinality(S(h, j)) \in Nat
  <2>. HIDE DEF S
  <2>. QED BY <1>1, RowsOfFrame, FS_Subset, FS_CardinalityType
<1>3. Matrix(s) = [tp |-> Cardinality(S(1, 1)), tn |-> Cardinality(S(0, 0)),
                   fp |-> Cardinality(S(0, 1)), fn |-> Cardinality(S(1, 0))]
  BY DEF Matrix
<1>. HIDE DEF S
<1>. QED BY <1>2, <1>3

LEMMA DifferenceIsZero ==
  ASSUME NEW a \in Int, NEW b \in Int
  PROVE  a = b <=> a - b = 0
OBVIOUS

\* What is left of n * n when chance agreement is taken away.
LEMMA BeyondChance ==
  ASSUME NEW m \in [tp : Nat, tn : Nat, fp : Nat, fn : Nat]
  PROVE  LET n == Compared(m)
             chance == (m.tp + m.fn) * (m.tp + m.fp) + (m.tn + m.fp) * (m.tn + m.fn)
         IN  /\ chance \in Nat
             /\ chance = n * n <=> n \in {m.tp, m.tn}
             /\ n * n - chance = (m.tp + m.fn) * (m.tn + m.fn) + (m.tn + m.fp) * (m.tp + m.fp)
<1>. DEFINE tp == m.tp
            tn == m.tn
            fp == m.fp
            fn == m.fn
            r1 == tp + fn
            r0 == tn + fp
            c1 == tp + fp
            c0 == tn + fn
            n == tp + tn + fp + fn
            chance == r1 * c1 + r0 * c0
<1>0. tp \in Nat /\ tn \in Nat /\ fp \in Nat /\ fn \in Nat
  OBVIOUS
<1>. HIDE DEF tp, tn, fp, fn
<1>1. r1 \in Nat /\ r0 \in Nat /\ c1 \in Nat /\ c0 \in Nat
  BY <1>0
<1>2. r1 * c0 \in Nat /\ r0 * c1 \in Nat /\ r1 * c1 \in Nat /\ r0 * c0 \in Nat
  BY <1>1
<1>3. n = r1 + r0 /\ n = c1 + c0
  BY <1>0
<1>4. n * n - chance = r1 * c0 + r0 * c1
  <2>. HIDE DEF n, r1, r0, c1, c0
  <2>1. n * n = (r1 + r0) * (c1 + c0)
    BY <1>3
  <2>2. (r1 + r0) * (c1 + c0) = r1 * c1 + r1 * c0 + r0 * c1 + r0 * c0
    BY <1>1
  <2>. QED BY <1>2, <2>1, <2>2
<1>5. ASSUME NEW a \in Nat, NEW b \in Nat, a * b = 0 PROVE a = 0 \/ b = 0
  BY <1>5
<1>6. chance = n * n => n \in {tp, tn}
  <2>. SUFFICES ASSUME chance = n * n PROVE n \in {tp, tn}
    OBVIOUS
  <2>1. r1 * c0 = 0 /\ r0 * c1 = 0
    <3>. HIDE DEF n, r1, r0, c1, c0, chance
    <3>1. n * n \in Int
      BY <1>1, <1>3
    <3>. QED BY <1>2, <1>4, <3>1
  <2>2. (r1 = 0 \/ c0 = 0) /\ (r0 = 0 \/ c1 = 0)
    <3>. HIDE DEF r1, r0, c1, c0
    <3>. QED BY <1>1, <1>5, <2>1
  <2>. QED BY <1>0, <2>2
<1>7. n \in {tp, tn} => chance = n * n
  <2>. SUFFICES ASSUME n \in {tp, tn} PROVE chance = n * n
    OBVIOUS
  <2>1. fp = 0 /\ fn = 0 /\ (tp = 0 \/ tn = 0)
    BY <1>0
  <2>2. r1 * c0 = 0 /\ r0 * c1 = 0
    BY <1>0, <2>1
  <2>. HIDE DEF n, r1, r0, c1, c0, chance
  <2>3. n * n \in Int /\ chance \in Int
    BY <1>1, <1>2, <1>3 DEF chance
  <2>4. n * n - chance = 0
    BY <1>4, <2>2
  <2>. QED BY <2>3, <2>4, DifferenceIsZero
<1>8. chance \in Nat
  BY <1>2
<1>. QED BY <1>4, <1>6, <1>7, <1>8 DEF tp, tn, fp, fn, Compared

LEMMA KappaFacts ==
  ASSUME NEW m \in [tp : Nat, tn : Nat, fp : Nat, fn : Nat]
  PROVE  LET k == Kappa(m)
             n == Compared(m)
         IN  /\ n \in Nat
             /\ k = NaN <=> n \in {m.tp, m.tn}
             /\ k # NaN => k \in Int /\ k * n <= 100 * (m.tp + m.tn)
             /\ k = 100 => m.fp + m.fn = 0
<1>. DEFINE a == m.tp + m.tn
            n == Compared(m)
            chance == (m.tp + m.fn) * (m.tp + m.fp) + (m.tn + m.fp) * (m.tn + m.fn)
            beyond == n * n - chance
            num == 100 * (n * a - chance)
            k == num \div beyond
<1>1. m.tp \in Nat /\ m.tn \in Nat /\ m.fp \in Nat /\ m.fn \in Nat
  OBVIOUS
<1>2. n \in Nat /\ a \in Nat /\ n = a + m.fp + m.fn
  BY <1>1 DEF Compared
<1>3. /\ chance \in Nat /\ (chance = n * n <=> n \in {m.tp, m.tn})
      /\ beyond = (m.tp + m.fn) * (m.tn + m.fn) + (m.tn + m.fp) * (m.tp + m.fp)
  BY BeyondChance, Zenon
<1>4. beyond \in Nat
  <2>1. (m.tp + m.fn) * (m.tn + m.fn) \in Nat /\ (m.tn + m.fp) * (m.tp + m.fp) \in Nat
    <3>1. m.tp + m.fn \in Nat /\ m.tn + m.fn \in Nat /\ m.tn + m.fp \in Nat /\ m.tp + m.fp \in Nat
      BY <1>1
    <3>. QED BY <3>1
  <2>. QED BY <1>3, <2>1
<1>5. NaN \notin Int
  BY AnalysisAssumption
<1>6. CASE chance = n * n
  <2>1. Kappa(m) = NaN
    BY <1>6 DEF Kappa
  <2>. QED BY <1>2, <1>3, <1>5, <1>6, <2>1
<1>7. CASE chance # n * n
  <2>1. Kappa(m) = k
    BY <1>7 DEF Kappa
  <2>. HIDE DEF chance
  <2>2. n * n \in Nat /\ n * a \in Nat
    <3>. HIDE DEF n, a
    <3>. QED BY <1>2
  <2>3. beyond \in Nat \ {0} /\ num \in Int
    <3>1. beyond # 0
      <4>1. n * n # chance
        BY <1>7
      <4>. DEFINE square == n * n
      <4>2. square \in Int /\ chance \in Int /\ square # chance
        BY <1>3, <2>2, <4>1
      <4>. HIDE DEF square, chance
      <4>3. square - chance # 0
        BY <4>2, DifferenceIsZero
      <4>. QED BY <4>3 DEF square
    <3>. QED BY <1>3, <1>4, <2>2, <3>1
  <2>4. k \in Int /\ beyond * k <= num
    <3>. HIDE DEF beyond, num
    <3>. QED BY <2>3, DivIs
  <2>. HIDE DEF k
  <2>5. n # 0
    <3>. SUFFICES ASSUME n = 0 PROVE FALSE
      OBVIOUS
    <3>1. n \in {m.tp, m.tn}
      BY <1>1, <1>2
    <3>. QED BY <1>3, <1>7, <3>1
  <2>6. k * n <= 100 * a
    <3>. HIDE DEF a, n
    <3>1. a <= n
      BY <1>1, <1>2
    <3>. SUFFICES ASSUME 100 * a + 1 <= k * n PROVE FALSE
      <4>1. k * n \in Int
        BY <1>2, <2>4
      <4>. QED BY <1>2, <4>1
    <3>2. beyond * (100 * a + 1) <= beyond * (k * n)
      <4>1. k * n \in Int /\ 100 * a + 1 \in Int
        BY <1>2, <2>4
      <4>. DEFINE u == 100 * a + 1
                  v == k * n
      <4>2. u \in Int /\ v \in Int /\ u <= v
        BY <4>1
      <4>. HIDE DEF u, v, beyond
      <4>3. beyond * u <= beyond * v
        BY <2>3, <4>2
      <4>. QED BY <4>3 DEF u, v
    <3>3. beyond * (k * n) <= num * n
      <4>1. beyond * (k * n) = (beyond * k) * n
        <5>. HIDE DEF beyond
        <5>. QED BY <1>2, <2>3, <2>4
      <4>2. (beyond * k) * n <= num * n
        <5>. DEFINE u == beyond * k
        <5>. HIDE DEF beyond, num
        <5>1. u \in Int /\ u <= num
          BY <2>3, <2>4
        <5>. HIDE DEF u
        <5>2. u * n <= num * n
          BY <1>2, <2>3, <5>1
        <5>. QED BY <5>2 DEF u
      <4>. QED BY <4>1, <4>2
    <3>4. num * n = 100 * (n * n * a) - 100 * (chance * n)
      BY <1>2, <1>3
    <3>5. beyond * (100 * a + 1) = 100 * (n * n * a) - 100 * (chance * a) + beyond
      BY <1>2, <1>3
    <3>6. chance * a <= chance * n
      BY <1>2, <1>3, <3>1
    <3>7. n * n * a \in Int /\ chance * a \in Int /\ chance * n \in Int
      BY <1>2, <1>3
    <3>. HIDE DEF beyond, num
    <3>8. beyond * (100 * a + 1) <= num * n
      <4>1. beyond * (100 * a + 1) \in Int /\ beyond * (k * n) \in Int /\ num * n \in Int
        <5>1. 100 * a + 1 \in Int /\ k * n \in Int
          BY <1>2, <2>4
        <5>. QED BY <1>2, <2>3, <5>1
      <4>. QED BY <3>2, <3>3, <4>1
    <3>. QED BY <2>3, <3>4, <3>5, <3>6, <3>7, <3>8
  <2>7. k = 100 => m.fp + m.fn = 0
    <3>. SUFFICES ASSUME 100 * n <= 100 * a PROVE m.fp + m.fn = 0
      <4>. HIDE DEF a, n
      <4>. QED BY <1>2, <2>6
    <3>1. n <= a
      <4>. HIDE DEF a, n
      <4>. QED BY <1>2
    <3>. QED BY <1>1, <3>1 DEF Compared
  <2>8. n \notin {m.tp, m.tn} /\ k # NaN
    BY <1>3, <1>5, <1>7, <2>4
  <2>. HIDE DEF n, a
  <2>. QED BY <1>2, <2>1, <2>4, <2>6, <2>7, <2>8 DEF n, a
<1>. QED BY <1>6, <1>7

\* "quase-perfeita" is a kappa of 80% at least.
LEMMA AlmostPerfect ==
  ASSUME NEW m \in [tp : Nat, tn : Nat, fp : Nat, fn : Nat],
         InterpretKappa(Kappa(m)) = "quase-perfeita"
  PROVE  5 * (m.fp + m.fn) <= Compared(m)
<1>. DEFINE k == Kappa(m)
            n == Compared(m)
            a == m.tp + m.tn
<1>1. m.tp \in Nat /\ m.tn \in Nat /\ m.fp \in Nat /\ m.fn \in Nat
  OBVIOUS
<1>2. n \in Nat /\ a \in Nat /\ n = a + m.fp + m.fn
  BY <1>1 DEF Compared
<1>3. k # NaN => k \in Int /\ k * n <= 100 * a
  BY KappaFacts
<1>. HIDE DEF k
<1>4. InterpretKappa(k) = "quase-perfeita"
  BY DEF k
<1>5. k # NaN /\ k >= 80
  BY <1>4 DEF InterpretKappa
<1>. HIDE DEF n, a
<1>6. 80 * n <= k * n
  BY <1>2, <1>3, <1>5
<1>7. k * n \in Int
  BY <1>2, <1>3, <1>5
<1>8. 80 * n <= 100 * a
  BY <1>2, <1>3, <1>5, <1>6, <1>7
<1>9. 5 * (m.fp + m.fn) <= n
  BY <1>1, <1>2, <1>8
<1>. QED BY <1>9 DEF n

LEMMA AgreementKept ==
  ASSUME IInv, KappaFollowsAgreement, [Next]_vars
  PROVE  KappaFollowsAgreement'
<1>1. CASE shown'.by # "validate"
  BY <1>1 DEF KappaFollowsAgreement
<1>2. CASE shown' = shown
  BY <1>2 DEF KappaFollowsAgreement
<1>3. CASE ValidateJudge
  <2>. DEFINE m == Matrix(Load(rows, {Run}, AllPhases))
              verdict == [by |-> "validate", matrix |-> m, kappa |-> Kappa(m),
                          reading |-> InterpretKappa(Kappa(m))]
  <2>1. m \in [tp : Nat, tn : Nat, fp : Nat, fn : Nat]
    BY LoadIsFrame, CountsOfLabels DEF IInv, TypeOK
  <2>2. shown' = IF Compared(m) < MinSample THEN [by |-> "insufficient"] ELSE verdict
    BY <1>3 DEF ValidateJudge, Show
  <2>3. CASE Compared(m) < MinSample
    BY <2>2, <2>3 DEF KappaFollowsAgreement
  <2>4. CASE ~(Compared(m) < MinSample)
    <3>. HIDE DEF m
    <3>1. /\ shown'.matrix = m /\ shown'.kappa = Kappa(m)
          /\ shown'.reading = InterpretKappa(Kappa(m))
      BY <2>2, <2>4
    <3>2. Compared(m) \in Nat /\ MinSample \in Nat
      BY <2>1, KappaFacts, AnalysisAssumption
    <3>3. Compared(m) >= MinSample
      BY <2>4, <3>2
    <3>4. /\ Kappa(m) = NaN <=> Compared(m) \in {m.tp, m.tn}
          /\ Kappa(m) # NaN => Kappa(m) * Compared(m) <= 100 * (m.tp + m.tn)
          /\ Kappa(m) = 100 => m.fp + m.fn = 0
      BY <2>1, KappaFacts
    <3>5. InterpretKappa(Kappa(m)) = "quase-perfeita" => 5 * (m.fp + m.fn) <= Compared(m)
      BY <2>1, AlmostPerfect
    <3>. QED BY <3>1, <3>3, <3>4, <3>5 DEF KappaFollowsAgreement
  <2>. QED BY <2>3, <2>4
<1>4. CASE \E x \in DOMAIN rows : Judge(x) \/ Annotate(x)
  BY <1>2, <1>4 DEF Judge, Annotate, Write
<1>5. CASE ReportLoad
  BY <1>2, <1>5 DEF ReportLoad
<1>6. CASE ReportAggregate
  BY <1>1, <1>2, <1>6 DEF ReportAggregate, Show
<1>7. CASE ReportShow \/ Status \/ Summary \/ Analyze
  <2>1. shown'.by \in {"report", "status", "summary", "analyze", "traceback"}
    BY <1>7 DEF ReportShow, Status, Summary, Analyze, Show
  <2>. QED BY <1>1, <2>1
<1>8. CASE Close
  BY <1>1, <1>8 DEF Close, Nothing
<1>9. CASE UNCHANGED vars
  BY <1>2, <1>9 DEF vars
<1>. QED BY <1>3, <1>4, <1>5, <1>6, <1>7, <1>8, <1>9 DEF Next

\* Corrected p-values follow their tests, and a kappa never flatters the
\* judge: it is undefined only when all labels are the same, and never above
\* the share of the rows judge and reviewers agree on.
THEOREM StatisticsAlwaysSound == Spec => []StatisticsAreSound
<1>1. Init => KappaFollowsAgreement
  BY DEF Init, Nothing, KappaFollowsAgreement
<1>2. IInv /\ KappaFollowsAgreement /\ [Next]_vars => KappaFollowsAgreement'
  BY AgreementKept
<1>3. CorrectionFollowsTests /\ KappaFollowsAgreement => StatisticsAreSound
  BY DEF StatisticsAreSound
<1>4. Spec => []KappaFollowsAgreement
  BY <1>1, <1>2, Invariant, PTL DEF Spec
<1>. QED BY <1>3, <1>4, CorrectionAlwaysFollowsTests, PTL

\* The ranking of a report lists every configuration with a row of phase A
\* in the run once, with the rank of these rows.
THEOREM RankingAlwaysListsTheRows == Spec => RankingListsTheRows
<1>. DEFINE s == Load(rows, {Run}, {"A"})
            Step1 == ReportAggregate /\ stage' = "aggregated" => ListsRows(table', s)
<1>1. IInv => Step1
  <2>. SUFFICES ASSUME IInv, ReportAggregate, stage' = "aggregated" PROVE ListsRows(table', s)
    OBVIOUS
  <2>1. AggregateAll(s) \in Seq(Aggregates) /\ ListsRows(AggregateAll(s), s)
    BY LoadIsFrame, AggregatesListed DEF IInv, TypeOK
  <2>2. table' = Ranking(AggregateAll(s))
    BY DEF ReportAggregate, Show
  <2>. HIDE DEF s
  <2>. QED BY <2>1, <2>2, RankingListsRows
<1>2. IInv => [Step1]_vars
  BY <1>1
<1>. HIDE DEF Step1
<1>3. Spec => [][Step1]_vars
  BY <1>2, Invariant, PTL
<1>. QED BY <1>3 DEF RankingListsTheRows, Step1
-----------------------------------------------------------------------------
(***************************************************************************)
(* Rates are shares: the matrix of win shares summed by configurations and *)
(* by questions.                                                           *)
(***************************************************************************)
LEMMA ShareIsExact ==
  ASSUME NEW s, Frame(s), NEW q \in QuestionsOf(s), Winners(s, q) # {}
  PROVE  LET k == Cardinality(Winners(s, q))
         IN  /\ k \in Nat \ {0} /\ k * (Scale \div k) = Scale
             /\ \E u \in Int : Scale \div k = Cardinality(QuestionsOf(s)) * u
<1>. DEFINE k == Cardinality(Winners(s, q))
            n == Cardinality(QuestionsOf(s))
            All == {x.question : x \in Cells}
            f == [x \in Cells |-> x.question]
<1>1. k \in Nat /\ k # 0 /\ k <= Cardinality(Configs) /\ Cardinality(Configs) \in Nat
  BY WinnersFacts, ConfigsFinite, FS_CardinalityType
<1>2. f \in Surjection(Cells, All)
  BY DEF Surjection
<1>3. IsFiniteSet(All)
  <2>. HIDE DEF All, f
  <2>. QED BY <1>2, ScoreIsNumber, FS_Surjection
<1>4. QuestionsOf(s) \in SUBSET All
  BY DEF QuestionsOf, Frame
<1>5. n \in Nat /\ n # 0 /\ n <= Cardinality(All) /\ Cardinality(All) \in Nat
  <2>. HIDE DEF All
  <2>1. n <= Cardinality(All) /\ Cardinality(All) \in Nat
    BY <1>3, <1>4, FS_Subset, FS_CardinalityType
  <2>. QED BY <2>1, QuestionsFinite
<1>6. k \in 1..Cardinality(Configs) /\ n \in 1..Cardinality(All)
  <2>. HIDE DEF k, n, All
  <2>. QED BY <1>1, <1>5
<1>7. PICK u \in 1..Scale : Scale = k * n * u
  <2>. HIDE DEF k, n
  <2>. QED BY <1>6, AnalysisAssumption
<1>. HIDE DEF k, n
<1>8. k * (n * u) = Scale /\ n * u \in Int
  BY <1>1, <1>5, <1>7
<1>9. Scale \div k = n * u
  <2>1. (k * (n * u)) \div k = n * u
    BY <1>1, <1>8, DivExact
  <2>. QED BY <1>8, <2>1
<1>. QED BY <1>1, <1>8, <1>9 DEF k, n

LEMMA WinRateExact ==
  ASSUME NEW s, Frame(s), QuestionsOf(s) # {}, NEW c
  PROVE  Cardinality(QuestionsOf(s)) * WinRate(s, c) =
           SumFunctionOnSet([q \in QuestionsOf(s) |-> WinShare(s, c, q)], QuestionsOf(s))
<1>. DEFINE Q == QuestionsOf(s)
            n == Cardinality(Q)
            f == [q \in Q |-> WinShare(s, c, q)]
            unit(q) == CHOOSE u \in Int : WinShare(s, c, q) = n * u
            g == [q \in Q |-> unit(q)]
<1>1. n \in Nat \ {0} /\ IsFiniteSet(Q)
  BY QuestionsFinite
<1>2. \A q \in Q : \E u \in Int : WinShare(s, c, q) = n * u
  <2>. TAKE q \in Q
  <2>1. CASE c \in Winners(s, q)
    BY <2>1, ShareIsExact DEF WinShare
  <2>2. CASE c \notin Winners(s, q)
    <3>1. WinShare(s, c, q) = 0
      BY <2>2 DEF WinShare
    <3>2. n * 0 = 0
      BY <1>1
    <3>. QED BY <3>1, <3>2
  <2>. QED BY <2>1, <2>2
<1>3. \A q \in Q : g[q] \in Int /\ f[q] = n * g[q]
  <2>. TAKE q \in Q
  <2>1. unit(q) \in Int /\ WinShare(s, c, q) = n * unit(q)
    <3>. HIDE DEF n
    <3>. QED BY <1>2
  <2>. HIDE DEF unit, n
  <2>. QED BY <2>1
<1>4. WinRate(s, c) = SumFunctionOnSet(f, Q) \div n
  BY WinRateIs
<1>. HIDE DEF Q, n, f, g
<1>5. SumFunctionOnSet(g, Q) \in Int
  BY <1>1, <1>3, SumType
<1>6. SumFunctionOnSet(f, Q) = n * SumFunctionOnSet(g, Q)
  BY <1>1, <1>3, SumScale
<1>7. (n * SumFunctionOnSet(g, Q)) \div n = SumFunctionOnSet(g, Q)
  BY <1>1, <1>5, DivExact
<1>8. n * WinRate(s, c) = SumFunctionOnSet(f, Q)
  BY <1>4, <1>6, <1>7
<1>. QED BY <1>8 DEF Q, n, f

\* What all configurations win of a question.
LEMMA QuestionShared ==
  ASSUME NEW s, Frame(s), NEW q \in QuestionsOf(s)
  PROVE  SumFunctionOnSet([c \in Configs |-> WinShare(s, c, q)], Configs) =
           IF Winners(s, q) # {} THEN Scale ELSE 0
<1>. DEFINE W == Winners(s, q)
            k == Cardinality(W)
            f == [c \in Configs |-> WinShare(s, c, q)]
            a == Scale \div k
<1>1. W \in SUBSET Configs /\ Configs \cap W = W /\ IsFiniteSet(Configs)
  BY WinnersFacts, ConfigsFinite
<1>2. CASE W # {}
  <2>1. k \in Nat \ {0} /\ k * a = Scale
    BY <1>2, ShareIsExact
  <2>2. a \in Int
    BY <2>1, ScoreIsNumber, DivIs
  <2>3. a * k = Scale
    <3>. HIDE DEF a, k
    <3>. QED BY <2>1, <2>2
  <2>4. \A c \in Configs : f[c] = IF c \in W THEN a ELSE 0
    BY DEF WinShare
  <2>. HIDE DEF f, a, W
  <2>5. SumFunctionOnSet(f, Configs) = a * Cardinality(Configs \cap W)
    BY <1>1, <2>2, <2>4, SumIndicator
  <2>6. SumFunctionOnSet(f, Configs) = Scale
    BY <1>1, <2>3, <2>5
  <2>. QED BY <1>2, <2>6 DEF f, W
<1>3. CASE W = {}
  <2>1. \A c \in Configs : f[c] = IF c \in {} THEN 1 ELSE 0
    BY <1>3 DEF WinShare
  <2>2. 1 \in Int /\ Configs \cap {} = {} /\ Cardinality({}) = 0
    BY FS_EmptySet
  <2>. HIDE DEF f
  <2>3. SumFunctionOnSet(f, Configs) = 1 * Cardinality(Configs \cap {})
    BY <1>1, <2>1, <2>2, SumIndicator
  <2>4. SumFunctionOnSet(f, Configs) = 0
    BY <2>2, <2>3
  <2>. QED BY <1>3, <2>4 DEF f
<1>. QED BY <1>2, <1>3

LEMMA WinsShared ==
  ASSUME NEW s, Frame(s), QuestionsOf(s) # {}
  PROVE  SumFunction([c \in Configs |-> WinRate(s, c)]) * Cardinality(QuestionsOf(s))
           = Scale * Cardinality({q \in QuestionsOf(s) : Winners(s, q) # {}})
<1>. DEFINE Q == QuestionsOf(s)
            n == Cardinality(Q)
            won == {q \in Q : Winners(s, q) # {}}
            rate == [c \in Configs |-> WinRate(s, c)]
            M == [c \in Configs |-> [q \in Q |-> WinShare(s, c, q)]]
            row == [c \in Configs |-> SumFunctionOnSet([q \in Q |-> M[c][q]], Q)]
            col == [q \in Q |-> SumFunctionOnSet([c \in Configs |-> M[c][q]], Configs)]
<1>1. n \in Nat \ {0} /\ IsFiniteSet(Q) /\ IsFiniteSet(Configs)
  BY QuestionsFinite, ConfigsFinite
<1>2. SumFunction(rate) = SumFunctionOnSet(rate, Configs)
  BY DEF SumFunction
<1>3. \A c \in Configs : rate[c] \in Int /\ row[c] = n * rate[c]
  <2>. TAKE c \in Configs
  <2>1. rate[c] \in Int
    <3>1. WinRate(s, c) \in 0..Scale
      BY WinRateIs
    <3>. QED BY <3>1, ScoreIsNumber
  <2>2. [q \in Q |-> M[c][q]] = [q \in Q |-> WinShare(s, c, q)]
    OBVIOUS
  <2>3. n * WinRate(s, c) = SumFunctionOnSet([q \in Q |-> WinShare(s, c, q)], Q)
    BY WinRateExact
  <2>. QED BY <2>1, <2>2, <2>3
<1>4. \A q \in Q : col[q] = IF q \in won THEN Scale ELSE 0
  <2>. TAKE q \in Q
  <2>1. [c \in Configs |-> M[c][q]] = [c \in Configs |-> WinShare(s, c, q)]
    OBVIOUS
  <2>2. col[q] = SumFunctionOnSet([c \in Configs |-> WinShare(s, c, q)], Configs)
    BY <2>1
  <2>. HIDE DEF col
  <2>. QED BY <2>2, QuestionShared
<1>5. SumFunctionOnSet(row, Configs) = SumFunctionOnSet(col, Q)
  <2>1. \A c \in Configs, q \in Q : M[c][q] \in Int
    <3>. TAKE c \in Configs, q \in Q
    <3>1. M[c][q] = WinShare(s, c, q)
      OBVIOUS
    <3>2. WinShare(s, c, q) \in 0..Scale
      BY WinShareType
    <3>. QED BY <3>1, <3>2, ScoreIsNumber
  <2>. HIDE DEF M, Q
  <2>. QED BY <1>1, <2>1, SumSwap
<1>6. won \in SUBSET Q /\ Q \cap won = won
  OBVIOUS
<1>. HIDE DEF Q, n, won, rate, row, col
<1>7. SumFunctionOnSet(row, Configs) = n * SumFunctionOnSet(rate, Configs)
  BY <1>1, <1>3, SumScale
<1>8. SumFunctionOnSet(col, Q) = Scale * Cardinality(won)
  <2>1. SumFunctionOnSet(col, Q) = Scale * Cardinality(Q \cap won)
    <3>1. Scale \in Int /\ IsFiniteSet(Q)
      BY <1>1, ScoreIsNumber
    <3>. QED BY ONLY <1>4, <3>1, SumIndicator
  <2>. QED BY <1>6, <2>1
<1>9. SumFunctionOnSet(rate, Configs) \in Int
  BY <1>1, <1>3, SumType
<1>10. SumFunction(rate) * n = Scale * Cardinality(won)
  <2>1. n * SumFunctionOnSet(rate, Configs) = SumFunctionOnSet(rate, Configs) * n
    BY <1>1, <1>9
  <2>. QED BY <1>2, <1>5, <1>7, <1>8, <2>1
<1>. QED BY <1>10 DEF rate, n, won, Q

\* A rate is a share of what it counts, and the win rates of all
\* configurations share out the questions that have a score.
THEOREM RatesAlwaysShares == Spec => []RatesAreShares
<1>1. IInv => RatesAreShares
  <2>. DEFINE s == Load(rows, AllRuns, AllPhases)
  <2>. SUFFICES ASSUME IInv
                PROVE  /\ \A c \in Configs :
                            {FailureRate(s, c), CriticalFailureRate(s, c)} \subseteq 0..Scale \cup {NaN}
                       /\ QuestionsOf(s) # {} =>
                            SumFunction([c \in Configs |-> WinRate(s, c)]) * Cardinality(QuestionsOf(s))
                              = Scale * Cardinality({q \in QuestionsOf(s) : Winners(s, q) # {}})
    BY DEF RatesAreShares
  <2>1. Frame(s)
    BY LoadIsFrame DEF IInv, TypeOK
  <2>. HIDE DEF s
  <2>2. \A c \in Configs : /\ FailureRate(s, c) \in 0..Scale \cup {NaN}
                           /\ CriticalFailureRate(s, c) \in 0..Scale \cup {NaN}
    BY <2>1, RatesType
  <2>. QED BY <2>1, <2>2, WinsShared
<1>. QED BY <1>1, Invariant, PTL
-----------------------------------------------------------------------------
(***************************************************************************)
(* The ranking answers to the rows.  t has the rows of s, and those of the *)
(* configuration c are not worse in t: every input of the rank moves the   *)
(* right way, and the inputs of the rivals only through the shared wins.   *)
(***************************************************************************)
Lifted(s, t, c) ==
  /\ Group(t, c) = Group(s, c)
  /\ \A x \in Group(s, c) :
       /\ Final(t[x]) = NaN <=> Final(s[x]) = NaN
       /\ Final(s[x]) # NaN => Final(t[x]) >= Final(s[x])
       /\ t[x].flag = None <=> s[x].flag = None
       /\ t[x].flag = 1 => s[x].flag = 1

Better(s, t, c) ==
  /\ Frame(s) /\ Frame(t) /\ DOMAIN t = DOMAIN s
  /\ Lifted(s, t, c)
  /\ \A x \in DOMAIN s : x.config # c => t[x] = s[x]

LEMMA LiftedSets ==
  ASSUME NEW s, NEW t, Frame(s), Frame(t), NEW c, Lifted(s, t, c)
  PROVE  /\ Valid(t, c) = Valid(s, c)
         /\ \A q : Attempts(t, c, q) = Attempts(s, c, q)
         /\ Annotated(t, Group(t, c)) = Annotated(s, Group(s, c))
         /\ \A x \in Valid(s, c) : /\ Final(s[x]) \in 0..Scale /\ Final(t[x]) \in 0..Scale
                                   /\ Final(s[x]) <= Final(t[x])
<1>1. Valid(t, c) = Valid(s, c)
  BY DEF Lifted, Valid
<1>2. \A q : Attempts(t, c, q) = Attempts(s, c, q)
  BY <1>1 DEF Attempts
<1>3. Annotated(t, Group(t, c)) = Annotated(s, Group(s, c))
  BY DEF Lifted, Annotated
<1>4. ASSUME NEW x \in Valid(s, c)
      PROVE  /\ Final(s[x]) \in 0..Scale /\ Final(t[x]) \in 0..Scale
             /\ Final(s[x]) <= Final(t[x])
  <2>1. Final(s[x]) \in 0..Scale /\ Final(t[x]) \in 0..Scale
    BY <1>1, SetsOfFrame
  <2>2. Final(t[x]) >= Final(s[x])
    BY DEF Lifted, Valid
  <2>. QED BY <2>1, <2>2, ScoreIsNumber
<1>. QED BY <1>1, <1>2, <1>3, <1>4

LEMMA MedianGrows ==
  ASSUME NEW s, NEW t, Frame(s), Frame(t), NEW c, Lifted(s, t, c)
  PROVE  NotBelow(Median(t, c), Median(s, c))
<1>. DEFINE V == Valid(s, c)
            n == Cardinality(V)
            h == (n + 1) \div 2
            l == n \div 2 + 1
<1>1. Valid(t, c) = V
  BY LiftedSets
<1>2. n \in Nat /\ (n = 0 <=> V = {})
  BY SetsOfFrame
<1>3. ASSUME NEW k \in 1..n
      PROVE  /\ Smallest(s, c, k) \in 0..Scale /\ Smallest(t, c, k) \in 0..Scale
             /\ Smallest(s, c, k) <= Smallest(t, c, k)
  <2>1. ASSUME NEW v \in NotExceeded(t, c, k) PROVE v \in NotExceeded(s, c, k)
    <3>. DEFINE A == {x \in V : Final(s[x]) <= v}
                B == {x \in V : Final(t[x]) <= v}
    <3>1. v \in Levels /\ v \in 0..Scale /\ Cardinality(B) >= k
      BY <1>1, ScoreIsNumber DEF NotExceeded
    <3>2. B \in SUBSET A
      BY <3>1, LiftedSets, ScoreIsNumber
    <3>3. A \in SUBSET Group(s, c)
      BY SetsOfFrame
    <3>4. IsFiniteSet(A) /\ Cardinality(A) \in Nat
      <4>. HIDE DEF A
      <4>. QED BY <3>3, SetsOfFrame
    <3>5. Cardinality(B) <= Cardinality(A) /\ Cardinality(B) \in Nat
      <4>. HIDE DEF A, B
      <4>. QED BY <3>2, <3>4, FS_Subset, FS_CardinalityType
    <3>6. Cardinality(A) >= k
      <4>. HIDE DEF A, B, n
      <4>. QED BY <1>2, <3>1, <3>4, <3>5
    <3>. QED BY <3>1, <3>6 DEF NotExceeded
  <2>2. /\ Smallest(s, c, k) \in 0..Scale
        /\ \A v \in NotExceeded(s, c, k) : Smallest(s, c, k) <= v
    BY SmallestIs
  <2>3. Smallest(t, c, k) \in 0..Scale /\ Smallest(t, c, k) \in NotExceeded(t, c, k)
    <3>1. k \in 1..Cardinality(Valid(t, c))
      BY <1>1
    <3>. QED BY <3>1, SmallestIs
  <2>. QED BY <2>1, <2>2, <2>3
<1>4. CASE n = 0
  BY <1>1, <1>2, <1>4, MedianType DEF NotBelow
<1>5. CASE n # 0
  <2>1. h \in 1..n /\ l \in 1..n
    <3>. HIDE DEF n
    <3>. QED BY <1>2, <1>5
  <2>2. /\ Median(s, c) = (Smallest(s, c, h) + Smallest(s, c, l)) \div 2
        /\ Median(t, c) = (Smallest(t, c, h) + Smallest(t, c, l)) \div 2
    BY <1>1, <1>5 DEF Median
  <2>. HIDE DEF h, l, n, V
  <2>3. /\ Smallest(s, c, h) \in Nat /\ Smallest(t, c, h) \in Nat
        /\ Smallest(s, c, l) \in Nat /\ Smallest(t, c, l) \in Nat
        /\ Smallest(s, c, h) <= Smallest(t, c, h) /\ Smallest(s, c, l) <= Smallest(t, c, l)
    BY <1>3, <2>1, ScoreIsNumber
  <2>4. Median(t, c) >= Median(s, c) /\ Median(s, c) \in Int /\ Median(t, c) \in Int
    BY <2>2, <2>3
  <2>. QED BY <2>4, ScoreIsNumber DEF NotBelow
<1>. QED BY <1>4, <1>5

LEMMA RatioGrows ==
  ASSUME NEW n \in Nat, NEW j \in 0..n, NEW k \in 0..n, j <= k
  PROVE  NotBelow(Ratio(k, n), Ratio(j, n))
<1>1. CASE n = 0
  BY <1>1 DEF Ratio, NotBelow
<1>2. CASE n # 0
  <2>1. j * Scale \in Int /\ k * Scale \in Int /\ j * Scale <= k * Scale
    BY ScoreIsNumber
  <2>2. (j * Scale) \div n <= (k * Scale) \div n
    BY <1>2, <2>1, DivMonotone
  <2>3. (j * Scale) \div n \in Int /\ (k * Scale) \div n \in Int
    BY <1>2, <2>1, DivIs
  <2>. QED BY <1>2, <2>2, <2>3, ScoreIsNumber DEF Ratio, NotBelow
<1>. QED BY <1>1, <1>2

LEMMA RatesShrink ==
  ASSUME NEW s, NEW t, Frame(s), Frame(t), NEW c, Lifted(s, t, c)
  PROVE  /\ NotBelow(FailureRate(s, c), FailureRate(t, c))
         /\ NotBelow(CriticalFailureRate(s, c), CriticalFailureRate(t, c))
<1>1. NotBelow(FailureRate(s, c), FailureRate(t, c))
  <2>. DEFINE V == Valid(s, c)
              A == {x \in V : Final(s[x]) < FailureThreshold}
              B == {x \in V : Final(t[x]) < FailureThreshold}
              n == Cardinality(V)
  <2>1. B \in SUBSET A
    BY LiftedSets, ScoreIsNumber
  <2>2. IsFiniteSet(V) /\ n \in Nat /\ A \in SUBSET V
    BY SetsOfFrame
  <2>3. FailureRate(s, c) = Ratio(Cardinality(A), n) /\ FailureRate(t, c) = Ratio(Cardinality(B), n)
    BY LiftedSets DEF FailureRate
  <2>. HIDE DEF A, B, V, n
  <2>4. IsFiniteSet(A) /\ Cardinality(A) <= Cardinality(V) /\ Cardinality(A) \in Nat
    BY <2>2, FS_Subset, FS_CardinalityType
  <2>5. Cardinality(B) <= Cardinality(A) /\ Cardinality(B) \in Nat
    BY <2>1, <2>4, FS_Subset, FS_CardinalityType
  <2>6. Cardinality(A) \in 0..n /\ Cardinality(B) \in 0..n
    BY <2>2, <2>4, <2>5 DEF n
  <2>. QED BY <2>2, <2>3, <2>5, <2>6, RatioGrows
<1>2. NotBelow(CriticalFailureRate(s, c), CriticalFailureRate(t, c))
  <2>. DEFINE V == Annotated(s, Group(s, c))
              A == {x \in V : s[x].flag = 1}
              B == {x \in V : t[x].flag = 1}
              n == Cardinality(V)
  <2>1. B \in SUBSET A
    BY DEF Lifted, Annotated
  <2>2. IsFiniteSet(V) /\ n \in Nat /\ A \in SUBSET V
    <3>1. V \in SUBSET Group(s, c)
      BY DEF Annotated
    <3>. HIDE DEF V
    <3>. QED BY <3>1, SetsOfFrame
  <2>3. /\ CriticalFailureRate(s, c) = Ratio(Cardinality(A), n)
        /\ CriticalFailureRate(t, c) = Ratio(Cardinality(B), n)
    BY LiftedSets DEF CriticalFailureRate
  <2>. HIDE DEF A, B, V, n
  <2>4. IsFiniteSet(A) /\ Cardinality(A) <= Cardinality(V) /\ Cardinality(A) \in Nat
    BY <2>2, FS_Subset, FS_CardinalityType
  <2>5. Cardinality(B) <= Cardinality(A) /\ Cardinality(B) \in Nat
    BY <2>1, <2>4, FS_Subset, FS_CardinalityType
  <2>6. Cardinality(A) \in 0..n /\ Cardinality(B) \in 0..n
    BY <2>2, <2>4, <2>5 DEF n
  <2>. QED BY <2>2, <2>3, <2>5, <2>6, RatioGrows
<1>. QED BY <1>1, <1>2

LEMMA QuestionMeanGrows ==
  ASSUME NEW s, NEW t, Frame(s), Frame(t), NEW c, Lifted(s, t, c), NEW q,
         Attempts(s, c, q) # {}
  PROVE  QuestionMean(s, c, q) <= QuestionMean(t, c, q)
<1>. DEFINE A == Attempts(s, c, q)
            f == [x \in A |-> Final(s[x])]
            g == [x \in A |-> Final(t[x])]
            n == Cardinality(A)
<1>1. Attempts(t, c, q) = A
  BY LiftedSets
<1>2. QuestionMean(s, c, q) = SumFunctionOnSet(f, A) \div n
  BY QuestionMeanIs
<1>3. QuestionMean(t, c, q) = SumFunctionOnSet(g, A) \div n
  BY <1>1, QuestionMeanIs
<1>4. \A x \in A : f[x] \in Int /\ g[x] \in Int /\ f[x] <= g[x]
  <2>. TAKE x \in A
  <2>1. x \in Valid(s, c)
    BY AttemptsFacts
  <2>2. Final(s[x]) \in 0..Scale /\ Final(t[x]) \in 0..Scale /\ Final(s[x]) <= Final(t[x])
    BY <2>1, LiftedSets
  <2>. QED BY <2>2, ScoreIsNumber
<1>5. IsFiniteSet(A) /\ n \in Nat \ {0}
  BY AttemptsFacts
<1>. HIDE DEF A, f, g, n
<1>6. SumFunctionOnSet(f, A) <= SumFunctionOnSet(g, A)
  BY <1>4, <1>5, SumMonotone
<1>7. SumFunctionOnSet(f, A) \in Int /\ SumFunctionOnSet(g, A) \in Int
  BY <1>4, <1>5, SumType
<1>. QED BY <1>2, <1>3, <1>5, <1>6, <1>7, DivMonotone

LEMMA RivalsKept ==
  ASSUME NEW s, NEW t, NEW c, Better(s, t, c), NEW d, d # c
  PROVE  Lifted(s, t, d) /\ Lifted(t, s, d)
<1>1. \A x \in Group(s, d) : t[x] = s[x]
  BY DEF Better, Group
<1>2. Group(t, d) = Group(s, d)
  BY DEF Better, Group
<1>3. \A x \in Group(s, d) : Final(s[x]) # NaN => Final(s[x]) >= Final(s[x])
  <2>. TAKE x \in Group(s, d)
  <2>1. Final(s[x]) # NaN => Final(s[x]) \in 0..Scale
    BY RowsOfFrame DEF Better, Group
  <2>. QED BY <2>1, ScoreIsNumber
<1>. QED BY <1>1, <1>2, <1>3 DEF Lifted

LEMMA MeansMove ==
  ASSUME NEW s, NEW t, NEW c, Better(s, t, c), NEW q
  PROVE  /\ \A d \in Configs : Attempts(t, d, q) = Attempts(s, d, q)
         /\ \A d \in Configs : Attempts(s, d, q) # {} =>
              /\ QuestionMean(s, d, q) \in Int /\ QuestionMean(t, d, q) \in Int
              /\ QuestionMean(s, d, q) <= QuestionMean(t, d, q)
              /\ d # c => QuestionMean(s, d, q) = QuestionMean(t, d, q)
<1>0. Frame(s) /\ Frame(t) /\ Lifted(s, t, c)
  BY DEF Better
<1>1. \A d \in Configs : Lifted(s, t, d) /\ (d # c => Lifted(t, s, d))
  BY <1>0, RivalsKept
<1>2. \A d \in Configs : Attempts(t, d, q) = Attempts(s, d, q)
  BY <1>0, <1>1, LiftedSets
<1>3. ASSUME NEW d \in Configs, Attempts(s, d, q) # {}
      PROVE  /\ QuestionMean(s, d, q) \in Int /\ QuestionMean(t, d, q) \in Int
             /\ QuestionMean(s, d, q) <= QuestionMean(t, d, q)
             /\ d # c => QuestionMean(s, d, q) = QuestionMean(t, d, q)
  <2>1. Attempts(t, d, q) # {}
    BY <1>2, <1>3
  <2>2. QuestionMean(s, d, q) \in 0..Scale /\ QuestionMean(t, d, q) \in 0..Scale
    BY <1>0, <1>3, <2>1, QuestionMeanIs
  <2>3. QuestionMean(s, d, q) <= QuestionMean(t, d, q)
    BY <1>0, <1>1, <1>3, QuestionMeanGrows
  <2>4. d # c => QuestionMean(t, d, q) <= QuestionMean(s, d, q)
    BY <1>0, <1>1, <2>1, QuestionMeanGrows
  <2>. QED BY <2>2, <2>3, <2>4, ScoreIsNumber
<1>. QED BY <1>2, <1>3

LEMMA WinsMove ==
  ASSUME NEW s, NEW t, NEW c \in Configs, Better(s, t, c), NEW q
  PROVE  /\ c \in Winners(s, q) => c \in Winners(t, q) /\ Winners(t, q) \subseteq Winners(s, q)
         /\ \A d \in Configs : d # c /\ d \in Winners(t, q) =>
              d \in Winners(s, q) /\ Winners(s, q) \subseteq Winners(t, q)
<1>. DEFINE sc == {d \in Configs : Attempts(s, d, q) # {}}
            old(d) == QuestionMean(s, d, q)
            new(d) == QuestionMean(t, d, q)
<1>1. \A d \in sc : /\ old(d) \in Int /\ new(d) \in Int /\ old(d) <= new(d)
                    /\ d # c => old(d) = new(d)
  BY MeansMove
<1>2. {d \in Configs : Attempts(t, d, q) # {}} = sc
  BY MeansMove
<1>3. /\ Winners(s, q) = {d \in sc : \A e \in sc : old(d) >= old(e)}
      /\ Winners(t, q) = {d \in sc : \A e \in sc : new(d) >= new(e)}
  BY <1>2 DEF Winners
<1>. HIDE DEF sc, old, new
<1>4. ASSUME c \in Winners(s, q)
      PROVE  c \in Winners(t, q) /\ Winners(t, q) \subseteq Winners(s, q)
  <2>1. c \in sc /\ \A e \in sc : old(c) >= old(e)
    BY <1>3, <1>4
  <2>2. \A e \in sc : new(c) >= new(e)
    <3>. TAKE e \in sc
    <3>1. CASE e = c
      BY <1>1, <3>1
    <3>2. CASE e # c
      BY <1>1, <2>1, <3>2
    <3>. QED BY <3>1, <3>2
  <2>3. ASSUME NEW d \in Winners(t, q) PROVE d \in Winners(s, q)
    <3>1. d \in sc /\ new(d) >= new(c)
      BY <1>3, <2>1
    <3>2. CASE d = c
      BY <1>4, <3>2
    <3>3. CASE d # c
      <4>1. old(d) = new(d) /\ old(d) \in Int /\ old(c) \in Int /\ new(c) \in Int /\ old(c) <= new(c)
        BY <1>1, <2>1, <3>1, <3>3
      <4>2. old(d) >= old(c)
        BY <3>1, <4>1
      <4>3. \A e \in sc : old(d) >= old(e)
        BY <1>1, <2>1, <4>1, <4>2
      <4>. QED BY <1>3, <3>1, <4>3
    <3>. QED BY <3>2, <3>3
  <2>. QED BY <1>3, <2>1, <2>2, <2>3
<1>5. ASSUME NEW d \in Configs, d # c, d \in Winners(t, q)
      PROVE  d \in Winners(s, q) /\ Winners(s, q) \subseteq Winners(t, q)
  <2>1. d \in sc /\ \A e \in sc : new(d) >= new(e)
    BY <1>3, <1>5
  <2>2. old(d) = new(d) /\ old(d) \in Int
    BY <1>1, <1>5, <2>1
  <2>3. \A e \in sc : old(d) >= old(e)
    BY <1>1, <2>1, <2>2
  <2>4. ASSUME NEW e \in Winners(s, q) PROVE e \in Winners(t, q)
    <3>1. e \in sc /\ old(e) >= old(d)
      BY <1>3, <2>1
    <3>2. old(e) \in Int /\ new(e) \in Int /\ old(e) <= new(e)
      BY <1>1, <3>1
    <3>3. new(e) >= new(d)
      BY <2>2, <3>1, <3>2
    <3>4. \A f \in sc : new(e) >= new(f)
      BY <1>1, <2>1, <2>2, <3>2, <3>3
    <3>. QED BY <1>3, <3>1, <3>4
  <2>. QED BY <1>3, <2>1, <2>3, <2>4
<1>. QED BY <1>4, <1>5

\* Fewer winners, a larger share.
LEMMA ShareGrows ==
  ASSUME NEW s, NEW t, NEW q, NEW d, d \in Winners(t, q),
         Winners(t, q) \subseteq Winners(s, q)
  PROVE  WinShare(s, d, q) <= WinShare(t, d, q)
<1>. DEFINE j == Cardinality(Winners(t, q))
            k == Cardinality(Winners(s, q))
<1>1. IsFiniteSet(Winners(s, q)) /\ Winners(s, q) # {} /\ Winners(t, q) # {}
  BY WinnersFacts
<1>2. j \in Nat \ {0} /\ k \in Nat \ {0} /\ j <= k
  BY <1>1, WinnersFacts, FS_Subset
<1>3. WinShare(s, d, q) = Scale \div k /\ WinShare(t, d, q) = Scale \div j
  BY DEF WinShare
<1>. HIDE DEF j, k
<1>4. Scale \div k <= Scale \div j
  BY <1>2, ScoreIsNumber
<1>. QED BY <1>3, <1>4

LEMMA WinShareMoves ==
  ASSUME NEW s, NEW t, NEW c \in Configs, Better(s, t, c), NEW q
  PROVE  /\ WinShare(s, c, q) <= WinShare(t, c, q)
         /\ \A d \in Configs : d # c => WinShare(t, d, q) <= WinShare(s, d, q)
<1>0. \A d \in Configs : WinShare(s, d, q) \in Nat /\ WinShare(t, d, q) \in Nat
  BY WinShareType, ScoreIsNumber
<1>1. WinShare(s, c, q) <= WinShare(t, c, q)
  <2>1. CASE c \in Winners(s, q)
    BY <2>1, WinsMove, ShareGrows
  <2>2. CASE c \notin Winners(s, q)
    <3>1. WinShare(s, c, q) = 0
      BY <2>2 DEF WinShare
    <3>. QED BY <1>0, <3>1
  <2>. QED BY <2>1, <2>2
<1>2. ASSUME NEW d \in Configs, d # c PROVE WinShare(t, d, q) <= WinShare(s, d, q)
  <2>1. CASE d \in Winners(t, q)
    <3>1. d \in Winners(s, q) /\ Winners(s, q) \subseteq Winners(t, q)
      BY <1>2, <2>1, WinsMove
    <3>. QED BY <3>1, ShareGrows
  <2>2. CASE d \notin Winners(t, q)
    <3>1. WinShare(t, d, q) = 0
      BY <2>2 DEF WinShare
    <3>. QED BY <1>0, <3>1
  <2>. QED BY <2>1, <2>2
<1>. QED BY <1>1, <1>2

LEMMA WinRateMonotone ==
  ASSUME NEW s, NEW t, Frame(s), Frame(t), QuestionsOf(s) # {},
         QuestionsOf(t) = QuestionsOf(s), NEW c,
         \A q \in QuestionsOf(s) : WinShare(s, c, q) <= WinShare(t, c, q)
  PROVE  WinRate(s, c) <= WinRate(t, c)
<1>. DEFINE Q == QuestionsOf(s)
            n == Cardinality(Q)
            f == [q \in Q |-> WinShare(s, c, q)]
            g == [q \in Q |-> WinShare(t, c, q)]
<1>1. IsFiniteSet(Q) /\ n \in Nat \ {0}
  BY QuestionsFinite
<1>2. WinRate(s, c) = SumFunctionOnSet(f, Q) \div n /\ WinRate(t, c) = SumFunctionOnSet(g, Q) \div n
  BY WinRateIs
<1>3. \A q \in Q : f[q] \in Int /\ g[q] \in Int /\ f[q] <= g[q]
  <2>. TAKE q \in Q
  <2>1. WinShare(s, c, q) \in 0..Scale /\ WinShare(t, c, q) \in 0..Scale
    BY WinShareType
  <2>. QED BY <2>1, ScoreIsNumber
<1>. HIDE DEF Q, n, f, g
<1>4. SumFunctionOnSet(f, Q) <= SumFunctionOnSet(g, Q)
  BY <1>1, <1>3, SumMonotone
<1>5. SumFunctionOnSet(f, Q) \in Int /\ SumFunctionOnSet(g, Q) \in Int
  BY <1>1, <1>3, SumType
<1>. QED BY <1>1, <1>2, <1>4, <1>5, DivMonotone

LEMMA RankScoreGrows ==
  ASSUME NEW s, NEW t, Frame(s), Frame(t), QuestionsOf(s) # {}, QuestionsOf(t) # {},
         NEW c, Lifted(s, t, c), WinRate(s, c) <= WinRate(t, c)
  PROVE  NotBelow(RankScore(t, c), RankScore(s, c))
<1>. DEFINE m == Median(s, c)
            f == FailureRate(s, c)
            w == WinRate(s, c)
            k == CriticalFailureRate(s, c)
            m2 == Median(t, c)
            f2 == FailureRate(t, c)
            w2 == WinRate(t, c)
            k2 == CriticalFailureRate(t, c)
<1>1. /\ m \in 0..Scale \cup {NaN} /\ f \in 0..Scale \cup {NaN} /\ w \in 0..Scale
      /\ k \in 0..Scale \cup {NaN}
      /\ m2 \in 0..Scale \cup {NaN} /\ f2 \in 0..Scale \cup {NaN} /\ w2 \in 0..Scale
      /\ k2 \in 0..Scale \cup {NaN}
  BY MedianType, RatesType, WinRateIs
<1>2. NotBelow(m2, m) /\ NotBelow(f, f2) /\ NotBelow(k, k2) /\ w <= w2
  BY MedianGrows, RatesShrink
<1>3. /\ RankScore(s, c) = IF NaN \in {m, f, w, k} THEN NaN
                           ELSE 10 * m + 4 * (Scale - f) + 3 * w - 3 * k
      /\ RankScore(t, c) = IF NaN \in {m2, f2, w2, k2} THEN NaN
                           ELSE 10 * m2 + 4 * (Scale - f2) + 3 * w2 - 3 * k2
  BY RankScoreIs
<1>. HIDE DEF m, f, w, k, m2, f2, w2, k2
<1>4. NaN \in {m, f, w, k} <=> NaN \in {m2, f2, w2, k2}
  BY <1>1, <1>2, ScoreIsNumber DEF NotBelow
<1>5. CASE NaN \in {m, f, w, k}
  BY <1>3, <1>4, <1>5 DEF NotBelow
<1>6. CASE NaN \notin {m, f, w, k}
  <2>1. /\ m \in Int /\ f \in Int /\ w \in Int /\ k \in Int
        /\ m2 \in Int /\ f2 \in Int /\ w2 \in Int /\ k2 \in Int
    BY <1>1, <1>4, <1>6, ScoreIsNumber
  <2>2. m2 >= m /\ f >= f2 /\ w <= w2 /\ k >= k2
    BY <1>2, <1>6 DEF NotBelow
  <2>3. /\ RankScore(s, c) = 10 * m + 4 * (Scale - f) + 3 * w - 3 * k
        /\ RankScore(t, c) = 10 * m2 + 4 * (Scale - f2) + 3 * w2 - 3 * k2
    BY <1>3, <1>4, <1>6
  <2>4. /\ RankScore(s, c) \in Int /\ RankScore(t, c) \in Int
        /\ RankScore(t, c) >= RankScore(s, c)
    BY <2>1, <2>2, <2>3, ScoreIsNumber
  <2>. QED BY <2>4, ScoreIsNumber DEF NotBelow
<1>. QED BY <1>5, <1>6

LEMMA ImprovedIsBetter ==
  ASSUME NEW s, Frame(s), NEW x \in DOMAIN s, NEW r \in Improved(s[x])
  PROVE  Better(s, [s EXCEPT ![x] = r], x.config)
<1>. DEFINE t == [s EXCEPT ![x] = r]
            c == x.config
<1>1. s[x] \in Row /\ \A y \in DOMAIN s : s[y] \in Row
  BY DEF Frame
<1>2. /\ r \in Row
      /\ Final(r) = NaN <=> Final(s[x]) = NaN
      /\ Final(s[x]) # NaN => Final(r) >= Final(s[x])
      /\ r.flag = None <=> s[x].flag = None
      /\ r.flag = 1 => s[x].flag = 1
  <2>1. Final(s[x]) # NaN => Final(s[x]) \in 0..Scale
    BY RowsOfFrame
  <2>2. ASSUME NEW v \in Levels, Final(s[x]) # NaN, v > Final(s[x]), r = [s[x] EXCEPT !.rubric = v]
        PROVE  /\ r \in Row
               /\ Final(r) = NaN <=> Final(s[x]) = NaN
               /\ Final(s[x]) # NaN => Final(r) >= Final(s[x])
               /\ r.flag = None <=> s[x].flag = None
               /\ r.flag = 1 => s[x].flag = 1
    <3>1. r \in Row /\ r.layer1 = s[x].layer1 /\ r.rubric = v /\ r.flag = s[x].flag
      BY <1>1, <2>2 DEF Row
    <3>2. Final(r) = v /\ v \in 0..Scale
      BY <2>2, <3>1, ScoreIsNumber DEF Final
    <3>. QED BY <2>1, <2>2, <3>1, <3>2, ScoreIsNumber
  <2>3. ASSUME s[x].flag = 1, r = [s[x] EXCEPT !.flag = 0]
        PROVE  /\ r \in Row
               /\ Final(r) = NaN <=> Final(s[x]) = NaN
               /\ Final(s[x]) # NaN => Final(r) >= Final(s[x])
               /\ r.flag = None <=> s[x].flag = None
               /\ r.flag = 1 => s[x].flag = 1
    <3>1. r \in Row /\ r.layer1 = s[x].layer1 /\ r.rubric = s[x].rubric /\ r.flag = 0
      BY <1>1, <2>3 DEF Row
    <3>2. Final(r) = Final(s[x])
      BY <3>1 DEF Final
    <3>3. None # 0 /\ None # 1
      BY AnalysisAssumption
    <3>. QED BY <2>1, <2>3, <3>1, <3>2, <3>3, ScoreIsNumber
  <2>. QED BY <2>2, <2>3 DEF Improved
<1>3. t[x] = r /\ \A y \in DOMAIN s : y # x => t[y] = s[y]
  OBVIOUS
<1>4. DOMAIN t = DOMAIN s /\ Frame(t)
  BY <1>2 DEF Frame
<1>. HIDE DEF t
<1>5. Lifted(s, t, c)
  <2>1. Group(t, c) = Group(s, c)
    BY <1>4 DEF Group
  <2>2. ASSUME NEW y \in Group(s, c)
        PROVE  /\ Final(t[y]) = NaN <=> Final(s[y]) = NaN
               /\ Final(s[y]) # NaN => Final(t[y]) >= Final(s[y])
               /\ t[y].flag = None <=> s[y].flag = None
               /\ t[y].flag = 1 => s[y].flag = 1
    <3>1. y \in DOMAIN s
      BY DEF Group
    <3>2. CASE y = x
      BY <1>2, <1>3, <3>2
    <3>3. CASE y # x
      <4>1. Final(s[y]) # NaN => Final(s[y]) \in 0..Scale
        BY <3>1, RowsOfFrame
      <4>. QED BY <1>3, <3>1, <3>3, <4>1, ScoreIsNumber
    <3>. QED BY <3>2, <3>3
  <2>. QED BY <2>1, <2>2 DEF Lifted
<1>6. \A y \in DOMAIN s : y.config # c => t[y] = s[y]
  BY <1>3
<1>. QED BY <1>4, <1>5, <1>6 DEF Better, t

\* A row that improves never lowers the rank of its configuration nor raises
\* a rival's, for every store, any configurations and any questions.
THEOREM RankAlwaysAnswers == Spec => []RankAnswersToRows
<1>1. IInv => RankAnswersToRows
  <2>. DEFINE s == Load(rows, {Run}, AllPhases)
  <2>. SUFFICES ASSUME IInv, NEW x \in DOMAIN s, NEW r \in Improved(s[x]), NEW c \in Configs
                PROVE  LET better == [s EXCEPT ![x] = r]
                       IN  IF c = x.config
                             THEN NotBelow(RankScore(better, c), RankScore(s, c))
                             ELSE NotBelow(RankScore(s, c), RankScore(better, c))
    BY DEF RankAnswersToRows
  <2>. DEFINE t == [s EXCEPT ![x] = r]
  <2>1. Frame(s)
    BY LoadIsFrame DEF IInv, TypeOK
  <2>. HIDE DEF s
  <2>2. Better(s, t, x.config)
    BY <2>1, ImprovedIsBetter
  <2>3. x.config \in Configs
    BY <2>1, AnalysisAssumption DEF Frame
  <2>4. QuestionsOf(s) # {} /\ QuestionsOf(t) = QuestionsOf(s)
    BY DEF QuestionsOf
  <2>. HIDE DEF t
  <2>5. Frame(t) /\ Lifted(s, t, x.config)
    BY <2>2 DEF Better
  <2>6. CASE c = x.config
    <3>1. \A q \in QuestionsOf(s) : WinShare(s, c, q) <= WinShare(t, c, q)
      BY <2>2, <2>3, <2>6, WinShareMoves
    <3>2. WinRate(s, c) <= WinRate(t, c)
      BY <2>1, <2>4, <2>5, <3>1, WinRateMonotone
    <3>3. NotBelow(RankScore(t, c), RankScore(s, c))
      BY <2>1, <2>4, <2>5, <2>6, <3>2, RankScoreGrows
    <3>. QED BY <2>6, <3>3 DEF t
  <2>7. CASE c # x.config
    <3>1. \A q \in QuestionsOf(s) : WinShare(t, c, q) <= WinShare(s, c, q)
      BY <2>2, <2>3, <2>7, WinShareMoves
    <3>2. WinRate(t, c) <= WinRate(s, c)
      BY <2>1, <2>4, <2>5, <3>1, WinRateMonotone
    <3>3. Lifted(t, s, c)
      BY <2>2, <2>7, RivalsKept
    <3>4. NotBelow(RankScore(s, c), RankScore(t, c))
      BY <2>1, <2>4, <2>5, <3>2, <3>3, RankScoreGrows
    <3>. QED BY <2>7, <3>4 DEF t
  <2>. QED BY <2>6, <2>7
<1>. QED BY <1>1, Invariant, PTL
=============================================================================
