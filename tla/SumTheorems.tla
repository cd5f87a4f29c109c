----------------------------- MODULE SumTheorems -----------------------------
(***************************************************************************)
(* Sums over finite sets, running totals and powers, for the proofs about  *)
(* memory and histograms.                                                  *)
(* The sums of the specifications are folds of the community modules, and  *)
(* a fold is a recursive function on the subsets of its set.  The facts    *)
(* here are proved by looking at a smallest set, or a smallest number,     *)
(* that would contradict them.                                             *)
(***************************************************************************)
EXTENDS Naturals, FiniteSetsExt, FiniteSetTheorems, TLAPS

\* The sum of f[x] over the x of S.
SumOver(f, S) == MapThenSumSet(LAMBDA x : f[x], S)

\* The element a fold takes first.
First(T) == CHOOSE x \in T : TRUE

\* g is the fold with step G on the sets of L.
Folds(g, L, base, G) ==
  \A T \in L : g[T] = IF T = {} THEN base ELSE G[<<First(T), g[T \ {First(T)}]>>]

USE SMTT(5), ZenonT(10), SMTT(20), ZenonT(30)

-----------------------------------------------------------------------------
(* Induction.                                                              *)

\* A fold takes an element of its set.
LEMMA FirstIn == ASSUME NEW T, T # {} PROVE First(T) \in T
BY Zenon DEF First

\* A non-empty set of naturals has a smallest element.
LEMMA SmallestNumber ==
  ASSUME NEW B \in SUBSET Nat, B # {}
  PROVE  \E n \in B : \A m \in B : n <= m
<1>1. PICK n \in B : \A m \in B : <<m, n>> \notin OpToRel(<, Nat)
  BY NatLessThanWellFounded, WFMin, Zenon
<1>2. \A m \in B : ~(m < n)
  BY <1>1, Zenon DEF OpToRel
<1> QED
  BY <1>2

\* A non-empty set of subsets of a finite set has a minimal element.
LEMMA MinimalSubset ==
  ASSUME NEW S, IsFiniteSet(S), NEW B \in SUBSET (SUBSET S), B # {}
  PROVE  \E T \in B : \A U \in B : U \subseteq T => U = T
<1>1. IsWellFoundedOn(StrictSubsetOrdering(S), SUBSET S)
  BY FS_StrictSubsetOrderingWellFounded, FS_FiniteSubsetsOfFinite, Zenon
<1>2. PICK T \in B : \A U \in B : <<U, T>> \notin StrictSubsetOrdering(S)
  BY <1>1, WFMin
<1>3. \A U \in B : U \subseteq T => U = T
  BY <1>2, Zenon DEF StrictSubsetOrdering
<1> QED
  BY <1>3

\* A property of sets that holds of {}, and of a set when it holds without the
\* element a fold takes first, holds of all finite sets.
LEMMA SubsetInduction ==
  ASSUME NEW S, IsFiniteSet(S), NEW P \in SUBSET (SUBSET S),
         \A T \in SUBSET S : (T = {} \/ T \ {First(T)} \in P) => T \in P
  PROVE  \A T \in SUBSET S : T \in P
<1> DEFINE B == (SUBSET S) \ P
<1> SUFFICES ASSUME B # {} PROVE FALSE
  OBVIOUS
<1>1. PICK T \in B : \A U \in B : U \subseteq T => U = T
  <2>1. B \in SUBSET (SUBSET S)
    OBVIOUS
  <2> HIDE DEF B
  <2> QED
    BY <2>1, MinimalSubset
<1>2. T # {} /\ T \ {First(T)} \in SUBSET S /\ T \ {First(T)} \notin P
  BY <1>1
<1>3. First(T) \in T
  BY <1>2, FirstIn
<1> QED
  BY <1>1, <1>2, <1>3

\* A set of first numbers has as many as it reaches to.
LEMMA FirstNumbers ==
  ASSUME NEW n \in Nat, NEW D \in SUBSET (1 .. n), \A i \in D : \A j \in 1 .. i : j \in D
  PROVE  Cardinality(D) \in 0 .. n /\ D = 1 .. Cardinality(D)
<1>1. \A m \in Nat : Cardinality(1 .. m) = m
  BY FS_Interval
<1>2. CASE D = 1 .. n
  BY <1>1, <1>2
<1>3. CASE D # 1 .. n
  <2> DEFINE B == (1 .. n) \ D
  <2>1. B \in SUBSET Nat /\ B # {}
    <3>1. \A i \in 1 .. n : i \in Nat
      OBVIOUS
    <3>. QED BY <1>3, <3>1, Zenon
  <2>2. PICK m \in B : \A i \in B : m <= i
    <3>. HIDE DEF B
    <3>. QED BY <2>1, SmallestNumber
  <2>3. m \in 1 .. n /\ m \notin D /\ \A i \in 1 .. n : i \notin D => m <= i
    BY <2>2
  <2>4. D = 1 .. m - 1
    <3>1. \A i \in D : i \in 1 .. m - 1
      BY <2>3
    <3>2. \A i \in 1 .. m - 1 : i \in D
      BY <2>3
    <3>. QED BY <3>1, <3>2, Zenon
  <2>5. m - 1 \in Nat /\ m - 1 \in 0 .. n
    BY <2>3
  <2>6. Cardinality(D) = m - 1
    BY <1>1, <2>4, <2>5
  <2>. QED BY <2>4, <2>5, <2>6
<1>. QED BY <1>2, <1>3

-----------------------------------------------------------------------------
(* Folds.                                                                  *)

\* A fold over a finite set exists: it is extended from the sets of at most n
\* elements to those of n + 1.
LEMMA FoldExists ==
  ASSUME NEW S, IsFiniteSet(S), NEW A, NEW base \in A, NEW G \in [S \X A -> A]
  PROVE  \E g \in [SUBSET S -> A] : Folds(g, SUBSET S, base, G)
<1> DEFINE L(n) == {T \in SUBSET S : Cardinality(T) <= n}
           B == {n \in Nat : ~\E g \in [L(n) -> A] : Folds(g, L(n), base, G)}
<1>1. \A T \in SUBSET S : IsFiniteSet(T) /\ Cardinality(T) \in Nat
                           /\ Cardinality(T) <= Cardinality(S)
  BY FS_Subset, FS_CardinalityType
<1>2. \A T \in SUBSET S : Cardinality(T) = 0 <=> T = {}
  BY <1>1, FS_EmptySet
<1>3. \A T \in SUBSET S : T # {} => /\ First(T) \in T
                                    /\ Cardinality(T \ {First(T)}) = Cardinality(T) - 1
  BY <1>1, FirstIn, FS_RemoveElement
<1>4. 0 \notin B
  <2>1. L(0) = {{}}
    BY <1>1, <1>2
  <2>2. [T \in L(0) |-> base] \in [L(0) -> A] /\ Folds([T \in L(0) |-> base], L(0), base, G)
    BY <2>1 DEF Folds
  <2> QED
    BY <2>2, Zenon
<1>5. \A n \in Nat : n \notin B => n + 1 \notin B
  <2> SUFFICES ASSUME NEW n \in Nat, n \notin B PROVE n + 1 \notin B
    BY Zenon
  <2>1. PICK g \in [L(n) -> A] : Folds(g, L(n), base, G)
    BY Zenon
  <2> DEFINE h == [T \in L(n + 1) |->
                     IF T \in L(n) THEN g[T] ELSE G[<<First(T), g[T \ {First(T)}]>>]]
  <2>2. \A T \in L(n + 1) : T # {} => First(T) \in S /\ T \ {First(T)} \in L(n)
    BY <1>1, <1>3
  <2>3. {} \in L(n)
    BY <1>2
  <2>4. h \in [L(n + 1) -> A]
    BY <2>2, <2>3, Zenon
  <2>5. \A T \in L(n) : T # {} => T \ {First(T)} \in L(n)
    BY <1>1, <1>3
  <2>6. L(n) \subseteq L(n + 1)
    BY <1>1
  <2>7. Folds(h, L(n + 1), base, G)
    <3> SUFFICES ASSUME NEW T \in L(n + 1)
                 PROVE h[T] = IF T = {} THEN base ELSE G[<<First(T), h[T \ {First(T)}]>>]
      BY Zenon DEF Folds
    <3> HIDE DEF L
    <3>1. CASE T = {}
      BY <3>1, <2>1, <2>3, Zenon DEF Folds
    <3>2. CASE T # {}
      <4>1. h[T \ {First(T)}] = g[T \ {First(T)}]
        BY <3>2, <2>2, <2>6
      <4>2. T \in L(n) => g[T] = G[<<First(T), g[T \ {First(T)}]>>]
        BY <3>2, <2>1 DEF Folds
      <4> QED
        BY <3>2, <4>1, <4>2
    <3> QED
      BY <3>1, <3>2
  <2> QED
    BY <2>4, <2>7, Zenon
<1>6. B = {}
  <2> SUFFICES ASSUME B # {} PROVE FALSE
    BY Zenon
  <2> HIDE DEF B
  <2>0. B \subseteq Nat
    BY DEF B
  <2>1. PICK n \in B : \A m \in B : n <= m
    BY <2>0, SmallestNumber
  <2>2. n \in Nat /\ n # 0 /\ n - 1 \in Nat /\ n - 1 \notin B
    BY <1>4, <2>0, <2>1
  <2>3. (n - 1) + 1 \notin B
    BY <1>5, <2>2
  <2> QED
    BY <2>2, <2>3
<1>7. L(Cardinality(S)) = SUBSET S /\ Cardinality(S) \in Nat
  BY <1>1, FS_CardinalityType
<1>8. \E g \in [L(Cardinality(S)) -> A] : Folds(g, L(Cardinality(S)), base, G)
  BY <1>6, <1>7, Zenon
<1> HIDE DEF L
<1> QED
  BY <1>7, <1>8

-----------------------------------------------------------------------------
(* Sums.                                                                   *)

\* A sum and the sums over the subsets are one fold.
LEMMA SumFolds ==
  ASSUME NEW S, IsFiniteSet(S), NEW f, \A x \in S : f[x] \in Nat
  PROVE  \A T \in SUBSET S :
           /\ SumOver(f, T) \in Nat
           /\ SumOver(f, T) = IF T = {} THEN 0
                              ELSE f[First(T)] + SumOver(f, T \ {First(T)})
<1> DEFINE G == [p \in S \X Nat |-> f[p[1]] + p[2]]
<1>1. PICK g \in [SUBSET S -> Nat] : Folds(g, SUBSET S, 0, G)
  <2>1. G \in [S \X Nat -> Nat] /\ 0 \in Nat
    OBVIOUS
  <2> HIDE DEF G
  <2> QED
    BY <2>1, FoldExists, Zenon
<1>2. \A T \in SUBSET S : T # {} => First(T) \in T
  BY FirstIn
<1>3. \A T \in SUBSET S : g[T] = IF T = {} THEN 0 ELSE f[First(T)] + g[T \ {First(T)}]
  BY <1>1, <1>2, Zenon DEF Folds
<1>4. ASSUME NEW T \in SUBSET S PROVE SumOver(f, T) = g[T]
  <2> DEFINE Is(it) == it = [U \in SUBSET T |->
                               IF U = {} THEN 0 ELSE f[First(U)] + it[U \ {First(U)}]]
  <2>1. Is([U \in SUBSET T |-> g[U]])
    BY <1>3
  <2>2. \E it : Is(it) /\ SumOver(f, T) = it[T]
    BY <2>1, Zenon DEF SumOver, MapThenSumSet, MapThenFoldSet, First
  <2>3. PICK it : Is(it) /\ SumOver(f, T) = it[T]
    BY <2>2, Zenon
  <2>4. IsFiniteSet(T)
    BY FS_Subset
  <2>5. \A U \in SUBSET T : it[U] = g[U]
    <3> DEFINE P == {U \in SUBSET T : it[U] = g[U]}
    <3>1. \A U \in SUBSET T : it[U] = IF U = {} THEN 0 ELSE f[First(U)] + it[U \ {First(U)}]
      BY <2>3, Zenon
    <3>2. \A U \in SUBSET T : (U = {} \/ U \ {First(U)} \in P) => U \in P
      BY <1>3, <3>1
    <3>3. P \in SUBSET (SUBSET T)
      OBVIOUS
    <3>4. \A U \in SUBSET T : U \in P
      <4> HIDE DEF P
      <4> QED
        BY <2>4, <3>2, <3>3, SubsetInduction, Zenon
    <3> QED
      BY <3>4
  <2> QED
    BY <2>3, <2>5, Zenon
<1> QED
  BY <1>3, <1>4

\* With nothing outstanding no units are held.
THEOREM SumEmpty == \A f : SumOver(f, {}) = 0
BY SumFolds, FS_EmptySet, Zenon

\* The units that a finite set of calls holds are a number.
THEOREM SumType ==
  ASSUME NEW S, IsFiniteSet(S), NEW f, \A x \in S : f[x] \in Nat
  PROVE  SumOver(f, S) \in Nat
BY SumFolds, Zenon

\* Any element may be taken out first: a call gives back its size.
THEOREM SumRemove ==
  ASSUME NEW S, IsFiniteSet(S), NEW f, \A x \in S : f[x] \in Nat, NEW y \in S
  PROVE  SumOver(f, S) = f[y] + SumOver(f, S \ {y})
<1> DEFINE B == {T \in SUBSET S : \E x \in T : SumOver(f, T) # f[x] + SumOver(f, T \ {x})}
<1> SUFFICES ASSUME B # {} PROVE FALSE
  BY Zenon
<1>0. B \in SUBSET (SUBSET S)
  OBVIOUS
<1>1. PICK T \in B : \A U \in B : U \subseteq T => U = T
  <2> HIDE DEF B
  <2> QED
    BY <1>0, MinimalSubset
<1>2. PICK x \in T : SumOver(f, T) # f[x] + SumOver(f, T \ {x})
  BY <1>1
<1>3. First(T) \in T
  BY <1>2, FirstIn
<1>4. \A U \in SUBSET T : SumOver(f, U) \in Nat
  BY <1>0, SumFolds, Zenon
<1>5. SumOver(f, T) = f[First(T)] + SumOver(f, T \ {First(T)})
  BY <1>2, SumFolds
<1>6. First(T) # x
  BY <1>2, <1>5
<1>7. T \ {First(T)} \notin B /\ T \ {x} \notin B
  BY <1>1, <1>2, <1>3
<1>8. SumOver(f, T \ {First(T)}) = f[x] + SumOver(f, (T \ {First(T)}) \ {x})
  BY <1>2, <1>6, <1>7, Zenon
<1>9. SumOver(f, T \ {x}) = f[First(T)] + SumOver(f, (T \ {x}) \ {First(T)})
  BY <1>3, <1>6, <1>7, Zenon
<1>10. (T \ {First(T)}) \ {x} = (T \ {x}) \ {First(T)}
  OBVIOUS
<1> QED
  <2> DEFINE a == f[x]
             b == f[First(T)]
             c == SumOver(f, (T \ {x}) \ {First(T)})
  <2>1. a \in Nat /\ b \in Nat /\ c \in Nat
    BY <1>2, <1>3, <1>4
  <2>2. SumOver(f, T) = b + (a + c) /\ SumOver(f, T \ {x}) = b + c
    BY <1>5, <1>8, <1>9, <1>10
  <2> HIDE DEF a, b, c
  <2>3. SumOver(f, T) = a + SumOver(f, T \ {x})
    BY <2>1, <2>2
  <2> QED
    BY <1>2, <2>3 DEF a

\* A call that acquires units adds its size.
THEOREM SumAdd ==
  ASSUME NEW S, IsFiniteSet(S), NEW f, NEW y, y \notin S,
         \A x \in S \cup {y} : f[x] \in Nat
  PROVE  SumOver(f, S \cup {y}) = f[y] + SumOver(f, S)
<1>1. IsFiniteSet(S \cup {y}) /\ (S \cup {y}) \ {y} = S
  BY FS_AddElement
<1> QED
  BY <1>1, SumRemove

\* The sum depends on the values over the set only.
THEOREM SumSame ==
  ASSUME NEW S, IsFiniteSet(S), NEW f, NEW h, \A x \in S : f[x] \in Nat /\ h[x] = f[x]
  PROVE  SumOver(h, S) = SumOver(f, S)
<1> DEFINE B == {T \in SUBSET S : SumOver(h, T) # SumOver(f, T)}
<1> SUFFICES ASSUME B # {} PROVE FALSE
  OBVIOUS
<1>0. B \in SUBSET (SUBSET S)
  OBVIOUS
<1>1. PICK T \in B : \A U \in B : U \subseteq T => U = T
  <2> HIDE DEF B
  <2> QED
    BY <1>0, MinimalSubset
<1>2. T # {}
  BY SumEmpty
<1>3. First(T) \in T
  BY <1>2, FirstIn
<1>4. SumOver(h, T \ {First(T)}) = SumOver(f, T \ {First(T)})
  BY <1>1, <1>3
<1>5. /\ SumOver(f, T) = f[First(T)] + SumOver(f, T \ {First(T)})
      /\ SumOver(h, T) = h[First(T)] + SumOver(h, T \ {First(T)})
  BY <1>2, SumFolds
<1> QED
  BY <1>3, <1>4, <1>5

\* A sum may be taken in two parts.
THEOREM SumUnion ==
  ASSUME NEW S, IsFiniteSet(S), NEW f, \A x \in S : f[x] \in Nat, NEW R \in SUBSET S
  PROVE  SumOver(f, S) = SumOver(f, R) + SumOver(f, S \ R)
<1> DEFINE B == {T \in SUBSET (S \ R) : SumOver(f, R \cup T) # SumOver(f, R) + SumOver(f, T)}
<1>0. B \in SUBSET (SUBSET S)
  OBVIOUS
<1>1. \A T \in SUBSET S : IsFiniteSet(T) /\ SumOver(f, T) \in Nat
  BY FS_Subset, SumFolds, Zenon
<1>2. B = {}
  <2> SUFFICES ASSUME B # {} PROVE FALSE
    BY Zenon
  <2>1. PICK T \in B : \A U \in B : U \subseteq T => U = T
    <3> HIDE DEF B
    <3> QED
      BY <1>0, MinimalSubset
  <2>2. T # {}
    BY <1>1, SumEmpty
  <2>3. PICK x \in T : TRUE
    BY <2>2
  <2>4. T \ {x} \notin B
    BY <2>1
  <2>5. SumOver(f, R \cup (T \ {x})) = SumOver(f, R) + SumOver(f, T \ {x})
    BY <2>4
  <2>6. x \in R \cup T /\ R \cup T \in SUBSET S /\ (R \cup T) \ {x} = R \cup (T \ {x})
    OBVIOUS
  <2>7. SumOver(f, R \cup T) = f[x] + SumOver(f, R \cup (T \ {x}))
    <3> DEFINE V == R \cup T
    <3>1. IsFiniteSet(V) /\ (\A z \in V : f[z] \in Nat) /\ x \in V
      BY <1>1, <2>6
    <3> HIDE DEF V
    <3>2. SumOver(f, V) = f[x] + SumOver(f, V \ {x})
      BY <3>1, SumRemove
    <3> QED
      BY <2>6, <3>2 DEF V
  <2>8. SumOver(f, T) = f[x] + SumOver(f, T \ {x})
    BY <1>1, SumRemove
  <2>9. SumOver(f, T \ {x}) \in Nat /\ SumOver(f, R) \in Nat /\ f[x] \in Nat
    BY <1>1
  <2> HIDE DEF B
  <2>10. SumOver(f, R \cup T) = SumOver(f, R) + SumOver(f, T)
    BY <2>5, <2>7, <2>8, <2>9
  <2> QED
    BY <2>10 DEF B
<1>3. S \ R \in SUBSET (S \ R) /\ R \cup (S \ R) = S
  OBVIOUS
<1> QED
  BY <1>2, <1>3

\* Fewer terms make no larger sum.
THEOREM SumMonotone ==
  ASSUME NEW S, IsFiniteSet(S), NEW f, \A x \in S : f[x] \in Nat, NEW R \in SUBSET S
  PROVE  SumOver(f, R) <= SumOver(f, S)
<1>1. SumOver(f, R) \in Nat /\ SumOver(f, S \ R) \in Nat
  <2>1. \A T \in SUBSET S : SumOver(f, T) \in Nat
    BY SumFolds, Zenon
  <2> QED
    BY <2>1
<1>2. SumOver(f, S) = SumOver(f, R) + SumOver(f, S \ R)
  BY SumUnion
<1> QED
  BY <1>1, <1>2

\* Terms of zero add nothing.
LEMMA SumZero ==
  ASSUME NEW S, IsFiniteSet(S), NEW f, \A x \in S : f[x] = 0
  PROVE  SumOver(f, S) = 0
<1> DEFINE P == {T \in SUBSET S : SumOver(f, T) = 0}
<1>1. \A x \in S : f[x] \in Nat
  OBVIOUS
<1>2. \A T \in SUBSET S : /\ SumOver(f, T) \in Nat
                          /\ SumOver(f, T) = IF T = {} THEN 0
                                             ELSE f[First(T)] + SumOver(f, T \ {First(T)})
  BY <1>1, SumFolds, Zenon
<1>3. \A T \in SUBSET S : (T = {} \/ T \ {First(T)} \in P) => T \in P
  BY <1>2, FirstIn
<1>4. P \in SUBSET (SUBSET S) /\ S \in SUBSET S
  BY Zenon
<1>5. S \in P
  <2> HIDE DEF P
  <2> QED
    BY <1>3, <1>4, SubsetInduction, Zenon
<1> QED
  BY <1>5, Zenon

\* One term that grows by one makes the sum grow by one.
LEMMA SumOneMore ==
  ASSUME NEW S, IsFiniteSet(S), NEW f, \A x \in S : f[x] \in Nat,
         NEW y \in S, NEW h, h[y] = f[y] + 1, \A x \in S \ {y} : h[x] = f[x]
  PROVE  SumOver(h, S) = SumOver(f, S) + 1
<1> DEFINE R == S \ {y}
<1>1. IsFiniteSet(R) /\ \A x \in R : f[x] \in Nat /\ h[x] = f[x]
  BY FS_Subset
<1>2. \A x \in S : h[x] \in Nat
  OBVIOUS
<1>3. SumOver(f, S) = f[y] + SumOver(f, R)
  BY SumRemove, Zenon
<1>4. SumOver(h, S) = h[y] + SumOver(h, R)
  BY <1>2, SumRemove, Zenon
<1> HIDE DEF R
<1>5. SumOver(h, R) = SumOver(f, R) /\ SumOver(f, R) \in Nat
  BY <1>1, SumSame, SumType
<1> QED
  BY <1>3, <1>4, <1>5

-----------------------------------------------------------------------------
(* Running totals.                                                         *)

\* The numbers of S up to b.
UpTo(S, b) == {x \in S : x <= b}

\* The levels of L that are begun before the running total of f is complete.
Begun(f, S, L, n) ==
  {k \in 1 .. n : SumOver(f, S) > IF k = 1 THEN 0 ELSE SumOver(f, UpTo(S, L[k - 1]))}

\* A running total is a number, at most the sum.
LEMMA RunningType ==
  ASSUME NEW S, IsFiniteSet(S), NEW f, \A x \in S : f[x] \in Nat, NEW b
  PROVE  /\ IsFiniteSet(UpTo(S, b)) /\ UpTo(S, b) \in SUBSET S
         /\ SumOver(f, UpTo(S, b)) \in Nat /\ SumOver(f, S) \in Nat
         /\ SumOver(f, UpTo(S, b)) <= SumOver(f, S)
<1>1. UpTo(S, b) \in SUBSET S
  BY Zenon DEF UpTo
<1> DEFINE U == UpTo(S, b)
<1> HIDE DEF U
<1>2. IsFiniteSet(U) /\ \A x \in U : f[x] \in Nat
  BY <1>1, FS_Subset DEF U
<1>3. SumOver(f, U) \in Nat /\ SumOver(f, S) \in Nat
  BY <1>2, SumType
<1>4. SumOver(f, U) <= SumOver(f, S)
  BY <1>1, SumMonotone DEF U
<1> QED
  BY <1>1, <1>2, <1>3, <1>4 DEF U

\* A higher bound covers no less.
LEMMA RunningGrows ==
  ASSUME NEW S \in SUBSET Nat, IsFiniteSet(S), NEW f, \A x \in S : f[x] \in Nat,
         NEW a \in Nat, NEW b \in Nat, a <= b
  PROVE  SumOver(f, UpTo(S, a)) <= SumOver(f, UpTo(S, b))
<1> DEFINE V == UpTo(S, a)
           U == UpTo(S, b)
<1>1. V \in SUBSET U
  <2>1. \A x \in S : x <= a => x <= b
    OBVIOUS
  <2> QED
    BY <2>1, Zenon DEF UpTo
<1>2. IsFiniteSet(U) /\ U \in SUBSET S
  BY RunningType, Zenon
<1> HIDE DEF V, U
<1>3. SumOver(f, V) <= SumOver(f, U)
  BY <1>1, <1>2, SumMonotone, Zenon
<1> QED
  BY <1>3 DEF V, U

\* The levels that are begun are the first ones, and all that follow have the
\* running total of the last of them.
LEMMA BegunFirst ==
  ASSUME NEW S \in SUBSET Nat, IsFiniteSet(S), NEW f, \A x \in S : f[x] \in Nat,
         NEW n \in Nat, NEW L \in [1 .. n -> Nat],
         \A i, j \in 1 .. n : i <= j => L[i] <= L[j]
  PROVE  LET m == Cardinality(Begun(f, S, L, n))
         IN  /\ m \in 0 .. n
             /\ \A i \in 1 .. n : i > m => SumOver(f, UpTo(S, L[i]))
                                           = IF m = 0 THEN 0 ELSE SumOver(f, UpTo(S, L[m]))
<1> DEFINE all == SumOver(f, S)
           C(k) == SumOver(f, UpTo(S, L[k]))
           D == Begun(f, S, L, n)
           m == Cardinality(D)
<1>1. all \in Nat /\ \A k \in 1 .. n : C(k) \in Nat /\ C(k) <= all
  BY RunningType, Zenon
<1>2. \A i, j \in 1 .. n : i <= j => C(i) <= C(j)
  <2> SUFFICES ASSUME NEW i \in 1 .. n, NEW j \in 1 .. n, i <= j PROVE C(i) <= C(j)
    BY Zenon
  <2>1. L[i] \in Nat /\ L[j] \in Nat /\ L[i] <= L[j]
    OBVIOUS
  <2> QED
    BY <2>1, RunningGrows
<1>3. \A k \in 1 .. n : k \in D <=> all > IF k = 1 THEN 0 ELSE C(k - 1)
  BY Zenon DEF Begun
<1>4. D \in SUBSET (1 .. n)
  BY Zenon DEF Begun
<1> HIDE DEF all, C, D
<1>5. \A i \in D : \A j \in 1 .. i : j \in D
  <2> SUFFICES ASSUME NEW i \in D, NEW j \in 1 .. i PROVE j \in D
    OBVIOUS
  <2>1. i \in 1 .. n /\ j \in 1 .. n /\ all > IF i = 1 THEN 0 ELSE C(i - 1)
    BY <1>3, <1>4
  <2>2. CASE j = 1
    <3>1. all > 0
      BY <1>1, <2>1
    <3> QED
      BY <1>3, <2>1, <2>2, <3>1
  <2>3. CASE j # 1
    <3>1. i # 1 /\ i - 1 \in 1 .. n /\ j - 1 \in 1 .. n /\ j - 1 <= i - 1
      BY <2>1, <2>3
    <3>2. all > C(j - 1)
      BY <1>1, <1>2, <2>1, <3>1
    <3> QED
      BY <1>3, <2>1, <2>3, <3>2
  <2> QED
    BY <2>2, <2>3
<1>6. m \in 0 .. n /\ D = 1 .. m
  BY <1>4, <1>5, FirstNumbers
<1> HIDE DEF m
<1>7. ASSUME NEW i \in 1 .. n, i > m PROVE C(i) = IF m = 0 THEN 0 ELSE C(m)
  <2>1. m + 1 \in 1 .. n /\ m + 1 \notin D /\ (m + 1) - 1 = m
    BY <1>6, <1>7
  <2>2. ~(all > IF m + 1 = 1 THEN 0 ELSE C((m + 1) - 1))
    BY <1>3, <2>1
  <2>3. CASE m = 0
    <3>1. all = 0
      BY <1>1, <2>2, <2>3
    <3> QED
      BY <1>1, <2>3, <3>1
  <2>4. CASE m # 0
    <3>1. m \in 1 .. n /\ m <= i
      BY <1>6, <1>7, <2>4
    <3>2. ~(all > C(m)) /\ C(m) <= C(i) /\ C(i) <= all /\ C(m) \in Nat /\ C(i) \in Nat
      BY <1>1, <1>2, <2>1, <2>2, <2>4, <3>1
    <3> QED
      BY <1>1, <2>4, <3>2
  <2> QED
    BY <2>3, <2>4
<1> QED
  BY <1>6, <1>7, Zenon DEF m, D, C

-----------------------------------------------------------------------------
(* Powers.                                                                 *)

\* p follows the multiplications by b up to the n-th.
Powers(p, b, n) == p = [k \in 0 .. n |-> IF k = 0 THEN 1 ELSE b * p[k - 1]]

\* The multiplications can be followed as far as one likes.
LEMMA PowersExist == ASSUME NEW b, NEW n \in Nat PROVE \E p : Powers(p, b, n)
<1> DEFINE B == {m \in Nat : ~\E p : Powers(p, b, m)}
<1>1. \E p : Powers(p, b, 0)
  <2>1. Powers([i \in 0 .. 0 |-> 1], b, 0)
    BY DEF Powers
  <2> QED
    BY <2>1
<1>2. ASSUME NEW m \in Nat, NEW p, Powers(p, b, m) PROVE \E q : Powers(q, b, m + 1)
  <2> DEFINE q == [k \in 0 .. m + 1 |-> IF k = m + 1 THEN b * p[m] ELSE p[k]]
  <2>1. \A k \in 0 .. m : q[k] = p[k]
    OBVIOUS
  <2>2. ASSUME NEW k \in 0 .. m + 1 PROVE q[k] = IF k = 0 THEN 1 ELSE b * q[k - 1]
    <3>1. CASE k = m + 1
      BY <2>1, <3>1
    <3>2. CASE k \in 0 .. m
      <4>1. q[k] = p[k] /\ (k # 0 => q[k - 1] = p[k - 1])
        BY <3>2, <2>1
      <4>2. p[k] = IF k = 0 THEN 1 ELSE b * p[k - 1]
        BY <1>2, <3>2 DEF Powers
      <4> HIDE DEF q
      <4> QED
        BY <4>1, <4>2
    <3> QED
      BY <3>1, <3>2
  <2>3. q = [k \in 0 .. m + 1 |-> q[k]]
    OBVIOUS
  <2> HIDE DEF q
  <2>4. Powers(q, b, m + 1)
    BY <2>2, <2>3, Zenon DEF Powers
  <2> QED
    BY <2>4
<1>3. ASSUME n \in B PROVE FALSE
  <2>1. B \in SUBSET Nat /\ B # {}
    BY <1>3
  <2>2. PICK m \in B : \A i \in B : m <= i
    <3> HIDE DEF B
    <3> QED
      BY <2>1, SmallestNumber
  <2>3. m \in Nat /\ m # 0
    BY <1>1
  <2>4. m - 1 \in Nat /\ m - 1 \notin B /\ (m - 1) + 1 = m
    BY <2>1, <2>2, <2>3
  <2>5. \E p : Powers(p, b, m - 1)
    BY <2>4
  <2>6. \E q : Powers(q, b, (m - 1) + 1)
    BY <1>2, <2>4, <2>5
  <2> QED
    BY <2>4, <2>6
<1> QED
  BY <1>3

\* A product of positive numbers is positive, and no smaller than the first.
LEMMA Product ==
  ASSUME NEW a \in Nat \ {0}, NEW b \in Nat \ {0}
  PROVE  a * b \in Nat \ {0} /\ a <= a * b
OBVIOUS

\* Each power is b times the one before, and positive.
LEMMA PowersAre ==
  ASSUME NEW b \in Nat \ {0}, NEW n \in Nat, NEW p, Powers(p, b, n)
  PROVE  /\ p[0] = 1
         /\ \A k \in 1 .. n : p[k] = b * p[k - 1]
         /\ \A k \in 0 .. n : p[k] \in Nat \ {0}
<1>1. p[0] = 1 /\ \A k \in 1 .. n : p[k] = b * p[k - 1]
  BY DEF Powers
<1> DEFINE B == {k \in 0 .. n : p[k] \notin Nat \ {0}}
<1>2. ASSUME B # {} PROVE FALSE
  <2>1. B \in SUBSET Nat
    OBVIOUS
  <2>2. PICK k \in B : \A i \in B : k <= i
    <3> HIDE DEF B
    <3> QED
      BY <1>2, <2>1, SmallestNumber
  <2>3. k \in 1 .. n /\ k - 1 \in 0 .. n /\ k - 1 \notin B
    BY <1>1, <2>2
  <2>4. b * p[k - 1] \in Nat \ {0}
    BY <2>3, Product
  <2> QED
    BY <1>1, <2>2, <2>3, <2>4
<1> QED
  BY <1>1, <1>2

\* The powers of i and of j make that of i + j.
LEMMA PowersAdd ==
  ASSUME NEW b \in Nat \ {0}, NEW n \in Nat, NEW p, Powers(p, b, n),
         NEW i \in Nat, NEW j \in Nat, i + j <= n
  PROVE  p[i + j] = p[i] * p[j]
<1>0. /\ p[0] = 1
      /\ \A k \in 1 .. n : p[k] = b * p[k - 1]
      /\ \A k \in 0 .. n : p[k] \in Nat \ {0}
  BY PowersAre
<1> DEFINE B == {k \in 0 .. j : p[i + k] # p[i] * p[k]}
<1>1. ASSUME B # {} PROVE FALSE
  <2>1. B \in SUBSET Nat
    OBVIOUS
  <2>2. PICK k \in B : \A l \in B : k <= l
    <3> HIDE DEF B
    <3> QED
      BY <1>1, <2>1, SmallestNumber
  <2>3. k \in 0 .. j /\ p[i + k] # p[i] * p[k]
    OBVIOUS
  <2>4. p[i] \in Nat
    BY <1>0
  <2>5. k # 0
    <3>1. i + 0 = i /\ p[i] * 1 = p[i]
      BY <2>4
    <3> QED
      BY <1>0, <2>3, <3>1
  <2>6. k - 1 \in 0 .. j /\ k - 1 \notin B
    BY <2>2, <2>3, <2>5
  <2>7. p[i + (k - 1)] = p[i] * p[k - 1]
    BY <2>6
  <2>8. p[i + k] = b * p[i + (k - 1)] /\ p[k] = b * p[k - 1] /\ p[k - 1] \in Nat
    <3>1. i + k \in 1 .. n /\ (i + k) - 1 = i + (k - 1) /\ k \in 1 .. n /\ k - 1 \in 0 .. n
      BY <2>3, <2>5
    <3> QED
      BY <1>0, <3>1
  <2>9. b * (p[i] * p[k - 1]) = p[i] * (b * p[k - 1])
    BY <2>4, <2>8
  <2> QED
    BY <2>3, <2>7, <2>8, <2>9
<1>2. j \notin B
  BY <1>1, Zenon
<1> QED
  BY <1>2
=============================================================================
