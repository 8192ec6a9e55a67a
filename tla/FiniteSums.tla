----------------------------- MODULE FiniteSums -----------------------------
(***************************************************************************)
(* Sums over a finite set, as MapThenSumSet computes them: what they are   *)
(* when every term is 0, and how they change with one of the terms.        *)
(***************************************************************************)
EXTENDS Integers, FiniteSetsExt, FiniteSetTheorems, WellFoundedInduction, TLAPS

\* The element that is taken out of s next.
First(s) == CHOOSE x \in s : TRUE

\* F adds the terms of f up, over every set of D.
AddsUp(F, f, D) ==
  F = [s \in D |-> IF s = {} THEN 0 ELSE f[First(s)] + F[s \ {First(s)}]]

\* Every nonempty set of subsets of a finite set has a smallest one.
LEMMA SmallestSubset ==
  ASSUME NEW S, IsFiniteSet(S), NEW T, T \subseteq SUBSET S, T # {}
  PROVE  \E s \in T : \A t \in T : ~(t \subseteq s /\ t # s)
<1>1. IsWellFoundedOn(StrictSubsetOrdering(S), SUBSET S)
  BY FS_StrictSubsetOrderingWellFounded, FS_FiniteSubsetsOfFinite
<1>2. \E s \in T : \A t \in T : <<t, s>> \notin StrictSubsetOrdering(S)
  BY <1>1, WFMin
<1>3. \A s, t \in SUBSET S :
        t \subseteq s /\ t # s => <<t, s>> \in StrictSubsetOrdering(S)
  BY DEF StrictSubsetOrdering
<1> QED
  BY <1>2, <1>3

LEMMA SmallestNumber ==
  ASSUME NEW T, T \subseteq Nat, T # {}
  PROVE  \E m \in T : \A n \in T : ~(n < m)
<1>1. \E m \in T : \A n \in T : <<n, m>> \notin OpToRel(<, Nat)
  BY NatLessThanWellFounded, WFMin
<1> QED
  BY <1>1 DEF OpToRel

LEMMA FirstIn == ASSUME NEW s, s # {} PROVE First(s) \in s
BY DEF First

LEMMA SumValue ==
  ASSUME NEW D, NEW f, NEW F, AddsUp(F, f, D), NEW s \in D
  PROVE  F[s] = IF s = {} THEN 0 ELSE f[First(s)] + F[s \ {First(s)}]
<1> DEFINE G == [t \in D |-> IF t = {} THEN 0 ELSE f[First(t)] + F[t \ {First(t)}]]
<1>1. F = G
  BY DEF AddsUp
<1>2. G[s] = IF s = {} THEN 0 ELSE f[First(s)] + F[s \ {First(s)}]
  OBVIOUS
<1> QED
  BY <1>1, <1>2

\* A function that adds up over the subsets of n elements at most is extended
\* to those of n + 1.
LEMMA SumExtends ==
  ASSUME NEW S, IsFiniteSet(S), NEW f, NEW n \in Nat, NEW F,
         AddsUp(F, f, {s \in SUBSET S : Cardinality(s) <= n})
  PROVE  \E G : AddsUp(G, f, {s \in SUBSET S : Cardinality(s) <= n + 1})
<1> DEFINE D(k) == {s \in SUBSET S : Cardinality(s) <= k}
           G == [s \in D(n + 1) |->
                   IF s = {} THEN 0 ELSE f[First(s)] + F[s \ {First(s)}]]
<1>1. \A s \in SUBSET S : Cardinality(s) \in Nat
  BY FS_Subset, FS_CardinalityType
<1>2. ASSUME NEW s \in D(n) PROVE s \in D(n + 1) /\ F[s] = G[s]
  <2>1. s \in D(n + 1)
    BY <1>1
  <2>2. F[s] = IF s = {} THEN 0 ELSE f[First(s)] + F[s \ {First(s)}]
    <3>1. AddsUp(F, f, D(n))
      OBVIOUS
    <3> HIDE DEF D
    <3> QED
      BY <3>1, SumValue
  <2> QED
    BY <2>1, <2>2
<1>3. ASSUME NEW s \in D(n + 1), s # {} PROVE s \ {First(s)} \in D(n)
  <2>1. IsFiniteSet(s) /\ First(s) \in s
    BY <1>3, FirstIn, FS_Subset
  <2>2. Cardinality(s \ {First(s)}) = Cardinality(s) - 1
    BY <2>1, FS_RemoveElement
  <2> QED
    BY <1>1, <2>2
<1>4. AddsUp(G, f, D(n + 1))
  <2>1. \A s \in D(n + 1) : s # {} => F[s \ {First(s)}] = G[s \ {First(s)}]
    BY <1>2, <1>3
  <2> QED
    BY <2>1 DEF AddsUp
<1> QED
  BY <1>4

LEMMA SumExists ==
  ASSUME NEW S, IsFiniteSet(S), NEW f
  PROVE  \E F : AddsUp(F, f, SUBSET S)
<1> DEFINE D(n) == {s \in SUBSET S : Cardinality(s) <= n}
           Bad == {n \in Nat : ~\E F : AddsUp(F, f, D(n))}
<1>1. Bad = {}
  <2> SUFFICES ASSUME Bad # {} PROVE FALSE
    OBVIOUS
  <2>1. PICK m \in Bad : \A n \in Bad : ~(n < m)
    BY SmallestNumber
  <2>2. CASE m = 0
    <3>1. \A s \in D(0) : s = {}
      BY FS_Subset, FS_CardinalityType, FS_EmptySet
    <3>2. AddsUp([s \in D(0) |-> 0], f, D(0))
      BY <3>1 DEF AddsUp
    <3> QED
      BY <2>2, <3>2
  <2>3. CASE m # 0
    <3>1. m - 1 \in Nat /\ m - 1 < m /\ (m - 1) + 1 = m
      BY <2>3, m \in Nat
    <3>2. m - 1 \notin Bad
      BY <2>1, <3>1
    <3>3. PICK F : AddsUp(F, f, D(m - 1))
      BY <3>1, <3>2
    <3>4. \E G : AddsUp(G, f, D((m - 1) + 1))
      BY <3>1, <3>3, SumExtends
    <3> QED
      BY <3>1, <3>4
  <2> QED
    BY <2>2, <2>3
<1>2. Cardinality(S) \in Nat /\ SUBSET S = D(Cardinality(S))
  BY FS_Subset, FS_CardinalityType
<1> QED
  BY <1>1, <1>2

\* The terms of g are those of f, but that of r is d more.
Differ(f, g, S, r, d) ==
  /\ f \in [S -> Int] /\ g \in [S -> Int] /\ d \in Int
  /\ \A x \in S : g[x] = f[x] + (IF x = r THEN d ELSE 0)

\* A sum in which one term has changed has changed by as much.
LEMMA SumDiffers ==
  ASSUME NEW S, IsFiniteSet(S), NEW f, NEW g, NEW F, NEW G,
         AddsUp(F, f, SUBSET S), AddsUp(G, g, SUBSET S),
         NEW r, NEW d, Differ(f, g, S, r, d)
  PROVE  \A s \in SUBSET S :
           F[s] \in Int /\ G[s] = F[s] + (IF r \in s THEN d ELSE 0)
<1> DEFINE Good(s) == F[s] \in Int /\ G[s] = F[s] + (IF r \in s THEN d ELSE 0)
           Bad == {s \in SUBSET S : ~Good(s)}
<1> SUFFICES ASSUME Bad # {} PROVE FALSE
  OBVIOUS
<1>1. PICK s \in Bad : \A t \in Bad : ~(t \subseteq s /\ t # s)
  <2>1. Bad \subseteq SUBSET S
    OBVIOUS
  <2> HIDE DEF Bad
  <2> QED
    BY <2>1, SmallestSubset
<1>2. /\ F[s] = IF s = {} THEN 0 ELSE f[First(s)] + F[s \ {First(s)}]
      /\ G[s] = IF s = {} THEN 0 ELSE g[First(s)] + G[s \ {First(s)}]
  <2>1. s \in SUBSET S
    OBVIOUS
  <2> HIDE DEF Bad
  <2>2. F[s] = IF s = {} THEN 0 ELSE f[First(s)] + F[s \ {First(s)}]
    BY <2>1, SumValue
  <2>3. G[s] = IF s = {} THEN 0 ELSE g[First(s)] + G[s \ {First(s)}]
    BY <2>1, SumValue
  <2> QED
    BY <2>2, <2>3
<1>3. CASE s = {}
  BY <1>2, <1>3 DEF Differ
<1>4. CASE s # {}
  <2>1. First(s) \in s
    BY <1>4, FirstIn
  <2> DEFINE t == s \ {First(s)}
  <2>2. t \in SUBSET S /\ t \subseteq s /\ t # s
    BY <2>1
  <2>3. Good(t)
    BY <1>1, <2>2
  <2>4. /\ f[First(s)] \in Int
        /\ g[First(s)] = f[First(s)] + (IF First(s) = r THEN d ELSE 0)
        /\ r \in t <=> r \in s /\ First(s) # r
    BY <2>1 DEF Differ
  <2>5. F[s] = f[First(s)] + F[t] /\ G[s] = g[First(s)] + G[t]
    BY <1>2, <1>4
  <2> HIDE DEF t
  <2>6. Good(s)
    BY <2>1, <2>3, <2>4, <2>5 DEF Differ
  <2> QED
    BY <2>6
<1> QED
  BY <1>3, <1>4

\* A sum all of whose terms are m.
LEMMA SumOfEqual ==
  ASSUME NEW S, IsFiniteSet(S), NEW f, NEW F, AddsUp(F, f, SUBSET S),
         NEW m \in Int, \A x \in S : f[x] = m
  PROVE  F[S] = m * Cardinality(S)
<1> DEFINE Bad == {s \in SUBSET S : F[s] # m * Cardinality(s)}
<1> SUFFICES ASSUME Bad # {} PROVE FALSE
  OBVIOUS
<1>1. PICK s \in Bad : \A t \in Bad : ~(t \subseteq s /\ t # s)
  <2>1. Bad \subseteq SUBSET S
    OBVIOUS
  <2> HIDE DEF Bad
  <2> QED
    BY <2>1, SmallestSubset
<1>2. F[s] = IF s = {} THEN 0 ELSE f[First(s)] + F[s \ {First(s)}]
  <2>1. s \in SUBSET S
    OBVIOUS
  <2> HIDE DEF Bad
  <2> QED
    BY <2>1, SumValue
<1>3. CASE s = {}
  BY <1>2, <1>3, FS_EmptySet
<1>4. CASE s # {}
  <2> DEFINE t == s \ {First(s)}
  <2>1. First(s) \in s
    BY <1>4, FirstIn
  <2>2. IsFiniteSet(s) /\ Cardinality(s) \in Nat
    BY FS_Subset, FS_CardinalityType, s \in SUBSET S
  <2>3. Cardinality(t) = Cardinality(s) - 1
    BY <2>1, <2>2, FS_RemoveElement
  <2>4. F[t] = m * Cardinality(t)
    BY <1>1, <2>1
  <2>5. m * Cardinality(s) = m + m * (Cardinality(s) - 1)
    BY <2>2
  <2> QED
    BY <1>2, <1>4, <2>1, <2>3, <2>4, <2>5
<1> QED
  BY <1>3, <1>4

-----------------------------------------------------------------------------

\* The sum of the values of f over S.
SumOf(f, S) == MapThenSumSet(LAMBDA x : f[x], S)

LEMMA SumOfAddsUp ==
  ASSUME NEW S, IsFiniteSet(S), NEW f
  PROVE  \E F : AddsUp(F, f, SUBSET S) /\ SumOf(f, S) = F[S]
<1> DEFINE H == CHOOSE F : AddsUp(F, f, SUBSET S)
<1>1. AddsUp(H, f, SUBSET S)
  BY SumExists
<1>2. SumOf(f, S) = H[S]
  BY DEF SumOf, MapThenSumSet, MapThenFoldSet, AddsUp, First
<1> QED
  BY <1>1, <1>2

\* With a change of one term the sum changes by as much.
LEMMA SumStep ==
  ASSUME NEW S, IsFiniteSet(S), NEW f, NEW g, NEW r \in S, NEW d,
         Differ(f, g, S, r, d)
  PROVE  SumOf(f, S) \in Int /\ SumOf(g, S) = SumOf(f, S) + d
<1>1. PICK F : AddsUp(F, f, SUBSET S) /\ SumOf(f, S) = F[S]
  BY SumOfAddsUp
<1>2. PICK G : AddsUp(G, g, SUBSET S) /\ SumOf(g, S) = G[S]
  BY SumOfAddsUp
<1>3. \A s \in SUBSET S :
        F[s] \in Int /\ G[s] = F[s] + (IF r \in s THEN d ELSE 0)
  BY <1>1, <1>2, SumDiffers
<1> QED
  BY <1>1, <1>2, <1>3

LEMMA SumType ==
  ASSUME NEW S, IsFiniteSet(S), NEW f \in [S -> Int]
  PROVE  SumOf(f, S) \in Int
<1>1. PICK F : AddsUp(F, f, SUBSET S) /\ SumOf(f, S) = F[S]
  BY SumOfAddsUp
<1>2. Differ(f, f, S, {}, 0)
  BY DEF Differ
<1>3. PICK G : AddsUp(G, f, SUBSET S)
  BY <1>1
<1>4. \A s \in SUBSET S :
        F[s] \in Int /\ G[s] = F[s] + (IF {} \in s THEN 0 ELSE 0)
  BY <1>1, <1>2, <1>3, SumDiffers
<1> QED
  BY <1>1, <1>4

LEMMA SumEqual ==
  ASSUME NEW S, IsFiniteSet(S), NEW f, NEW m \in Int, \A x \in S : f[x] = m
  PROVE  SumOf(f, S) = m * Cardinality(S)
<1>1. PICK F : AddsUp(F, f, SUBSET S) /\ SumOf(f, S) = F[S]
  BY SumOfAddsUp
<1>2. F[S] = m * Cardinality(S)
  BY <1>1, SumOfEqual
<1> QED
  BY <1>1, <1>2

LEMMA SumZero ==
  ASSUME NEW S, IsFiniteSet(S), NEW f, \A x \in S : f[x] = 0
  PROVE  SumOf(f, S) = 0
<1>1. SumOf(f, S) = 0 * Cardinality(S) /\ Cardinality(S) \in Nat
  BY SumEqual, FS_CardinalityType
<1> QED
  BY <1>1

\* What adds up is the sum.
LEMMA SumIs ==
  ASSUME NEW S, IsFiniteSet(S), NEW f \in [S -> Int],
         NEW F, AddsUp(F, f, SUBSET S)
  PROVE  F[S] = SumOf(f, S)
<1>1. PICK G : AddsUp(G, f, SUBSET S) /\ SumOf(f, S) = G[S]
  BY SumOfAddsUp
<1>2. Differ(f, f, S, {}, 0)
  BY DEF Differ
<1>3. \A s \in SUBSET S :
        F[s] \in Int /\ G[s] = F[s] + (IF {} \in s THEN 0 ELSE 0)
  BY <1>1, <1>2, SumDiffers
<1> QED
  BY <1>1, <1>3
=============================================================================
