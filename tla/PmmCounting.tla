---------------------------- MODULE PmmCounting ----------------------------
(***************************************************************************)
(* Lemmas about the counters of module Pmm, each a number of blocks of one *)
(* bitmap, about the memory they add up to, and about coalesce, which      *)
(* keeps both and the tiling of the pages.                                 *)
(***************************************************************************)
EXTENDS PmmGeometry, FiniteSetTheorems

\* A leaf that names no prover is SMT's, and Zenon's if SMT gives up.
USE SMTT(100), ZenonT(100)

-----------------------------------------------------------------------------
(* Counting.                                                               *)

\* An injective image is as large as the set.
LEMMA CardImage ==
  ASSUME NEW S, IsFiniteSet(S), NEW f, f = [x \in S |-> f[x]],
         \A x, y \in S : f[x] = f[y] => x = y
  PROVE  /\ IsFiniteSet({f[x] : x \in S})
         /\ Cardinality({f[x] : x \in S}) = Cardinality(S)
PROOF
  <1> DEFINE T == {f[x] : x \in S}
  <1>1. f \in [S -> T]
    OBVIOUS
  <1>2. f \in Surjection(S, T)
    BY <1>1 DEF Surjection
  <1>3. f \in Injection(S, T)
    BY <1>1 DEF Injection, IsInjective
  <1> HIDE DEF T
  <1>4. IsFiniteSet(T) /\ Cardinality(T) = Cardinality(S)
    BY <1>2, <1>3, FS_Surjection
  <1> QED
    BY <1>4 DEF T

\* Adding other elements, and taking some away.
LEMMA CardPlus ==
  ASSUME NEW A, NEW B, IsFiniteSet(A), IsFiniteSet(B), A \intersect B = {}
  PROVE  /\ IsFiniteSet(A \union B)
         /\ Cardinality(A \union B) = Cardinality(A) + Cardinality(B)
         /\ Cardinality(A) \in Nat /\ Cardinality(B) \in Nat
PROOF
  <1>1. Cardinality(A \intersect B) = 0
    BY FS_EmptySet
  <1>2. Cardinality(A) \in Nat /\ Cardinality(B) \in Nat
    BY FS_CardinalityType
  <1>3. IsFiniteSet(A \union B)
        /\ Cardinality(A \union B) = Cardinality(A) + Cardinality(B) - Cardinality(A \intersect B)
    BY FS_Union
  <1> QED
    BY <1>1, <1>2, <1>3

\* Taking a part from a finite set takes its size from the size.
LEMMA CardMinus ==
  ASSUME NEW A, NEW B, IsFiniteSet(A), B \subseteq A
  PROVE  /\ IsFiniteSet(A \ B) /\ IsFiniteSet(B)
         /\ Cardinality(A \ B) = Cardinality(A) - Cardinality(B)
         /\ Cardinality(A) \in Nat /\ Cardinality(B) \in Nat /\ Cardinality(A \ B) \in Nat
PROOF
  <1>1. IsFiniteSet(A \ B) /\ IsFiniteSet(B)
    BY FS_Subset
  <1> DEFINE C == A \ B
  <1>2. C \intersect B = {} /\ C \union B = A
    OBVIOUS
  <1> HIDE DEF C
  <1>3. /\ Cardinality(A) = Cardinality(C) + Cardinality(B)
        /\ Cardinality(C) \in Nat /\ Cardinality(B) \in Nat
    BY <1>1, <1>2, CardPlus DEF C
  <1> QED
    BY <1>1, <1>3 DEF C

\* The blocks of one bitmap are finitely many.
LEMMA AtFinite ==
  ASSUME NEW S, NEW l \in Levels
  PROVE  /\ IsFiniteSet(Blocks[l]) /\ IsFiniteSet(At(S, l))
         /\ Cardinality(At(S, l)) \in Nat
PROOF
  <1>1. IsFiniteSet(Blocks[l])
    <2>1. Blocks[l] = 0 .. 8 * size[l] - 1 /\ 0 \in Int /\ 8 * size[l] - 1 \in Int
      BY BlockNumbers
    <2> QED
      BY <2>1, FS_Interval, ZenonT(100)
  <1>2. At(S, l) \in SUBSET Blocks[l]
    BY DEF At
  <1>3. IsFiniteSet(At(S, l))
    BY <1>1, <1>2, FS_Subset
  <1> QED
    BY <1>1, <1>3, FS_CardinalityType

\* Counting the blocks of a set in bitmap l by their numbers.
LEMMA LevelCount ==
  ASSUME NEW S, S \subseteq AllBlocks, NEW l \in Levels
  PROVE  Cardinality({b \in S : b[1] = l}) = Cardinality(At(S, l))
PROOF
  <1> DEFINE f == [j \in At(S, l) |-> <<l, j>>]
  <1>1. \A x, y \in At(S, l) : f[x] = f[y] => x = y
    OBVIOUS
  <1>2. {f[x] : x \in At(S, l)} = {b \in S : b[1] = l}
    <2>1. ASSUME NEW b \in S, b[1] = l
          PROVE  b[2] \in At(S, l) /\ b = f[b[2]]
      BY <2>1, BlockPair DEF At
    <2>2. \A x \in At(S, l) : f[x] \in S /\ f[x][1] = l
      BY DEF At
    <2> HIDE DEF f
    <2> QED
      BY <2>1, <2>2
  <1>3. f = [x \in At(S, l) |-> f[x]]
    OBVIOUS
  <1> HIDE DEF f
  <1>4. IsFiniteSet(At(S, l))
    BY AtFinite
  <1>5. Cardinality({f[x] : x \in At(S, l)}) = Cardinality(At(S, l))
    BY <1>1, <1>3, <1>4, CardImage
  <1> QED
    BY <1>2, <1>5

\* Taking blocks away and adding new ones.
LEMMA CountUpdate ==
  ASSUME NEW F, NEW taken, taken \subseteq F, NEW given, given \intersect F = {},
         NEW l \in Levels
  PROVE  Cardinality(At((F \ taken) \union given, l))
         = Cardinality(At(F, l)) + Cardinality(At(given, l)) - Cardinality(At(taken, l))
PROOF
  <1> DEFINE A == At(F, l)
             T == At(taken, l)
             G == At(given, l)
  <1>1. At((F \ taken) \union given, l) = (A \ T) \union G
    BY DEF At
  <1>2. T \subseteq A /\ (A \ T) \intersect G = {}
    BY DEF At
  <1>3. IsFiniteSet(A) /\ IsFiniteSet(G)
    BY AtFinite
  <1> HIDE DEF A, T, G
  <1>4. /\ IsFiniteSet(A \ T) /\ Cardinality(A \ T) = Cardinality(A) - Cardinality(T)
        /\ Cardinality(A) \in Nat /\ Cardinality(T) \in Nat /\ Cardinality(A \ T) \in Nat
    BY <1>2, <1>3, CardMinus
  <1>5. /\ Cardinality((A \ T) \union G) = Cardinality(A \ T) + Cardinality(G)
        /\ Cardinality(G) \in Nat
    BY <1>2, <1>3, <1>4, CardPlus, ZenonT(100)
  <1> QED
    <2>1. Cardinality((A \ T) \union G) = Cardinality(A) + Cardinality(G) - Cardinality(T)
      BY <1>4, <1>5
    <2> QED
      BY <1>1, <2>1, ZenonT(100) DEF A, T, G

\* initPMM counts the free blocks.
LEMMA InitCount ==
  ASSUME Halving, NEW l \in Levels
  PROVE  InitFree[l] = Cardinality(At(FreeIn(InitClear), l))
PROOF
  <1>1. At(FreeIn(InitClear), l) = marked[l] \ Covered(l)
    <2>1. \A j \in Blocks[l] : <<l, j>> \in AllBlocks
      BY PairBlock
    <2>2. marked[l] \subseteq Blocks[l]
      BY MarkedInside
    <2> QED
      BY <2>1, <2>2, InitBlocks DEF At, MarkedBlocks
  <1>2. Covered(l) \subseteq marked[l]
    BY CoveredFacts
  <1>3. IsFiniteSet(marked[l])
    BY MarkedInside, AtFinite, FS_Subset
  <1>4. Cardinality(marked[l] \ Covered(l)) = Cardinality(marked[l]) - Cardinality(Covered(l))
    BY <1>2, <1>3, CardMinus
  <1> QED
    BY <1>1, <1>4 DEF InitFree

\* Merging turns two blocks of bitmap l into one of the next, for each of M.
LEMMA CountMerge ==
  ASSUME Halving, NEW F, NEW U, Tiles(F, U),
         NEW l \in Levels \ {NUM_BITMAPS - 1}, NEW M, Mergeable(F, l, M), NEW k \in Levels
  PROVE  Cardinality(At((F \union Parents(l, M)) \ Halves(l, M), k))
         = IF k = l THEN Cardinality(At(F, k)) - 2 * Cardinality(M)
           ELSE IF k = l + 1 THEN Cardinality(At(F, k)) + Cardinality(M)
           ELSE Cardinality(At(F, k))
PROOF
  <1> DEFINE P == Parents(l, M)
             H == Halves(l, M)
             c == Cardinality(M)
  <1>0. l \in Nat /\ l + 1 \in Levels \ {0} /\ (l + 1) - 1 = l /\ l \in Levels
    BY LevelFacts
  <1>1. H \subseteq F /\ P \intersect F = {} /\ P \subseteq AllBlocks
    BY TilesMerge, ZenonT(100)
  <1>2. (F \union P) \ H = (F \ H) \union P
    <2> HIDE DEF P, H
    <2> QED
      BY <1>1
  <1>3. Cardinality(At((F \union P) \ H, k))
          = Cardinality(At(F, k)) + Cardinality(At(P, k)) - Cardinality(At(H, k))
    <2> HIDE DEF P, H
    <2> QED
      BY <1>1, <1>2, CountUpdate
  <1>4. Cardinality(At(F, k)) \in Nat
    BY AtFinite
  <1>5. \A i \in M : i \in Nat /\ i \in Blocks[l] /\ i % 2 = 0 /\ i + 1 \in Blocks[l]
    <2>1. \A i \in M : i \in Blocks[l] /\ i % 2 = 0
      BY ZenonT(100) DEF Mergeable
    <2>2. \A i \in M : i \in Nat
      BY <1>0, <2>1, BlockNumbers
    <2> QED
      BY <1>0, <2>1, <2>2, Relatives
  <1>6. IsFiniteSet(M) /\ c \in Nat
    <2>1. IsFiniteSet(Blocks[l]) /\ M \in SUBSET Blocks[l]
      BY <1>0, <1>5, AtFinite
    <2> QED
      BY <2>1, FS_Subset, FS_CardinalityType
  <1>7. Cardinality(At(P, k)) = IF k = l + 1 THEN c ELSE 0
    <2>1. CASE k # l + 1
      <3>1. At(P, k) = {}
        BY <2>1 DEF At, Parents
      <3> QED
        BY <2>1, <3>1, FS_EmptySet
    <2>2. CASE k = l + 1
      <3> DEFINE f == [i \in M |-> PARENT(i)]
      <3>1. \A i \in M : PARENT(i) \in Blocks[l + 1]
        BY <1>0, <1>5, Relatives
      <3>2. At(P, l + 1) = {f[i] : i \in M}
        BY <1>0, <3>1 DEF At, Parents
      <3>3. \A x, y \in M : f[x] = f[y] => x = y
        BY <1>5 DEF PARENT
      <3>4. f = [x \in M |-> f[x]]
        OBVIOUS
      <3> HIDE DEF f
      <3>5. Cardinality({f[i] : i \in M}) = c
        BY <1>6, <3>3, <3>4, CardImage
      <3> QED
        BY <2>2, <3>2, <3>5
    <2> QED
      BY <2>1, <2>2
  <1>8. Cardinality(At(H, k)) = IF k = l THEN 2 * c ELSE 0
    <2>1. CASE k # l
      <3>1. At(H, k) = {}
        BY <2>1 DEF At, Halves
      <3> QED
        BY <2>1, <3>1, FS_EmptySet
    <2>2. CASE k = l
      <3> DEFINE f == [i \in M |-> i + 1]
                 N == {f[i] : i \in M}
      <3>1. At(H, l) = M \union N
        BY <1>5 DEF At, Halves
      <3>2. M \intersect N = {}
        BY <1>5
      <3>3. \A x, y \in M : f[x] = f[y] => x = y
        BY <1>5
      <3>4. f = [x \in M |-> f[x]]
        OBVIOUS
      <3> HIDE DEF f
      <3>5. Cardinality(N) = c /\ IsFiniteSet(N)
        BY <1>6, <3>3, <3>4, CardImage
      <3> HIDE DEF N
      <3>6. Cardinality(M \union N) = c + c
        BY <1>6, <3>2, <3>5, CardPlus, ZenonT(100)
      <3> QED
        BY <1>6, <2>2, <3>1, <3>6
    <2> QED
      BY <2>1, <2>2
  <1> HIDE DEF P, H, c
  <1>9. Cardinality(At((F \union P) \ H, k))
          = IF k = l THEN Cardinality(At(F, k)) - 2 * c
            ELSE IF k = l + 1 THEN Cardinality(At(F, k)) + c
            ELSE Cardinality(At(F, k))
    BY <1>0, <1>3, <1>4, <1>6, <1>7, <1>8
  <1> QED
    BY <1>9 DEF P, H, c

\* The pages of a number of blocks of one bitmap.
LEMMA LevelPages ==
  ASSUME NEW l \in Levels, NEW J, J \subseteq Blocks[l]
  PROVE  LET V == UNION {BlockPages(l, j) : j \in J}
         IN  /\ IsFiniteSet(V) /\ Cardinality(V) = Cardinality(J) * span[l]
             /\ Cardinality(J) \in Nat
PROOF
  <1> DEFINE n == 8 * size[l]
             s == span[l]
             K(m) == {j \in J : j < m}
             V(m) == UNION {BlockPages(l, j) : j \in K(m)}
             Q(m) == /\ IsFiniteSet(V(m)) /\ IsFiniteSet(K(m))
                     /\ Cardinality(V(m)) = Cardinality(K(m)) * s
             S == {m \in 0 .. n : Q(m)}
  <1>0. n \in Nat /\ s \in Nat /\ J \subseteq 0 .. n - 1
    BY BlockNumbers
  <1> HIDE DEF n, s
  <1>1. n \in Nat /\ s \in Nat /\ \A j \in J : j \in Nat /\ j < n
    <2>1. \A j \in 0 .. n - 1 : j \in Nat /\ j < n
      BY <1>0
    <2> QED
      BY <1>0, <2>1, ZenonT(100)
  <1>2. 0 \in S
    <2>1. K(0) = {} /\ V(0) = {}
      BY <1>1
    <2>2. 0 * s = 0
      BY <1>1
    <2>3. Q(0)
      <3> HIDE DEF K, V
      <3> QED
        BY <2>1, <2>2, FS_EmptySet
    <2> HIDE DEF Q
    <2> QED
      BY <1>1, <2>3
  <1>3. ASSUME NEW m \in 0 .. n - 1, m \in S
        PROVE  m + 1 \in S
    <2>1. Q(m) /\ m \in Nat /\ m + 1 \in 0 .. n
      BY <1>1, <1>3
    <2>2. CASE m \notin J
      <3>1. K(m + 1) = K(m)
        BY <1>1, <2>1, <2>2
      <3>2. Q(m + 1)
        <4> HIDE DEF K
        <4> QED
          BY <2>1, <3>1, ZenonT(100)
      <3> HIDE DEF Q
      <3> QED
        BY <2>1, <3>2
    <2>3. CASE m \in J
      <3> DEFINE B == BlockPages(l, m)
                 o == m * span[l]
      <3>1. K(m + 1) = K(m) \union {m} /\ K(m) \intersect {m} = {}
        <4>1. \A j \in J : j < m + 1 <=> j < m \/ j = m
          BY <1>1, <2>1
        <4>2. ~ (m < m)
          BY <2>1
        <4> QED
          BY <2>3, <4>1, <4>2, ZenonT(100)
      <3>2. V(m + 1) = V(m) \union B
        <4> HIDE DEF K
        <4> QED
          BY <3>1
      <3>3. V(m) \intersect B = {}
        <4>1. \A j \in K(m) : j \in Nat /\ j # m
          BY <1>1
        <4> HIDE DEF K
        <4> QED
          BY <2>1, <4>1, BlockDisjoint
      <3>4. IsFiniteSet(B) /\ Cardinality(B) = s
        <4>1. B = o .. o + s - 1 /\ o \in Nat /\ s \in Nat \ {0}
          BY <2>1, PagesInterval DEF Pages, s
        <4> HIDE DEF B, o
        <4>2. o + s - 1 \in Int /\ o <= o + s - 1 /\ (o + s - 1) - o + 1 = s
          BY <4>1
        <4> QED
          BY <4>1, <4>2, FS_Interval
      <3>5. IsFiniteSet({m}) /\ Cardinality({m}) = 1
        BY FS_Singleton, ZenonT(100)
      <3> HIDE DEF K, V, B
      <3>6. /\ IsFiniteSet(V(m + 1)) /\ Cardinality(V(m + 1)) = Cardinality(V(m)) + s
        BY <2>1, <3>2, <3>3, <3>4, CardPlus
      <3>7. /\ IsFiniteSet(K(m + 1)) /\ Cardinality(K(m + 1)) = Cardinality(K(m)) + 1
            /\ Cardinality(K(m)) \in Nat
        BY <2>1, <3>1, <3>5, CardPlus, ZenonT(100)
      <3>8. \A a \in Nat : a * s + s = (a + 1) * s
        BY <1>1
      <3>9. Q(m + 1)
        BY <2>1, <3>6, <3>7, <3>8
      <3> HIDE DEF Q
      <3> QED
        BY <2>1, <3>9
    <2> QED
      BY <2>2, <2>3
  <1>4. Q(n)
    <2> HIDE DEF Q
    <2>1. 0 .. n \subseteq S
      <3> HIDE DEF S
      <3> QED
        BY <1>1, <1>2, <1>3, UpTo
    <2> QED
      BY <1>1, <2>1
  <1>5. K(n) = J
    BY <1>1
  <1>6. Cardinality(J) \in Nat
    <2> HIDE DEF K
    <2> QED
      BY <1>4, <1>5, FS_CardinalityType
  <1> HIDE DEF K
  <1> QED
    BY <1>4, <1>5, <1>6 DEF s

\* The sum that initPMM takes over the bitmaps.
LEMMA MemFacts ==
  ASSUME NEW f \in [Levels -> Int]
  PROVE  \E g \in [Levels -> Int] :
           /\ g[0] = f[0] * PAGE_SIZE
           /\ \A i \in Levels \ {0} : g[i] = f[i] * (PAGE_SIZE * span[i]) + g[i - 1]
           /\ MemOf(f) = g[NUM_BITMAPS - 1]
PROOF
  <1> DEFINE n == NUM_BITMAPS - 1
             w == [i \in Levels |-> f[i] * (PAGE_SIZE * span[i])]
             x == w[0]
             h == [l \in 1 .. n |-> [y \in Int |-> w[l] + y]]
             Body(g, i) == f[i] * (PAGE_SIZE * span[i]) + (IF i = 0 THEN 0 ELSE g[i - 1])
             Is(g) == g = [i \in Levels |-> Body(g, i)]
             sum == CHOOSE g : Is(g)
  <1>0. 0 \in Levels /\ n \in Nat /\ n \in Levels
        /\ \A i \in Levels \ {0} : i \in 1 .. n /\ i - 1 \in Levels
    BY LevelFacts
  <1>1. w \in [Levels -> Int] /\ x = f[0] * PAGE_SIZE
    <2>1. PAGE_SIZE \in Nat /\ \A i \in Levels : span[i] \in Nat
      BY MapAssumption, SpanFacts
    <2>2. \A i \in Levels : f[i] * (PAGE_SIZE * span[i]) \in Int
      BY <2>1
    <2>3. PAGE_SIZE * span[0] = PAGE_SIZE
      BY <2>1, SpanFacts
    <2> QED
      BY <1>0, <2>2, <2>3
  <1>2. \A g, i : i \in Levels /\ i # 0 => Body(g, i) = w[i] + g[i - 1]
    OBVIOUS
  <1>3. \A g : Body(g, 0) = x
    <2>1. x \in Int
      BY <1>0, <1>1
    <2> QED
      BY <1>0, <2>1
  <1>4. MemOf(f) = sum[n]
    BY DEF MemOf
  <1> HIDE DEF w, x, Body
  <1>5. PICK g \in [0 .. n -> Int] : Unfolds(g, n, x, h)
    <2>1. x \in Int
      BY <1>0, <1>1 DEF x
    <2>2. h \in [1 .. n -> [Int -> Int]]
      BY <1>1, LevelFacts
    <2> HIDE DEF n, h
    <2> QED
      BY <1>0, <2>1, <2>2, Recursion, ZenonT(100)
  <1>6. Is(g)
    <2> SUFFICES ASSUME NEW l \in 0 .. n
                 PROVE  g[l] = Body(g, l)
      BY LevelFacts
    <2>1. l # 0 => l \in 1 .. n /\ l - 1 \in 0 .. n /\ l \in Levels
      BY LevelFacts
    <2>2. l # 0 => h[l][g[l - 1]] = w[l] + g[l - 1]
      BY <2>1
    <2> HIDE DEF h
    <2> QED
      BY <1>2, <1>3, <1>5, <2>1, <2>2, ZenonT(100) DEF Unfolds
  <1>7. Is(sum)
    <2> HIDE DEF Is
    <2> QED
      BY <1>6
  <1> HIDE DEF sum
  <1>8. \A i \in Levels : sum[i] = Body(sum, i)
    BY <1>7
  <1>9. sum[0] = x /\ \A i \in Levels \ {0} : sum[i] = w[i] + sum[i - 1]
    BY <1>0, <1>2, <1>3, <1>8
  <1>10. \A i \in Levels : sum[i] \in Int
    <2> DEFINE S == {i \in 0 .. n : sum[i] \in Int}
    <2>1. 0 \in S
      BY <1>0, <1>1, <1>9 DEF x
    <2>2. ASSUME NEW k \in 0 .. n - 1, k \in S
          PROVE  k + 1 \in S
      <3>1. k + 1 \in Levels \ {0} /\ (k + 1) - 1 = k /\ k + 1 \in 0 .. n
        BY LevelFacts
      <3>2. sum[k + 1] = w[k + 1] + sum[k] /\ w[k + 1] \in Int
        BY <1>1, <1>9, <3>1, ZenonT(100)
      <3> QED
        BY <2>2, <3>1, <3>2
    <2>3. 0 .. n \subseteq S
      <3> HIDE DEF S, n
      <3> QED
        BY <1>0, <2>1, <2>2, UpTo, ZenonT(100)
    <2> QED
      BY <2>3, LevelFacts
  <1>11. sum \in [Levels -> Int]
    BY <1>7, <1>10
  <1>12. \A i \in Levels \ {0} : sum[i] = f[i] * (PAGE_SIZE * span[i]) + sum[i - 1]
    BY <1>9 DEF w
  <1> HIDE DEF Is
  <1> QED
    BY <1>1, <1>4, <1>9, <1>11, <1>12, ZenonT(100)

\* What the free counters add up to is the memory in the pages that are tiled.
LEMMA MemTiles ==
  ASSUME Halving, NEW F, NEW U, Tiles(F, U), NEW f \in [Levels -> Nat],
         \A l \in Levels : f[l] = Cardinality(At(F, l))
  PROVE  /\ IsFiniteSet(U) /\ Cardinality(U) \in Nat
         /\ MemOf(f) = PAGE_SIZE * Cardinality(U)
PROOF
  <1> DEFINE n == NUM_BITMAPS - 1
             V(l) == UNION {BlockPages(l, j) : j \in At(F, l)}
             W(l) == UNION {V(k) : k \in 0 .. l}
  <1>0. n \in Levels /\ 0 \in Levels /\ n \in Nat /\ PAGE_SIZE \in Nat
    BY LevelFacts, MapAssumption
  <1>1. PICK g \in [Levels -> Int] :
          /\ g[0] = f[0] * PAGE_SIZE
          /\ \A i \in Levels \ {0} : g[i] = f[i] * (PAGE_SIZE * span[i]) + g[i - 1]
          /\ MemOf(f) = g[n]
    <2>1. f \in [Levels -> Int]
      OBVIOUS
    <2> QED
      BY <2>1, MemFacts
  <1>2. ASSUME NEW l \in Levels
        PROVE  /\ IsFiniteSet(V(l)) /\ Cardinality(V(l)) = f[l] * span[l]
               /\ f[l] \in Nat /\ span[l] \in Nat
    <2>1. At(F, l) \subseteq Blocks[l]
      BY DEF At
    <2>2. IsFiniteSet(V(l)) /\ Cardinality(V(l)) = Cardinality(At(F, l)) * span[l]
      BY <2>1, LevelPages
    <2> QED
      BY <2>2, SpanFacts
  <1>3. ASSUME NEW k \in Levels, NEW l \in Levels, k # l
        PROVE  V(k) \intersect V(l) = {}
    <2> SUFFICES ASSUME NEW p, p \in V(k), p \in V(l) PROVE FALSE
      OBVIOUS
    <2>1. PICK i \in At(F, k) : p \in BlockPages(k, i)
      OBVIOUS
    <2>2. PICK j \in At(F, l) : p \in BlockPages(l, j)
      OBVIOUS
    <2>3. <<k, i>> \in F /\ <<l, j>> \in F /\ p \in Pages(<<k, i>>) /\ p \in Pages(<<l, j>>)
      BY <2>1, <2>2 DEF At, Pages
    <2>4. <<k, i>> = <<l, j>>
      BY <2>3 DEF Tiles
    <2> QED
      BY <1>3, <2>4
  <1> HIDE DEF V
  <1> DEFINE Q(l) == IsFiniteSet(W(l)) /\ g[l] = PAGE_SIZE * Cardinality(W(l))
             S == {l \in 0 .. n : Q(l)}
  <1>4. 0 \in S
    <2>1. W(0) = V(0)
      OBVIOUS
    <2>2. span[0] = 1
      BY SpanFacts
    <2>3. Cardinality(V(0)) = f[0] /\ IsFiniteSet(V(0)) /\ f[0] \in Nat
      BY <1>0, <1>2, <2>2
    <2>4. g[0] = PAGE_SIZE * f[0]
      BY <1>0, <1>1, <2>3
    <2>5. Q(0)
      BY <2>1, <2>3, <2>4, ZenonT(100)
    <2> HIDE DEF Q
    <2> QED
      BY <1>0, <2>5
  <1>5. ASSUME NEW l \in 0 .. n - 1, l \in S
        PROVE  l + 1 \in S
    <2> DEFINE m == l + 1
    <2>1. m \in Levels \ {0} /\ m - 1 = l /\ m \in 0 .. n /\ Q(l)
          /\ 0 .. m = (0 .. l) \union {m} /\ \A k \in 0 .. l : k \in Levels /\ k # m
      BY <1>5, LevelFacts
    <2> HIDE DEF m
    <2>2. W(m) = W(l) \union V(m)
      BY <2>1
    <2>3. W(l) \intersect V(m) = {}
      BY <1>3, <2>1
    <2>4. /\ IsFiniteSet(V(m)) /\ Cardinality(V(m)) = f[m] * span[m]
          /\ f[m] \in Nat /\ span[m] \in Nat
      BY <1>2, <2>1
    <2> HIDE DEF W
    <2>5. /\ IsFiniteSet(W(m)) /\ Cardinality(W(m)) = Cardinality(W(l)) + Cardinality(V(m))
          /\ Cardinality(W(l)) \in Nat
      <3>1. IsFiniteSet(W(l)) /\ IsFiniteSet(V(m))
        BY <2>1, <2>4
      <3> DEFINE A == W(l)
                 B == V(m)
      <3>2. IsFiniteSet(A) /\ IsFiniteSet(B) /\ A \intersect B = {} /\ W(m) = A \union B
        BY <2>2, <2>3, <3>1
      <3> HIDE DEF A, B
      <3>3. /\ IsFiniteSet(A \union B) /\ Cardinality(A \union B) = Cardinality(A) + Cardinality(B)
            /\ Cardinality(A) \in Nat
        BY <3>2, CardPlus, ZenonT(100)
      <3> QED
        BY <3>2, <3>3 DEF A, B
    <2>6. g[m] = f[m] * (PAGE_SIZE * span[m]) + g[l]
      BY <1>1, <2>1
    <2>7. \A a, b, c, s \in Nat : a * (s * b) + s * c = s * (c + a * b)
      OBVIOUS
    <2>8. g[m] = PAGE_SIZE * (Cardinality(W(l)) + f[m] * span[m])
      BY <1>0, <2>1, <2>4, <2>5, <2>6, <2>7
    <2>9. Q(m)
      BY <2>4, <2>5, <2>8
    <2> HIDE DEF Q
    <2> QED
      BY <2>1, <2>9 DEF m
  <1>6. Q(n)
    <2> HIDE DEF Q
    <2>1. 0 .. n \subseteq S
      <3> HIDE DEF S, n
      <3> QED
        BY <1>0, <1>4, <1>5, UpTo
    <2> QED
      BY <1>0, <2>1
  <1>7. W(n) = U
    <2>1. ASSUME NEW p \in U
          PROVE  p \in W(n)
      <3>1. PICK b \in F : p \in Pages(b)
        BY DEF Tiles
      <3>2. b \in AllBlocks
        BY DEF Tiles
      <3>3. b = <<b[1], b[2]>> /\ b[1] \in 0 .. n /\ b[1] \in Levels /\ b[2] \in Blocks[b[1]]
        BY <3>2, BlockPair, LevelFacts
      <3>4. b[2] \in At(F, b[1])
        BY <3>3 DEF At
      <3>5. p \in V(b[1])
        BY <3>1, <3>4 DEF V, Pages
      <3> QED
        BY <3>3, <3>5
    <2>2. ASSUME NEW p \in W(n)
          PROVE  p \in U
      <3>1. PICK k \in 0 .. n : p \in V(k)
        OBVIOUS
      <3>2. PICK j \in At(F, k) : p \in BlockPages(k, j)
        BY <3>1 DEF V
      <3>3. <<k, j>> \in F /\ p \in Pages(<<k, j>>)
        BY <3>2 DEF At, Pages
      <3> QED
        BY <3>3 DEF Tiles
    <2> QED
      BY <2>1, <2>2
  <1> HIDE DEF W, n
  <1>8. Cardinality(U) \in Nat
    BY <1>6, <1>7, FS_CardinalityType
  <1> QED
    BY <1>1, <1>6, <1>7, <1>8

-----------------------------------------------------------------------------
(* coalesce.                                                               *)

\* What coalesce works on.
CoalesceState == [clear : SUBSET Int, free : [Levels -> Int], pages : Nat, index : Nat,
                  inside : BOOLEAN]

\* The calls of coalesce.
After(m) ==
  CHOOSE after : after = [l \in Levels |-> IF l = 0 THEN m
                                          ELSE coalesceLevel(after[l - 1], l - 1)]

\* The pairs that a call looks at begin at even blocks.
LEMMA PairsFacts ==
  ASSUME NEW pages \in Nat, NEW index \in Nat
  PROVE  /\ IsFiniteSet(Pairs(pages, index))
         /\ \A i \in Pairs(pages, index) : i \in Nat /\ i % 2 = 0 /\ i < index + pages
PROOF
  <1>1. ASSUME NEW i \in Pairs(pages, index)
        PROVE  i \in Nat /\ i % 2 = 0 /\ i < index + pages
    <2>1. PICK k \in index .. index + pages - 1 :
            (k - index) % 2 = 0 /\ i = k - (index % 2)
      BY DEF Pairs
    <2>2. CASE index % 2 = 0
      BY <2>1, <2>2
    <2>3. CASE index % 2 = 1
      BY <2>1, <2>3
    <2> QED
      BY <2>2, <2>3
  <1>2. IsFiniteSet(Pairs(pages, index))
    <2>1. Pairs(pages, index) \in SUBSET (0 .. index + pages)
      BY <1>1
    <2>2. IsFiniteSet(0 .. index + pages)
      BY FS_Interval
    <2> QED
      BY <2>1, <2>2, FS_Subset
  <1> QED
    BY <1>1, <1>2

\* The pairs of a run that is one page or begins at an even page hold all its pages.
LEMMA PairsCover ==
  ASSUME NEW pages \in Nat, NEW index \in Nat, pages = 1 \/ index % 2 = 0,
         NEW j \in Nat, j % 2 = 0,
         j \in index .. index + pages - 1 \/ j + 1 \in index .. index + pages - 1
  PROVE  j \in Pairs(pages, index)
PROOF
  <1>1. CASE index % 2 = 0
    <2>1. j \in index .. index + pages - 1 /\ (j - index) % 2 = 0 /\ j = j - (index % 2)
      BY <1>1
    <2> QED
      BY <2>1 DEF Pairs
  <1>2. CASE index % 2 = 1 /\ pages = 1
    <2>1. /\ index \in index .. index + pages - 1 /\ (index - index) % 2 = 0
          /\ j = index - (index % 2)
      BY <1>2
    <2> QED
      BY <2>1 DEF Pairs
  <1> QED
    BY <1>1, <1>2

\* coalesce stays within its states ...
LEMMA CoalesceType ==
  ASSUME NEW m \in CoalesceState, NEW l \in Levels \ {NUM_BITMAPS - 1}
  PROVE  coalesceLevel(m, l) \in CoalesceState
PROOF
  <1> DEFINE pairs == Pairs(m.pages, m.index)
             merged == {i \in pairs : {Bit(l, i), Bit(l, i + 1)} \subseteq m.clear}
  <1>1. m.pages \in Nat /\ m.index \in Nat /\ m.clear \in SUBSET Int
        /\ m.free \in [Levels -> Int]
    BY DEF CoalesceState
  <1>2. IsFiniteSet(pairs) /\ \A i \in pairs : i \in Nat
    BY <1>1, PairsFacts
  <1> HIDE DEF pairs
  <1>3. IsFiniteSet(merged) /\ \A i \in merged : i \in Nat
    BY <1>2, FS_Subset
  <1>4. l \in Levels /\ l + 1 \in Levels /\ base[l + 1] \in Nat
    BY LevelFacts, BaseFacts
  <1> HIDE DEF merged
  <1>5. Cardinality(merged) \in Nat
    BY <1>3, FS_CardinalityType
  <1>6. {Bit(l + 1, PARENT(i)) : i \in merged} \in SUBSET Int
    BY <1>3, <1>4 DEF Bit, PARENT
  <1>7. [m.free EXCEPT ![l] = @ - 2 * Cardinality(merged),
                       ![l + 1] = @ + Cardinality(merged)] \in [Levels -> Int]
    BY <1>1, <1>4, <1>5
  <1>8. m.pages \div 2 \in Nat /\ PARENT(m.index) \in Nat
    BY <1>1 DEF PARENT
  <1> QED
    BY <1>1, <1>6, <1>7, <1>8 DEF coalesceLevel, CoalesceState, merged, pairs

\* ... and calls itself for every bitmap but the highest.
LEMMA AfterFacts ==
  ASSUME NEW m \in CoalesceState
  PROVE  /\ \A l \in Levels : After(m)[l] \in CoalesceState
         /\ After(m)[0] = m
         /\ \A l \in Levels \ {0} : After(m)[l] = coalesceLevel(After(m)[l - 1], l - 1)
         /\ coalesce(m) = After(m)[NUM_BITMAPS - 1]
PROOF
  <1> DEFINE n == NUM_BITMAPS - 1
             T == CoalesceState
             Step(y, l) == coalesceLevel(y, l - 1)
             f == [l \in 1 .. n |-> [y \in T |-> Step(y, l)]]
             Is(g) == g = [l \in Levels |-> IF l = 0 THEN m ELSE Step(g[l - 1], l)]
             a == After(m)
  <1>0. /\ 0 \in Levels /\ n \in Nat
        /\ \A l \in 1 .. n : l - 1 \in Levels \ {NUM_BITMAPS - 1}
        /\ \A l \in Levels \ {0} : l \in 1 .. n
    BY LevelFacts
  <1>1. \A l \in 1 .. n : \A y \in T : Step(y, l) \in T
    BY <1>0, CoalesceType
  <1>2. a = CHOOSE g : Is(g)
    BY DEF After
  <1>3. coalesce(m) = a[n]
    BY DEF coalesce, After
  <1>4. \A y, l : Step(y, l) = coalesceLevel(y, l - 1)
    OBVIOUS
  <1> HIDE DEF Step, T, a
  <1>5. PICK g \in [0 .. n -> T] : Unfolds(g, n, m, f)
    <2>1. m \in T /\ f \in [1 .. n -> [T -> T]]
      BY <1>1 DEF T
    <2> HIDE DEF n, f
    <2> QED
      BY <1>0, <2>1, Recursion
  <1>6. Is(g)
    <2> SUFFICES ASSUME NEW l \in 0 .. n
                 PROVE  g[l] = IF l = 0 THEN m ELSE Step(g[l - 1], l)
      BY LevelFacts
    <2>1. l # 0 => l \in 1 .. n /\ l - 1 \in 0 .. n
      BY LevelFacts
    <2>2. l # 0 => f[l][g[l - 1]] = Step(g[l - 1], l)
      BY <2>1
    <2> HIDE DEF f
    <2> QED
      BY <1>5, <2>1, <2>2 DEF Unfolds
  <1>7. Is(a)
    <2> HIDE DEF Is
    <2> QED
      BY <1>2, <1>6
  <1>8. a[0] = m /\ \A l \in Levels \ {0} : a[l] = Step(a[l - 1], l)
    BY <1>0, <1>7, ZenonT(100)
  <1>9. \A l \in Levels : a[l] \in T
    <2> DEFINE S == {l \in 0 .. n : a[l] \in T}
    <2>1. 0 \in S
      BY <1>0, <1>8 DEF T
    <2>2. ASSUME NEW k \in 0 .. n - 1, k \in S
          PROVE  k + 1 \in S
      <3>1. k + 1 \in Levels \ {0} /\ (k + 1) - 1 = k /\ k + 1 \in 1 .. n /\ k + 1 \in 0 .. n
        BY LevelFacts
      <3>2. a[k + 1] = Step(a[k], k + 1)
        BY <1>8, <3>1
      <3> QED
        BY <1>1, <2>2, <3>1, <3>2
    <2>3. 0 .. n \subseteq S
      <3> HIDE DEF S, n
      <3> QED
        BY <1>0, <2>1, <2>2, UpTo
    <2> QED
      BY <2>3, LevelFacts
  <1> HIDE DEF Is
  <1> QED
    BY <1>3, <1>4, <1>8, <1>9 DEF a, T

\* Both pages of the pair at j are free.
BothFree(F, j) == j \in Nat /\ j % 2 = 0 /\ <<0, j>> \in F /\ <<0, j + 1>> \in F

\* What holds when coalesce is called for bitmap l, U being the pages that are
\* free: they are tiled and counted, the call stays in its bitmap, and a pair of
\* free pages is one that the first call is about to merge.
CoalesceInv(m, l, U) ==
  LET F == FreeIn(m.clear)
  IN  /\ m \in CoalesceState
      /\ Tiles(F, U) /\ m.clear \subseteq Bits
      /\ \A k \in Levels : m.free[k] = Cardinality(At(F, k))
      /\ m.inside = TRUE
      /\ m.index + m.pages <= 8 * size[l]
      /\ \A j : BothFree(F, j) => l = 0 /\ j \in Pairs(m.pages, m.index)

\* The blocks of a call's pairs.
LEMMA CoalescePairs ==
  ASSUME Halving, NEW l \in Levels \ {NUM_BITMAPS - 1}, NEW m, NEW U, CoalesceInv(m, l, U)
  PROVE  LET pairs == Pairs(m.pages, m.index)
             merged == {i \in pairs : {Bit(l, i), Bit(l, i + 1)} \subseteq m.clear}
         IN  /\ \A i \in pairs : /\ i \in Nat /\ i % 2 = 0 /\ {i, i + 1} \subseteq Blocks[l]
                                 /\ PARENT(i) \in Blocks[l + 1]
             /\ merged = {i \in pairs : <<l, i>> \in FreeIn(m.clear)
                                        /\ <<l, i + 1>> \in FreeIn(m.clear)}
             /\ Mergeable(FreeIn(m.clear), l, merged)
             /\ {Bit(l + 1, PARENT(i)) : i \in merged} = BitsOf(Parents(l, merged))
             /\ {Bit(l, i) : i \in merged} \union {Bit(l, i + 1) : i \in merged}
                = BitsOf(Halves(l, merged))
PROOF
  <1> DEFINE pairs == Pairs(m.pages, m.index)
             merged == {i \in pairs : {Bit(l, i), Bit(l, i + 1)} \subseteq m.clear}
             F == FreeIn(m.clear)
  <1>0. l \in Levels /\ l + 1 \in Levels \ {0} /\ (l + 1) - 1 = l
    BY LevelFacts
  <1>1. m.pages \in Nat /\ m.index \in Nat /\ m.index + m.pages <= 8 * size[l]
    BY DEF CoalesceInv, CoalesceState
  <1>2. ASSUME NEW i \in pairs
        PROVE  /\ i \in Nat /\ i % 2 = 0 /\ i \in Blocks[l] /\ i + 1 \in Blocks[l]
               /\ PARENT(i) \in Blocks[l + 1]
    <2>1. i \in Nat /\ i % 2 = 0 /\ i < m.index + m.pages
      BY <1>1, PairsFacts
    <2>2. i \in Blocks[l]
      <3>1. Blocks[l] = 0 .. 8 * size[l] - 1 /\ size[l] \in Nat
        BY <1>0, BlockNumbers
      <3>2. i < 8 * size[l]
        BY <1>1, <2>1, <3>1
      <3> QED
        BY <2>1, <3>1, <3>2
    <2>3. i + 1 \in Blocks[l] /\ PARENT(i) \in Blocks[l + 1]
      BY <1>0, <2>1, <2>2, Relatives
    <2> QED
      BY <2>1, <2>2, <2>3
  <1>3. ASSUME NEW i \in pairs
        PROVE  /\ Bit(l, i) \in m.clear <=> <<l, i>> \in F
               /\ Bit(l, i + 1) \in m.clear <=> <<l, i + 1>> \in F
    <2>1. <<l, i>> \in AllBlocks /\ <<l, i + 1>> \in AllBlocks
      BY <1>0, <1>2, PairBlock
    <2> QED
      BY <2>1 DEF FreeIn
  <1>4. merged = {i \in pairs : <<l, i>> \in F /\ <<l, i + 1>> \in F}
    <2> HIDE DEF F, pairs
    <2> QED
      BY <1>3
  <1>5. Mergeable(F, l, merged)
    BY <1>2, <1>3 DEF Mergeable
  <1> HIDE DEF merged
  <1>6. {Bit(l + 1, PARENT(i)) : i \in merged} = BitsOf(Parents(l, merged))
    <2>1. \A x \in BitsOf(Parents(l, merged)) : \E i \in merged : x = Bit(l + 1, PARENT(i))
      BY DEF BitsOf, Parents
    <2>2. ASSUME NEW i \in merged
          PROVE  Bit(l + 1, PARENT(i)) \in BitsOf(Parents(l, merged))
      <3>1. <<l + 1, PARENT(i)>> \in Parents(l, merged)
        BY DEF Parents
      <3> QED
        BY <3>1 DEF BitsOf
    <2> QED
      BY <2>1, <2>2
  <1>7. {Bit(l, i) : i \in merged} \union {Bit(l, i + 1) : i \in merged}
          = BitsOf(Halves(l, merged))
    <2>1. \A x \in BitsOf(Halves(l, merged)) :
            \E i \in merged : x = Bit(l, i) \/ x = Bit(l, i + 1)
      BY DEF BitsOf, Halves
    <2>2. ASSUME NEW i \in merged
          PROVE  Bit(l, i) \in BitsOf(Halves(l, merged)) /\ Bit(l, i + 1) \in BitsOf(Halves(l, merged))
      <3>1. <<l, i>> \in Halves(l, merged) /\ <<l, i + 1>> \in Halves(l, merged)
        BY DEF Halves
      <3> QED
        BY <3>1 DEF BitsOf
    <2> QED
      BY <2>1, <2>2
  <1> QED
    BY <1>2, <1>4, <1>5, <1>6, <1>7 DEF merged

\* A call of coalesce keeps it for the next one.
LEMMA CoalesceStep ==
  ASSUME Halving, NEW l \in Levels \ {NUM_BITMAPS - 1}, NEW m, NEW U, CoalesceInv(m, l, U)
  PROVE  CoalesceInv(coalesceLevel(m, l), l + 1, U)
PROOF
  <1> DEFINE pairs == Pairs(m.pages, m.index)
             merged == {i \in pairs : {Bit(l, i), Bit(l, i + 1)} \subseteq m.clear}
             F == FreeIn(m.clear)
             P == Parents(l, merged)
             H == Halves(l, merged)
             new == coalesceLevel(m, l)
             c == Cardinality(merged)
  <1>0. l \in Levels /\ l \in Nat /\ l + 1 \in Levels \ {0} /\ (l + 1) - 1 = l /\ l + 1 # 0
    BY LevelFacts
  <1>1. /\ m \in CoalesceState /\ Tiles(F, U) /\ m.clear \subseteq Bits /\ m.inside = TRUE
        /\ \A k \in Levels : m.free[k] = Cardinality(At(F, k))
        /\ m.index + m.pages <= 8 * size[l]
        /\ \A j : BothFree(F, j) => l = 0 /\ j \in pairs
    BY DEF CoalesceInv
  <1>2. /\ \A i \in pairs : /\ i \in Nat /\ i % 2 = 0 /\ {i, i + 1} \subseteq Blocks[l]
                            /\ PARENT(i) \in Blocks[l + 1]
        /\ merged = {i \in pairs : <<l, i>> \in F /\ <<l, i + 1>> \in F}
        /\ Mergeable(F, l, merged)
        /\ {Bit(l + 1, PARENT(i)) : i \in merged} = BitsOf(P)
        /\ {Bit(l, i) : i \in merged} \union {Bit(l, i + 1) : i \in merged} = BitsOf(H)
    BY CoalescePairs, ZenonT(100)
  <1>3. new \in CoalesceState
    BY <1>1, CoalesceType
  <1>4. /\ new.clear = (m.clear \union {Bit(l + 1, PARENT(i)) : i \in merged})
                       \ ({Bit(l, i) : i \in merged} \union {Bit(l, i + 1) : i \in merged})
        /\ new.free = [m.free EXCEPT ![l] = @ - 2 * c, ![l + 1] = @ + c]
        /\ new.pages = m.pages \div 2 /\ new.index = PARENT(m.index)
        /\ new.inside = (m.inside /\ \A i \in pairs : /\ {i, i + 1} \subseteq Blocks[l]
                                                     /\ PARENT(i) \in Blocks[l + 1])
    BY ZenonT(100) DEF coalesceLevel
  <1> HIDE DEF new, merged, pairs
  <1>5. new.clear = (m.clear \union BitsOf(P)) \ BitsOf(H)
    BY <1>2, <1>4, ZenonT(100)
  <1>6. /\ Tiles((F \union P) \ H, U) /\ H \subseteq F /\ P \subseteq AllBlocks
    BY <1>1, <1>2, TilesMerge, ZenonT(100)
  <1>7. H \subseteq AllBlocks
    BY <1>1, <1>6 DEF FreeIn
  <1>8. FreeIn(new.clear) = (F \union P) \ H
    <2> HIDE DEF P, H
    <2> QED
      <3> DEFINE x == m.clear
                 y == x \union BitsOf(P)
      <3>1. FreeIn(y) = FreeIn(x) \union P
        <4> HIDE DEF x
        <4> QED
          BY <1>6, FreeAdd
      <3>2. FreeIn(y \ BitsOf(H)) = FreeIn(y) \ H
        <4> HIDE DEF y
        <4> QED
          BY <1>7, FreeDrop
      <3> QED
        BY <1>5, <3>1, <3>2
  <1>9. new.clear \subseteq Bits
    BY <1>1, <1>5, <1>6, BitsOfBlocks
  <1>10. ASSUME NEW k \in Levels
         PROVE  new.free[k] = Cardinality(At(FreeIn(new.clear), k))
    <2>1. Cardinality(At((F \union P) \ H, k))
            = IF k = l THEN Cardinality(At(F, k)) - 2 * c
              ELSE IF k = l + 1 THEN Cardinality(At(F, k)) + c
              ELSE Cardinality(At(F, k))
      <3>1. Tiles(F, U) /\ Mergeable(F, l, merged)
        BY <1>1, <1>2
      <3> HIDE DEF F
      <3> QED
        BY <3>1, CountMerge
    <2>2. new.free[k] = IF k = l THEN m.free[k] - 2 * c
                        ELSE IF k = l + 1 THEN m.free[k] + c ELSE m.free[k]
      <3>1. m.free \in [Levels -> Int]
        BY <1>1 DEF CoalesceState
      <3> QED
        BY <1>0, <1>4, <3>1
    <2> HIDE DEF P, H, F, c
    <2> QED
      BY <1>1, <1>8, <2>1, <2>2
  <1>11. new.inside = TRUE
    BY <1>1, <1>2, <1>4, ZenonT(100)
  <1>12. new.index + new.pages <= 8 * size[l + 1]
    <2>1. m.pages \in Nat /\ m.index \in Nat
      BY <1>1 DEF CoalesceState
    <2>2. size[l] = 2 * size[l + 1] /\ size[l + 1] \in Nat
      BY <1>0, BlockNumbers DEF Halving
    <2>3. \A x, y, z \in Nat : x + y <= 8 * (2 * z) => (x \div 2) + (y \div 2) <= 8 * z
      OBVIOUS
    <2> QED
      BY <1>1, <1>4, <2>1, <2>2, <2>3 DEF PARENT
  <1>13. ASSUME NEW j, BothFree(FreeIn(new.clear), j)
         PROVE  FALSE
    <2>1. j \in Nat /\ j % 2 = 0 /\ <<0, j>> \in (F \union P) \ H /\ <<0, j + 1>> \in (F \union P) \ H
      BY <1>8, <1>13 DEF BothFree
    <2>2. \A d \in P : d[1] = l + 1
      BY DEF Parents
    <2>3. <<0, j>> \in F /\ <<0, j + 1>> \in F
      BY <1>0, <2>1, <2>2
    <2>4. l = 0 /\ j \in pairs
      BY <1>1, <2>1, <2>3 DEF BothFree
    <2>5. j \in merged
      BY <1>2, <2>3, <2>4
    <2>6. <<0, j>> \in H
      BY <2>4, <2>5 DEF Halves
    <2> QED
      BY <2>1, <2>6
  <1>14. Tiles(FreeIn(new.clear), U)
    BY <1>6, <1>8
  <1>15. \A k \in Levels : new.free[k] = Cardinality(At(FreeIn(new.clear), k))
    BY <1>10
  <1> HIDE DEF F, P, H
  <1> QED
    BY <1>3, <1>9, <1>11, <1>12, <1>13, <1>14, <1>15 DEF CoalesceInv, new

\* When coalesce is done, the pages are tiled and counted and no pair is free.
LEMMA CoalesceDone ==
  ASSUME Halving, NEW m, NEW U, CoalesceInv(m, 0, U)
  PROVE  CoalesceInv(coalesce(m), NUM_BITMAPS - 1, U)
PROOF
  <1> DEFINE n == NUM_BITMAPS - 1
             a == After(m)
             S == {l \in 0 .. n : CoalesceInv(a[l], l, U)}
  <1>1. /\ a[0] = m
        /\ \A l \in Levels \ {0} : a[l] = coalesceLevel(a[l - 1], l - 1)
        /\ coalesce(m) = a[n]
    <2>1. m \in CoalesceState
      BY DEF CoalesceInv
    <2> QED
      BY <2>1, AfterFacts
  <1> HIDE DEF a
  <1>2. 0 \in S
    BY <1>1, LevelFacts
  <1>3. ASSUME NEW k \in 0 .. n - 1, k \in S
        PROVE  k + 1 \in S
    <2>1. k + 1 \in Levels \ {0} /\ (k + 1) - 1 = k /\ k + 1 \in 0 .. n
          /\ k \in Levels \ {NUM_BITMAPS - 1}
      BY LevelFacts
    <2>2. a[k + 1] = coalesceLevel(a[k], k)
      BY <1>1, <2>1
    <2>3. CoalesceInv(a[k], k, U)
      BY <1>3
    <2>4. CoalesceInv(a[k + 1], k + 1, U)
      BY <2>1, <2>2, <2>3, CoalesceStep
    <2> QED
      BY <2>1, <2>4
  <1>4. 0 .. n \subseteq S
    <2> HIDE DEF S, n
    <2> QED
      BY <1>2, <1>3, UpTo, LevelFacts DEF n
  <1> QED
    BY <1>1, <1>4, LevelFacts
=============================================================================
