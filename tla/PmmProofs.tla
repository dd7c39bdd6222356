----------------------------- MODULE PmmProofs -----------------------------
(***************************************************************************)
(* The safety properties of module Pmm, for every memory map whose bitmaps *)
(* halve evenly and any number of bitmaps.                                 *)
(*                                                                         *)
(* The argument is about sets of blocks: the free blocks tile the usable   *)
(* pages that no caller holds.  Splitting a block, freeing pages and       *)
(* merging buddies each replace blocks by others that tile the same pages, *)
(* up to the pages granted or given back.                                  *)
(***************************************************************************)
EXTENDS PmmCounting

\* A leaf that names no prover is SMT's, and Zenon's if SMT gives up.
USE SMTT(100), ZenonT(100)

-----------------------------------------------------------------------------
(* The inductive invariant.                                                *)

\* The runs that are out are disjoint, usable, and single pages or even.
RunInv ==
  /\ live \subseteq Nat \X (1 .. span[NUM_BITMAPS - 1])
  /\ \A r \in live : RunPages(r) \subseteq UsablePages /\ (r[2] = 1 \/ r[1] % 2 = 0)
  /\ \A r, q \in live : \A p \in RunPages(r) : p \in RunPages(q) => r = q

\* The free blocks tile the usable pages that are not held, the counters and
\* free_mem count them, and no two free pages are buddies.
FreeInv ==
  LET F == FreeIn(clear)
  IN  /\ Tiles(F, UsablePages \ Held)
      /\ \A l \in Levels : free[l] = Cardinality(At(F, l))
      /\ free_mem = PAGE_SIZE * Cardinality(UsablePages \ Held)
      /\ \A j \in Blocks[0] : ~ BothFree(F, j)

IInv ==
  /\ phase \in {"boot", "up"}
  /\ clear \subseteq Bits
  /\ free \in [Levels -> Nat]
  /\ free_mem \in Nat
  /\ ret \in Blocks[0]
  /\ inside = TRUE
  /\ RunInv
  /\ phase = "boot" => live = {} /\ ret = NULL
  /\ phase = "up" => FreeInv

\* pfree runs after start-up and changes neither that nor what pmalloc last gave.
LEMMA FreeControl ==
  ASSUME NEW index, NEW pages, pfree(index, pages)
  PROVE  phase = "up" /\ phase' = "up" /\ ret' = ret
PROOF
  BY ZenonT(100) DEF pfree

\* Page 0 is in the lowest bitmap, and the usable pages are.
LEMMA PageFacts ==
  /\ 0 \in Levels /\ 0 \in Blocks[0] /\ Blocks[0] \subseteq Nat
  /\ UsablePages \subseteq Blocks[0] /\ UsablePages \subseteq Nat
  /\ IsFiniteSet(UsablePages)
PROOF
  <1>1. 0 \in Levels
    BY LevelFacts
  <1>2. size[0] >= 1 /\ size[0] \in Nat
    <2>1. num_pages \in Nat /\ num_pages >= 8
      BY MapAssumption DEF num_pages
    <2>2. \A x \in Nat : x >= 8 => x \div 8 >= 1
      OBVIOUS
    <2> QED
      BY <1>1, <2>1, <2>2, SizeFacts
  <1>3. 0 \in Blocks[0] /\ Blocks[0] \subseteq Nat
    BY <1>1, <1>2, BlockNumbers
  <1>4. UsablePages \subseteq Blocks[0]
    BY DEF UsablePages
  <1>5. IsFiniteSet(UsablePages)
    BY <1>1, <1>4, AtFinite, FS_Subset
  <1> QED
    BY <1>1, <1>3, <1>4, <1>5

\* Before initPMM nothing is out.
LEMMA InitIInv ==
  Init => IInv
PROOF
  BY PageFacts DEF Init, IInv, RunInv, NULL

\* initPMM establishes the books.
LEMMA BootIInv ==
  ASSUME Halving, IInv, initPMM
  PROVE  IInv'
PROOF
  <1> DEFINE F == FreeIn(InitClear)
  <1>1. /\ phase' = "up" /\ clear' = InitClear /\ free' = InitFree
        /\ free_mem' = MemOf(InitFree) /\ live' = {} /\ ret' \in Blocks[0]
    BY DEF IInv, initPMM
  <1>2. inside' = TRUE
    <2>1. ASSUME NEW i \in 0 .. NUM_BITMAPS - 2, NEW j \in Blocks[i]
          PROVE  PARENT(j) \in Blocks[i + 1]
      <3>1. i + 1 \in Levels \ {0} /\ (i + 1) - 1 = i
        BY LevelsAssumption DEF Levels
      <3> QED
        BY <3>1, Relatives
    <2> QED
      BY <2>1 DEF initPMM
  <1>3. Tiles(F, UsablePages) /\ InitClear \subseteq Bits
    BY InitTiles, InitBlocks
  <1>4. \A l \in Levels : InitFree[l] = Cardinality(At(F, l))
    BY InitCount
  <1>5. InitFree \in [Levels -> Nat]
    <2>1. \A l \in Levels : InitFree[l] \in Nat
      BY <1>4, AtFinite
    <2>2. InitFree = [l \in Levels |-> InitFree[l]]
      BY DEF InitFree
    <2> QED
      BY <2>1, <2>2
  <1>6. /\ MemOf(InitFree) = PAGE_SIZE * Cardinality(UsablePages)
        /\ Cardinality(UsablePages) \in Nat
    BY <1>3, <1>4, <1>5, MemTiles
  <1>7. PAGE_SIZE * Cardinality(UsablePages) \in Nat
    BY <1>6, MapAssumption
  <1>8. ASSUME NEW j \in Blocks[0], BothFree(F, j)
        PROVE  FALSE
    <2>1. /\ j \in Nat /\ j % 2 = 0
          /\ <<0, j>> \in MarkedBlocks /\ <<0, j + 1>> \in MarkedBlocks /\ j \notin Covered(0)
      BY <1>8, InitBlocks DEF BothFree
    <2>2. j \in marked[0] /\ j + 1 \in marked[0]
      BY <2>1 DEF MarkedBlocks
    <2>3. 0 + 1 = 1 /\ 1 \in Levels \ {0} /\ 1 - 1 = 0 /\ 0 \in Levels /\ 0 # NUM_BITMAPS - 1
      BY LevelFacts
    <2>4. PARENT(j) \in Blocks[1]
      BY <2>3, Relatives
    <2>5. L_CHILD(PARENT(j)) = j /\ R_CHILD(PARENT(j)) = j + 1
      BY <2>1 DEF L_CHILD, R_CHILD, PARENT
    <2>6. PARENT(j) \in marked[1]
      BY <2>2, <2>3, <2>4, <2>5, MarkedFacts
    <2>7. j \in Covered(0)
      BY <2>3, <2>6, CoveredFacts, ZenonT(100)
    <2> QED
      BY <2>1, <2>7
  <1>9. Held' = {} /\ UsablePages \ {} = UsablePages
    BY <1>1 DEF Held
  <1>10. FreeInv'
    <2> HIDE DEF F
    <2>1. FreeIn(clear)' = F
      BY <1>1 DEF FreeIn, F
    <2> QED
      BY <1>1, <1>3, <1>4, <1>6, <1>8, <1>9, <2>1 DEF FreeInv
  <1>11. RunInv'
    BY <1>1 DEF RunInv
  <1> QED
    BY <1>1, <1>2, <1>3, <1>5, <1>6, <1>7, <1>10, <1>11 DEF IInv

\* Min of a set of natural numbers is its least element.
LEMMA MinFacts ==
  ASSUME NEW T, T \subseteq Nat, T # {}
  PROVE  Min(T) \in T /\ \A y \in T : Min(T) <= y
PROOF
  <1>1. \E x \in T : \A y \in T : x <= y
    BY LeastNat, ZenonT(100)
  <1> QED
    BY <1>1, ZenonT(100) DEF Min

\* The order pmalloc computes is a level whose blocks hold the request, and
\* above the lowest for more than one page.
LEMMA OrderFacts ==
  ASSUME NEW pages \in 1 .. span[NUM_BITMAPS - 1]
  PROVE  /\ Order(pages) \in Levels
         /\ \A k \in Levels : k >= Order(pages) => span[k] >= pages
         /\ pages > 1 => Order(pages) >= 1
PROOF
  <1> DEFINE T == {k \in Levels : span[k] >= pages}
             o == Order(pages)
             S == {n \in Nat : o + n \in Levels => span[o + n] >= pages}
  <1>1. NUM_BITMAPS - 1 \in Levels /\ Levels \subseteq Nat /\ Levels = 0 .. NUM_BITMAPS - 1
        /\ NUM_BITMAPS - 1 \in Nat
    BY LevelFacts
  <1>2. span \in [Levels -> Nat \ {0}] /\ pages \in Nat /\ span[NUM_BITMAPS - 1] >= pages
    BY <1>1, SpanFacts
  <1>3. T \subseteq Nat /\ T # {}
    BY <1>1, <1>2
  <1>4. o \in T
    <2> HIDE DEF T
    <2>1. Min(T) \in T
      BY <1>3, MinFacts, ZenonT(100)
    <2> QED
      BY <2>1 DEF Order, T
  <1>5. 0 \in S
    BY <1>1, <1>4
  <1>6. ASSUME NEW k \in Nat, k \in S
        PROVE  k + 1 \in S
    <2>1. SUFFICES ASSUME o + (k + 1) \in Levels
                   PROVE  span[o + (k + 1)] >= pages
      OBVIOUS
    <2>2. o \in Nat /\ o + (k + 1) \in Levels \ {0} /\ (o + (k + 1)) - 1 = o + k /\ o + k \in Levels
      BY <1>1, <1>4, <2>1
    <2>3. span[o + (k + 1)] = 2 * span[o + k] /\ span[o + k] >= pages
      BY <1>6, <2>2, SpanFacts
    <2> QED
      BY <1>2, <2>2, <2>3
  <1>7. ASSUME NEW k \in Levels, k >= o
        PROVE  span[k] >= pages
    <2>1. k - o \in Nat /\ o + (k - o) = k
      BY <1>1, <1>4, <1>7
    <2> HIDE DEF S
    <2>2. 0 .. k - o \subseteq S
      BY <1>5, <1>6, <2>1, UpTo
    <2>3. k - o \in S
      BY <2>1, <2>2
    <2> QED
      BY <2>1, <2>3 DEF S
  <1>8. pages > 1 => o >= 1
    BY <1>1, <1>2, <1>4, SpanFacts
  <1> QED
    BY <1>4, <1>7, <1>8

\* A request that is not refused finds a free block at least its size, on a
\* level above the lowest for more than one page.
LEMMA FitFacts ==
  ASSUME NEW pages, ~ Refused(pages)
  PROVE  LET b == FirstFit(pages)
         IN  /\ b \in FreeIn(clear)
             /\ pages \in 1 .. span[b[1]]
             /\ pages \in 1 .. span[NUM_BITMAPS - 1]
             /\ pages > 1 => b[1] >= 1
PROOF
  <1> DEFINE D == Fit(pages)
             I == {b[1] : b \in D}
             i == Min(I)
             J == {b[2] : b \in {d \in D : d[1] = i}}
  <1>1. pages \in 1 .. span[NUM_BITMAPS - 1] /\ D # {}
    BY DEF Refused
  <1>2. /\ Order(pages) \in Levels
        /\ \A k \in Levels : k >= Order(pages) => span[k] >= pages
        /\ pages > 1 => Order(pages) >= 1
    BY <1>1, OrderFacts
  <1>3. ASSUME NEW b \in D
        PROVE  b \in FreeIn(clear) /\ b[1] >= Order(pages)
    <2>1. PICK l \in Order(pages) .. NUM_BITMAPS - 1 : b \in {l} \X Blocks[l]
      BY DEF Fit
    <2>2. l \in Levels
      BY <1>2, <2>1, LevelFacts
    <2>3. b \in AllBlocks /\ Bit(b[1], b[2]) \in clear
      BY <2>1, <2>2 DEF Fit, AllBlocks
    <2>4. b[1] = l
      BY <2>1
    <2> QED
      BY <2>1, <2>3, <2>4, <1>2, LevelFacts DEF FreeIn
  <1> HIDE DEF D
  <1>4. \A b \in D : b = <<b[1], b[2]>> /\ b[1] \in Levels /\ b[1] \in Nat /\ b[2] \in Nat
    BY <1>3, BlockPair, LevelFacts DEF FreeIn
  <1>5. i \in I
    <2>1. I \subseteq Nat /\ I # {}
      BY <1>1, <1>4
    <2> QED
      BY <2>1, MinFacts, ZenonT(100)
  <1> HIDE DEF i
  <1>6. Min(J) \in J
    <2>1. J \subseteq Nat /\ J # {}
      BY <1>4, <1>5
    <2> HIDE DEF J
    <2> QED
      BY <2>1, MinFacts, ZenonT(100)
  <1>7. PICK d \in D : d[1] = i /\ d[2] = Min(J)
    BY <1>6, ZenonT(100)
  <1>8. FirstFit(pages) = d
    <2>1. FirstFit(pages) = <<i, Min(J)>>
      BY DEF FirstFit, D, i
    <2> QED
      BY <1>4, <1>7, <2>1
  <1>9. d \in FreeIn(clear) /\ d[1] >= Order(pages) /\ d[1] \in Levels
    BY <1>3, <1>4
  <1>10. span[d[1]] >= pages /\ span[d[1]] \in Nat
    BY <1>2, <1>9, SpanFacts
  <1>11. pages > 1 => d[1] >= 1
    BY <1>1, <1>2, <1>9, LevelFacts
  <1>12. pages \in 1 .. span[d[1]]
    BY <1>1, <1>10
  <1> QED
    BY <1>1, <1>8, <1>9, <1>11, <1>12

\* The block pmalloc takes is free, its parent is not, so the branch that
\* splits the parent is never taken; the run comes off the front of the block
\* and the rest of it becomes free blocks with odd numbers.
LEMMA GrantFacts ==
  ASSUME Halving, IInv, phase = "up", NEW pages, ~ Refused(pages)
  PROVE  LET F == FreeIn(clear)
             b == FirstFit(pages)
             o == b[2] * span[b[1]]
             R == o .. o + pages - 1
             G == pmmPropagateDown(pages, b[1], b[2])
         IN  /\ b[1] # NUM_BITMAPS - 1 => /\ Bit(b[1] + 1, PARENT(b[2])) \notin clear
                                          /\ PARENT(b[2]) \in Blocks[b[1] + 1]
             /\ R \subseteq Pages(b) /\ R \subseteq UsablePages \ Held
             /\ o \in R /\ o \in Nat
             /\ Tiles(G, Pages(b) \ R)
             /\ Tiles((F \ {b}) \union G, (UsablePages \ Held) \ R)
             /\ G \intersect F = {}
             /\ \A g \in G : g[2] % 2 = 1
PROOF
  <1> DEFINE F == FreeIn(clear)
             b == FirstFit(pages)
             o == b[2] * span[b[1]]
             R == o .. o + pages - 1
             G == pmmPropagateDown(pages, b[1], b[2])
             U == UsablePages \ Held
  <1>1. /\ b \in F /\ b \in AllBlocks /\ pages \in 1 .. span[b[1]]
        /\ b = <<b[1], b[2]>> /\ b[1] \in Levels /\ b[2] \in Nat /\ b[2] \in Blocks[b[1]]
    <2>1. b \in F /\ b \in AllBlocks /\ pages \in 1 .. span[b[1]]
      BY FitFacts DEF FreeIn
    <2> HIDE DEF b
    <2> QED
      BY <2>1, BlockPair
  <1>2. Tiles(F, U)
    BY DEF IInv, FreeInv
  <1> HIDE DEF b, G
  <1>3. o \in Pages(b) /\ o \in Nat /\ o \in R
    <2>1. o \in BlockPages(b[1], b[2]) /\ BlockPages(b[1], b[2]) \subseteq Nat
      BY <1>1, BlockType
    <2>2. span[b[1]] \in Nat
      BY <1>1, SpanFacts
    <2> HIDE DEF o
    <2>3. pages \in Nat /\ pages >= 1
      BY <1>1, <2>2
    <2> QED
      BY <2>1, <2>3 DEF Pages
  <1>4. ASSUME b[1] # NUM_BITMAPS - 1
        PROVE  Bit(b[1] + 1, PARENT(b[2])) \notin clear /\ PARENT(b[2]) \in Blocks[b[1] + 1]
    <2> DEFINE d == <<b[1] + 1, PARENT(b[2])>>
    <2>1. /\ b[1] + 1 \in Levels \ {0} /\ (b[1] + 1) - 1 = b[1]
          /\ BlockPages(b[1], b[2]) \subseteq BlockPages(b[1] + 1, PARENT(b[2]))
      BY <1>1, <1>4, ParentFacts
    <2>2. PARENT(b[2]) \in Blocks[b[1] + 1]
      BY <1>1, <2>1, Relatives
    <2>3. SUFFICES ASSUME Bit(b[1] + 1, PARENT(b[2])) \in clear
                   PROVE  FALSE
      BY <2>2
    <2>4. d \in F
      BY <2>1, <2>2, <2>3, PairBlock DEF FreeIn
    <2>5. o \in Pages(d)
      BY <1>3, <2>1 DEF Pages
    <2> HIDE DEF o, F, U
    <2>6. b = d
      BY <1>1, <1>2, <1>3, <2>4, <2>5 DEF Tiles
    <2>7. b[1] = b[1] + 1 /\ b[1] \in Nat
      BY <1>1, <2>6, LevelFacts
    <2> QED
      BY <2>7
  <1>5. R \subseteq Pages(b) /\ Tiles(G, Pages(b) \ R) /\ \A g \in G : g[2] % 2 = 1
    BY <1>1, DownTiles, ZenonT(100) DEF G
  <1> HIDE DEF F, R, U
  <1>6. Tiles((F \ {b}) \union G, U \ R)
    BY <1>1, <1>2, <1>5, TilesGrant, ZenonT(100)
  <1>7. G \intersect F = {}
    <2>1. SUFFICES ASSUME NEW g \in G, g \in F
                   PROVE  FALSE
      OBVIOUS
    <2>2. g[1] \in Levels /\ g[2] \in Nat
      BY <1>5, <2>1, BlockPair DEF Tiles
    <2>3. PICK p : p \in Pages(g)
      BY <2>2, BlockType DEF Pages
    <2>4. p \in Pages(b) /\ Pages(g) \subseteq Pages(b) \ R
      BY <1>5, <2>1, <2>3 DEF Tiles
    <2>5. g = b
      BY <1>1, <1>2, <2>1, <2>3, <2>4 DEF Tiles
    <2> QED
      BY <1>3, <2>4, <2>5
  <1>8. R \subseteq U
    BY <1>1, <1>2, <1>5 DEF Tiles
  <1> QED
    BY <1>3, <1>4, <1>5, <1>6, <1>7, <1>8 DEF F, b, R, G, U

\* A run of n pages has n pages.
LEMMA RunLength ==
  ASSUME NEW first \in Nat, NEW n \in Nat
  PROVE  /\ IsFiniteSet(first .. first + n - 1)
         /\ Cardinality(first .. first + n - 1) = n
PROOF
  <1>1. first + n - 1 \in Int /\ (n = 0 => first > first + n - 1)
        /\ (n > 0 => ~ (first > first + n - 1)) /\ (first + n - 1) - first + 1 = n
    OBVIOUS
  <1> QED
    BY <1>1, FS_Interval

\* The remainders of a block that is granted in part leave no two buddy pages
\* free: a remainder of one page is the right half of a pair in the block.
LEMMA GrantBuddies ==
  ASSUME Halving, IInv, phase = "up", NEW pages, ~ Refused(pages), NEW j
  PROVE  LET b == FirstFit(pages)
             G == pmmPropagateDown(pages, b[1], b[2])
         IN  ~ BothFree((FreeIn(clear) \ {b}) \union G, j)
PROOF
  <1> DEFINE F == FreeIn(clear)
             b == FirstFit(pages)
             o == b[2] * span[b[1]]
             R == o .. o + pages - 1
             G == pmmPropagateDown(pages, b[1], b[2])
             U == UsablePages \ Held
  <1>1. /\ Tiles(G, Pages(b) \ R) /\ \A g \in G : g[2] % 2 = 1
        /\ o \in R
    BY GrantFacts, ZenonT(100)
  <1>2. b \in F /\ F \subseteq AllBlocks /\ Tiles(F, U) /\ \A k \in Blocks[0] : ~ BothFree(F, k)
    BY FitFacts DEF IInv, FreeInv, FreeIn
  <1> HIDE DEF F, G, R, U, b
  <1>3. b[1] \in Levels /\ b[2] \in Nat
    BY <1>2, BlockPair
  <1>4. SUFFICES ASSUME BothFree((F \ {b}) \union G, j)
                 PROVE  FALSE
    BY DEF F, G, b
  <1>5. /\ j \in Nat /\ j % 2 = 0
        /\ <<0, j>> \in (F \ {b}) \union G /\ <<0, j + 1>> \in (F \ {b}) \union G
    BY <1>4 DEF BothFree
  <1>6. <<0, j>> \in F \ {b}
    <2>1. <<0, j>>[2] % 2 = 0
      BY <1>5
    <2>2. <<0, j>> \notin G
      BY <1>1, <1>5, <2>1
    <2> QED
      BY <1>5, <2>2
  <1>7. <<0, j + 1>> \in G
    <2>1. SUFFICES ASSUME <<0, j + 1>> \in F
                   PROVE  FALSE
      BY <1>5
    <2>2. <<0, j>>[2] \in Blocks[<<0, j>>[1]]
      BY <1>2, <1>6, BlockPair
    <2>3. j \in Blocks[0]
      BY <2>2
    <2> QED
      BY <1>2, <1>5, <1>6, <2>1, <2>3 DEF BothFree
  <1>8. j + 1 \in Pages(<<0, j + 1>>) /\ j \in Pages(<<0, j>>)
    BY <1>5, PageBlock DEF Pages
  <1>9. j + 1 \in Pages(b) \ R
    BY <1>1, <1>7, <1>8 DEF Tiles
  <1>10. b[1] >= 1
    <2>1. SUFFICES ASSUME b[1] = 0
                   PROVE  FALSE
      BY <1>3, LevelFacts
    <2>2. Pages(b) = {b[2]} /\ o = b[2]
      BY <1>3, <2>1, PageBlock, SpanFacts DEF Pages
    <2> QED
      BY <1>1, <1>9, <2>2
  <1>11. j \in Pages(b)
    <2>1. 0 \in Levels \ {NUM_BITMAPS - 1} /\ 0 + 1 = 1 /\ 1 \in Levels
      BY LevelFacts
    <2>2. PARENT(j) \in Nat
      BY <1>5 DEF PARENT
    <2>3. Pages(<<0 + 1, PARENT(j)>>) = Pages(<<0, j>>) \union Pages(<<0, j + 1>>)
      BY <1>5, <2>1, ParentPages, ZenonT(100)
    <2>4. BlockPages(1, PARENT(j)) = Pages(<<0, j>>) \union Pages(<<0, j + 1>>)
      BY <2>1, <2>3 DEF Pages
    <2>5. BlockPages(1, PARENT(j)) \subseteq BlockPages(b[1], b[2])
      BY <1>3, <1>8, <1>9, <1>10, <2>1, <2>2, <2>4, Nested DEF Pages
    <2> QED
      BY <1>8, <2>4, <2>5 DEF Pages
  <1>12. <<0, j>> = b
    BY <1>2, <1>6, <1>8, <1>11 DEF Tiles
  <1> QED
    BY <1>6, <1>12

\* A run that is granted is disjoint from the others and starts at an even
\* page unless it is a single one.
LEMMA GrantRuns ==
  ASSUME Halving, IInv, phase = "up", NEW pages, ~ Refused(pages), pmallocGrant(pages)
  PROVE  LET b == FirstFit(pages)
             o == b[2] * span[b[1]]
         IN  RunInv' /\ Held' = Held \union (o .. o + pages - 1)
PROOF
  <1> DEFINE b == FirstFit(pages)
             o == b[2] * span[b[1]]
             R == o .. o + pages - 1
             r == <<o, pages>>
  <1>1. live' = live \union {r}
    BY DEF pmallocGrant
  <1>2. R \subseteq UsablePages \ Held /\ o \in Nat
    BY GrantFacts, ZenonT(100)
  <1>3. /\ b \in FreeIn(clear) /\ pages \in 1 .. span[NUM_BITMAPS - 1]
        /\ pages > 1 => b[1] >= 1
    BY FitFacts
  <1> HIDE DEF b
  <1>4. b[1] \in Levels /\ b[2] \in Nat
    BY <1>3, BlockPair DEF FreeIn
  <1>5. NUM_BITMAPS - 1 \in Levels
    BY LevelFacts
  <1>6. pages = 1 \/ o % 2 = 0
    <2>1. SUFFICES ASSUME pages # 1
                   PROVE  o % 2 = 0
      OBVIOUS
    <2>2. b[1] \in Levels \ {0} /\ b[1] - 1 \in Levels
      BY <1>3, <1>4, <1>5, <2>1, LevelFacts, SpanFacts
    <2>3. span[b[1]] = 2 * span[b[1] - 1] /\ span[b[1] - 1] \in Nat
      BY <2>2, SpanFacts
    <2>4. \A x, y \in Nat : (x * (2 * y)) = 2 * (x * y) /\ x * y \in Nat
      OBVIOUS
    <2>5. o = 2 * (b[2] * span[b[1] - 1]) /\ b[2] * span[b[1] - 1] \in Nat
      BY <1>4, <2>3, <2>4
    <2>6. \A x \in Nat : (2 * x) % 2 = 0
      OBVIOUS
    <2> QED
      BY <2>5, <2>6
  <1> HIDE DEF o
  <1>7. RunPages(r) = R
    BY DEF RunPages
  <1> HIDE DEF R, r
  <1>8. Held' = Held \union R
    <2>1. Held' = UNION {RunPages(q) : q \in live'}
      BY DEF Held, RunPages
    <2>2. UNION {RunPages(q) : q \in live \union {r}} = Held \union RunPages(r)
      BY DEF Held
    <2> QED
      BY <1>1, <1>7, <2>1, <2>2
  <1>9. RunInv
    BY DEF IInv
  <1>10. \A q \in live : RunPages(q) \subseteq Held
    BY DEF Held
  <1>11. RunInv'
    <2>1. live' \subseteq Nat \X (1 .. span[NUM_BITMAPS - 1])
      BY <1>1, <1>2, <1>3, <1>9 DEF RunInv, r
    <2>2. r[1] = o /\ r[2] = pages
      BY DEF r
    <2>3. \A q \in live' : RunPages(q) \subseteq UsablePages /\ (q[2] = 1 \/ q[1] % 2 = 0)
      BY <1>1, <1>2, <1>6, <1>7, <1>9, <2>2 DEF RunInv
    <2>4. \A q, t \in live' : \A p \in RunPages(q) : p \in RunPages(t) => q = t
      BY <1>1, <1>2, <1>7, <1>9, <1>10 DEF RunInv
    <2> QED
      BY <2>1, <2>3, <2>4 DEF RunInv, RunPages
  <1> QED
    BY <1>8, <1>11 DEF R, o, b

\* pmalloc keeps the books.
LEMMA GrantIInv ==
  ASSUME Halving, IInv, NEW pages, pmallocGrant(pages)
  PROVE  IInv'
PROOF
  <1> DEFINE F == FreeIn(clear)
             b == FirstFit(pages)
             o == b[2] * span[b[1]]
             R == o .. o + pages - 1
             G == pmmPropagateDown(pages, b[1], b[2])
             U == UsablePages \ Held
             H == (F \ {b}) \union G
  <1>1. phase = "up" /\ ~ Refused(pages)
    BY DEF pmallocGrant
  <1>2. /\ b[1] # NUM_BITMAPS - 1 => /\ Bit(b[1] + 1, PARENT(b[2])) \notin clear
                                     /\ PARENT(b[2]) \in Blocks[b[1] + 1]
        /\ R \subseteq Pages(b) /\ R \subseteq U
        /\ o \in R /\ o \in Nat
        /\ Tiles(G, Pages(b) \ R)
        /\ Tiles(H, U \ R)
        /\ G \intersect F = {}
    BY <1>1, GrantFacts, ZenonT(100)
  <1>3. b \in F /\ pages \in Nat
    <2>1. b \in F /\ pages \in 1 .. span[b[1]] 
      BY <1>1, FitFacts
    <2>2. span[b[1]] \in Nat
      BY <2>1, BlockPair, SpanFacts DEF FreeIn
    <2> QED
      BY <2>1, <2>2
  <1>4. RunInv' /\ Held' = Held \union R
    BY <1>1, GrantRuns
  <1>5. \A j : ~ BothFree(H, j)
    BY <1>1, GrantBuddies
  <1>6. /\ Update({b}, G)
        /\ inside' = (inside /\ (b[1] # NUM_BITMAPS - 1 => PARENT(b[2]) \in Blocks[b[1] + 1]))
        /\ ret' = o /\ free_mem' = free_mem - pages * PAGE_SIZE /\ phase' = "up"
    <2>1. {b} \union {} = {b} /\ G \union {} = G
      OBVIOUS
    <2>2. (b[1] # NUM_BITMAPS - 1 /\ Bit(b[1] + 1, PARENT(b[2])) \in clear) = FALSE
      BY <1>2
    <2> QED
      BY <1>1, <2>1, <2>2, ZenonT(100) DEF pmallocGrant
  <1> HIDE DEF b, G
  <1>7. inside' = TRUE
    BY <1>2, <1>6, ZenonT(100) DEF IInv
  <1>8. clear' = (clear \ BitsOf({b})) \union BitsOf(G)
    BY <1>6 DEF Update, BitsOf
  <1>9. G \subseteq AllBlocks /\ {b} \subseteq AllBlocks
    BY <1>2, <1>3 DEF Tiles, FreeIn
  <1>10. FreeIn(clear') = H
    <2>1. FreeIn(clear \ BitsOf({b})) = F \ {b}
      BY <1>9, FreeDrop
    <2> DEFINE c == clear \ BitsOf({b})
    <2> HIDE DEF c
    <2>2. FreeIn(c \union BitsOf(G)) = FreeIn(c) \union G
      BY <1>9, FreeAdd
    <2> QED
      BY <1>8, <2>1, <2>2 DEF c
  <1>11. clear' \subseteq Bits
    BY <1>8, <1>9, BitsOfBlocks DEF IInv
  <1> HIDE DEF F, H, R, U, o
  <1>12. ASSUME NEW l \in Levels
         PROVE  free'[l] = Cardinality(At(H, l)) /\ free'[l] \in Nat
    <2>1. free'[l] = free[l] + Cardinality({g \in G : g[1] = l})
                             - Cardinality({d \in {b} : d[1] = l})
      BY <1>6 DEF Update
    <2>2. /\ Cardinality({g \in G : g[1] = l}) = Cardinality(At(G, l))
          /\ Cardinality({d \in {b} : d[1] = l}) = Cardinality(At({b}, l))
      BY <1>9, LevelCount
    <2>3. free[l] = Cardinality(At(F, l))
      BY <1>1 DEF IInv, FreeInv, F
    <2>4. Cardinality(At((F \ {b}) \union G, l))
          = Cardinality(At(F, l)) + Cardinality(At(G, l)) - Cardinality(At({b}, l))
      BY <1>2, <1>3, CountUpdate
    <2>5. Cardinality(At(H, l)) \in Nat
      BY AtFinite
    <2> QED
      BY <2>1, <2>2, <2>3, <2>4, <2>5 DEF H
  <1>13. free' \in [Levels -> Nat]
    BY <1>6, <1>12 DEF Update
  <1>14. /\ free_mem' = PAGE_SIZE * Cardinality(U \ R)
         /\ Cardinality(U \ R) \in Nat
    <2>1. IsFiniteSet(U)
      BY PageFacts, FS_Subset DEF U
    <2>2. /\ Cardinality(U \ R) = Cardinality(U) - Cardinality(R)
          /\ Cardinality(U) \in Nat /\ Cardinality(U \ R) \in Nat
      BY <1>2, <2>1, CardMinus, ZenonT(100)
    <2>3. Cardinality(R) = pages
      BY <1>2, <1>3, RunLength DEF R
    <2>4. free_mem = PAGE_SIZE * Cardinality(U)
      BY <1>1 DEF IInv, FreeInv, U
    <2>5. \A x, y, z \in Nat : z * x - y * z = z * (x - y)
      OBVIOUS
    <2>6. PAGE_SIZE * Cardinality(U) - pages * PAGE_SIZE = PAGE_SIZE * (Cardinality(U) - pages)
      BY <1>3, <2>2, <2>5, MapAssumption
    <2> QED
      BY <1>6, <2>2, <2>3, <2>4, <2>6
  <1>15. free_mem' \in Nat
    BY <1>14, MapAssumption
  <1>16. ret' \in Blocks[0]
    BY <1>2, <1>6, PageFacts DEF U
  <1>17. UsablePages \ Held' = U \ R
    BY <1>4 DEF U
  <1>18. FreeIn(clear)' = H
    BY <1>10 DEF FreeIn
  <1>19. FreeInv'
    BY <1>2, <1>5, <1>12, <1>14, <1>17, <1>18, ZenonT(100) DEF FreeInv
  <1> QED
    BY <1>4, <1>6, <1>7, <1>11, <1>13, <1>15, <1>16, <1>19 DEF IInv

\* pfree hands coalesce bitmaps in which the pages are free, one by one, and
\* only the pairs that coalesce is about to look at can be left to merge.
LEMMA FreeStart ==
  ASSUME Halving, IInv, phase = "up", NEW index \in Nat, NEW pages \in Nat \ {0},
         pages = 1 \/ index % 2 = 0, index .. index + pages - 1 \subseteq Held
  PROVE  LET R == index .. index + pages - 1
             m == [clear |-> clear \union {Bit(0, p) : p \in R},
                   free |-> [free EXCEPT ![0] = @ + pages],
                   pages |-> pages,
                   index |-> index,
                   inside |-> inside /\ R \subseteq Blocks[0]]
         IN  CoalesceInv(m, 0, (UsablePages \ Held) \union R)
PROOF
  <1> DEFINE R == index .. index + pages - 1
             m == [clear |-> clear \union {Bit(0, p) : p \in R},
                   free |-> [free EXCEPT ![0] = @ + pages],
                   pages |-> pages,
                   index |-> index,
                   inside |-> inside /\ R \subseteq Blocks[0]]
             U == UsablePages \ Held
             F == FreeIn(clear)
             N == {0} \X R
             c == clear \union {Bit(0, p) : p \in R}
  <1>1. R \subseteq Blocks[0] /\ R \intersect U = {}
    BY PageFacts DEF IInv, RunInv, Held
  <1>2. /\ Tiles(F, U) /\ \A l \in Levels : free[l] = Cardinality(At(F, l))
        /\ \A j \in Blocks[0] : ~ BothFree(F, j)
        /\ clear \subseteq Bits /\ free \in [Levels -> Nat] /\ inside = TRUE
    BY DEF IInv, FreeInv
  <1>3. index + pages - 1 \in R /\ index \in R
    OBVIOUS
  <1> HIDE DEF R
  <1>4. 0 \in Levels /\ Blocks[0] = 0 .. 8 * size[0] - 1 /\ size[0] \in Nat
    BY PageFacts, BlockNumbers
  <1>5. N \subseteq AllBlocks
    BY <1>1, <1>4 DEF AllBlocks
  <1>6. c = clear \union BitsOf(N)
    <2>1. \A p \in R : <<0, p>> \in N /\ <<0, p>>[1] = 0 /\ <<0, p>>[2] = p
      OBVIOUS
    <2>2. \A b \in N : b[1] = 0 /\ b[2] \in R
      OBVIOUS
    <2> HIDE DEF N
    <2>3. {Bit(0, p) : p \in R} \subseteq BitsOf(N)
      BY <2>1, ZenonT(100) DEF BitsOf
    <2>4. BitsOf(N) \subseteq {Bit(0, p) : p \in R}
      BY <2>2 DEF BitsOf
    <2> QED
      BY <2>3, <2>4
  <1>7. FreeIn(c) = F \union N
    BY <1>5, <1>6, FreeAdd
  <1>8. c \subseteq Bits /\ Bits \subseteq Int
    <2>1. BitsOf(N) \subseteq Bits
      BY <1>5, BitsOfBlocks
    <2>2. Bits \subseteq Int
      BY DEF Bits
    <2> HIDE DEF c, N
    <2> QED
      BY <1>2, <1>6, <2>1, <2>2, ZenonT(100)
  <1> HIDE DEF c, F, U
  <1>9. Tiles(F \union N, U \union R)
    BY <1>1, <1>2, TilesFree, ZenonT(100)
  <1>10. N \intersect F = {}
    <2>1. SUFFICES ASSUME NEW p \in R, <<0, p>> \in F
                   PROVE  FALSE
      OBVIOUS
    <2>2. p \in Pages(<<0, p>>)
      BY <1>1, PageFacts, PageBlock DEF Pages
    <2> QED
      BY <1>1, <1>2, <2>1, <2>2 DEF Tiles
  <1>11. Cardinality(R) = pages /\ IsFiniteSet(R)
    BY RunLength, ZenonT(100) DEF R
  <1>12. ASSUME NEW k \in Levels
         PROVE  m.free[k] = Cardinality(At(F \union N, k))
    <2>1. Cardinality(At((F \ {}) \union N, k))
          = Cardinality(At(F, k)) + Cardinality(At(N, k)) - Cardinality(At({}, k))
      BY <1>10, CountUpdate
    <2>2. F \ {} = F /\ At({}, k) = {} /\ Cardinality({}) = 0
      BY FS_EmptySet DEF At
    <2>3. Cardinality(At(F, k)) \in Nat /\ Cardinality(At(N, k)) \in Nat
      BY AtFinite
    <2>4. Cardinality(At(F \union N, k)) = free[k] + Cardinality(At(N, k))
      BY <1>2, <2>1, <2>2, <2>3
    <2>5. CASE k = 0
      <3>1. At(N, k) = R
        BY <1>1, <2>5 DEF At
      <3>2. m.free[k] = free[k] + pages
        BY <1>2, <1>4, <2>5
      <3> QED
        BY <1>11, <2>4, <3>1, <3>2
    <2>6. CASE k # 0
      <3>1. At(N, k) = {}
        BY <2>6 DEF At
      <3>2. m.free[k] = free[k]
        BY <1>2, <1>4, <2>6
      <3>3. Cardinality(At(N, k)) = 0 /\ free[k] \in Nat
        BY <1>2, <2>2, <3>1, ZenonT(100)
      <3> HIDE DEF N, m
      <3> QED
        BY <2>4, <3>2, <3>3
    <2> QED
      BY <2>5, <2>6
  <1>13. m \in CoalesceState
    <2>1. [free EXCEPT ![0] = @ + pages] \in [Levels -> Int]
      BY <1>2, <1>4
    <2>2. c \in SUBSET Int
      BY <1>8
    <2>3. (inside /\ R \subseteq Blocks[0]) = TRUE
      BY <1>1, <1>2
    <2>4. m = [clear |-> c, free |-> [free EXCEPT ![0] = @ + pages], pages |-> pages,
               index |-> index, inside |-> TRUE]
      BY <2>3, ZenonT(100) DEF c
    <2> QED
      BY <2>1, <2>2, <2>4, ZenonT(100) DEF CoalesceState
  <1>14. m.index + m.pages <= 8 * size[0]
    <2>1. index + pages - 1 \in Blocks[0]
      BY <1>1, <1>3
    <2>2. index + pages - 1 <= 8 * size[0] - 1
      BY <1>4, <2>1
    <2> QED
      BY <1>4, <2>2
  <1>15. ASSUME NEW j, BothFree(F \union N, j)
         PROVE  j \in Pairs(m.pages, m.index)
    <2>1. j \in Nat /\ j % 2 = 0 /\ <<0, j>> \in F \union N /\ <<0, j + 1>> \in F \union N
      BY <1>15 DEF BothFree
    <2>2. j \in R \/ j + 1 \in R
      <3>1. SUFFICES ASSUME <<0, j>> \in F, <<0, j + 1>> \in F
                     PROVE  FALSE
        BY <2>1
      <3>2. <<0, j>>[2] \in Blocks[<<0, j>>[1]]
        BY <1>2, <3>1, BlockPair DEF Tiles
      <3>3. j \in Blocks[0]
        BY <3>2
      <3> QED
        BY <1>2, <2>1, <3>1, <3>3 DEF BothFree
    <2>3. j \in Pairs(pages, index)
      BY <2>1, <2>2, PairsCover DEF R
    <2> QED
      BY <2>3
  <1>16. m.inside = TRUE /\ m.clear = c
    BY <1>1, <1>2, ZenonT(100) DEF c
  <1> HIDE DEF m
  <1>17. CoalesceInv(m, 0, U \union R)
    BY <1>7, <1>8, <1>9, <1>12, <1>13, <1>14, <1>15, <1>16, ZenonT(100) DEF CoalesceInv
  <1> QED
    BY <1>17 DEF m, U, R

\* pfree keeps the books when its caller gives back pages it holds, a single
\* page or a run that starts at an even one.
LEMMA FreeIInv ==
  ASSUME Halving, IInv, NEW index \in Nat, NEW pages \in Nat \ {0},
         pages = 1 \/ index % 2 = 0, index .. index + pages - 1 \subseteq Held,
         pfree(index, pages), Held' = Held \ (index .. index + pages - 1), RunInv'
  PROVE  IInv'
PROOF
  <1> DEFINE R == index .. index + pages - 1
             s == [clear |-> clear \union {Bit(0, p) : p \in R},
                   free |-> [free EXCEPT ![0] = @ + pages],
                   pages |-> pages,
                   index |-> index,
                   inside |-> inside /\ R \subseteq Blocks[0]]
             m == coalesce(s)
             U == UsablePages \ Held
             F == FreeIn(m.clear)
  <1>1. /\ phase = "up" /\ phase' = "up" /\ ret' = ret
        /\ clear' = m.clear /\ free' = m.free /\ inside' = m.inside
        /\ free_mem' = free_mem + pages * PAGE_SIZE
    BY DEF pfree
  <1>2. CoalesceInv(s, 0, U \union R)
    BY <1>1, FreeStart, ZenonT(100)
  <1> HIDE DEF s
  <1>3. CoalesceInv(m, NUM_BITMAPS - 1, U \union R)
    BY <1>2, CoalesceDone
  <1> HIDE DEF m, R
  <1>4. /\ m \in CoalesceState /\ m.inside = TRUE /\ m.clear \subseteq Bits
        /\ Tiles(F, U \union R)
        /\ \A k \in Levels : m.free[k] = Cardinality(At(F, k))
        /\ \A j : ~ BothFree(F, j)
    BY <1>3, LevelFacts DEF CoalesceInv
  <1>5. m.free \in [Levels -> Nat]
    <2>1. m.free \in [Levels -> Int]
      BY <1>4 DEF CoalesceState
    <2> HIDE DEF F
    <2>2. \A k \in Levels : m.free[k] \in Nat
      BY <1>4, AtFinite
    <2> QED
      BY <2>1, <2>2
  <1>6. UsablePages \ Held' = U \union R
    <2>1. R \subseteq UsablePages
      BY DEF IInv, RunInv, Held, R
    <2> QED
      BY <2>1 DEF R
  <1>7. R \intersect U = {}
    BY DEF R
  <1>8. /\ free_mem' = PAGE_SIZE * Cardinality(U \union R)
        /\ Cardinality(U \union R) \in Nat
    <2>1. IsFiniteSet(U)
      BY PageFacts, FS_Subset
    <2>2. IsFiniteSet(R) /\ Cardinality(R) = pages
      BY RunLength DEF R
    <2>3. free_mem = PAGE_SIZE * Cardinality(U)
      BY <1>1 DEF IInv, FreeInv
    <2> HIDE DEF U
    <2>4. Cardinality(U \union R) = Cardinality(U) + Cardinality(R) /\ Cardinality(U) \in Nat
      BY <1>7, <2>1, <2>2, CardPlus, ZenonT(100)
    <2>5. \A x, y, z \in Nat : z * x + y * z = z * (x + y)
      OBVIOUS
    <2>6. PAGE_SIZE * Cardinality(U) + pages * PAGE_SIZE = PAGE_SIZE * (Cardinality(U) + pages)
      BY <2>4, <2>5, MapAssumption
    <2> QED
      BY <1>1, <2>2, <2>3, <2>4, <2>6
  <1>9. free_mem' \in Nat
    BY <1>8, MapAssumption
  <1>10. FreeIn(clear)' = F
    BY <1>1 DEF FreeIn
  <1> HIDE DEF F, U
  <1>11. FreeInv'
    BY <1>1, <1>4, <1>6, <1>8, <1>10, ZenonT(100) DEF FreeInv
  <1> QED
    BY <1>1, <1>4, <1>5, <1>9, <1>11 DEF IInv

\* A run that comes back whole leaves the others alone.
LEMMA FreeRunRuns ==
  ASSUME IInv, NEW r \in live, FreeRun(r)
  PROVE  /\ r[1] \in Nat /\ r[2] \in 1 .. span[NUM_BITMAPS - 1] /\ r[2] \in Nat \ {0}
         /\ r[2] = 1 \/ r[1] % 2 = 0
         /\ RunPages(r) \subseteq Held /\ r[1] \in RunPages(r)
         /\ Held' = Held \ RunPages(r)
         /\ RunInv'
PROOF
  <1>1. /\ r[1] \in Nat /\ r[2] \in 1 .. span[NUM_BITMAPS - 1] /\ r[2] \in Nat \ {0}
        /\ r[2] = 1 \/ r[1] % 2 = 0
    <2>1. span[NUM_BITMAPS - 1] \in Nat
      BY LevelFacts, SpanFacts
    <2> QED
      BY <2>1 DEF IInv, RunInv
  <1>2. r[1] \in RunPages(r)
    BY <1>1 DEF RunPages
  <1>3. live' = live \ {r}
    BY DEF FreeRun
  <1>4. RunPages(r) \subseteq Held
    BY DEF Held
  <1>5. \A q, t \in live : \A p \in RunPages(q) : p \in RunPages(t) => q = t
    BY DEF IInv, RunInv
  <1>6. Held' = Held \ RunPages(r)
    <2>1. Held' = UNION {RunPages(q) : q \in live'}
      BY DEF Held, RunPages
    <2>2. UNION {RunPages(q) : q \in live \ {r}} = Held \ RunPages(r)
      BY <1>5 DEF Held
    <2> QED
      BY <1>3, <2>1, <2>2
  <1>7. RunInv'
    BY <1>3 DEF IInv, RunInv, RunPages
  <1> QED
    BY <1>1, <1>2, <1>4, <1>6, <1>7

\* pfree of a whole run keeps the books.
LEMMA FreeRunIInv ==
  ASSUME Halving, IInv, NEW r \in live, FreeRun(r)
  PROVE  IInv'
PROOF
  <1>1. RunPages(r) = r[1] .. r[1] + r[2] - 1
    BY DEF RunPages
  <1>2. pfree(r[1], r[2])
    BY DEF FreeRun
  <1> QED
    BY <1>1, <1>2, FreeRunRuns, FreeIInv, ZenonT(100)

\* The first page of a run to come back alone: the rest become runs of one.
LEMMA FreePageRuns ==
  ASSUME IInv, NEW r \in live, NEW p \in r[1] .. r[1] + r[2] - 1, FreePage(r, p)
  PROVE  /\ p \in Nat /\ p .. p + 1 - 1 = {p}
         /\ {p} \subseteq Held
         /\ Held' = Held \ {p}
         /\ RunInv'
PROOF
  <1> DEFINE Rest == {<<k, 1>> : k \in RunPages(r) \ {p}}
  <1>1. r[1] \in Nat /\ r[2] \in Nat \ {0} /\ span[NUM_BITMAPS - 1] >= 1
        /\ span[NUM_BITMAPS - 1] \in Nat
    <2>1. span[NUM_BITMAPS - 1] \in Nat \ {0}
      BY LevelFacts, SpanFacts
    <2> QED
      BY <2>1 DEF IInv, RunInv
  <1>2. p \in RunPages(r) /\ RunPages(r) \subseteq Nat
    BY <1>1 DEF RunPages
  <1>3. live' = (live \ {r}) \union Rest
    BY DEF FreePage, RunPages
  <1>4. RunPages(r) \subseteq Held
    BY DEF Held
  <1>5. /\ \A q, t \in live : \A k \in RunPages(q) : k \in RunPages(t) => q = t
        /\ \A q \in live : RunPages(q) \subseteq UsablePages /\ (q[2] = 1 \/ q[1] % 2 = 0)
        /\ live \subseteq Nat \X (1 .. span[NUM_BITMAPS - 1])
    BY DEF IInv, RunInv
  <1>6. \A k \in Nat : RunPages(<<k, 1>>) = {k}
    BY DEF RunPages
  <1>7. \A q \in Rest : /\ q[1] \in RunPages(r) \ {p} /\ q[1] \in Nat /\ q[2] = 1 /\ q = <<q[1], 1>>
                        /\ RunPages(q) = {q[1]}
    BY <1>2, <1>6
  <1>8. \A k \in RunPages(r) \ {p} : <<k, 1>> \in Rest /\ k \in RunPages(<<k, 1>>)
    BY <1>2, <1>6
  <1> HIDE DEF Rest
  <1>9. Held' = Held \ {p}
    <2>1. Held' = UNION {RunPages(q) : q \in live'}
      BY DEF Held, RunPages
    <2>2. ASSUME NEW k \in Held \ {p}
          PROVE  \E q \in live' : k \in RunPages(q)
      BY <1>3, <1>8, <2>2, ZenonT(100) DEF Held
    <2>3. ASSUME NEW q \in live', NEW k \in RunPages(q)
          PROVE  k \in Held \ {p}
      <3>1. CASE q \in Rest
        BY <1>4, <1>7, <3>1, <2>3
      <3>2. CASE q \in live \ {r}
        BY <1>2, <1>5, <3>2, <2>3 DEF Held
      <3> QED
        BY <1>3, <3>1, <3>2
    <2> QED
      BY <2>1, <2>2, <2>3
  <1>10. RunInv'
    <2>1. live' \subseteq Nat \X (1 .. span[NUM_BITMAPS - 1])
      BY <1>1, <1>3, <1>5, <1>7
    <2>2. \A q \in live' : RunPages(q) \subseteq UsablePages /\ (q[2] = 1 \/ q[1] % 2 = 0)
      BY <1>3, <1>5, <1>7
    <2>3. ASSUME NEW q \in live', NEW t \in live', NEW k \in RunPages(q), k \in RunPages(t)
          PROVE  q = t
      <3>1. CASE q \in Rest /\ t \in Rest
        BY <1>7, <2>3, <3>1
      <3>2. CASE q \in Rest /\ t \in live \ {r}
        BY <1>5, <1>7, <2>3, <3>2
      <3>3. CASE q \in live \ {r} /\ t \in Rest
        BY <1>5, <1>7, <2>3, <3>3
      <3>4. CASE q \in live \ {r} /\ t \in live \ {r}
        BY <1>5, <2>3, <3>4
      <3> QED
        BY <1>3, <3>1, <3>2, <3>3, <3>4
    <2> QED
      BY <2>1, <2>2, <2>3 DEF RunInv, RunPages
  <1>11. p .. p + 1 - 1 = {p} /\ p \in Nat
    BY <1>2
  <1> QED
    BY <1>2, <1>4, <1>9, <1>10, <1>11

\* pfree of one page of a run keeps the books.
LEMMA FreePageIInv ==
  ASSUME Halving, IInv, NEW r \in live, NEW p \in r[1] .. r[1] + r[2] - 1, FreePage(r, p)
  PROVE  IInv'
PROOF
  <1>1. pfree(p, 1)
    BY DEF FreePage
  <1>2. 1 \in Nat \ {0}
    OBVIOUS
  <1> QED
    BY <1>1, <1>2, FreePageRuns, FreeIInv

\* Every step keeps the inductive invariant.
LEMMA NextIInv ==
  ASSUME Halving, IInv, [Next]_vars
  PROVE  IInv'
PROOF
  <1>1. CASE initPMM
    BY <1>1, BootIInv
  <1>2. ASSUME NEW n \in Sizes, pmallocRefuse(n)
        PROVE  IInv'
    <2>1. /\ phase = "up" /\ ret' = NULL
          /\ UNCHANGED <<phase, clear, free, free_mem, live, inside>>
      BY <1>2 DEF pmallocRefuse
    <2>2. NULL \in Blocks[0]
      BY PageFacts DEF NULL
    <2> QED
      BY <2>1, <2>2 DEF IInv, RunInv, FreeInv, RunPages, Held, FreeIn
  <1>3. ASSUME NEW n \in Sizes, pmallocGrant(n)
        PROVE  IInv'
    BY <1>3, GrantIInv
  <1>4. ASSUME NEW r \in live, FreeRun(r)
        PROVE  IInv'
    BY <1>4, FreeRunIInv
  <1>5. ASSUME NEW r \in live, NEW p \in r[1] .. r[1] + r[2] - 1, FreePage(r, p)
        PROVE  IInv'
    BY <1>5, FreePageIInv
  <1>6. CASE UNCHANGED vars
    BY <1>6 DEF vars, IInv, RunInv, FreeInv, RunPages, Held, FreeIn
  <1> QED
    BY <1>1, <1>2, <1>3, <1>4, <1>5, <1>6 DEF Next

\* The inductive invariant holds in every state: the free blocks tile the usable
\* pages nobody holds, the runs that are out are disjoint, and the counters count.
THEOREM Invariance ==
  ASSUME Halving
  PROVE  Spec => []IInv
PROOF
  <1>1. Init => IInv
    BY InitIInv
  <1>2. IInv /\ [Next]_vars => IInv'
    BY NextIInv
  <1> QED
    BY <1>1, <1>2, PTL DEF Spec

\* The blocks the properties speak of are the ones the proof does.
LEMMA FreeViews ==
  /\ FreeBlocks = FreeIn(clear)
  /\ \A i \in Levels : Clear(i) = At(FreeIn(clear), i)
PROOF
  <1>1. ASSUME NEW i \in Levels, NEW j \in Blocks[i]
        PROVE  j \in Clear(i) <=> <<i, j>> \in FreeIn(clear)
    BY PairBlock DEF Clear, FreeIn
  <1>2. \A i \in Levels : Clear(i) \subseteq Blocks[i]
    BY DEF Clear
  <1>3. \A i \in Levels : Clear(i) = At(FreeIn(clear), i)
    BY <1>1, <1>2 DEF At
  <1>4. \A b \in FreeIn(clear) : b = <<b[1], b[2]>> /\ b[1] \in Levels /\ b[2] \in Blocks[b[1]]
    BY BlockPair DEF FreeIn
  <1>5. \A b \in FreeBlocks : \E i \in Levels : \E j \in Clear(i) : b = <<i, j>>
    BY DEF FreeBlocks
  <1>6. FreeBlocks \subseteq FreeIn(clear)
    BY <1>1, <1>2, <1>5
  <1>7. FreeIn(clear) \subseteq FreeBlocks
    BY <1>1, <1>4 DEF FreeBlocks
  <1> QED
    BY <1>3, <1>6, <1>7

\* In a state of the invariant every usable page is in one free block or in one
\* run, and the counters agree with the bitmaps.
LEMMA Balanced ==
  ASSUME Halving, IInv
  PROVE  BooksBalance
PROOF
  <1> DEFINE F == FreeIn(clear)
  <1>1. TypeOK
    <2>1. ASSUME NEW r \in live
          PROVE  r \in Blocks[0] \X (1 .. span[NUM_BITMAPS - 1])
      <3>1. r \in Nat \X (1 .. span[NUM_BITMAPS - 1]) /\ RunPages(r) \subseteq UsablePages
        BY DEF IInv, RunInv
      <3>2. span[NUM_BITMAPS - 1] \in Nat
        BY LevelFacts, SpanFacts
      <3>3. r[1] \in RunPages(r)
        BY <3>1, <3>2 DEF RunPages
      <3> QED
        BY <3>1, <3>3, PageFacts
    <2> QED
      BY <2>1 DEF TypeOK, IInv
  <1>2. ASSUME phase = "up"
        PROVE  FreeInv /\ RunInv
    BY <1>2 DEF IInv
  <1>3. ASSUME phase = "up", NEW p \in Blocks[0]
        PROVE  Cardinality({b \in FreeBlocks : p \in BlockPages(b[1], b[2])})
               + Cardinality({r \in live : p \in RunPages(r)})
               = IF p \in UsablePages THEN 1 ELSE 0
    <2> DEFINE A == {b \in F : p \in Pages(b)}
               L == {r \in live : p \in RunPages(r)}
    <2>1. {b \in FreeBlocks : p \in BlockPages(b[1], b[2])} = A
      BY FreeViews DEF Pages
    <2>2. SUFFICES Cardinality(A) + Cardinality(L) = IF p \in UsablePages THEN 1 ELSE 0
      BY <2>1, ZenonT(100)
    <2>3. Tiles(F, UsablePages \ Held)
      BY <1>2, <1>3 DEF FreeInv
    <2>4. /\ \A r \in live : RunPages(r) \subseteq UsablePages
          /\ \A r, q \in live : p \in RunPages(r) /\ p \in RunPages(q) => r = q
      BY <1>2, <1>3 DEF RunInv
    <2> HIDE DEF F
    <2>5. \A b \in A : p \in UsablePages \ Held
      BY <2>3 DEF Tiles
    <2>6. \A r \in L : p \in UsablePages /\ p \in Held
      BY <2>4 DEF Held
    <2>7. Cardinality({}) = 0 /\ \A x : Cardinality({x}) = 1
      BY FS_EmptySet, FS_Singleton
    <2>8. CASE p \notin UsablePages
      <3>1. A = {} /\ L = {}
        BY <2>5, <2>6, <2>8
      <3> HIDE DEF A, L
      <3>2. Cardinality(A) = 0 /\ Cardinality(L) = 0
        BY <2>7, <2>8, <3>1
      <3> QED
        BY <2>8, <3>2
    <2>9. CASE p \in Held
      <3>1. PICK r \in live : p \in RunPages(r)
        BY <2>9 DEF Held
      <3>2. A = {} /\ L = {r} /\ p \in UsablePages
        BY <2>4, <2>5, <2>9, <3>1
      <3> HIDE DEF A, L
      <3>3. Cardinality(A) = 0 /\ Cardinality(L) = 1
        BY <2>7, <3>2, ZenonT(100)
      <3> QED
        BY <3>2, <3>3
    <2>10. CASE p \in UsablePages \ Held
      <3>1. PICK b \in F : p \in Pages(b)
        BY <2>3, <2>10 DEF Tiles
      <3>2. A = {b}
        BY <2>3, <3>1 DEF Tiles
      <3>3. L = {}
        BY <2>6, <2>10
      <3> HIDE DEF A, L
      <3>4. Cardinality(A) = 1 /\ Cardinality(L) = 0
        BY <2>7, <2>10, <3>2, <3>3
      <3> QED
        BY <2>10, <3>4
    <2> QED
      BY <2>8, <2>9, <2>10
  <1>4. EveryPageAccounted
    BY <1>3 DEF EveryPageAccounted
  <1>5. ASSUME phase = "up"
        PROVE  /\ \A i \in Levels : free[i] = Cardinality(Clear(i))
               /\ free_mem = MemOf(free)
    <2> DEFINE U == UsablePages \ Held
    <2>1. /\ Tiles(F, U) /\ free \in [Levels -> Nat]
          /\ \A l \in Levels : free[l] = Cardinality(At(F, l))
          /\ free_mem = PAGE_SIZE * Cardinality(U)
      BY <1>2, <1>5 DEF FreeInv, IInv
    <2>2. \A i \in Levels : free[i] = Cardinality(Clear(i))
      BY <2>1, FreeViews
    <2> HIDE DEF F, U
    <2>3. MemOf(free) = PAGE_SIZE * Cardinality(U)
      BY <2>1, MemTiles
    <2> QED
      BY <2>1, <2>2, <2>3
  <1>6. CountersMatch
    BY <1>5 DEF CountersMatch
  <1> QED
    BY <1>1, <1>4, <1>6 DEF BooksBalance

\* BooksBalance, whatever the memory map and the order of pmalloc and pfree:
\* no page is handed out twice or lost, and the counters agree with the bits.
THEOREM BooksAlwaysBalance ==
  ASSUME Halving
  PROVE  Spec => []BooksBalance
PROOF
  <1>1. IInv => BooksBalance
    BY Balanced
  <1>2. Spec => []IInv
    BY Invariance
  <1> QED
    BY <1>1, <1>2, PTL

\* FreeBuddiesMerged: pfree leaves no two buddy pages free next to each other.
THEOREM BuddiesAlwaysMerged ==
  ASSUME Halving
  PROVE  Spec => []FreeBuddiesMerged
PROOF
  <1>1. ASSUME IInv
        PROVE  FreeBuddiesMerged
    <2>1. SUFFICES ASSUME phase = "up", NEW j \in Clear(0), j % 2 = 0, j + 1 \in Clear(0)
                   PROVE  FALSE
      BY DEF FreeBuddiesMerged
    <2>2. Clear(0) = At(FreeIn(clear), 0)
      BY PageFacts, FreeViews
    <2>3. j \in Blocks[0] /\ j \in Nat /\ BothFree(FreeIn(clear), j)
      BY <2>1, <2>2, PageFacts DEF At, BothFree
    <2> QED
      BY <1>1, <2>1, <2>3 DEF IInv, FreeInv
  <1>2. Spec => []IInv
    BY Invariance
  <1> QED
    BY <1>1, <1>2, PTL

\* IndexInBitmap: when every bitmap is exactly half the one below it, pmalloc,
\* pfree and initPMM address no bit beyond the bitmap they mean.  (MCPmmOdd is a
\* map for which the sizes do not halve and the invariant fails.)
THEOREM IndexAlwaysInside ==
  ASSUME Halving
  PROVE  Spec => []IndexInBitmap
PROOF
  <1>1. IInv => IndexInBitmap
    BY DEF IInv, IndexInBitmap
  <1>2. Spec => []IInv
    BY Invariance
  <1> QED
    BY <1>1, <1>2, PTL

\* Page numbers and addresses: a page is the bytes from x * z to (x + 1) * z.
LEMMA PageOf ==
  ASSUME NEW a \in Nat, NEW p \in Nat, NEW z \in Nat \ {0}
  PROVE  /\ a \div z <= p => a < (p + 1) * z
         /\ p < a \div z => (p + 1) * z <= a
         /\ (a + z - 1) \div z <= p => a <= p * z
PROOF
  <1>1. ASSUME NEW x \in Nat
        PROVE  /\ x \div z \in Nat
               /\ (x \div z) * z <= x /\ x < (x \div z) * z + z
    <2>1. /\ x \div z \in Int /\ x % z \in 0 .. z - 1
          /\ x = z * (x \div z) + (x % z)
      OBVIOUS
    <2>2. x \div z >= 0
      OBVIOUS
    <2> QED
      BY <2>1, <2>2
  <1>2. ASSUME NEW x \in Nat, NEW y \in Nat, x <= y
        PROVE  x * z <= y * z
    BY <1>2
  <1>3. \A x \in Nat : (x + 1) * z = x * z + z /\ x * z \in Nat
    OBVIOUS
  <1>4. ASSUME a \div z <= p
        PROVE  a < (p + 1) * z
    <2>1. (a \div z) * z <= p * z /\ a < (a \div z) * z + z /\ (a \div z) * z \in Nat
      BY <1>1, <1>2, <1>3, <1>4
    <2> QED
      BY <1>3, <2>1
  <1>5. ASSUME p < a \div z
        PROVE  (p + 1) * z <= a
    <2>1. a \div z \in Nat /\ p + 1 \in Nat /\ p + 1 <= a \div z
      BY <1>1, <1>5
    <2>2. (p + 1) * z <= (a \div z) * z /\ (a \div z) * z <= a
      BY <1>1, <1>2, <2>1
    <2> QED
      BY <1>3, <2>1, <2>2
  <1>6. ASSUME (a + z - 1) \div z <= p
        PROVE  a <= p * z
    <2> DEFINE x == a + z - 1
    <2>1. x \in Nat /\ x = a + z - 1
      OBVIOUS
    <2> HIDE DEF x
    <2>2. x \div z \in Nat /\ x \div z <= p /\ x < (x \div z) * z + z
      BY <1>1, <1>6, <2>1 DEF x
    <2>3. (x \div z) * z <= p * z
      BY <1>2, <2>2
    <2> QED
      BY <1>3, <2>1, <2>2, <2>3
  <1> QED
    BY <1>4, <1>5, <1>6

\* Every entry of the memory map is a record of its type.
LEMMA EntryType ==
  ASSUME NEW i \in DOMAIN MMap
  PROVE  MMap[i] \in [base : Nat, length : Nat, type : STRING]
PROOF
  <1> DEFINE E == [base : Nat, length : Nat, type : STRING]
  <1>1. MMap \in Seq(E)
    BY MapAssumption
  <1> HIDE DEF E
  <1>2. MMap \in [1 .. Len(MMap) -> E]
    BY <1>1
  <1>3. MMap[i] \in E
    BY <1>2
  <1> QED
    BY <1>3 DEF E

\* The entry that holds the bitmaps is usable and large enough.
LEMMA HostFacts ==
  /\ host \in DOMAIN MMap /\ DOMAIN MMap \subseteq Nat
  /\ MMap[host].type = "usable" /\ MMap[host].length >= bitmap_size
PROOF
  <1> DEFINE T == {i \in DOMAIN MMap : /\ MMap[i].type = "usable"
                                       /\ MMap[i].length >= bitmap_size}
  <1>1. DOMAIN MMap \subseteq Nat
    BY MapAssumption
  <1>2. T \subseteq Nat /\ T # {}
    BY <1>1, HostAssumption
  <1>3. Min(T) \in T
    <2> HIDE DEF T
    <2> QED
      BY <1>2, MinFacts, ZenonT(100)
  <1> QED
    BY <1>1, <1>3 DEF host

\* A usable page begins behind no entry but a usable one of the map that initPMM
\* has cut, and ends in it.
LEMMA UsableEntry ==
  ASSUME NEW p \in UsablePages
  PROVE  \E i \in DOMAIN MMap :
           LET e == IF i = host THEN MMap[i].base + bitmap_size ELSE MMap[i].base
           IN  /\ MMap[i].type = "usable"
               /\ e < (p + 1) * PAGE_SIZE
               /\ (p + 1) * PAGE_SIZE <= MMap[i].base + MMap[i].length
PROOF
  <1> DEFINE hits == {i \in DOMAIN mmap_entries :
                        LET e == mmap_entries[i]
                        IN  e.base \div PAGE_SIZE <= p
                            /\ p < (e.base + e.length) \div PAGE_SIZE}
             h == Min(hits)
  <1>1. pmmGetStatusFromMMap(p) = "usable" /\ p \in Nat
    BY PageFacts DEF UsablePages
  <1>2. MMap \in Seq([base : Nat, length : Nat, type : STRING]) /\ PAGE_SIZE \in Nat \ {0}
    BY MapAssumption
  <1>3. bitmap_size \in Nat
    <2>1. NUM_BITMAPS - 1 \in Levels
      BY LevelFacts
    <2> QED
      BY <2>1, BaseFacts, SizeFacts DEF bitmap_size
  <1>4. DOMAIN mmap_entries = DOMAIN MMap
    BY DEF mmap_entries
  <1>5. hits # {} /\ mmap_entries[h].type = "usable"
    BY <1>1 DEF pmmGetStatusFromMMap
  <1>6. h \in hits
    <2>1. hits \subseteq Nat
      BY <1>4, HostFacts
    <2> HIDE DEF hits
    <2> QED
      BY <1>5, <2>1, MinFacts, ZenonT(100)
  <1> HIDE DEF h
  <1>7. /\ h \in DOMAIN MMap
        /\ mmap_entries[h].base \div PAGE_SIZE <= p
        /\ p < (mmap_entries[h].base + mmap_entries[h].length) \div PAGE_SIZE
    BY <1>4, <1>6
  <1>8. MMap[h] \in [base : Nat, length : Nat, type : STRING]
    BY <1>7, EntryType
  <1>9. CASE h = host
    <2> DEFINE e == MMap[h]
    <2>1. mmap_entries[h] = [[e EXCEPT !.base = @ + bitmap_size]
                             EXCEPT !.length = @ - bitmap_size]
      BY <1>2, <1>7, <1>9 DEF mmap_entries
    <2>2. /\ mmap_entries[h].base = e.base + bitmap_size
          /\ mmap_entries[h].length = e.length - bitmap_size
          /\ mmap_entries[h].type = e.type
      BY <1>8, <2>1
    <2> HIDE DEF e
    <2>3. e.base \in Nat /\ e.length \in Nat /\ e.length >= bitmap_size
      BY <1>8, <1>9, HostFacts DEF e
    <2>4. (e.base + bitmap_size) + (e.length - bitmap_size) = e.base + e.length
      BY <1>3, <2>3
    <2>5. /\ e.base + bitmap_size < (p + 1) * PAGE_SIZE
          /\ (p + 1) * PAGE_SIZE <= e.base + e.length
      <3> DEFINE x == e.base + bitmap_size
                 y == e.base + e.length
      <3>1. x \in Nat /\ x \div PAGE_SIZE <= p /\ y \in Nat /\ p < y \div PAGE_SIZE
        BY <1>3, <1>7, <2>2, <2>3, <2>4
      <3> HIDE DEF x, y
      <3>2. x < (p + 1) * PAGE_SIZE
        BY <1>1, <1>2, <3>1, PageOf, ZenonT(100)
      <3>3. (p + 1) * PAGE_SIZE <= y
        BY <1>1, <1>2, <3>1, PageOf, ZenonT(100)
      <3> QED
        BY <3>2, <3>3 DEF x, y
    <2> QED
      BY <1>5, <1>7, <1>9, <2>2, <2>5 DEF e
  <1>10. CASE h # host
    <2>1. mmap_entries[h] = MMap[h]
      BY <1>2, <1>7, <1>10 DEF mmap_entries
    <2>2. MMap[h].base \in Nat /\ MMap[h].length \in Nat
      BY <1>8
    <2>3. /\ MMap[h].base < (p + 1) * PAGE_SIZE
          /\ (p + 1) * PAGE_SIZE <= MMap[h].base + MMap[h].length
      <3>1. MMap[h].base < (p + 1) * PAGE_SIZE
        BY <1>1, <1>2, <1>7, <2>1, <2>2, PageOf, ZenonT(100)
      <3> DEFINE x == MMap[h].base + MMap[h].length
      <3>2. x \in Nat /\ p < x \div PAGE_SIZE
        BY <1>7, <2>1, <2>2
      <3> HIDE DEF x
      <3>3. (p + 1) * PAGE_SIZE <= x
        BY <1>1, <1>2, <3>2, PageOf, ZenonT(100)
      <3> QED
        BY <3>1, <3>3 DEF x
    <2> QED
      BY <1>5, <1>7, <1>10, <2>1, <2>3
  <1> QED
    BY <1>9, <1>10

\* BitmapNotHandedOut: initPMM cuts the bitmaps out of their entry and no other
\* usable entry overlaps it, so no caller ever holds a page the bitmaps fill.
THEOREM BitmapNeverHandedOut ==
  ASSUME Halving
  PROVE  Spec => []BitmapNotHandedOut
PROOF
  <1>1. ASSUME NEW p \in UsablePages,
               p \in (bitmap_base + PAGE_SIZE - 1) \div PAGE_SIZE
                     .. (bitmap_base + bitmap_size) \div PAGE_SIZE - 1
        PROVE  FALSE
    <2> DEFINE b == MMap[host].base
               n == MMap[host].length
               q == p * PAGE_SIZE
               s == bitmap_size
    <2>1. p \in Nat /\ PAGE_SIZE \in Nat \ {0}
      BY PageFacts, MapAssumption
    <2>2. b \in Nat /\ n \in Nat /\ s \in Nat /\ n >= s
      <3>1. MMap[host] \in [base : Nat, length : Nat, type : STRING]
        BY HostFacts, EntryType
      <3>2. NUM_BITMAPS - 1 \in Levels
        BY LevelFacts
      <3> QED
        BY <3>1, <3>2, HostFacts, BaseFacts, SizeFacts DEF bitmap_size
    <2>3. q \in Nat /\ (p + 1) * PAGE_SIZE = q + PAGE_SIZE
      BY <2>1
    <2> HIDE DEF q, b, n, s
    <2>4. b <= q /\ q + PAGE_SIZE <= b + s
      <3>1. (b + s) \div PAGE_SIZE \in Int /\ (b + PAGE_SIZE - 1) \div PAGE_SIZE \in Int
        BY <2>1, <2>2
      <3>2. (b + PAGE_SIZE - 1) \div PAGE_SIZE <= p /\ p < (b + s) \div PAGE_SIZE
        BY <1>1, <2>1, <3>1 DEF bitmap_base, b, s
      <3>3. b <= p * PAGE_SIZE
        BY <2>1, <2>2, <3>2, PageOf
      <3>4. (p + 1) * PAGE_SIZE <= b + s
        BY <2>1, <2>2, <3>2, PageOf
      <3> QED
        BY <2>3, <3>3, <3>4 DEF q
    <2>5. PICK i \in DOMAIN MMap :
            /\ MMap[i].type = "usable"
            /\ i = host => b + s < q + PAGE_SIZE
            /\ i # host => MMap[i].base < q + PAGE_SIZE
            /\ q + PAGE_SIZE <= MMap[i].base + MMap[i].length
      BY <2>3, UsableEntry DEF b, s
    <2>6. MMap[i].base \in Nat /\ MMap[i].length \in Nat
      <3>1. MMap[i] \in [base : Nat, length : Nat, type : STRING]
        BY EntryType
      <3> QED
        BY <3>1
    <2>7. CASE i = host
      BY <2>1, <2>2, <2>3, <2>4, <2>5, <2>7
    <2>8. CASE i # host
      <3>1. MMap[i].base + MMap[i].length <= b \/ b + n <= MMap[i].base
        BY <2>5, <2>8, HostFacts, DisjointAssumption DEF b, n
      <3> QED
        BY <2>1, <2>2, <2>3, <2>4, <2>5, <2>6, <2>8, <3>1
    <2> QED
      BY <2>7, <2>8
  <1>2. IInv => BitmapNotHandedOut
    BY <1>1 DEF IInv, RunInv, Held, BitmapNotHandedOut
  <1>3. Spec => []IInv
    BY Invariance
  <1> QED
    BY <1>2, <1>3, PTL

\* Once the allocator is up, the free pages are the usable ones nobody holds.
LEMMA FreePagesAre ==
  IInv /\ phase = "up" => FreePages = UsablePages \ Held
PROOF
  <1>1. SUFFICES ASSUME IInv, phase = "up"
                 PROVE  FreePages = UsablePages \ Held
    OBVIOUS
  <1>2. Tiles(FreeIn(clear), UsablePages \ Held)
    BY <1>1 DEF IInv, FreeInv
  <1>3. FreePages = UNION {Pages(b) : b \in FreeIn(clear)}
    BY FreeViews DEF FreePages, Pages
  <1> QED
    BY <1>2, <1>3 DEF Tiles

\* A single page is refused only when no page is free.
LEMMA RefusedEmpty ==
  ASSUME IInv, phase = "up", Refused(1)
  PROVE  UsablePages \ Held = {}
PROOF
  <1>1. NUM_BITMAPS - 1 \in Levels /\ span[NUM_BITMAPS - 1] \in Nat \ {0}
    BY LevelFacts, SpanFacts
  <1>2. 1 \in 1 .. span[NUM_BITMAPS - 1]
    BY <1>1
  <1>3. Fit(1) = {}
    BY <1>2 DEF Refused
  <1>4. Order(1) = 0
    <2> DEFINE T == {k \in Levels : span[k] >= 1}
    <2>1. T \subseteq Nat /\ 0 \in T
      BY LevelFacts, SpanFacts
    <2> HIDE DEF T
    <2>2. Min(T) \in Nat /\ Min(T) <= 0
      BY <2>1, MinFacts, ZenonT(100)
    <2>3. Order(1) = Min(T)
      BY DEF Order, T
    <2> QED
      BY <2>2, <2>3
  <1>5. FreeIn(clear) = {}
    <2>1. SUFFICES ASSUME NEW b \in FreeIn(clear)
                   PROVE  FALSE
      OBVIOUS
    <2>2. /\ b = <<b[1], b[2]>> /\ b[1] \in 0 .. NUM_BITMAPS - 1 /\ b[2] \in Blocks[b[1]]
          /\ Bit(b[1], b[2]) \in clear
      BY <2>1, BlockPair, LevelFacts DEF FreeIn
    <2>3. b \in {b[1]} \X Blocks[b[1]]
      BY <2>2
    <2>4. b \in Fit(1)
      BY <1>4, <2>2, <2>3 DEF Fit
    <2> QED
      BY <1>3, <2>4
  <1>6. Tiles(FreeIn(clear), UsablePages \ Held)
    BY DEF IInv, FreeInv
  <1> QED
    BY <1>5, <1>6 DEF Tiles

\* Every step of the buddy allocator is a step of the page allocator.
LEMMA StepRefines ==
  ASSUME Halving, IInv, IInv', [Next]_vars
  PROVE  [Abs!Next]_Abs!vars
PROOF
  <1> DEFINE U == UsablePages \ Held
             A == IF phase = "up" THEN FreePages ELSE {}
  <1>1. phase = "up" => A = U
    BY FreePagesAre
  <1>2. (IInv /\ phase = "up" => FreePages = UsablePages \ Held)'
    BY FreePagesAre, PTL
  <1>3. phase' = "up" => A' = UsablePages \ Held'
    <2>1. UsablePages' = UsablePages
      BY DEF UsablePages
    <2> QED
      BY <1>2, <2>1
  <1>4. phase # "up" => A = {}
    OBVIOUS
  <1>5. span[NUM_BITMAPS - 1] \in Nat \ {0}
    BY LevelFacts, SpanFacts
  <1> HIDE DEF A
  <1>6. CASE initPMM
    <2>1. phase = "boot" /\ phase' = "up" /\ live' = live /\ ret' = ret /\ live = {}
      BY <1>6 DEF initPMM, IInv
    <2>2. Held' = {}
      BY <2>1 DEF Held
    <2>3. A' = UsablePages
      BY <1>3, <2>1, <2>2
    <2>4. Abs!Boot
      BY <2>1, <2>3 DEF Abs!Boot, A
    <2> QED
      BY <2>4 DEF Abs!Next
  <1>7. ASSUME NEW n \in Sizes, pmallocRefuse(n)
        PROVE  Abs!Next
    <2>1. phase = "up" /\ phase' = "up" /\ ret' = NULL /\ live' = live /\ Refused(n)
      BY <1>7 DEF pmallocRefuse
    <2>2. Held' = Held
      BY <2>1 DEF Held
    <2>3. A' = A
      BY <1>1, <1>3, <2>1, <2>2
    <2>4. CASE n = 1
      <3>1. A = {}
        BY <1>1, <2>1, <2>4, RefusedEmpty
      <3>2. Abs!Refuse(1)
        BY <2>1, <2>3, <3>1 DEF Abs!Refuse, A
      <3>3. 1 \in 0 .. span[NUM_BITMAPS - 1] + 1
        BY <1>5
      <3> QED
        BY <3>2, <3>3 DEF Abs!Next
    <2>5. CASE n # 1
      <3>1. Abs!Refuse(0)
        BY <2>1, <2>3 DEF Abs!Refuse, A
      <3>2. 0 \in 0 .. span[NUM_BITMAPS - 1] + 1
        BY <1>5
      <3> QED
        BY <3>1, <3>2 DEF Abs!Next
    <2> QED
      BY <2>4, <2>5
  <1>8. ASSUME NEW n \in Sizes, pmallocGrant(n)
        PROVE  Abs!Next
    <2> DEFINE b == FirstFit(n)
               o == b[2] * span[b[1]]
               R == o .. o + n - 1
    <2>1. /\ phase = "up" /\ phase' = "up" /\ ~ Refused(n) /\ ret' = o
      BY <1>8 DEF pmallocGrant
    <2>2. R \subseteq U /\ o \in R
      BY <2>1, GrantFacts, ZenonT(100)
    <2>3. Held' = Held \union R
      BY <1>8, <2>1, GrantRuns
    <2>4. n \in 1 .. span[NUM_BITMAPS - 1]
      BY <2>1, FitFacts
    <2> HIDE DEF o
    <2>5. R = Abs!Run(o, n)
      BY DEF Abs!Run
    <2> HIDE DEF R
    <2>6. A = U /\ A' = U \ R
      BY <1>1, <1>3, <2>1, <2>3
    <2>7. o \in A /\ R \subseteq A /\ A' = A \ R
      BY <2>2, <2>6
    <2>8. Abs!Grant(n)
      BY <2>1, <2>5, <2>7 DEF Abs!Grant, A
    <2> QED
      BY <2>4, <2>8 DEF Abs!Next
  <1>9. ASSUME NEW r \in live, FreeRun(r)
        PROVE  Abs!Next
    <2>1. phase = "up" /\ phase' = "up" /\ ret' = ret
      BY <1>9, FreeControl DEF FreeRun
    <2>2. /\ r[2] \in 1 .. span[NUM_BITMAPS - 1]
          /\ RunPages(r) \subseteq Held /\ r[1] \in RunPages(r)
          /\ Held' = Held \ RunPages(r)
      BY <1>9, FreeRunRuns
    <2>3. RunPages(r) \subseteq UsablePages
      BY DEF IInv, RunInv
    <2>4. RunPages(r) = Abs!Run(r[1], r[2])
      BY DEF RunPages, Abs!Run
    <2>5. RunPages(r) \subseteq UsablePages \ A /\ A' = A \union RunPages(r)
      BY <1>1, <1>3, <2>1, <2>2, <2>3
    <2>6. Abs!Release(r[1], r[2])
      BY <2>1, <2>4, <2>5 DEF Abs!Release, A
    <2> QED
      BY <2>2, <2>3, <2>6 DEF Abs!Next
  <1>10. ASSUME NEW r \in live, NEW p \in r[1] .. r[1] + r[2] - 1, FreePage(r, p)
         PROVE  Abs!Next
    <2>1. phase = "up" /\ phase' = "up" /\ ret' = ret
      BY <1>10, FreeControl DEF FreePage
    <2>2. p .. p + 1 - 1 = {p} /\ {p} \subseteq Held /\ Held' = Held \ {p}
      BY <1>10, FreePageRuns
    <2>3. p \in UsablePages
      BY <2>2 DEF IInv, RunInv, Held
    <2>4. {p} = Abs!Run(p, 1)
      BY <2>2 DEF Abs!Run
    <2>5. {p} \subseteq UsablePages \ A /\ A' = A \union {p}
      BY <1>1, <1>3, <2>1, <2>2, <2>3
    <2>6. Abs!Release(p, 1)
      BY <2>1, <2>4, <2>5 DEF Abs!Release, A
    <2>7. 1 \in 1 .. span[NUM_BITMAPS - 1]
      BY <1>5
    <2> QED
      BY <2>3, <2>6, <2>7 DEF Abs!Next
  <1>11. CASE UNCHANGED vars
    <2>1. phase' = phase /\ live' = live /\ ret' = ret /\ clear' = clear
      BY <1>11 DEF vars
    <2>2. A' = A
      BY <2>1 DEF A, FreePages, FreeBlocks, Clear
    <2> QED
      BY <2>1, <2>2 DEF Abs!vars, A
  <1> QED
    BY <1>6, <1>7, <1>8, <1>9, <1>10, <1>11 DEF Next

\* The buddy allocator implements the page allocator: what pmalloc grants is a
\* run of free pages, pfree gives back exactly the pages it is told, and a single
\* page is refused only when none is free.
THEOREM PageAllocatorImplemented ==
  ASSUME Halving
  PROVE  Spec => ImplementsPageAllocator
PROOF
  <1>1. Init => Abs!Init
    BY DEF Init, Abs!Init
  <1>2. IInv /\ IInv' /\ [Next]_vars => [Abs!Next]_Abs!vars
    BY StepRefines
  <1>3. Spec => []IInv
    BY Invariance
  <1> QED
    BY <1>1, <1>2, <1>3, PTL DEF Spec, ImplementsPageAllocator, Abs!Spec
=============================================================================
