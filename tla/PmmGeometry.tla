---------------------------- MODULE PmmGeometry ----------------------------
(***************************************************************************)
(* Lemmas about the geometry of the bitmaps of module Pmm: their sizes and *)
(* places, the pages of a block and of its halves, and which bits stand    *)
(* for which blocks.  The recursive functions are reasoned about with sets *)
(* of natural numbers: a set that holds 0 and with every number its        *)
(* successor holds them all.                                               *)
(*                                                                         *)
(* A set of blocks tiles a set of pages when every page is in exactly one  *)
(* block of it.  The second half of the module says which operations on    *)
(* blocks keep a tiling: splitting a block, freeing pages, merging buddies *)
(* and what initPMM marks.                                                 *)
(***************************************************************************)
EXTENDS Pmm, WellFoundedInduction, TLAPS

\* A leaf that names no prover is SMT's, and Zenon's if SMT gives up.
USE SMTT(100), ZenonT(100)

-----------------------------------------------------------------------------
(* Induction and recursion.                                                *)

\* A nonempty set of natural numbers has a least member.
LEMMA LeastNat ==
  ASSUME NEW T, T \subseteq Nat, T # {}
  PROVE  \E x \in T : \A y \in T : x <= y
PROOF
  <1> DEFINE R == OpToRel(<, Nat)
  <1>1. IsWellFoundedOn(R, Nat)
    BY NatLessThanWellFounded, ZenonT(100)
  <1>2. \A x, y \in Nat : <<y, x>> \in R <=> y < x
    BY DEF OpToRel
  <1> HIDE DEF R
  <1>3. PICK x \in T : \A y \in T : ~ (<<y, x>> \in R)
    BY <1>1, WFMin, ZenonT(100)
  <1>4. ASSUME NEW y \in T
        PROVE  x <= y
    <2>1. x \in Nat /\ y \in Nat
      OBVIOUS
    <2>2. ~ (y < x)
      BY <1>2, <1>3, <2>1, ZenonT(100)
    <2> QED
      BY <2>1, <2>2
  <1> QED
    BY <1>4

\* Induction up to n, on a set.
LEMMA UpTo ==
  ASSUME NEW n \in Nat, NEW S, 0 \in S,
         \A k \in 0 .. n - 1 : k \in S => k + 1 \in S
  PROVE  0 .. n \subseteq S
PROOF
  <1> DEFINE T == {k \in 0 .. n : k \notin S}
  <1>1. SUFFICES ASSUME T # {} PROVE FALSE
    OBVIOUS
  <1>2. T \subseteq Nat
    OBVIOUS
  <1>3. PICK x \in T : \A y \in T : x <= y
    BY <1>1, <1>2, LeastNat, ZenonT(100)
  <1>4. x # 0 /\ x \in 0 .. n
    BY <1>3
  <1>5. x - 1 \in 0 .. n - 1 /\ x - 1 \notin T
    BY <1>3, <1>4
  <1>6. x - 1 \in S
    BY <1>5
  <1>7. (x - 1) + 1 \in S
    BY <1>5, <1>6
  <1>8. (x - 1) + 1 = x
    BY <1>4
  <1> QED
    BY <1>7, <1>8, <1>3

\* g starts with x and makes each further value of the one before with f.
Unfolds(g, n, x, f) == \A l \in 0 .. n : g[l] = IF l = 0 THEN x ELSE f[l][g[l - 1]]

\* A function on 0 .. n can be defined by its first value and by what each of
\* the others is made of the one before.
LEMMA Recursion ==
  ASSUME NEW n \in Nat, NEW T, NEW x \in T, NEW f \in [1 .. n -> [T -> T]]
  PROVE  \E g \in [0 .. n -> T] : Unfolds(g, n, x, f)
PROOF
  <1> DEFINE Good(m, g) == Unfolds(g, m, x, f)
             S == {m \in 0 .. n : \E g \in [0 .. m -> T] : Good(m, g)}
  <1> USE DEF Unfolds
  <1>1. 0 \in S
    <2> DEFINE g == [l \in 0 .. 0 |-> x]
    <2>1. g \in [0 .. 0 -> T] /\ Good(0, g)
      OBVIOUS
    <2> HIDE DEF g, Good
    <2> QED
      BY <2>1
  <1>2. ASSUME NEW m \in 0 .. n - 1, m \in S
        PROVE  m + 1 \in S
    <2>1. PICK g \in [0 .. m -> T] : Good(m, g)
      BY <1>2
    <2> DEFINE h == [l \in 0 .. m + 1 |-> IF l = m + 1 THEN f[m + 1][g[m]] ELSE g[l]]
    <2>2. f[m + 1][g[m]] \in T
      <3>1. m + 1 \in 1 .. n /\ m \in 0 .. m
        OBVIOUS
      <3> QED
        BY <3>1
    <2>3. h \in [0 .. m + 1 -> T]
      BY <2>2
    <2>4. ASSUME NEW l \in 0 .. m + 1
          PROVE  h[l] = IF l = 0 THEN x ELSE f[l][h[l - 1]]
      <3>1. CASE l = m + 1
        <4>1. h[l] = f[m + 1][g[m]] /\ h[l - 1] = g[m] /\ l # 0
          BY <3>1
        <4> QED
          BY <4>1, <3>1
      <3>2. CASE l # m + 1
        <4>1. l \in 0 .. m /\ h[l] = g[l] /\ (l # 0 => h[l - 1] = g[l - 1])
          BY <3>2
        <4> QED
          BY <4>1, <2>1
      <3> QED
        BY <3>1, <3>2
    <2>5. m + 1 \in 0 .. n /\ Good(m + 1, h)
      BY <2>4
    <2> HIDE DEF h, Good
    <2> QED
      BY <2>3, <2>5
  <1>3. 0 .. n \subseteq S
    <2> HIDE DEF S
    <2> QED
      BY <1>1, <1>2, UpTo, ZenonT(100)
  <1>4. n \in S
    BY <1>3
  <1> QED
    BY <1>4

-----------------------------------------------------------------------------
(* The recursive functions of the geometry.                                *)

\* The bitmaps are numbered from 0.
LEMMA LevelFacts ==
  /\ NUM_BITMAPS - 1 \in Nat /\ NUM_BITMAPS - 1 > 0
  /\ Levels = 0 .. NUM_BITMAPS - 1
PROOF
  BY LevelsAssumption DEF Levels

\* 1 << i doubles from bitmap to bitmap.
LEMMA SpanFacts ==
  /\ span \in [Levels -> Nat \ {0}]
  /\ span[0] = 1
  /\ \A i \in Levels \ {0} : span[i] = 2 * span[i - 1]
PROOF
  <1> DEFINE n == NUM_BITMAPS - 1
             f == [l \in 1 .. n |-> [x \in Nat \ {0} |-> 2 * x]]
             Is(g) == g = [i \in Levels |-> IF i = 0 THEN 1 ELSE 2 * g[i - 1]]
             shift == CHOOSE g : Is(g)
  <1>1. PICK g \in [0 .. n -> Nat \ {0}] : Unfolds(g, n, 1, f)
    <2> DEFINE T == Nat \ {0}
    <2>1. n \in Nat /\ 1 \in T /\ f \in [1 .. n -> [T -> T]]
      BY LevelFacts
    <2> HIDE DEF n, f, T
    <2>2. \E g \in [0 .. n -> T] : Unfolds(g, n, 1, f)
      BY <2>1, Recursion
    <2> QED
      BY <2>2 DEF T
  <1>2. \A l \in 0 .. n : g[l] = IF l = 0 THEN 1 ELSE 2 * g[l - 1]
    <2> SUFFICES ASSUME NEW l \in 0 .. n
                 PROVE  g[l] = IF l = 0 THEN 1 ELSE 2 * g[l - 1]
      OBVIOUS
    <2>1. CASE l = 0
      BY <1>1, <2>1, ZenonT(100) DEF Unfolds
    <2>2. CASE l # 0
      <3>1. l \in 1 .. n /\ l - 1 \in 0 .. n
        BY <2>2, LevelFacts
      <3> QED
        BY <1>1, <2>2, <3>1, ZenonT(100) DEF Unfolds
    <2> QED
      BY <2>1, <2>2
  <1>3. Is(g)
    BY <1>2, LevelFacts
  <1>4. Is(shift)
    <2> HIDE DEF Is
    <2> QED
      BY <1>3
  <1>5. \A l \in Levels : shift[l] = g[l]
    <2> DEFINE S == {l \in 0 .. n : shift[l] = g[l]}
    <2> HIDE DEF shift
    <2>1. 0 \in S
      BY <1>4, <1>3, LevelFacts
    <2>2. ASSUME NEW k \in 0 .. n - 1, k \in S
          PROVE  k + 1 \in S
      <3>1. k + 1 \in Levels /\ k + 1 # 0 /\ (k + 1) - 1 = k
        BY LevelFacts
      <3>2. shift[k + 1] = 2 * shift[k] /\ g[k + 1] = 2 * g[k]
        BY <1>4, <1>3, <3>1, ZenonT(100)
      <3> QED
        BY <2>2, <3>1, <3>2, LevelFacts
    <2>3. 0 .. n \subseteq S
      <3> HIDE DEF S, n
      <3> QED
        BY <2>1, <2>2, UpTo, LevelFacts, ZenonT(100) DEF n
    <2> QED
      BY <2>3, LevelFacts
  <1>6. span = [l \in Levels |-> shift[l]]
    BY DEF span
  <1>7. span = g
    <2> HIDE DEF shift
    <2> QED
      BY <1>5, <1>6, LevelFacts
  <1> QED
    <2> HIDE DEF f, n, shift, Is
    <2> QED
      BY <1>7, <1>2, LevelFacts DEF n

\* Each bitmap has half the bytes of the one before, rounded down.
LEMMA SizeFacts ==
  /\ size \in [Levels -> Nat]
  /\ size[0] = num_pages \div 8
  /\ \A i \in Levels \ {0} : size[i] = size[i - 1] \div 2
PROOF
  <1> DEFINE n == NUM_BITMAPS - 1
             x == num_pages \div 8
             f == [l \in 1 .. n |-> [y \in Nat |-> y \div 2]]
             Is(g) == g = [i \in Levels |-> IF i = 0 THEN x ELSE g[i - 1] \div 2]
  <1>1. x \in Nat
    BY MapAssumption DEF num_pages
  <1> HIDE DEF x
  <1>2. PICK g \in [0 .. n -> Nat] : Unfolds(g, n, x, f)
    <2>1. n \in Nat /\ f \in [1 .. n -> [Nat -> Nat]]
      BY LevelFacts
    <2> HIDE DEF n, f
    <2> QED
      BY <1>1, <2>1, Recursion, ZenonT(100)
  <1>3. \A l \in 0 .. n : g[l] = IF l = 0 THEN x ELSE g[l - 1] \div 2
    <2> SUFFICES ASSUME NEW l \in 0 .. n
                 PROVE  g[l] = IF l = 0 THEN x ELSE g[l - 1] \div 2
      OBVIOUS
    <2>1. l # 0 => l \in 1 .. n /\ l - 1 \in 0 .. n
      BY LevelFacts
    <2> QED
      BY <1>2, <2>1, ZenonT(100) DEF Unfolds
  <1>4. Is(g)
    BY <1>3, LevelFacts
  <1>5. Is(size)
    <2>1. size = CHOOSE h : Is(h)
      BY DEF size, x
    <2> HIDE DEF Is
    <2> QED
      BY <1>4, <2>1
  <1>6. 0 .. n \subseteq {l \in 0 .. n : size[l] \in Nat}
    <2> DEFINE S == {l \in 0 .. n : size[l] \in Nat}
    <2>1. 0 \in S
      BY <1>1, <1>5, LevelFacts
    <2>2. \A k \in 0 .. n - 1 : k \in S => k + 1 \in S
      BY <1>5, LevelFacts
    <2> HIDE DEF S, n
    <2>3. 0 .. n \subseteq S
      BY <2>1, <2>2, UpTo, LevelFacts, ZenonT(100) DEF n
    <2> QED
      BY <2>3 DEF S
  <1>7. size = [l \in Levels |-> size[l]]
    BY <1>5
  <1>8. size \in [Levels -> Nat]
    BY <1>6, <1>7, LevelFacts
  <1>9. \A i \in Levels : size[i] = IF i = 0 THEN x ELSE size[i - 1] \div 2
    BY <1>5, ZenonT(100)
  <1> QED
    BY <1>8, <1>9, LevelFacts DEF x

\* The bitmaps follow one another.
LEMMA BaseFacts ==
  /\ base \in [Levels -> Nat]
  /\ base[0] = 0
  /\ \A i \in Levels \ {0} : base[i] = base[i - 1] + size[i - 1]
PROOF
  <1> DEFINE n == NUM_BITMAPS - 1
             f == [l \in 1 .. n |-> [y \in Nat |-> y + size[l - 1]]]
             Is(g) == g = [i \in Levels |-> IF i = 0 THEN 0 ELSE g[i - 1] + size[i - 1]]
             from == CHOOSE g : Is(g)
  <1>1. \A l \in 1 .. n : size[l - 1] \in Nat
    BY SizeFacts, LevelFacts
  <1>2. PICK g \in [0 .. n -> Nat] : Unfolds(g, n, 0, f)
    <2>1. n \in Nat /\ f \in [1 .. n -> [Nat -> Nat]] /\ 0 \in Nat
      BY <1>1, LevelFacts
    <2> HIDE DEF n, f
    <2> QED
      BY <2>1, Recursion, ZenonT(100)
  <1>3. \A l \in 0 .. n : g[l] = IF l = 0 THEN 0 ELSE g[l - 1] + size[l - 1]
    <2> SUFFICES ASSUME NEW l \in 0 .. n
                 PROVE  g[l] = IF l = 0 THEN 0 ELSE g[l - 1] + size[l - 1]
      OBVIOUS
    <2>1. l # 0 => l \in 1 .. n /\ l - 1 \in 0 .. n
      BY LevelFacts
    <2> QED
      BY <1>2, <2>1, ZenonT(100) DEF Unfolds
  <1>4. Is(g)
    BY <1>3, LevelFacts
  <1>5. Is(from)
    <2> HIDE DEF Is
    <2> QED
      BY <1>4
  <1>6. base = from
    <2>1. base = [i \in Levels |-> from[i]]
      BY DEF base
    <2> HIDE DEF from
    <2> QED
      BY <1>5, <2>1
  <1> HIDE DEF from
  <1>7. 0 .. n \subseteq {l \in 0 .. n : base[l] \in Nat}
    <2> DEFINE S == {l \in 0 .. n : base[l] \in Nat}
    <2>1. 0 \in S
      BY <1>5, <1>6, LevelFacts
    <2>2. \A k \in 0 .. n - 1 : k \in S => k + 1 \in S
      BY <1>1, <1>5, <1>6, LevelFacts
    <2> HIDE DEF S, n
    <2>3. 0 .. n \subseteq S
      BY <2>1, <2>2, UpTo, LevelFacts, ZenonT(100) DEF n
    <2> QED
      BY <2>3 DEF S
  <1>8. base \in [Levels -> Nat]
    BY <1>5, <1>6, <1>7, LevelFacts
  <1>9. \A i \in Levels : base[i] = IF i = 0 THEN 0 ELSE base[i - 1] + size[i - 1]
    BY <1>5, <1>6, ZenonT(100)
  <1> QED
    BY <1>8, <1>9, LevelFacts

-----------------------------------------------------------------------------
(* Blocks and bits.                                                        *)

\* The bitmaps halve evenly: no block is without its halves or its parent.
Halving == \A i \in Levels \ {0} : size[i - 1] = 2 * size[i]

\* Bitmap k lies behind the end of every lower bitmap i.
LEMMA BaseGrows ==
  ASSUME NEW i \in Levels, NEW k \in Levels, i < k
  PROVE  base[i] + size[i] <= base[k]
PROOF
  <1> DEFINE n == NUM_BITMAPS - 1
             S == {l \in 0 .. n : i < l => base[i] + size[i] <= base[l]}
  <1>1. 0 \in S
    BY LevelFacts
  <1>2. ASSUME NEW l \in 0 .. n - 1, l \in S
        PROVE  l + 1 \in S
    <2>1. l \in Levels /\ l + 1 \in Levels \ {0} /\ (l + 1) - 1 = l
      BY LevelFacts
    <2>2. base[l + 1] = base[l] + size[l]
      BY <2>1, BaseFacts
    <2>3. base[l] \in Nat /\ size[l] \in Nat /\ base[i] \in Nat /\ size[i] \in Nat
      BY <2>1, BaseFacts, SizeFacts
    <2>4. CASE i < l
      BY <1>2, <2>2, <2>3, <2>4, LevelFacts
    <2>5. CASE i = l
      BY <2>2, <2>3, <2>5, LevelFacts
    <2>6. CASE i > l
      BY <2>6, LevelFacts
    <2> QED
      BY <2>4, <2>5, <2>6, LevelFacts
  <1>3. 0 .. n \subseteq S
    <2> HIDE DEF S, n
    <2> QED
      BY <1>1, <1>2, UpTo, LevelFacts, ZenonT(100) DEF n
  <1> QED
    BY <1>3, LevelFacts

\* The blocks of a bitmap are numbered by its bits.
LEMMA BlockNumbers ==
  ASSUME NEW i \in Levels
  PROVE  /\ size[i] \in Nat /\ base[i] \in Nat /\ span[i] \in Nat \ {0}
         /\ Blocks[i] = 0 .. 8 * size[i] - 1
         /\ Blocks[i] \subseteq Nat
PROOF
  BY SizeFacts, BaseFacts, SpanFacts DEF Blocks

\* A bit stands for one block only.
LEMMA BitInjective ==
  ASSUME NEW i \in Levels, NEW j \in Blocks[i],
         NEW k \in Levels, NEW m \in Blocks[k], Bit(i, j) = Bit(k, m)
  PROVE  i = k /\ j = m
PROOF
  <1>1. i \in Nat /\ k \in Nat
    BY LevelFacts
  <1>2. j \in 0 .. 8 * size[i] - 1 /\ m \in 0 .. 8 * size[k] - 1
    BY BlockNumbers
  <1>3. size[i] \in Nat /\ base[i] \in Nat /\ size[k] \in Nat /\ base[k] \in Nat
    BY BlockNumbers
  <1>4. 8 * base[i] + j = 8 * base[k] + m
    BY DEF Bit
  <1>5. CASE i < k
    BY <1>2, <1>3, <1>4, <1>5, BaseGrows
  <1>6. CASE k < i
    BY <1>2, <1>3, <1>4, <1>6, BaseGrows
  <1>7. CASE i = k
    BY <1>2, <1>3, <1>4, <1>7
  <1> QED
    BY <1>1, <1>5, <1>6, <1>7

\* Every block has its bit in the bitmaps' memory.
LEMMA BitType ==
  ASSUME NEW i \in Levels, NEW j \in Blocks[i]
  PROVE  Bit(i, j) \in Bits /\ Bit(i, j) \in Nat
PROOF
  <1> DEFINE n == NUM_BITMAPS - 1
  <1>1. n \in Levels
    BY LevelFacts
  <1>2. j \in 0 .. 8 * size[i] - 1 /\ size[i] \in Nat /\ base[i] \in Nat
        /\ size[n] \in Nat /\ base[n] \in Nat
    BY <1>1, BlockNumbers
  <1>3. CASE i = n
    BY <1>2, <1>3 DEF Bit, Bits, bitmap_size
  <1>4. CASE i # n
    <2>1. i < n
      BY <1>4, LevelFacts
    <2>2. base[i] + size[i] <= base[n]
      BY <1>1, <2>1, BaseGrows
    <2> QED
      BY <1>2, <2>2 DEF Bit, Bits, bitmap_size
  <1> QED
    BY <1>3, <1>4

\* A block of a higher bitmap is made of its two halves.
LEMMA BlockSplit ==
  ASSUME NEW i \in Levels \ {0}, NEW j \in Nat
  PROVE  /\ i - 1 \in Levels
         /\ BlockPages(i, j)
            = BlockPages(i - 1, L_CHILD(j)) \union BlockPages(i - 1, R_CHILD(j))
PROOF
  <1>1. i - 1 \in Levels
    BY LevelFacts
  <1>2. span[i] = 2 * span[i - 1] /\ span[i - 1] \in Nat
    BY <1>1, SpanFacts
  <1> DEFINE s == span[i - 1]
  <1>3. j * (2 * s) = (j * 2) * s /\ (j * 2 + 1) * s = (j * 2) * s + s
        /\ (j + 1) * (2 * s) = (j * 2) * s + s + s
        /\ (j * 2 + 1 + 1) * s = (j * 2) * s + s + s
    BY <1>2
  <1>4. (j * 2) * s \in Nat
    BY <1>2
  <1> QED
    BY <1>1, <1>2, <1>3, <1>4 DEF BlockPages, L_CHILD, R_CHILD

\* Two blocks of a bitmap share no page.
LEMMA BlockDisjoint ==
  ASSUME NEW i \in Levels, NEW j \in Nat, NEW k \in Nat,
         NEW p \in BlockPages(i, j), p \in BlockPages(i, k)
  PROVE  j = k
PROOF
  <1> DEFINE s == span[i]
  <1>1. s \in Nat \ {0}
    BY SpanFacts
  <1>2. p \in Int /\ j * s <= p /\ p < (j + 1) * s /\ k * s <= p /\ p < (k + 1) * s
    BY <1>1 DEF BlockPages
  <1> HIDE DEF s
  <1>3. \A a, b \in Nat : a < b => (a + 1) * s <= b * s
    BY <1>1
  <1>4. (j + 1) * s \in Nat /\ (k + 1) * s \in Nat /\ j * s \in Nat /\ k * s \in Nat
    BY <1>1
  <1> QED
    BY <1>2, <1>3, <1>4

\* A block has pages, and they are natural numbers.
LEMMA BlockType ==
  ASSUME NEW i \in Levels, NEW j \in Nat
  PROVE  /\ BlockPages(i, j) \subseteq Nat
         /\ j * span[i] \in BlockPages(i, j)
PROOF
  <1> DEFINE s == span[i]
  <1>1. s \in Nat \ {0}
    BY SpanFacts
  <1>2. j * s \in Nat /\ (j + 1) * s = j * s + s
    BY <1>1
  <1> QED
    BY <1>1, <1>2 DEF BlockPages

\* A block of bitmap 0 is a page.
LEMMA PageBlock ==
  ASSUME NEW j \in Nat
  PROVE  BlockPages(0, j) = {j}
PROOF
  BY SpanFacts DEF BlockPages

\* A block and its parent.
LEMMA ParentFacts ==
  ASSUME NEW i \in Levels \ {NUM_BITMAPS - 1}, NEW j \in Nat
  PROVE  /\ i + 1 \in Levels \ {0} /\ (i + 1) - 1 = i
         /\ PARENT(j) \in Nat
         /\ j \in {L_CHILD(PARENT(j)), R_CHILD(PARENT(j))}
         /\ BlockPages(i, j) \subseteq BlockPages(i + 1, PARENT(j))
PROOF
  <1>1. i + 1 \in Levels \ {0} /\ (i + 1) - 1 = i
    BY LevelFacts
  <1>2. PARENT(j) \in Nat /\ j \in {L_CHILD(PARENT(j)), R_CHILD(PARENT(j))}
    BY DEF PARENT, L_CHILD, R_CHILD
  <1>3. BlockPages(i + 1, PARENT(j))
          = BlockPages(i, L_CHILD(PARENT(j))) \union BlockPages(i, R_CHILD(PARENT(j)))
    BY <1>1, <1>2, BlockSplit
  <1> QED
    BY <1>1, <1>2, <1>3

\* Halves and parents are in their bitmaps.
LEMMA Relatives ==
  ASSUME Halving, NEW i \in Levels \ {0}
  PROVE  /\ i - 1 \in Levels
         /\ \A j \in Blocks[i] : {L_CHILD(j), R_CHILD(j)} \subseteq Blocks[i - 1]
         /\ \A j \in Blocks[i - 1] : PARENT(j) \in Blocks[i]
         /\ \A j \in Blocks[i - 1] : j % 2 = 0 => j + 1 \in Blocks[i - 1]
PROOF
  <1>1. i - 1 \in Levels
    BY LevelFacts
  <1>2. size[i - 1] = 2 * size[i] /\ size[i] \in Nat
    BY BlockNumbers DEF Halving
  <1>3. Blocks[i] = 0 .. 8 * size[i] - 1 /\ Blocks[i - 1] = 0 .. 16 * size[i] - 1
    BY <1>1, <1>2, BlockNumbers
  <1>4. \A z \in Nat : \A j \in 0 .. 8 * z - 1 : j * 2 \in 0 .. 16 * z - 1 /\ j * 2 + 1 \in 0 .. 16 * z - 1
    OBVIOUS
  <1>5. \A z \in Nat : \A j \in 0 .. 16 * z - 1 : j \div 2 \in 0 .. 8 * z - 1
    OBVIOUS
  <1>6. \A z \in Nat : \A j \in 0 .. 16 * z - 1 : j % 2 = 0 => j + 1 \in 0 .. 16 * z - 1
    OBVIOUS
  <1>7. \A j \in Blocks[i] : {L_CHILD(j), R_CHILD(j)} \subseteq Blocks[i - 1]
    BY <1>2, <1>3, <1>4, ZenonT(100) DEF L_CHILD, R_CHILD
  <1>8. \A j \in Blocks[i - 1] : PARENT(j) \in Blocks[i]
    BY <1>2, <1>3, <1>5 DEF PARENT
  <1>9. \A j \in Blocks[i - 1] : j % 2 = 0 => j + 1 \in Blocks[i - 1]
    BY <1>2, <1>3, <1>6
  <1> QED
    BY <1>1, <1>7, <1>8, <1>9

\* The pages of a block are pages of the memory ...
LEMMA PagesInside ==
  ASSUME Halving, NEW i \in Levels, NEW j \in Blocks[i]
  PROVE  BlockPages(i, j) \subseteq Blocks[0]
PROOF
  <1> DEFINE n == NUM_BITMAPS - 1
             S == {l \in 0 .. n : \A k \in Blocks[l] : BlockPages(l, k) \subseteq Blocks[0]}
  <1>1. 0 \in S
    <2>1. 0 \in Levels
      BY LevelFacts
    <2>2. \A k \in Blocks[0] : BlockPages(0, k) \subseteq Blocks[0]
      BY <2>1, BlockNumbers, PageBlock
    <2> QED
      BY <2>2, LevelFacts
  <1>2. ASSUME NEW l \in 0 .. n - 1, l \in S
        PROVE  l + 1 \in S
    <2>1. l + 1 \in Levels \ {0} /\ (l + 1) - 1 = l /\ l \in Levels
      BY LevelFacts
    <2>2. ASSUME NEW k \in Blocks[l + 1]
          PROVE  BlockPages(l + 1, k) \subseteq Blocks[0]
      <3>1. k \in Nat
        BY <2>1, BlockNumbers
      <3>2. {L_CHILD(k), R_CHILD(k)} \subseteq Blocks[l]
        BY <2>1, Relatives
      <3>3. BlockPages(l + 1, k) = BlockPages(l, L_CHILD(k)) \union BlockPages(l, R_CHILD(k))
        BY <2>1, <3>1, BlockSplit
      <3> QED
        BY <1>2, <3>2, <3>3
    <2> QED
      BY <2>1, <2>2, LevelFacts
  <1>3. 0 .. n \subseteq S
    <2> HIDE DEF S, n
    <2> QED
      BY <1>1, <1>2, UpTo, LevelFacts, ZenonT(100) DEF n
  <1> QED
    BY <1>3, LevelFacts

\* ... and every page is in a block of every bitmap.
LEMMA PageCovered ==
  ASSUME Halving, NEW i \in Levels, NEW p \in Blocks[0]
  PROVE  \E j \in Blocks[i] : p \in BlockPages(i, j)
PROOF
  <1> DEFINE n == NUM_BITMAPS - 1
             S == {l \in 0 .. n : \E j \in Blocks[l] : p \in BlockPages(l, j)}
  <1>1. 0 \in S
    <2>1. 0 \in Levels
      BY LevelFacts
    <2>2. p \in BlockPages(0, p)
      BY <2>1, BlockNumbers, PageBlock
    <2> QED
      BY <2>2, LevelFacts
  <1>2. ASSUME NEW l \in 0 .. n - 1, l \in S
        PROVE  l + 1 \in S
    <2>1. l + 1 \in Levels \ {0} /\ (l + 1) - 1 = l /\ l \in Levels \ {n}
      BY LevelFacts
    <2>2. PICK j \in Blocks[l] : p \in BlockPages(l, j)
      BY <1>2
    <2>3. j \in Nat
      BY <2>1, BlockNumbers
    <2>4. PARENT(j) \in Blocks[l + 1]
      BY <2>1, Relatives
    <2>5. p \in BlockPages(l + 1, PARENT(j))
      BY <2>1, <2>2, <2>3, ParentFacts
    <2> QED
      BY <2>1, <2>4, <2>5, LevelFacts
  <1>3. 0 .. n \subseteq S
    <2> HIDE DEF S, n
    <2> QED
      BY <1>1, <1>2, UpTo, LevelFacts, ZenonT(100) DEF n
  <1> QED
    BY <1>3, LevelFacts

\* Blocks that share a page are nested.
LEMMA Nested ==
  ASSUME NEW i \in Levels, NEW j \in Nat, NEW k \in Levels, NEW m \in Nat, i <= k,
         NEW p \in BlockPages(i, j), p \in BlockPages(k, m)
  PROVE  BlockPages(i, j) \subseteq BlockPages(k, m)
PROOF
  <1> DEFINE n == NUM_BITMAPS - 1
             S == {l \in 0 .. n : i <= l =>
                     \A h \in Nat : p \in BlockPages(l, h)
                                   => BlockPages(i, j) \subseteq BlockPages(l, h)}
  <1>0. i \in Nat
    BY LevelFacts
  <1>1. 0 \in S
    <2>1. i <= 0 => i = 0
      BY <1>0
    <2> QED
      BY <2>1, BlockDisjoint, LevelFacts
  <1>2. ASSUME NEW l \in 0 .. n - 1, l \in S
        PROVE  l + 1 \in S
    <2>1. l + 1 \in Levels \ {0} /\ (l + 1) - 1 = l
      BY LevelFacts
    <2>2. ASSUME i <= l + 1, NEW h \in Nat, p \in BlockPages(l + 1, h)
          PROVE  BlockPages(i, j) \subseteq BlockPages(l + 1, h)
      <3>1. CASE i = l + 1
        <4>1. j = h
          BY <2>2, <3>1, BlockDisjoint
        <4> QED
          BY <3>1, <4>1
      <3>2. CASE i # l + 1
        <4>1. i <= l
          BY <1>0, <2>2, <3>2
        <4>2. BlockPages(l + 1, h) = BlockPages(l, L_CHILD(h)) \union BlockPages(l, R_CHILD(h))
          BY <2>1, BlockSplit, ZenonT(100)
        <4>3. L_CHILD(h) \in Nat /\ R_CHILD(h) \in Nat
          BY DEF L_CHILD, R_CHILD
        <4> QED
          BY <1>2, <2>2, <4>1, <4>2, <4>3
      <3> QED
        BY <3>1, <3>2
    <2> QED
      BY <2>1, <2>2, LevelFacts
  <1>3. 0 .. n \subseteq S
    <2> HIDE DEF S, n
    <2> QED
      BY <1>1, <1>2, UpTo, LevelFacts, ZenonT(100) DEF n
  <1> QED
    BY <1>3, LevelFacts

-----------------------------------------------------------------------------
(* Tilings.                                                                *)

\* The blocks <<bitmap, number>>, their pages and their bits.
AllBlocks == UNION {{i} \X Blocks[i] : i \in Levels}
Pages(b) == BlockPages(b[1], b[2])
BitsOf(S) == {Bit(b[1], b[2]) : b \in S}

\* The blocks whose bits are in c, and those of S in bitmap l.
FreeIn(c) == {b \in AllBlocks : Bit(b[1], b[2]) \in c}
At(S, l) == {j \in Blocks[l] : <<l, j>> \in S}

\* The blocks of F hold every page of U once, and no other page.
Tiles(F, U) ==
  /\ F \subseteq AllBlocks
  /\ \A b \in F : Pages(b) \subseteq U
  /\ \A p \in U : \E b \in F : p \in Pages(b)
  /\ \A b, d \in F : \A p \in Pages(b) : p \in Pages(d) => b = d

-----------------------------------------------------------------------------
(* Bits and blocks.                                                        *)

\* A block is a pair.
LEMMA BlockPair ==
  ASSUME NEW b \in AllBlocks
  PROVE  /\ b = <<b[1], b[2]>> /\ b[1] \in Levels /\ b[2] \in Nat
         /\ b[2] \in Blocks[b[1]]
PROOF
  <1>1. PICK i \in Levels : b \in {i} \X Blocks[i]
    BY DEF AllBlocks
  <1>2. b = <<b[1], b[2]>> /\ b[1] = i /\ b[2] \in Blocks[i]
    BY <1>1
  <1> QED
    BY <1>2, BlockNumbers

\* Pairs of a level and one of its numbers are blocks.
LEMMA PairBlock ==
  ASSUME NEW l \in Levels, NEW j \in Blocks[l]
  PROVE  <<l, j>> \in AllBlocks
PROOF
  BY DEF AllBlocks

\* A block's bit is the bit of no other block.
LEMMA BitOf ==
  ASSUME NEW b \in AllBlocks, NEW S, S \subseteq AllBlocks
  PROVE  Bit(b[1], b[2]) \in BitsOf(S) <=> b \in S
PROOF
  <1>1. ASSUME NEW d \in S, Bit(b[1], b[2]) = Bit(d[1], d[2])
        PROVE  b = d
    <2>1. d \in AllBlocks
      OBVIOUS
    <2>2. b[1] = d[1] /\ b[2] = d[2]
      BY <1>1, <2>1, BlockPair, BitInjective
    <2> QED
      BY <2>1, <2>2, BlockPair
  <1> QED
    BY <1>1 DEF BitsOf

\* Clearing and setting the bits of blocks.
LEMMA FreeAdd ==
  ASSUME NEW c, NEW S, S \subseteq AllBlocks
  PROVE  FreeIn(c \union BitsOf(S)) = FreeIn(c) \union S
PROOF
  BY BitOf DEF FreeIn

\* Setting the bits of some blocks takes exactly those from the free ones.
LEMMA FreeDrop ==
  ASSUME NEW c, NEW S, S \subseteq AllBlocks
  PROVE  FreeIn(c \ BitsOf(S)) = FreeIn(c) \ S
PROOF
  BY BitOf DEF FreeIn

\* Bits of blocks are bits.
LEMMA BitsOfBlocks ==
  ASSUME NEW S, S \subseteq AllBlocks
  PROVE  BitsOf(S) \subseteq Bits
PROOF
  BY BlockPair, BitType DEF BitsOf

-----------------------------------------------------------------------------
(* Tilings.                                                                *)

\* Granting R out of block b: the rest of b is tiled by the blocks G.
LEMMA TilesGrant ==
  ASSUME NEW F, NEW U, Tiles(F, U), NEW b \in F,
         NEW R, R \subseteq Pages(b), NEW G, Tiles(G, Pages(b) \ R)
  PROVE  Tiles((F \ {b}) \union G, U \ R)
PROOF
  <1> DEFINE H == (F \ {b}) \union G
  <1>1. H \subseteq AllBlocks
    BY DEF Tiles
  <1>2. ASSUME NEW d \in H
        PROVE  Pages(d) \subseteq U \ R
    BY DEF Tiles
  <1>3. ASSUME NEW p \in U \ R
        PROVE  \E d \in H : p \in Pages(d)
    BY DEF Tiles
  <1>4. ASSUME NEW d \in H, NEW e \in H, NEW p \in Pages(d), p \in Pages(e)
        PROVE  d = e
    <2>1. CASE d \in F \ {b} /\ e \in F \ {b}
      BY <1>4, <2>1 DEF Tiles
    <2>2. CASE d \in G /\ e \in G
      BY <1>4, <2>2 DEF Tiles
    <2>3. CASE d \in F \ {b} /\ e \in G
      BY <1>4, <2>3 DEF Tiles
    <2>4. CASE e \in F \ {b} /\ d \in G
      BY <1>4, <2>4 DEF Tiles
    <2> QED
      BY <2>1, <2>2, <2>3, <2>4
  <1> QED
    BY <1>1, <1>2, <1>3, <1>4 DEF Tiles

\* Freeing the pages R one by one.
LEMMA TilesFree ==
  ASSUME NEW F, NEW U, Tiles(F, U), NEW R, R \subseteq Blocks[0], R \intersect U = {}
  PROVE  Tiles(F \union ({0} \X R), U \union R)
PROOF
  <1> DEFINE H == F \union ({0} \X R)
  <1>0. 0 \in Levels
    BY LevelFacts
  <1>1. \A r \in R : r \in Nat /\ Pages(<<0, r>>) = {r} /\ <<0, r>> \in AllBlocks
    BY <1>0, BlockNumbers, PageBlock, PairBlock DEF Pages
  <1>2. \A d \in {0} \X R : \E r \in R : d = <<0, r>> /\ Pages(d) = {r} /\ d \in AllBlocks
    BY <1>1
  <1>3. H \subseteq AllBlocks
    BY <1>2 DEF Tiles
  <1>4. \A d \in H : Pages(d) \subseteq U \union R
    BY <1>2 DEF Tiles
  <1>5. \A p \in U \union R : \E d \in H : p \in Pages(d)
    <2>1. ASSUME NEW p \in R
          PROVE  \E d \in H : p \in Pages(d)
      BY <1>1, ZenonT(100)
    <2> QED
      BY <2>1 DEF Tiles
  <1>6. ASSUME NEW d \in H, NEW e \in H, NEW p \in Pages(d), p \in Pages(e)
        PROVE  d = e
    <2>1. CASE d \in F /\ e \in F
      BY <1>6, <2>1 DEF Tiles
    <2>2. CASE d \in {0} \X R /\ e \in {0} \X R
      BY <1>2, <1>6, <2>2
    <2>3. CASE d \in F /\ e \in {0} \X R
      BY <1>2, <1>6, <2>3 DEF Tiles
    <2>4. CASE e \in F /\ d \in {0} \X R
      BY <1>2, <1>6, <2>4 DEF Tiles
    <2> QED
      BY <2>1, <2>2, <2>3, <2>4
  <1> QED
    BY <1>3, <1>4, <1>5, <1>6 DEF Tiles

\* One more block, on other pages.
LEMMA TilesAdd ==
  ASSUME NEW F, NEW U, Tiles(F, U), NEW b \in AllBlocks, Pages(b) \intersect U = {}
  PROVE  Tiles(F \union {b}, U \union Pages(b))
PROOF
  <1>1. ASSUME NEW d \in F \union {b}, NEW e \in F \union {b},
               NEW p \in Pages(d), p \in Pages(e)
        PROVE  d = e
    BY <1>1 DEF Tiles
  <1> QED
    BY <1>1 DEF Tiles

\* The pages of the parent of an even block are those of the block and of its buddy.
LEMMA ParentPages ==
  ASSUME NEW l \in Levels \ {NUM_BITMAPS - 1}, NEW i \in Nat, i % 2 = 0
  PROVE  Pages(<<l + 1, PARENT(i)>>) = Pages(<<l, i>>) \union Pages(<<l, i + 1>>)
PROOF
  <1>1. PARENT(i) \in Nat /\ L_CHILD(PARENT(i)) = i /\ R_CHILD(PARENT(i)) = i + 1
    BY DEF PARENT, L_CHILD, R_CHILD
  <1>2. l + 1 \in Levels \ {0} /\ (l + 1) - 1 = l
    BY LevelFacts
  <1> QED
    BY <1>1, <1>2, BlockSplit DEF Pages

\* The pairs of buddies of bitmap l whose left halves are in M ...
Halves(l, M) == ({l} \X M) \union {<<l, i + 1>> : i \in M}

\* ... and the blocks they are merged to.
Parents(l, M) == {<<l + 1, PARENT(i)>> : i \in M}

\* M are left halves of pairs that are both in F.
Mergeable(F, l, M) ==
  \A i \in M : i \in Blocks[l] /\ i % 2 = 0 /\ <<l, i>> \in F /\ <<l, i + 1>> \in F

\* Merging buddies keeps a tiling of the same pages, and the merged blocks are new.
LEMMA TilesMerge ==
  ASSUME Halving, NEW F, NEW U, Tiles(F, U),
         NEW l \in Levels \ {NUM_BITMAPS - 1}, NEW M, Mergeable(F, l, M)
  PROVE  /\ Tiles((F \union Parents(l, M)) \ Halves(l, M), U)
         /\ Halves(l, M) \subseteq F
         /\ Parents(l, M) \subseteq AllBlocks
         /\ Parents(l, M) \intersect F = {}
PROOF
  <1> DEFINE H == (F \union Parents(l, M)) \ Halves(l, M)
             Up(i) == <<l + 1, PARENT(i)>>
  <1>0. l \in Nat /\ l + 1 \in Levels \ {0} /\ (l + 1) - 1 = l /\ l \in Levels
    BY LevelFacts
  <1>1. Halves(l, M) \subseteq F
    <2>1. \A d \in Halves(l, M) : \E i \in M : d = <<l, i>> \/ d = <<l, i + 1>>
      BY DEF Halves
    <2> QED
      BY <2>1, ZenonT(100) DEF Mergeable
  <1>2. ASSUME NEW i \in M
        PROVE  /\ i \in Nat /\ <<l, i>> \in F /\ <<l, i + 1>> \in F
               /\ <<l, i>> \in Halves(l, M) /\ <<l, i + 1>> \in Halves(l, M)
               /\ Up(i) \in AllBlocks
               /\ Pages(Up(i)) = Pages(<<l, i>>) \union Pages(<<l, i + 1>>)
               /\ i % 2 = 0
    <2>1. i \in Blocks[l] /\ i % 2 = 0 /\ <<l, i>> \in F /\ <<l, i + 1>> \in F
      BY DEF Mergeable
    <2>2. i \in Nat
      BY <1>0, <2>1, BlockNumbers
    <2>3. PARENT(i) \in Blocks[l + 1]
      BY <1>0, <2>1, Relatives
    <2>4. Up(i) \in AllBlocks
      BY <1>0, <2>3, PairBlock
    <2>5. Pages(Up(i)) = Pages(<<l, i>>) \union Pages(<<l, i + 1>>)
      BY <2>1, <2>2, ParentPages
    <2> QED
      BY <2>1, <2>2, <2>4, <2>5 DEF Halves
  <1>3. \A d \in Parents(l, M) : \E i \in M : d = Up(i)
    BY DEF Parents
  <1>4. Parents(l, M) \subseteq AllBlocks
    BY <1>2, <1>3, ZenonT(100)
  <1>5. ASSUME NEW d \in F, NEW i \in M, NEW p \in Pages(d), p \in Pages(Up(i))
        PROVE  d \in {<<l, i>>, <<l, i + 1>>}
    BY <1>2, <1>5, ZenonT(100) DEF Tiles
  <1>6. ASSUME NEW i \in M, Up(i) \in F
        PROVE  FALSE
    <2>1. i \in Nat /\ PARENT(i) \in Nat
      BY <1>2, <1>6, BlockPair, ZenonT(100)
    <2>2. \E p : p \in Pages(Up(i))
      BY <1>0, <2>1, BlockType DEF Pages
    <2>3. Up(i) \in {<<l, i>>, <<l, i + 1>>}
      BY <1>5, <1>6, <2>2
    <2> QED
      BY <1>0, <2>3
  <1>7. Parents(l, M) \intersect F = {}
    BY <1>3, <1>6
  <1>8. H \subseteq AllBlocks
    BY <1>4 DEF Tiles
  <1>9. \A d \in H : Pages(d) \subseteq U
    <2>1. \A i \in M : Pages(Up(i)) \subseteq U
      BY <1>2, ZenonT(100) DEF Tiles
    <2> QED
      BY <1>3, <2>1 DEF Tiles
  <1>10. ASSUME NEW p \in U
         PROVE  \E d \in H : p \in Pages(d)
    <2>1. PICK d \in F : p \in Pages(d)
      BY DEF Tiles
    <2>2. CASE d \notin Halves(l, M)
      BY <2>1, <2>2
    <2>3. CASE d \in Halves(l, M)
      <3>1. PICK i \in M : d \in {<<l, i>>, <<l, i + 1>>}
        BY <2>3 DEF Halves
      <3>2. p \in Pages(Up(i)) /\ Up(i) \in Parents(l, M)
        BY <1>2, <2>1, <3>1, ZenonT(100) DEF Parents
      <3>3. Up(i) \notin Halves(l, M)
        BY <1>1, <1>6
      <3> QED
        BY <3>2, <3>3
    <2> QED
      BY <2>2, <2>3
  <1>11. ASSUME NEW d \in H, NEW e \in H, NEW p \in Pages(d), p \in Pages(e)
         PROVE  d = e
    <2>1. CASE d \in F /\ e \in F
      BY <1>11, <2>1 DEF Tiles
    <2>2. ASSUME NEW i \in M, d = Up(i), e \in F
          PROVE  FALSE
      <3>1. e \in {<<l, i>>, <<l, i + 1>>}
        BY <1>5, <1>11, <2>2
      <3>2. e \in Halves(l, M)
        BY <1>2, <3>1, ZenonT(100)
      <3> QED
        BY <3>2
    <2>3. ASSUME NEW i \in M, e = Up(i), d \in F
          PROVE  FALSE
      <3>1. d \in {<<l, i>>, <<l, i + 1>>}
        BY <1>5, <1>11, <2>3
      <3>2. d \in Halves(l, M)
        BY <1>2, <3>1, ZenonT(100)
      <3> QED
        BY <3>2
    <2>4. ASSUME NEW i \in M, d = Up(i), NEW k \in M, e = Up(k)
          PROVE  d = e
      <3>1. PICK x \in {i, i + 1} : p \in Pages(<<l, x>>) /\ <<l, x>> \in F
        BY <1>2, <1>11, <2>4
      <3>2. <<l, x>> \in {<<l, k>>, <<l, k + 1>>}
        BY <1>5, <1>11, <2>4, <3>1
      <3>3. x \in {k, k + 1}
        BY <3>2
      <3>4. i = k
        <4>1. i \in Nat /\ k \in Nat /\ i % 2 = 0 /\ k % 2 = 0
          BY <1>2, ZenonT(100)
        <4>2. i = k \/ i + 1 = k \/ i = k + 1
          BY <3>1, <3>3, <4>1
        <4> QED
          BY <4>1, <4>2
      <3> QED
        BY <2>4, <3>4
    <2> QED
      BY <1>3, <2>1, <2>2, <2>3, <2>4
  <1> QED
    BY <1>1, <1>4, <1>7, <1>8, <1>9, <1>10, <1>11 DEF Tiles

-----------------------------------------------------------------------------
(* pmmPropagateDown.                                                       *)

\* What one call of pmmPropagateDown hands to the next: y is its own pages and
\* block, half the pages of a half of that block.
DownStep(y, half) ==
  IF y[1] \in {0, 2 * half} THEN <<0, 0>>
  ELSE IF y[1] <= half THEN <<y[1], L_CHILD(y[2])>>
  ELSE <<y[1] - half, R_CHILD(y[2])>>

\* The nested calls of pmmPropagateDown.
Down(pages, level, index) ==
  CHOOSE at : at = [n \in 0 .. level |->
                      IF n = 0 THEN <<pages, index>>
                      ELSE DownStep(at[n - 1], span[level - n])]

\* The calls whose right half becomes free, and these halves, up to call m.
DownFrees(at, level, m) == {k \in 1 .. m : at[k - 1][1] \in 1 .. span[level - k]}
DownGives(at, level, m) ==
  {<<level - n, R_CHILD(at[n - 1][2])>> : n \in DownFrees(at, level, m)}

\* The recursion of pmmPropagateDown.
LEMMA DownFacts ==
  ASSUME NEW pages \in Nat, NEW level \in Levels, NEW index \in Nat
  PROVE  LET at == Down(pages, level, index)
         IN  /\ at \in [0 .. level -> Nat \X Nat]
             /\ at[0] = <<pages, index>>
             /\ \A n \in 1 .. level : at[n] = DownStep(at[n - 1], span[level - n])
             /\ pmmPropagateDown(pages, level, index) = DownGives(at, level, level)
PROOF
  <1> DEFINE x == <<pages, index>>
             T == Nat \X Nat
             f == [l \in 1 .. level |-> [y \in T |-> DownStep(y, span[level - l])]]
             Is(g) == g = [n \in 0 .. level |-> IF n = 0 THEN x
                                               ELSE DownStep(g[n - 1], span[level - n])]
             at == Down(pages, level, index)
  <1>1. level \in Nat /\ \A n \in 1 .. level : level - n \in Levels
    BY LevelFacts
  <1>2. \A n \in 1 .. level : span[level - n] \in Nat
    BY <1>1, SpanFacts
  <1>3. \A n \in 1 .. level : \A y \in T : DownStep(y, span[level - n]) \in T
    BY <1>2 DEF DownStep, L_CHILD, R_CHILD
  <1>4. PICK g \in [0 .. level -> T] : Unfolds(g, level, x, f)
    <2>1. x \in T /\ f \in [1 .. level -> [T -> T]]
      BY <1>3
    <2> HIDE DEF x, T, f
    <2> QED
      BY <1>1, <2>1, Recursion
  <1>5. Is(g)
    <2> SUFFICES ASSUME NEW n \in 0 .. level
                 PROVE  g[n] = IF n = 0 THEN x ELSE DownStep(g[n - 1], span[level - n])
      OBVIOUS
    <2>1. n # 0 => n \in 1 .. level /\ n - 1 \in 0 .. level
      BY <1>1
    <2>2. n # 0 => f[n][g[n - 1]] = DownStep(g[n - 1], span[level - n])
      BY <2>1
    <2> HIDE DEF x, T, f
    <2> QED
      BY <1>4, <2>1, <2>2 DEF Unfolds
  <1>6. Is(at)
    <2>1. at = CHOOSE h : Is(h)
      BY DEF Down
    <2> HIDE DEF Is, at
    <2> QED
      BY <1>5, <2>1
  <1>7. pmmPropagateDown(pages, level, index) = DownGives(at, level, level)
    BY DEF pmmPropagateDown, DownGives, DownFrees, Down, DownStep
  <1> HIDE DEF at
  <1>8. at[0] = x /\ \A n \in 1 .. level : at[n] = DownStep(at[n - 1], span[level - n])
    <2> HIDE DEF x
    <2>1. \A n \in 0 .. level : at[n] = IF n = 0 THEN x
                                        ELSE DownStep(at[n - 1], span[level - n])
      BY <1>6, ZenonT(100)
    <2>2. 0 \in 0 .. level /\ \A n \in 1 .. level : n \in 0 .. level /\ n # 0
      BY <1>1
    <2> QED
      BY <2>1, <2>2, ZenonT(100)
  <1>9. at \in [0 .. level -> T]
    <2> DEFINE S == {n \in 0 .. level : at[n] \in T}
    <2>1. 0 \in S
      <3>1. x \in T /\ 0 \in 0 .. level
        BY <1>1
      <3> HIDE DEF x, T
      <3> QED
        BY <1>8, <3>1
    <2>2. ASSUME NEW k \in 0 .. level - 1, k \in S
          PROVE  k + 1 \in S
      <3>1. k + 1 \in 1 .. level /\ (k + 1) - 1 = k
        BY <1>1
      <3>2. at[k + 1] = DownStep(at[k], span[level - (k + 1)])
        BY <1>8, <3>1
      <3>3. at[k] \in T
        BY <2>2
      <3>4. at[k + 1] \in T
        BY <1>3, <3>1, <3>2, <3>3
      <3> QED
        BY <3>1, <3>4
    <2> HIDE DEF S
    <2>3. 0 .. level \subseteq S
      BY <1>1, <2>1, <2>2, UpTo, ZenonT(100)
    <2>4. at = [n \in 0 .. level |-> at[n]]
      BY <1>6
    <2>5. \A n \in 0 .. level : at[n] \in T
      BY <2>3 DEF S
    <2> HIDE DEF T
    <2> QED
      BY <2>4, <2>5
  <1> QED
    BY <1>7, <1>8, <1>9 DEF at

\* One more call frees at most one more block.
LEMMA DownGivesStep ==
  ASSUME NEW at, NEW level \in Nat, NEW n \in 0 .. level - 1
  PROVE  DownGives(at, level, n + 1)
           = DownGives(at, level, n)
             \union (IF at[n][1] \in 1 .. span[level - (n + 1)]
                     THEN {<<level - (n + 1), R_CHILD(at[n][2])>>} ELSE {})
PROOF
  <1>1. (n + 1) - 1 = n /\ 1 .. n + 1 = (1 .. n) \union {n + 1}
    OBVIOUS
  <1>2. DownFrees(at, level, n + 1)
          = DownFrees(at, level, n)
            \union (IF at[n][1] \in 1 .. span[level - (n + 1)] THEN {n + 1} ELSE {})
    BY <1>1 DEF DownFrees
  <1> DEFINE g(k) == <<level - k, R_CHILD(at[k - 1][2])>>
  <1>3. g(n + 1) = <<level - (n + 1), R_CHILD(at[n][2])>>
    BY <1>1
  <1>4. \A m : DownGives(at, level, m) = {g(k) : k \in DownFrees(at, level, m)}
    BY DEF DownGives
  <1> HIDE DEF g
  <1> QED
    BY <1>2, <1>3, <1>4

\* The pages of a block, as an interval.
LEMMA PagesInterval ==
  ASSUME NEW i \in Levels, NEW j \in Nat
  PROVE  /\ Pages(<<i, j>>) = j * span[i] .. j * span[i] + span[i] - 1
         /\ j * span[i] \in Nat /\ span[i] \in Nat \ {0}
PROOF
  <1>1. span[i] \in Nat \ {0}
    BY SpanFacts
  <1>2. \A s \in Nat \ {0} : (j + 1) * s = j * s + s /\ j * s \in Nat
    OBVIOUS
  <1> QED
    BY <1>1, <1>2 DEF Pages, BlockPages

\* The halves of a block, as intervals.
LEMMA HalvesInterval ==
  ASSUME Halving, NEW i \in Levels \ {0}, NEW j \in Blocks[i]
  PROVE  LET s == span[i - 1]  o == j * span[i]
         IN  /\ s \in Nat \ {0} /\ span[i] = 2 * s /\ o \in Nat
             /\ L_CHILD(j) \in Blocks[i - 1] /\ R_CHILD(j) \in Blocks[i - 1]
             /\ L_CHILD(j) * s = o /\ R_CHILD(j) * s = o + s
             /\ Pages(<<i, j>>) = o .. o + 2 * s - 1
             /\ Pages(<<i - 1, L_CHILD(j)>>) = o .. o + s - 1
             /\ Pages(<<i - 1, R_CHILD(j)>>) = o + s .. o + 2 * s - 1
             /\ <<i - 1, R_CHILD(j)>> \in AllBlocks
PROOF
  <1> DEFINE s == span[i - 1]
             o == j * span[i]
  <1>1. i - 1 \in Levels /\ L_CHILD(j) \in Blocks[i - 1] /\ R_CHILD(j) \in Blocks[i - 1]
    BY Relatives
  <1>2. s \in Nat \ {0} /\ span[i] = 2 * s /\ j \in Nat
        /\ L_CHILD(j) \in Nat /\ R_CHILD(j) \in Nat
    BY <1>1, SpanFacts, BlockNumbers
  <1>3. o \in Nat /\ L_CHILD(j) * s = o /\ R_CHILD(j) * s = o + s
    BY <1>2 DEF L_CHILD, R_CHILD
  <1>4. Pages(<<i, j>>) = o .. o + 2 * s - 1
    BY <1>2, PagesInterval
  <1>5. Pages(<<i - 1, L_CHILD(j)>>) = o .. o + s - 1
    BY <1>1, <1>2, <1>3, PagesInterval
  <1>6. Pages(<<i - 1, R_CHILD(j)>>) = o + s .. o + s + s - 1
    BY <1>1, <1>2, <1>3, PagesInterval
  <1>7. <<i - 1, R_CHILD(j)>> \in AllBlocks
    BY <1>1, PairBlock
  <1>8. o + s + s - 1 = o + 2 * s - 1
    BY <1>2, <1>3
  <1> QED
    BY <1>1, <1>2, <1>3, <1>4, <1>5, <1>6, <1>7, <1>8

\* What pmmPropagateDown has done before call n, for the block B of which the
\* pages R are granted: the blocks it gave back tile what is left of B outside
\* the block that call n looks at; once a call returned early, all of it.
DownInv(at, level, B, R, last, n) ==
  LET a == at[n][1]
      b == <<level - n, at[n][2]>>
      given == DownGives(at, level, n)
  IN  IF a = 0 THEN Tiles(given, B \ R)
      ELSE /\ a \in Nat /\ a <= span[level - n]
           /\ at[n][2] \in Blocks[level - n]
           /\ Pages(b) \subseteq B
           /\ last = at[n][2] * span[level - n] + a
           /\ Tiles(given, B \ (R \union Pages(b)))

\* Each call keeps that.
LEMMA DownInvStep ==
  ASSUME Halving, NEW pages \in Nat, NEW level \in Levels, NEW index \in Nat,
         NEW B, NEW first \in Nat, NEW last \in Nat,
         B \subseteq Nat, \A p \in B : first <= p,
         NEW n \in 0 .. level - 1,
         DownInv(Down(pages, level, index), level, B, first .. last - 1, last, n)
  PROVE  DownInv(Down(pages, level, index), level, B, first .. last - 1, last, n + 1)
PROOF
  <1> DEFINE at == Down(pages, level, index)
             R == first .. last - 1
             l == level - (n + 1)
             half == span[l]
             a == at[n][1]
             x == at[n][2]
             given == DownGives(at, level, n)
  <1>0. level \in Nat /\ level - n \in Levels \ {0} /\ (level - n) - 1 = l /\ l \in Levels
    BY LevelFacts
  <1>1. at[n + 1] = DownStep(at[n], half) /\ a \in Nat /\ x \in Nat
    <2>1. n + 1 \in 1 .. level /\ (n + 1) - 1 = n /\ n \in 0 .. level
      BY <1>0
    <2>2. /\ at \in [0 .. level -> Nat \X Nat]
          /\ \A m \in 1 .. level : at[m] = DownStep(at[m - 1], span[level - m])
      BY DownFacts
    <2> HIDE DEF at
    <2>3. at[n] \in Nat \X Nat
      BY <2>1, <2>2
    <2>4. at[n + 1] = DownStep(at[(n + 1) - 1], span[level - (n + 1)])
      BY <2>1, <2>2
    <2> QED
      BY <2>1, <2>3, <2>4
  <1>2. half \in Nat \ {0}
    BY <1>0, SpanFacts
  <1>3. /\ a \in 1 .. half =>
              DownGives(at, level, n + 1) = given \union {<<l, R_CHILD(x)>>}
        /\ a \notin 1 .. half => DownGives(at, level, n + 1) = given
    <2>1. DownGives(at, level, n + 1)
            = given \union (IF a \in 1 .. half THEN {<<l, R_CHILD(x)>>} ELSE {})
      BY <1>0, DownGivesStep
    <2> HIDE DEF at, given, a, half, l, x
    <2> QED
      BY <2>1
  <1> HIDE DEF at
  <1>4. CASE a = 0
    <2>1. at[n + 1] = <<0, 0>>
      BY <1>1, <1>4 DEF DownStep
    <2>2. DownGives(at, level, n + 1) = given
      BY <1>2, <1>3, <1>4
    <2> QED
      BY <1>4, <2>1, <2>2 DEF DownInv, at
  <1>5. CASE a # 0
    <2> DEFINE b == <<level - n, x>>
               o == x * span[level - n]
    <2>1. /\ a <= span[level - n] /\ x \in Blocks[level - n] /\ Pages(b) \subseteq B
          /\ last = o + a /\ Tiles(given, B \ (R \union Pages(b)))
      BY <1>5 DEF DownInv, at
    <2>2. /\ span[level - n] = 2 * half /\ o \in Nat
          /\ L_CHILD(x) \in Blocks[l] /\ R_CHILD(x) \in Blocks[l]
          /\ L_CHILD(x) * half = o /\ R_CHILD(x) * half = o + half
          /\ Pages(b) = o .. o + 2 * half - 1
          /\ Pages(<<l, L_CHILD(x)>>) = o .. o + half - 1
          /\ Pages(<<l, R_CHILD(x)>>) = o + half .. o + 2 * half - 1
          /\ <<l, R_CHILD(x)>> \in AllBlocks
      <3> DEFINE i == level - n
      <3> HIDE DEF l, x
      <3>1. i \in Levels \ {0} /\ i - 1 = l /\ x \in Blocks[i]
        BY <1>0, <2>1
      <3> HIDE DEF i
      <3> QED
        BY <3>1, HalvesInterval DEF i
    <2> HIDE DEF o, half, a, x, l, given
    <2>3. first <= o
      <3>1. o \in Pages(b)
        BY <1>2, <2>2
      <3> QED
        BY <2>1, <3>1, ZenonT(100)
    <2>4. CASE a = 2 * half
      <3>1. at[n + 1] = <<0, 0>>
        BY <1>1, <2>4 DEF DownStep, a, x
      <3>2. DownGives(at, level, n + 1) = given
        BY <1>2, <1>3, <2>4
      <3>3. B \ (R \union Pages(b)) = B \ R
        <4>1. last = o + 2 * half
          BY <2>1, <2>4
        <4>2. \A p \in o .. o + 2 * half - 1 : p \in first .. last - 1
          BY <1>2, <2>2, <2>3, <4>1
        <4>3. Pages(b) \subseteq R
          BY <2>2, <4>2
        <4> QED
          BY <4>3
      <3>4. at[n + 1][1] = 0 /\ Tiles(DownGives(at, level, n + 1), B \ R)
        <4>1. at[n + 1][1] = 0
          BY <3>1
        <4>2. Tiles(given, B \ (R \union Pages(b)))
          BY <2>1
        <4>3. Tiles(given, B \ R)
          BY <4>2, <3>3, ZenonT(100)
        <4> QED
          BY <4>1, <4>3, <3>2, ZenonT(100)
      <3> QED
        BY <3>4 DEF DownInv, at
    <2>5. CASE a <= half
      <3>1. at[n + 1] = <<a, L_CHILD(x)>>
        BY <1>1, <1>2, <1>5, <2>5 DEF DownStep, a, x
      <3>2. DownGives(at, level, n + 1) = given \union {<<l, R_CHILD(x)>>}
        BY <1>1, <1>2, <1>3, <1>5, <2>5
      <3> DEFINE V == B \ (R \union Pages(b))
                 d == <<l, R_CHILD(x)>>
                 e == <<l, L_CHILD(x)>>
      <3>3. Pages(d) \intersect V = {}
        BY <1>2, <2>2
      <3>4. V \union Pages(d) = B \ (R \union Pages(e))
        <4>1. Pages(d) \subseteq B
          BY <1>2, <2>1, <2>2
        <4>2. ASSUME NEW p \in B
              PROVE  p \in V \union Pages(d) <=> p \in B \ (R \union Pages(e))
          <5>1. /\ p \in Nat
                /\ p \in Pages(d) <=> o + half <= p /\ p <= o + 2 * half - 1
                /\ p \in Pages(e) <=> o <= p /\ p <= o + half - 1
                /\ p \in Pages(b) <=> o <= p /\ p <= o + 2 * half - 1
                /\ p \in R <=> first <= p /\ p <= o + a - 1
            BY <1>1, <1>2, <2>1, <2>2
          <5> HIDE DEF R, d, e, b
          <5> QED
            BY <1>1, <1>2, <2>2, <2>3, <2>5, <5>1
        <4> QED
          BY <4>1, <4>2, ZenonT(100)
      <3>5. Tiles(given \union {d}, V \union Pages(d))
        <4> HIDE DEF V, d
        <4>1. Tiles(given, V) /\ d \in AllBlocks
          BY <2>1, <2>2 DEF V, d
        <4> QED
          BY <3>3, <4>1, TilesAdd
      <3>6. Pages(e) \subseteq B
        BY <1>2, <2>1, <2>2
      <3>7. a # 0 /\ a \in Nat /\ last = L_CHILD(x) * half + a
        BY <1>1, <1>5, <2>1, <2>2
      <3>8. at[n + 1][1] = a /\ at[n + 1][2] = L_CHILD(x)
        BY <3>1
      <3>9. Tiles(DownGives(at, level, n + 1), B \ (R \union Pages(e)))
        BY <3>2, <3>4, <3>5, ZenonT(100)
      <3> HIDE DEF d, V
      <3> QED
        BY <2>2, <2>5, <3>6, <3>7, <3>8, <3>9, ZenonT(100) DEF DownInv, at, half, l
    <2>6. CASE a > half /\ a # 2 * half
      <3>1. at[n + 1] = <<a - half, R_CHILD(x)>>
        BY <1>1, <1>2, <1>5, <2>6 DEF DownStep, a, x
      <3>2. DownGives(at, level, n + 1) = given
        BY <1>1, <1>2, <1>3, <2>6
      <3> DEFINE d == <<l, R_CHILD(x)>>
      <3>3. B \ (R \union Pages(b)) = B \ (R \union Pages(d))
        <4>1. ASSUME NEW p \in B
              PROVE  p \in R \union Pages(b) <=> p \in R \union Pages(d)
          <5>1. /\ p \in Nat
                /\ p \in Pages(d) <=> o + half <= p /\ p <= o + 2 * half - 1
                /\ p \in Pages(b) <=> o <= p /\ p <= o + 2 * half - 1
                /\ p \in R <=> first <= p /\ p <= o + a - 1
            BY <1>1, <1>2, <2>1, <2>2
          <5> HIDE DEF R, d, b
          <5>2. o \in Nat
            BY <2>2
          <5> QED
            BY <1>1, <1>2, <2>3, <2>6, <5>1, <5>2
        <4> QED
          BY <4>1, ZenonT(100)
      <3>4. Pages(d) \subseteq B
        BY <1>2, <2>1, <2>2
      <3>5. a - half # 0 /\ a - half \in Nat /\ a - half <= half
        BY <1>1, <1>2, <2>1, <2>2, <2>6
      <3>6. last = R_CHILD(x) * half + (a - half)
        BY <1>1, <1>2, <2>1, <2>2
      <3>7. at[n + 1][1] = a - half /\ at[n + 1][2] = R_CHILD(x)
        BY <3>1
      <3>8. Tiles(DownGives(at, level, n + 1), B \ (R \union Pages(d)))
        BY <2>1, <3>2, <3>3, ZenonT(100)
      <3> QED
        BY <2>2, <3>4, <3>5, <3>6, <3>7, <3>8, ZenonT(100) DEF DownInv, at, half, l
    <2> QED
      BY <1>1, <1>2, <2>4, <2>5, <2>6
  <1> QED
    BY <1>4, <1>5

\* pmmPropagateDown frees what is left of a block of which the first pages are
\* granted; the blocks it frees are right halves.
LEMMA DownTiles ==
  ASSUME Halving, NEW level \in Levels, NEW index \in Blocks[level],
         NEW pages \in 1 .. span[level]
  PROVE  LET o == index * span[level]
             R == o .. o + pages - 1
             G == pmmPropagateDown(pages, level, index)
         IN  /\ R \subseteq Pages(<<level, index>>)
             /\ Tiles(G, Pages(<<level, index>>) \ R)
             /\ \A g \in G : g[2] % 2 = 1
PROOF
  <1> DEFINE o == index * span[level]
             last == o + pages
             R == o .. last - 1
             B == Pages(<<level, index>>)
             G == pmmPropagateDown(pages, level, index)
             at == Down(pages, level, index)
             I(n) == DownInv(at, level, B, R, last, n)
             S == {n \in 0 .. level : I(n)}
  <1>1. index \in Nat /\ level \in Nat
    BY BlockNumbers, LevelFacts
  <1>2. /\ B = o .. o + span[level] - 1 /\ o \in Nat /\ span[level] \in Nat \ {0}
        /\ pages \in Nat /\ pages # 0 /\ pages <= span[level]
    BY <1>1, PagesInterval
  <1> HIDE DEF o
  <1>3. R \subseteq B /\ last \in Nat /\ B \subseteq Nat /\ \A p \in B : o <= p
    <2> HIDE DEF B
    <2> QED
      BY <1>2
  <1>4. /\ at \in [0 .. level -> Nat \X Nat] /\ at[0] = <<pages, index>>
        /\ G = DownGives(at, level, level)
    BY <1>1, <1>2, DownFacts, ZenonT(100)
  <1>5. I(0)
    <2>1. DownGives(at, level, 0) = {}
      BY DEF DownGives, DownFrees
    <2>2. Tiles({}, {})
      BY DEF Tiles
    <2>3. at[0][1] = pages /\ at[0][2] = index /\ level - 0 = level
      BY <1>1, <1>4
    <2>4. B \ (R \union B) = {}
      OBVIOUS
    <2> HIDE DEF at
    <2> QED
      BY <1>2, <2>1, <2>2, <2>3, <2>4, ZenonT(100) DEF DownInv, o
  <1>6. ASSUME NEW n \in 0 .. level - 1, n \in S
        PROVE  n + 1 \in S
    <2>1. I(n + 1)
      <3>1. I(n)
        BY <1>6
      <3> HIDE DEF B, last
      <3> QED
        BY <1>1, <1>2, <1>3, <3>1, DownInvStep
    <2>2. n + 1 \in 0 .. level
      BY <1>1
    <2> HIDE DEF I
    <2> QED
      BY <2>1, <2>2
  <1>7. I(level)
    <2>1. 0 \in S
      BY <1>1, <1>5
    <2> HIDE DEF I
    <2>2. 0 .. level \subseteq S
      <3> HIDE DEF S
      <3> QED
        BY <1>1, <1>6, <2>1, UpTo
    <2> QED
      BY <1>1, <2>2
  <1>8. Tiles(G, B \ R)
    <2>1. CASE at[level][1] = 0
      BY <1>4, <1>7, <2>1 DEF DownInv
    <2>2. CASE at[level][1] # 0
      <3> DEFINE a == at[level][1]
                 x == at[level][2]
      <3> HIDE DEF at
      <3>1. /\ level - level = 0 /\ span[0] = 1 /\ 0 \in Levels /\ a \in Nat /\ x \in Nat
        BY <1>1, <1>4, SpanFacts, LevelFacts
      <3>2. /\ a <= span[0] /\ Pages(<<0, x>>) \subseteq B
            /\ last = x * span[0] + a
            /\ Tiles(DownGives(at, level, level), B \ (R \union Pages(<<0, x>>)))
        BY <1>7, <2>2, <3>1, ZenonT(100) DEF DownInv
      <3>3. Pages(<<0, x>>) = {x}
        BY <3>1, PageBlock DEF Pages
      <3>4. a = 1 /\ last = x + 1
        BY <2>2, <3>1, <3>2
      <3>5. o <= x
        BY <1>3, <3>2, <3>3
      <3>6. x \in R
        BY <1>2, <3>1, <3>4, <3>5
      <3>7. R \union Pages(<<0, x>>) = R
        <4> HIDE DEF R, x
        <4> QED
          BY <3>3, <3>6
      <3> HIDE DEF x, R, B
      <3> QED
        BY <1>4, <3>2, <3>7, ZenonT(100)
    <2> QED
      BY <2>1, <2>2
  <1>9. ASSUME NEW g \in G
        PROVE  g[2] % 2 = 1
    <2>1. PICK n \in 1 .. level : g = <<level - n, R_CHILD(at[n - 1][2])>>
      BY <1>4 DEF DownGives, DownFrees
    <2>2. n - 1 \in 0 .. level
      BY <1>1
    <2> HIDE DEF at
    <2>3. at[n - 1][2] \in Nat
      BY <1>4, <2>2
    <2>4. \A y \in Nat : R_CHILD(y) % 2 = 1
      BY DEF R_CHILD
    <2> QED
      BY <2>1, <2>3, <2>4
  <1> QED
    <2>1. R \subseteq B
      BY <1>3
    <2>2. o + pages - 1 = last - 1
      BY <1>2
    <2> HIDE DEF G, B, last
    <2>3. /\ o .. o + pages - 1 \subseteq B /\ Tiles(G, B \ (o .. o + pages - 1))
          /\ \A g \in G : g[2] % 2 = 1
      BY <1>8, <1>9, <2>1, <2>2, ZenonT(100)
    <2> QED
      BY <2>3 DEF o, G, B

-----------------------------------------------------------------------------
(* initPMM.                                                                *)

\* The recursion that marks blocks free.
LEMMA MarkedFacts ==
  /\ marked \in [Levels -> SUBSET Nat]
  /\ marked[0] = UsablePages
  /\ \A i \in Levels \ {0} :
       marked[i] = {j \in Blocks[i] : {L_CHILD(j), R_CHILD(j)} \subseteq marked[i - 1]}
PROOF
  <1> DEFINE n == NUM_BITMAPS - 1
             x == {j \in Blocks[0] : pmmGetStatusFromMMap(j) = "usable"}
             T == SUBSET Nat
             Step(y, i) == {j \in Blocks[i] : {L_CHILD(j), R_CHILD(j)} \subseteq y}
             f == [l \in 1 .. n |-> [y \in T |-> Step(y, l)]]
             Is(g) == g = [i \in Levels |-> IF i = 0 THEN x ELSE Step(g[i - 1], i)]
  <1>1. x \in T /\ \A l \in 1 .. n : \A y : Step(y, l) \in T
    BY BlockNumbers, LevelFacts
  <1>2. x = UsablePages
    BY DEF UsablePages
  <1>3. marked = CHOOSE h : Is(h)
    BY DEF marked
  <1> HIDE DEF x, Step
  <1>4. PICK g \in [0 .. n -> T] : Unfolds(g, n, x, f)
    <2>1. n \in Nat /\ f \in [1 .. n -> [T -> T]]
      BY <1>1, LevelFacts
    <2> HIDE DEF n, f, T
    <2> QED
      BY <1>1, <2>1, Recursion
  <1>5. Is(g)
    <2> SUFFICES ASSUME NEW l \in 0 .. n
                 PROVE  g[l] = IF l = 0 THEN x ELSE Step(g[l - 1], l)
      BY LevelFacts
    <2>1. l # 0 => l \in 1 .. n /\ l - 1 \in 0 .. n
      BY LevelFacts
    <2>2. l # 0 => f[l][g[l - 1]] = Step(g[l - 1], l)
      BY <2>1
    <2> HIDE DEF T, f
    <2> QED
      BY <1>4, <2>1, <2>2 DEF Unfolds
  <1>6. Is(marked)
    <2> HIDE DEF Is
    <2> QED
      BY <1>3, <1>5
  <1>7. 0 \in Levels /\ \A i \in Levels : i # 0 => i \in 1 .. n
    BY LevelFacts
  <1>8. marked[0] = x /\ \A i \in Levels \ {0} : marked[i] = Step(marked[i - 1], i)
    BY <1>6, <1>7
  <1>9. \A i \in Levels : marked[i] \in T
    BY <1>1, <1>7, <1>8, ZenonT(100)
  <1>10. marked \in [Levels -> T]
    <2>1. marked = [i \in Levels |-> marked[i]]
      BY <1>6
    <2> HIDE DEF T
    <2> QED
      BY <1>9, <2>1
  <1> QED
    BY <1>2, <1>8, <1>10 DEF Step

\* A block is marked when all its pages are usable.
LEMMA MarkedPages ==
  ASSUME Halving, NEW i \in Levels, NEW j \in Blocks[i]
  PROVE  j \in marked[i] <=> BlockPages(i, j) \subseteq UsablePages
PROOF
  <1> DEFINE n == NUM_BITMAPS - 1
             S == {l \in 0 .. n : \A k \in Blocks[l] :
                     k \in marked[l] <=> BlockPages(l, k) \subseteq UsablePages}
  <1>1. 0 \in S
    <2>1. 0 \in Levels
      BY LevelFacts
    <2>2. ASSUME NEW k \in Blocks[0]
          PROVE  k \in marked[0] <=> BlockPages(0, k) \subseteq UsablePages
      BY <2>1, BlockNumbers, PageBlock, MarkedFacts
    <2> QED
      BY <2>2, LevelFacts
  <1>2. ASSUME NEW l \in 0 .. n - 1, l \in S
        PROVE  l + 1 \in S
    <2>1. l + 1 \in Levels \ {0} /\ (l + 1) - 1 = l /\ l \in Levels
      BY LevelFacts
    <2>2. ASSUME NEW k \in Blocks[l + 1]
          PROVE  k \in marked[l + 1] <=> BlockPages(l + 1, k) \subseteq UsablePages
      <3>1. k \in Nat
        BY <2>1, BlockNumbers
      <3>2. {L_CHILD(k), R_CHILD(k)} \subseteq Blocks[l]
        BY <2>1, Relatives
      <3>3. BlockPages(l + 1, k) = BlockPages(l, L_CHILD(k)) \union BlockPages(l, R_CHILD(k))
        BY <2>1, <3>1, BlockSplit
      <3>4. k \in marked[l + 1] <=> {L_CHILD(k), R_CHILD(k)} \subseteq marked[l]
        BY <2>1, MarkedFacts
      <3> QED
        BY <1>2, <3>2, <3>3, <3>4
    <2> QED
      BY <2>1, <2>2, LevelFacts
  <1>3. 0 .. n \subseteq S
    <2> HIDE DEF S, n
    <2> QED
      BY <1>1, <1>2, UpTo, LevelFacts, ZenonT(100) DEF n
  <1> QED
    BY <1>3, LevelFacts

\* Marked blocks are blocks of their bitmap.
LEMMA MarkedInside ==
  ASSUME NEW i \in Levels
  PROVE  marked[i] \subseteq Blocks[i]
PROOF
  BY MarkedFacts DEF UsablePages

\* The marked blocks, and those whose parent is not marked.
MarkedBlocks == {b \in AllBlocks : b[2] \in marked[b[1]]}

\* A block comes off its bitmap again exactly when its parent is marked.
LEMMA CoveredFacts ==
  ASSUME Halving, NEW i \in Levels
  PROVE  /\ i = NUM_BITMAPS - 1 => Covered(i) = {}
         /\ i # NUM_BITMAPS - 1 => Covered(i) = {j \in Blocks[i] : PARENT(j) \in marked[i + 1]}
         /\ Covered(i) \subseteq marked[i]
         /\ Mark = BitsOf(MarkedBlocks)
PROOF
  <1>1. Mark = BitsOf(MarkedBlocks)
    <2>1. ASSUME NEW x \in Mark
          PROVE  x \in BitsOf(MarkedBlocks)
      <3>1. PICK l \in Levels : \E j \in marked[l] : x = Bit(l, j)
        BY DEF Mark
      <3>2. PICK j \in marked[l] : x = Bit(l, j)
        BY <3>1
      <3> DEFINE b == <<l, j>>
      <3>3. b \in AllBlocks
        BY MarkedInside, PairBlock
      <3>4. b \in MarkedBlocks
        BY <3>3 DEF MarkedBlocks
      <3> QED
        BY <3>2, <3>4 DEF BitsOf
    <2>2. ASSUME NEW x \in BitsOf(MarkedBlocks)
          PROVE  x \in Mark
      <3>1. PICK b \in MarkedBlocks : x = Bit(b[1], b[2])
        BY DEF BitsOf
      <3>2. b[1] \in Levels /\ b[2] \in marked[b[1]]
        BY BlockPair DEF MarkedBlocks
      <3> QED
        BY <3>1, <3>2 DEF Mark
    <2> QED
      BY <2>1, <2>2
  <1>2. ASSUME i # NUM_BITMAPS - 1
        PROVE  /\ Covered(i) = {j \in Blocks[i] : PARENT(j) \in marked[i + 1]}
               /\ Covered(i) \subseteq marked[i]
    <2>1. i + 1 \in Levels \ {0} /\ (i + 1) - 1 = i
      BY <1>2, LevelFacts
    <2>2. ASSUME NEW j \in Blocks[i]
          PROVE  Bit(i + 1, PARENT(j)) \in Mark <=> PARENT(j) \in marked[i + 1]
      <3> DEFINE b == <<i + 1, PARENT(j)>>
      <3>1. b \in AllBlocks
        BY <2>1, Relatives, PairBlock
      <3>2. Bit(b[1], b[2]) \in BitsOf(MarkedBlocks) <=> b \in MarkedBlocks
        BY <3>1, BitOf DEF MarkedBlocks
      <3> QED
        BY <1>1, <3>1, <3>2 DEF MarkedBlocks
    <2>3. Covered(i) = {j \in Blocks[i] : PARENT(j) \in marked[i + 1]}
      BY <1>2, <2>2 DEF Covered
    <2>4. ASSUME NEW j \in Covered(i)
          PROVE  j \in marked[i]
      <3>1. j \in Nat /\ PARENT(j) \in marked[i + 1]
        BY <2>3, BlockNumbers
      <3>2. j \in {L_CHILD(PARENT(j)), R_CHILD(PARENT(j))}
        BY <1>2, <3>1, ParentFacts
      <3>3. {L_CHILD(PARENT(j)), R_CHILD(PARENT(j))} \subseteq marked[i]
        BY <2>1, <3>1, MarkedFacts
      <3> QED
        BY <3>2, <3>3
    <2> QED
      BY <2>3, <2>4
  <1>3. i = NUM_BITMAPS - 1 => Covered(i) = {}
    BY DEF Covered
  <1> QED
    BY <1>1, <1>2, <1>3

\* The free blocks after initPMM.
LEMMA InitBlocks ==
  ASSUME Halving
  PROVE  /\ FreeIn(InitClear) = {b \in MarkedBlocks : b[2] \notin Covered(b[1])}
         /\ InitClear \subseteq Bits
PROOF
  <1> DEFINE C == {b \in AllBlocks : b[2] \in Covered(b[1])}
             X == UNION {{Bit(i, j) : j \in Covered(i)} : i \in Levels}
  <1>0. 0 \in Levels
    BY LevelFacts
  <1>1. X = BitsOf(C)
    <2>1. ASSUME NEW x \in X
          PROVE  x \in BitsOf(C)
      <3>1. PICK l \in Levels : \E j \in Covered(l) : x = Bit(l, j)
        OBVIOUS
      <3>2. PICK j \in Covered(l) : x = Bit(l, j)
        BY <3>1
      <3> DEFINE b == <<l, j>>
      <3>3. j \in Blocks[l]
        BY CoveredFacts, MarkedInside
      <3>4. b \in C
        BY <3>3, PairBlock
      <3> QED
        BY <3>2, <3>4 DEF BitsOf
    <2>2. ASSUME NEW x \in BitsOf(C)
          PROVE  x \in X
      <3>1. PICK b \in C : x = Bit(b[1], b[2])
        BY DEF BitsOf
      <3>2. b[1] \in Levels /\ b[2] \in Covered(b[1])
        BY BlockPair
      <3> QED
        BY <3>1, <3>2
    <2> QED
      BY <2>1, <2>2
  <1>2. InitClear = BitsOf(MarkedBlocks) \ BitsOf(C)
    BY <1>0, <1>1, CoveredFacts DEF InitClear
  <1>3. MarkedBlocks \subseteq AllBlocks /\ C \subseteq AllBlocks
    BY DEF MarkedBlocks
  <1>4. FreeIn(BitsOf(MarkedBlocks)) = MarkedBlocks
    BY <1>3, BitOf DEF FreeIn
  <1>5. FreeIn(InitClear) = MarkedBlocks \ C
    BY <1>2, <1>3, <1>4, FreeDrop, ZenonT(100)
  <1>6. InitClear \subseteq Bits
    BY <1>2, <1>3, BitsOfBlocks
  <1> QED
    BY <1>5, <1>6 DEF MarkedBlocks

\* initPMM tiles the usable pages.
LEMMA InitTiles ==
  ASSUME Halving
  PROVE  Tiles(FreeIn(InitClear), UsablePages)
PROOF
  <1> DEFINE F == FreeIn(InitClear)
             n == NUM_BITMAPS - 1
  <1>1. ASSUME NEW b \in F
        PROVE  /\ b \in AllBlocks /\ b[1] \in Levels /\ b[2] \in Blocks[b[1]] /\ b[2] \in Nat
               /\ b = <<b[1], b[2]>>
               /\ b[2] \in marked[b[1]] /\ b[2] \notin Covered(b[1])
               /\ Pages(b) \subseteq UsablePages
    <2>1. b \in AllBlocks /\ b[2] \in marked[b[1]] /\ b[2] \notin Covered(b[1])
      BY InitBlocks DEF MarkedBlocks
    <2> QED
      BY <2>1, BlockPair, MarkedPages DEF Pages
  <1>2. ASSUME NEW p \in UsablePages
        PROVE  \E b \in F : p \in Pages(b)
    <2> DEFINE Up(i) == \E j \in Blocks[i] : p \in BlockPages(i, j) /\ j \in marked[i]
               S == {k \in 0 .. n : Up(n - k)}
    <2>1. p \in Blocks[0] /\ 0 \in Levels /\ p \in Nat
      BY LevelFacts, BlockNumbers DEF UsablePages
    <2>2. Up(0)
      BY <2>1, PageBlock, MarkedFacts
    <2>3. n \in S
      BY <2>2, LevelFacts
    <2> HIDE DEF Up
    <2>4. PICK k \in S : \A m \in S : k <= m
      <3>1. S \subseteq Nat /\ S # {}
        BY <2>3
      <3> HIDE DEF S
      <3> QED
        BY <3>1, LeastNat, ZenonT(100)
    <2> DEFINE i == n - k
    <2>5. i \in Levels /\ Up(i)
      BY <2>4, LevelFacts
    <2>6. PICK j \in Blocks[i] : p \in BlockPages(i, j) /\ j \in marked[i]
      BY <2>5 DEF Up
    <2>7. j \in Nat
      BY <2>5, BlockNumbers
    <2>8. j \notin Covered(i)
      <3>1. CASE i = n
        BY <2>5, <3>1, CoveredFacts
      <3>2. CASE i # n
        <4>1. SUFFICES ASSUME PARENT(j) \in marked[i + 1] PROVE FALSE
          BY <2>5, <3>2, CoveredFacts
        <4>2. i \in Levels \ {NUM_BITMAPS - 1}
          BY <2>5, <3>2
        <4>3. p \in BlockPages(i + 1, PARENT(j)) /\ i + 1 \in Levels
          BY <2>6, <2>7, <4>2, ParentFacts
        <4>4. PARENT(j) \in Blocks[i + 1]
          BY <4>1, <4>3, MarkedInside
        <4>5. Up(i + 1)
          BY <4>1, <4>3, <4>4 DEF Up
        <4>6. k \in 0 .. n /\ n \in Nat
          BY LevelFacts
        <4>7. k - 1 \in 0 .. n /\ n - (k - 1) = i + 1
          BY <3>2, <4>6
        <4>8. k - 1 \in S
          BY <4>5, <4>7
        <4> QED
          BY <2>4, <4>6, <4>8
      <3> QED
        BY <3>1, <3>2
    <2> DEFINE b == <<i, j>>
    <2> HIDE DEF i
    <2>9. b \in AllBlocks /\ b[1] = i /\ b[2] = j
      BY <2>5, PairBlock
    <2>10. b \in F
      BY <2>6, <2>8, <2>9, InitBlocks DEF MarkedBlocks
    <2> QED
      BY <2>6, <2>10 DEF Pages
  <1>3. ASSUME NEW b \in F, NEW d \in F, NEW p \in Pages(b), p \in Pages(d), b[1] < d[1]
        PROVE  FALSE
    <2> DEFINE i == b[1]
               j == b[2]
    <2>1. i \in Levels /\ d[1] \in Levels /\ i # n
      BY <1>1, <1>3, LevelFacts
    <2>2. /\ i + 1 \in Levels \ {0} /\ (i + 1) - 1 = i
          /\ BlockPages(i, j) \subseteq BlockPages(i + 1, PARENT(j))
          /\ PARENT(j) \in Nat
      BY <1>1, <2>1, ParentFacts
    <2>3. i + 1 <= d[1]
      BY <1>3, <2>1, LevelFacts
    <2>4. p \in BlockPages(i + 1, PARENT(j)) /\ p \in BlockPages(d[1], d[2])
      BY <1>3, <2>2 DEF Pages
    <2>5. BlockPages(i + 1, PARENT(j)) \subseteq BlockPages(d[1], d[2])
      BY <1>1, <2>1, <2>2, <2>3, <2>4, Nested
    <2>6. BlockPages(i + 1, PARENT(j)) \subseteq UsablePages
      BY <1>1, <2>5 DEF Pages
    <2>7. PARENT(j) \in Blocks[i + 1]
      BY <1>1, <2>2, Relatives
    <2>8. PARENT(j) \in marked[i + 1]
      BY <2>2, <2>6, <2>7, MarkedPages
    <2>9. j \in Covered(i)
      BY <1>1, <2>1, <2>8, CoveredFacts
    <2> QED
      BY <1>1, <2>9
  <1>4. ASSUME NEW b \in F, NEW d \in F, NEW p \in Pages(b), p \in Pages(d)
        PROVE  b = d
    <2>1. b[1] \in Nat /\ d[1] \in Nat
      BY <1>1, LevelFacts
    <2>2. b[1] = d[1]
      BY <1>3, <1>4, <2>1
    <2>3. b[2] = d[2]
      BY <1>1, <1>4, <2>2, BlockDisjoint DEF Pages
    <2> QED
      BY <1>1, <2>2, <2>3
  <1> HIDE DEF F
  <1>5. Tiles(F, UsablePages)
    BY <1>1, <1>2, <1>4 DEF Tiles
  <1> QED
    BY <1>5 DEF F
=============================================================================
