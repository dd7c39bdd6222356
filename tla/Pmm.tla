-------------------------------- MODULE Pmm --------------------------------
(***************************************************************************)
(* The physical memory manager, mm/pmm/pmm.c: a buddy allocator over       *)
(* NUM_BITMAPS bitmaps.  Bit j of bitmap i stands for the block of         *)
(* span[i] = 2^i pages that starts at page j * span[i], and is 0 when that *)
(* block is free.                                                          *)
(*                                                                         *)
(* The bitmaps lie back to back in memory, so the model numbers all their  *)
(* bits as one array, as the code does: an index beyond the end of a       *)
(* bitmap lands in the next one.  Variable clear is the set of bits that   *)
(* are 0.                                                                  *)
(***************************************************************************)
EXTENDS Integers, Sequences, FiniteSets, FiniteSetsExt

CONSTANTS
  NUM_BITMAPS,   \* 7 in the code
  PAGE_SIZE,     \* bytes in a page
  HOLE,          \* the 2 GiB that initPMM takes off the end of the map
  MMap,          \* the boot loader's map: records [base, length, type]
  Sizes          \* the page counts that callers ask pmalloc for

VARIABLES
  phase,      \* "boot" until initPMM has run, then "up"
  clear,      \* the bits of the bitmaps that are 0
  free,       \* bitmaps[i].free
  free_mem,   \* in bytes
  live,       \* the runs <<first page, pages>> that callers hold
  ret,        \* the page the latest pmalloc returned, or NULL
  inside      \* every index used so far was a block of its bitmap

vars == <<phase, clear, free, free_mem, live, ret, inside>>

NULL == 0
Levels == 0 .. NUM_BITMAPS - 1

\* 1UL << i: the pages in a block of bitmap i.
span ==
  LET shift[i \in Levels] == IF i = 0 THEN 1 ELSE 2 * shift[i - 1]
  IN  [i \in Levels |-> shift[i]]

L_CHILD(index) == index * 2
R_CHILD(index) == index * 2 + 1
PARENT(index) == index \div 2

-----------------------------------------------------------------------------
(* Geometry: the first half of initPMM.                                    *)

mem_size == LET e == MMap[Len(MMap)] IN e.base + e.length - HOLE

\* Mutant: rounding up to whole bytes of the bitmap always adds one.
num_pagesRounded == 8 * ((mem_size \div PAGE_SIZE) \div 8 + 1)

num_pages == mem_size \div PAGE_SIZE

\* bitmaps[i].size in bytes: init_size >> i
size[i \in Levels] == IF i = 0 THEN num_pages \div 8 ELSE size[i - 1] \div 2

\* bitmaps[i].base, from bitmap_base
base ==
  LET from[i \in Levels] == IF i = 0 THEN 0 ELSE from[i - 1] + size[i - 1]
  IN  [i \in Levels |-> from[i]]

bitmap_size == base[NUM_BITMAPS - 1] + size[NUM_BITMAPS - 1]

Blocks == [i \in Levels |-> 0 .. 8 * size[i] - 1]

Bits == 0 .. 8 * bitmap_size - 1

\* The bit that pmmSetBit, pmmClearBit and pmmCheckBit address.
Bit(i, j) == 8 * base[i] + j

\* The first usable entry that is large enough holds the bitmaps.
host == Min({i \in DOMAIN MMap : /\ MMap[i].type = "usable"
                                 /\ MMap[i].length >= bitmap_size})

bitmap_base == MMap[host].base

\* Mutant: the bitmaps' own memory is not taken out of the map.
mmap_entriesUncut == MMap

mmap_entries ==
  [MMap EXCEPT ![host].base = @ + bitmap_size, ![host].length = @ - bitmap_size]

pmmGetStatusFromMMap(page) ==
  LET hits == {i \in DOMAIN mmap_entries :
                 LET e == mmap_entries[i]
                 IN  e.base \div PAGE_SIZE <= page
                     /\ page < (e.base + e.length) \div PAGE_SIZE}
  IN  IF hits = {} THEN "reserved" ELSE mmap_entries[Min(hits)].type

ASSUME LevelsAssumption == NUM_BITMAPS \in Nat \ {0, 1}
ASSUME MapAssumption ==
  /\ MMap \in Seq([base : Nat, length : Nat, type : STRING])
  /\ PAGE_SIZE \in Nat \ {0}
  /\ mem_size \in Nat
  /\ num_pages >= 8
ASSUME SizesAssumption == Sizes \subseteq Nat
\* The boot loader's usable entries overlap no other entry.
ASSUME DisjointAssumption ==
  \A i, k \in DOMAIN MMap :
    i # k /\ MMap[i].type = "usable" =>
      \/ MMap[i].base + MMap[i].length <= MMap[k].base
      \/ MMap[k].base + MMap[k].length <= MMap[i].base
ASSUME HostAssumption ==
  \E i \in DOMAIN MMap : MMap[i].type = "usable" /\ MMap[i].length >= bitmap_size
\* The boot loader never declares page 0 usable.
ASSUME PageZeroAssumption == pmmGetStatusFromMMap(0) # "usable"
\* The highest bitmap covers all of the one below it.
ASSUME TopAssumption == size[NUM_BITMAPS - 2] <= 2 * size[NUM_BITMAPS - 1]

-----------------------------------------------------------------------------
(* The second half of initPMM.                                             *)

\* The blocks of bitmap i that are marked free: above the pages, those whose
\* halves both are.
marked[i \in Levels] ==
  IF i = 0 THEN {j \in Blocks[0] : pmmGetStatusFromMMap(j) = "usable"}
  ELSE {j \in Blocks[i] : {L_CHILD(j), R_CHILD(j)} \subseteq marked[i - 1]}

Mark == UNION {{Bit(i, j) : j \in marked[i]} : i \in Levels}

\* The halves of a free block are taken off their own bitmap again.
Covered(i) ==
  IF i = NUM_BITMAPS - 1 THEN {}
  ELSE {j \in Blocks[i] : Bit(i + 1, PARENT(j)) \in Mark}

InitClear == Mark \ UNION {{Bit(i, j) : j \in Covered(i)} : i \in Levels}

InitFree == [i \in Levels |-> Cardinality(marked[i]) - Cardinality(Covered(i))]

\* The memory in f[i] blocks of each bitmap i.
MemOf(f) ==
  LET sum[i \in Levels] ==
        f[i] * (PAGE_SIZE * span[i]) + (IF i = 0 THEN 0 ELSE sum[i - 1])
  IN  sum[NUM_BITMAPS - 1]

initPMM ==
  /\ phase = "boot"
  /\ phase' = "up"
  /\ clear' = InitClear
  /\ free' = InitFree
  /\ free_mem' = MemOf(InitFree)
  /\ inside' = \A i \in 0 .. NUM_BITMAPS - 2 :
                 \A j \in Blocks[i] : PARENT(j) \in Blocks[i + 1]
  /\ UNCHANGED <<live, ret>>

-----------------------------------------------------------------------------
(* pmalloc.                                                                *)

\* Mutant: a request that is not a power of two is rounded down.
OrderDown(pages) == Max({k \in Levels : span[k] <= pages})

\* The smallest block order that holds pages; pmalloc's bit tricks.
Order(pages) == Min({k \in Levels : span[k] >= pages})

\* Mutant: the call for the right half returns the left half's sibling as well.
pmmPropagateDownBoth(pages, level, index) ==
  LET at[n \in 0 .. level] ==
        IF n = 0 THEN <<pages, index>>
        ELSE LET up == at[n - 1]
                 half == span[level - n]
             IN  IF up[1] \in {0, 2 * half} THEN <<0, 0>>
                 ELSE IF up[1] <= half THEN <<up[1], L_CHILD(up[2])>>
                 ELSE <<up[1] - half, R_CHILD(up[2])>>
  IN  {<<level - n, R_CHILD(at[n - 1][2])>> :
         n \in {k \in 1 .. level : at[k - 1][1] \in 1 .. 2 * span[level - k] - 1}}

\* The blocks that pmmPropagateDown clears when the first pages pages of
\* block index of bitmap level are kept.  at[n] is the n-th nested call, for
\* bitmap level - n: the pages it still has to place, 0 once a call returned
\* early, and its block.
pmmPropagateDown(pages, level, index) ==
  LET at[n \in 0 .. level] ==
        IF n = 0 THEN <<pages, index>>
        ELSE LET up == at[n - 1]
                 half == span[level - n]
             IN  IF up[1] \in {0, 2 * half} THEN <<0, 0>>
                 ELSE IF up[1] <= half THEN <<up[1], L_CHILD(up[2])>>
                 ELSE <<up[1] - half, R_CHILD(up[2])>>
  IN  {<<level - n, R_CHILD(at[n - 1][2])>> :
         n \in {k \in 1 .. level : at[k - 1][1] \in 1 .. span[level - k]}}

\* Mutant: the bits are cleared but not counted.
UpdateUncounted(taken, given) ==
  /\ clear' = LET Of(S) == {Bit(b[1], b[2]) : b \in S}
              IN  (clear \ Of(taken)) \union Of(given)
  /\ free' = [l \in Levels |-> free[l] - Cardinality({b \in taken : b[1] = l})]

\* Bits and counters after the blocks in taken are set and then those in
\* given are cleared.
Update(taken, given) ==
  /\ clear' = LET Of(S) == {Bit(b[1], b[2]) : b \in S}
              IN  (clear \ Of(taken)) \union Of(given)
  /\ free' = [l \in Levels |-> free[l] + Cardinality({b \in given : b[1] = l})
                                       - Cardinality({b \in taken : b[1] = l})]

\* The block search starts at the smallest sufficient order and takes the
\* lowest free block of the lowest bitmap that has one.
Fit(pages) ==
  {b \in UNION {{i} \X Blocks[i] : i \in Order(pages) .. NUM_BITMAPS - 1} :
     Bit(b[1], b[2]) \in clear}

FirstFit(pages) ==
  LET i == Min({b[1] : b \in Fit(pages)})
  IN  <<i, Min({b[2] : b \in {d \in Fit(pages) : d[1] = i}})>>

Refused(pages) == pages \in 1 .. span[NUM_BITMAPS - 1] => Fit(pages) = {}

pmallocRefuse(pages) ==
  /\ phase = "up"
  /\ Refused(pages)
  /\ ret' = NULL
  /\ UNCHANGED <<phase, clear, free, free_mem, live, inside>>

pmallocGrant(pages) ==
  /\ phase = "up"
  /\ ~Refused(pages)
  /\ LET b == FirstFit(pages)
         i == b[1]
         j == b[2]
         parent == <<i + 1, PARENT(j)>>
         inner == i # NUM_BITMAPS - 1
         split == inner /\ Bit(i + 1, PARENT(j)) \in clear
     IN  /\ Update({b} \union (IF split THEN {parent} ELSE {}),
                   pmmPropagateDown(pages, i, j)
                   \union (IF split THEN {<<i, j + 1>>} ELSE {}))
         /\ inside' = (inside /\ (inner => PARENT(j) \in Blocks[i + 1]))
         /\ ret' = j * span[i]
         /\ live' = live \union {<<j * span[i], pages>>}
  /\ free_mem' = free_mem - pages * PAGE_SIZE
  /\ UNCHANGED phase

-----------------------------------------------------------------------------
(* pfree.                                                                  *)

\* Mutant: an odd index is treated like an even one.
PairsEven(pages, index) ==
  {k \in index .. index + pages - 1 : (k - index) % 2 = 0}

\* The left halves of the pairs that coalesce looks at.
Pairs(pages, index) ==
  {i - (index % 2) : i \in {k \in index .. index + pages - 1 : (k - index) % 2 = 0}}

\* Mutant: the halves of a merged block stay free.
coalesceLevelKeep(m, level) ==
  LET pairs == Pairs(m.pages, m.index)
      merged == {i \in pairs : {Bit(level, i), Bit(level, i + 1)} \subseteq m.clear}
  IN  [m EXCEPT
         !.clear = @ \union {Bit(level + 1, PARENT(i)) : i \in merged},
         !.free = [@ EXCEPT ![level] = @ - 2 * Cardinality(merged),
                            ![level + 1] = @ + Cardinality(merged)],
         !.pages = @ \div 2,
         !.index = PARENT(@)]

\* One call of coalesce: m holds the clear bits and the counters, the pages and
\* the index the call is given, and whether every index so far was inside.
coalesceLevel(m, level) ==
  LET pairs == Pairs(m.pages, m.index)
      merged == {i \in pairs : {Bit(level, i), Bit(level, i + 1)} \subseteq m.clear}
      halves == {Bit(level, i) : i \in merged} \union {Bit(level, i + 1) : i \in merged}
  IN  [clear |-> (m.clear \union {Bit(level + 1, PARENT(i)) : i \in merged}) \ halves,
       free |-> [m.free EXCEPT ![level] = @ - 2 * Cardinality(merged),
                               ![level + 1] = @ + Cardinality(merged)],
       pages |-> m.pages \div 2,
       index |-> PARENT(m.index),
       inside |-> /\ m.inside
                  /\ \A i \in pairs : /\ {i, i + 1} \subseteq Blocks[level]
                                      /\ PARENT(i) \in Blocks[level + 1]]

\* The recursion, once for every bitmap but the highest.
coalesce(m) ==
  LET after[l \in Levels] ==
        IF l = 0 THEN m ELSE coalesceLevel(after[l - 1], l - 1)
  IN  after[NUM_BITMAPS - 1]

pfree(index, pages) ==
  LET given == index .. index + pages - 1
      m == coalesce([clear |-> clear \union {Bit(0, p) : p \in given},
                     free |-> [free EXCEPT ![0] = @ + pages],
                     pages |-> pages,
                     index |-> index,
                     inside |-> inside /\ given \subseteq Blocks[0]])
  IN  /\ phase = "up"
      /\ clear' = m.clear
      /\ free' = m.free
      /\ inside' = m.inside
      /\ free_mem' = free_mem + pages * PAGE_SIZE
      /\ UNCHANGED <<phase, ret>>

\* A caller returns a whole run ...
FreeRun(r) ==
  /\ pfree(r[1], r[2])
  /\ live' = live \ {r}

\* ... or, like the paging code, the pages of a run one at a time.
FreePage(r, p) ==
  /\ r[2] > 1
  /\ pfree(p, 1)
  /\ live' = (live \ {r}) \union {<<k, 1>> : k \in (r[1] .. r[1] + r[2] - 1) \ {p}}

-----------------------------------------------------------------------------
Init ==
  /\ phase = "boot"
  /\ clear = {}
  /\ free = [i \in Levels |-> 0]
  /\ free_mem = 0
  /\ live = {}
  /\ ret = NULL
  /\ inside = TRUE

Next ==
  \/ initPMM
  \/ \E n \in Sizes : pmallocRefuse(n)
  \/ \E n \in Sizes : pmallocGrant(n)
  \/ \E r \in live : FreeRun(r)
  \/ \E r \in live : \E p \in r[1] .. r[1] + r[2] - 1 : FreePage(r, p)

Spec == Init /\ [][Next]_vars

-----------------------------------------------------------------------------
(* Properties.                                                             *)

RunPages(r) == r[1] .. r[1] + r[2] - 1

Held == UNION {RunPages(r) : r \in live}

UsablePages == {p \in Blocks[0] : pmmGetStatusFromMMap(p) = "usable"}

\* The free blocks of bitmap i, and the pages of a block.
Clear(i) == {j \in Blocks[i] : Bit(i, j) \in clear}
BlockPages(i, j) == j * span[i] .. (j + 1) * span[i] - 1

FreeBlocks == UNION {{i} \X Clear(i) : i \in Levels}

FreePages == UNION {BlockPages(b[1], b[2]) : b \in FreeBlocks}

\* Every variable has its type: no counter falls below zero and every run that
\* is out lies in the lowest bitmap.
TypeOK ==
  /\ phase \in {"boot", "up"}
  /\ clear \subseteq Bits
  /\ free \in [Levels -> Nat]
  /\ free_mem \in Nat
  /\ live \subseteq Blocks[0] \X (1 .. span[NUM_BITMAPS - 1])
  /\ ret \in Blocks[0]
  /\ inside \in BOOLEAN

\* Every usable page is in exactly one place, one free block of one bitmap or
\* one caller's run, and no other page is in any: nothing is handed out twice
\* and nothing is lost, whatever the order of pmalloc and pfree.
EveryPageAccounted ==
  phase = "up" =>
    LET blocks == FreeBlocks IN
    \A p \in Blocks[0] :
      Cardinality({b \in blocks : p \in BlockPages(b[1], b[2])})
      + Cardinality({r \in live : p \in RunPages(r)})
      = IF p \in UsablePages THEN 1 ELSE 0

\* The counters that pmalloc and pfree adjust block by block agree with the
\* bitmaps, and pmmGetFreeMem with both.
CountersMatch ==
  phase = "up" =>
    /\ \A i \in Levels : free[i] = Cardinality(Clear(i))
    /\ free_mem = MemOf(free)

\* The books balance: the variables have their types, every usable page is free or
\* held, once, and the counters agree with the bits, after any pmalloc and pfree.
BooksBalance == TypeOK /\ EveryPageAccounted /\ CountersMatch

\* Two free pages that are buddies have always been merged.  (On the higher
\* bitmaps this fails: after a one-page pfree, coalesce is called with
\* pages / 2 = 0 there and merges nothing.)
FreeBuddiesMerged ==
  phase = "up" => \A j \in Clear(0) : j % 2 = 0 => j + 1 \notin Clear(0)

\* No caller holds a page that the bitmaps fill.  (The page in which they end
\* is another matter: initPMM moves the entry's base behind the bitmaps and
\* pmmGetStatusFromMMap rounds it down again, so that page is handed out.)
BitmapNotHandedOut ==
  Held \intersect ((bitmap_base + PAGE_SIZE - 1) \div PAGE_SIZE
                   .. (bitmap_base + bitmap_size) \div PAGE_SIZE - 1) = {}

\* Every index given to pmmSetBit, pmmClearBit and pmmCheckBit is "the i-th
\* block in this bitmap", as their comments say.
IndexInBitmap == inside

Abs == INSTANCE PageAllocator WITH
         Usable <- UsablePages, MaxRun <- span[NUM_BITMAPS - 1],
         up <- phase = "up", avail <- IF phase = "up" THEN FreePages ELSE {}

\* The buddy allocator implements the page allocator: grants are runs of free
\* pages and single pages are refused only when none is free.
ImplementsPageAllocator == Abs!Spec
=============================================================================
