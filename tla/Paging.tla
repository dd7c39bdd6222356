------------------------------- MODULE Paging -------------------------------
(***************************************************************************)
(* Page tables, mm/paging/paging.c, over the physical pages that pmm.c     *)
(* hands out.  Addresses are page numbers.  A page is an array of entries  *)
(* <<page, flags>> whether it serves as a table or as memory of a caller,  *)
(* and what a free page holds at boot is not known.  A call holds the      *)
(* paging lock and is one step; vmalloc, vfree, videntity and vflags are   *)
(* the CR3 variants with the loaded root, and flush the TLB, which module  *)
(* ElfLoad models.                                                         *)
(*                                                                         *)
(* Two things go wrong without notice: a refusal of pmm.c is taken for the *)
(* address 0, and a page becomes a table with all but its first entry as   *)
(* it was.  A call in which either happens is followed to its end, and no  *)
(* call after it.                                                          *)
(***************************************************************************)
EXTENDS Integers, Sequences, FiniteSets, FiniteSetsExt, SequencesExt

CONSTANTS
  LEVELS,      \* levels of tables, 4 in the code
  ENTRIES,     \* entries of a table, 512 in the code
  NUM_ALLOC,   \* pages that pmallocBulk takes at a time, 64 in the code
  mem_pages,   \* mem_size / PAGE_SIZE
  BootMem,     \* the boot loader's tables: [page -> entries]
  Root,        \* the page of its top table
  Blocks,      \* the first pages of the blocks of NUM_ALLOC that pmm.c has free
  Stale,       \* what a page may hold at boot besides zeros
  Dirty,       \* the sets of pages that may hold it
  Image,       \* the address of the kernel image, which stays mapped
  Calls,       \* the ranges <<first address, pages>> that callers name
  FlagSets,    \* the flags they ask for
  Pfree,       \* the values of do_pfree they pass
  MaxSpaces    \* a bound on pagingCreateUser

VARIABLES
  m,        \* the pages and their supply: mem, blocks and freed of pmm.c, ptrs,
            \* curr, the pages lost (spill), and what went wrong (refused, stale)
  spaces,   \* the top tables, Root first
  up,       \* initPaging has run
  lock

vars == <<m, spaces, up, lock>>

Zero == <<0, {}>>
Index(v, level) == (v \div ENTRIES^(level - 1)) % ENTRIES
Addresses == 0 .. ENTRIES^LEVELS - 1
KernelHalf == {v \in Addresses : Index(v, LEVELS) >= ENTRIES \div 2}

-----------------------------------------------------------------------------
(* Pages and tables.                                                       *)

\* pmalloc and pfree as the paging code uses them; see Pmm.  pfree of one page
\* merges it with its neighbour at most, so that it is never part of a block of
\* NUM_ALLOC again.
pmalloc(s) == IF s.blocks = {} THEN 0 ELSE Min(s.blocks)
pfree(s, p) == IF p = 0 THEN s ELSE [s EXCEPT !.freed = @ \union {p}]

\* Mutant: the first page after a refill is handed out without counting it.
pmallocBulkTwice(s) ==
  LET p == pmalloc(s)
  IN  IF s.curr + 1 # NUM_ALLOC THEN <<[s EXCEPT !.curr = @ + 1], s.ptrs[s.curr]>>
      ELSE <<[s EXCEPT !.ptrs = [i \in 0 .. NUM_ALLOC - 1 |-> p + i], !.curr = 0,
                       !.blocks = @ \ {p}, !.refused = p = 0], p>>

\* The supply is filled up when curr reaches the last page, which is lost.  When
\* pmalloc refuses, the supply is pages 0 and up.
pmallocBulk(s) ==
  LET p  == pmalloc(s)
      s1 == IF s.curr + 1 # NUM_ALLOC THEN s
            ELSE [s EXCEPT !.spill = @ \union {s.ptrs[i] : i \in DOMAIN s.ptrs \ 0 .. s.curr - 1},
                           !.ptrs = [i \in 0 .. NUM_ALLOC - 1 |-> p + i], !.curr = 0,
                           !.blocks = @ \ {p}, !.refused = p = 0]
  IN  <<[s1 EXCEPT !.curr = @ + 1], s1.ptrs[s1.curr]>>

\* Only the first entry is cleared: the loop does not advance its pointer.
pagingAllocTable(s) ==
  LET b == pmallocBulk(s)
  IN  <<[b[1] EXCEPT !.mem[b[2]][0] = Zero,
                     !.stale = @ \/ \E i \in 1 .. ENTRIES - 1 : b[1].mem[b[2]][i] # Zero],
        b[2]>>

pagingAddEntry(s, table, i, page, flags) == [s EXCEPT !.mem[table][i] = <<page, flags>>]

\* Only tables without entries are removed here, so that the loop over the
\* children of a table finds nothing to remove.
pagingRemoveEntry(s, table, level, i, do_pfree) ==
  LET e == s.mem[table][i]
  IN  IF "P" \notin e[2] \/ e[1] >= mem_pages THEN s
      ELSE [(IF level > 1 \/ do_pfree THEN pfree(s, e[1]) ELSE s) EXCEPT !.mem[table][i] = Zero]

-----------------------------------------------------------------------------
(* Walks.                                                                  *)

\* The tables of address v below root; 0 from the first empty entry on.
Tables(s, root, v) ==
  LET t[l \in 1 .. LEVELS] ==
        LET above == t[l + 1]
        IN  IF l = LEVELS THEN root
            ELSE IF above = 0 THEN 0 ELSE s.mem[above][Index(v, l + 1)][1]
  IN  t

\* The walk of vmallocHelper and videntityHelper, which adds missing tables:
\* the pages and the lowest table.
Descend(s, root, v, flags) ==
  LET d[l \in 1 .. LEVELS] ==
        LET above == d[l + 1]
            i     == Index(v, l + 1)
            a     == pagingAllocTable(above[1])
        IN  IF l = LEVELS THEN <<s, root>>
            ELSE IF above[1].mem[above[2]][i] # Zero
                 THEN <<above[1], above[1].mem[above[2]][i][1]>>
            ELSE <<pagingAddEntry(a[1], above[2], i, a[2], flags), a[2]>>
  IN  d[1]

vmallocHelper(s, root, v, flags) ==
  LET d == Descend(s, root, v, flags)
      b == pmallocBulk(d[1])
  IN  pagingAddEntry(b[1], d[2], Index(v, 1), b[2], flags)

videntityHelper(s, root, v, page, flags) ==
  LET d == Descend(s, root, v, flags)
  IN  pagingAddEntry(d[1], d[2], Index(v, 1), page, flags)

\* Mutant: only the lowest table is tested for entries that are left.
vfreeHelperEager(s, root, v, do_pfree) ==
  LET t == Tables(s, root, v)
      r[l \in 1 .. LEVELS] ==
        LET below == r[l - 1]
        IN  IF l = 1 THEN pagingRemoveEntry(s, t[1], 1, Index(v, 1), do_pfree)
            ELSE IF l = 2 /\ \E i \in 0 .. ENTRIES - 1 : below.mem[t[1]][i] # Zero THEN below
            ELSE pagingRemoveEntry(below, t[l], l, Index(v, l), do_pfree)
  IN  IF t[1] = 0 THEN s ELSE r[LEVELS]

\* The entry goes, and every table on the way up that is empty now.
vfreeHelper(s, root, v, do_pfree) ==
  LET t == Tables(s, root, v)
      r[l \in 1 .. LEVELS] ==
        LET below == r[l - 1]
        IN  IF l = 1 THEN pagingRemoveEntry(s, t[1], 1, Index(v, 1), do_pfree)
            ELSE IF \E i \in 0 .. ENTRIES - 1 : below.mem[t[l - 1]][i] # Zero THEN below
            ELSE pagingRemoveEntry(below, t[l], l, Index(v, l), do_pfree)
  IN  IF t[1] = 0 THEN s ELSE r[LEVELS]

\* The old entry keeps its execute-disable bit.
vflagsHelper(s, root, v, flags) ==
  LET t == Tables(s, root, v)[1]
  IN  IF t = 0 THEN s
      ELSE [s EXCEPT !.mem[t][Index(v, 1)] = <<@[1], (@[2] \intersect {"XD"}) \union flags>>]

-----------------------------------------------------------------------------
(* The calls.                                                              *)

Pages(c) == [i \in 1 .. c[2] |-> c[1] + i - 1]

\* A helper that returns its address as NULL ends the loop.
UpToNull(c) ==
  IF c[2] > 0 /\ c[1] = 0 THEN <<0>> ELSE Pages(c)

Ready == up /\ lock = 0 /\ ~m.refused /\ ~m.stale

vmalloc(root, c, flags) ==
  /\ Ready
  /\ m' = FoldLeft(LAMBDA s, v : vmallocHelper(s, root, v, flags), m, UpToNull(c))
  /\ UNCHANGED <<spaces, up, lock>>

vfree(root, c, do_pfree) ==
  /\ Ready
  /\ m' = FoldLeft(LAMBDA s, v : vfreeHelper(s, root, v, do_pfree), m, Pages(c))
  /\ UNCHANGED <<spaces, up, lock>>

\* The early return leaves the lock taken.
videntity(root, c, page, flags) ==
  /\ Ready
  /\ m' = FoldLeft(LAMBDA s, v : videntityHelper(s, root, v, page + (v - c[1]), flags),
                   m, UpToNull(c))
  /\ lock' = IF c[1] = 0 /\ c[2] > 0 THEN 1 ELSE 0
  /\ UNCHANGED <<spaces, up>>

vflags(root, c, flags) ==
  /\ Ready
  /\ m' = FoldLeft(LAMBDA s, v : vflagsHelper(s, root, v, flags), m, Pages(c))
  /\ UNCHANGED <<spaces, up, lock>>

\* Mutant: the kernel's entries are not copied.
pagingCreateUserBare ==
  LET a == pagingAllocTable(m)
  IN  /\ Ready
      /\ m' = a[1]
      /\ spaces' = Append(spaces, a[2])
      /\ UNCHANGED <<up, lock>>

\* The upper half of the kernel's top table is copied as it is now.
pagingCreateUser ==
  LET a == pagingAllocTable(m)
  IN  /\ Ready
      /\ m' = [a[1] EXCEPT !.mem[a[2]] = [i \in DOMAIN @ |->
                 IF i >= ENTRIES \div 2 THEN a[1].mem[Root][i] ELSE @[i]]]
      /\ spaces' = Append(spaces, a[2])
      /\ UNCHANGED <<up, lock>>

\* The identity map of the boot loader goes; its tables become free pages.
\* vfreeHelper returns at once for the addresses that have no table.
initPaging ==
  /\ ~up
  /\ up' = TRUE
  /\ m' = FoldLeft(LAMBDA s, v : vfreeHelper(s, Root, v, FALSE), m,
                   SelectSeq(Pages(<<0, mem_pages>>), LAMBDA v : Tables(m, Root, v)[1] # 0))
  /\ UNCHANGED <<spaces, lock>>

-----------------------------------------------------------------------------
(* What an address means, and who calls.                                   *)

Entry(s, root, v) ==
  LET t == Tables(s, root, v)[1] IN IF t = 0 THEN Zero ELSE s.mem[t][Index(v, 1)]

Mapped(s, root, v) == Entry(s, root, v) # Zero
Span(c) == c[1] .. c[1] + c[2] - 1
Spaces == {spaces[k] : k \in DOMAIN spaces}

Init ==
  /\ \E D \in Dirty :
       m = [mem |-> [p \in DOMAIN BootMem |-> IF p \in D THEN Stale ELSE BootMem[p]],
            blocks |-> Blocks, freed |-> {}, ptrs |-> [i \in {} |-> 0],
            curr |-> NUM_ALLOC - 1, spill |-> {}, refused |-> FALSE, stale |-> FALSE]
  /\ spaces = <<Root>>
  /\ up = FALSE
  /\ lock = 0

\* Callers ask for memory at addresses that are not mapped yet, map devices
\* (pages from mem_pages on) away from address 0, and change the flags of and
\* free what they have mapped; the kernel image stays.
Next ==
  \/ initPaging
  \/ Len(spaces) < MaxSpaces /\ pagingCreateUser
  \/ Ready /\ \E root \in Spaces, c \in Calls, flags \in FlagSets :
       \/ (\A v \in Span(c) : ~Mapped(m, root, v)) /\ vmalloc(root, c, flags)
       \/ /\ c[1] # 0 /\ \A v \in Span(c) : ~Mapped(m, root, v)
          /\ videntity(root, c, mem_pages, flags)
       \/ (\A v \in Span(c) : Mapped(m, root, v)) /\ vflags(root, c, flags)
  \/ \E root \in Spaces, c \in Calls, do_pfree \in Pfree :
       Image \notin Span(c) /\ vfree(root, c, do_pfree)

Spec == Init /\ [][Next]_vars

-----------------------------------------------------------------------------
(* Properties.                                                             *)

Left == {m.ptrs[i] : i \in DOMAIN m.ptrs \ 0 .. m.curr - 1} \union m.spill

\* The places <<top table, level, address prefix>> where a page is in use below
\* root: as a table, or on level 0 as memory.
Uses(root, V) ==
  UNION {LET t == Tables(m, root, v)
             e == IF t[1] = 0 THEN 0 ELSE m.mem[t[1]][Index(v, 1)][1]
         IN  {<<root, l, v \div ENTRIES^l, t[l]>> : l \in {k \in 1 .. LEVELS : t[k] # 0}}
             \union {<<root, 0, v, page>> : page \in {e} \intersect 1 .. mem_pages - 1} : v \in V}

\* A page has one use at a time, whatever the order of the calls: free in
\* pmm.c, waiting in the bulk supply, a table or memory of a caller; and it has
\* it in one place, the kernel half of the address spaces apart, which is
\* common to all.  That ends with a refusal of pmm.c or a table made of a page
\* that was not zero, and with nothing else.
PagesAccounted ==
  up /\ ~m.refused /\ ~m.stale =>
    LET free   == m.freed \union UNION {p .. p + NUM_ALLOC - 1 : p \in m.blocks}
        places == Uses(Root, Addresses)
                  \union UNION {Uses(r, Addresses \ KernelHalf) : r \in Spaces \ {Root}}
        pages  == {u[4] : u \in places}
    IN  /\ Cardinality({<<u[1], u[2], u[3]>> : u \in {x \in places : x[2] < LEVELS}})
           + Len(spaces) = Cardinality(pages)
        /\ pages \intersect (free \union Left) = {}
        /\ free \intersect Left = {}

\* A call changes what the addresses of one of the ranges mean and no other's:
\* vmalloc allocates "some number of contiguous pages in virtual memory starting
\* at vptr" (paging.h).  It does more only in the step that meets a refusal of
\* pmm.c or makes a table of a page that was not zero.
OnlyAsked ==
  up /\ ~m'.refused /\ ~m'.stale =>
    \A root \in Spaces :
      \E c \in Calls : \A v \in Addresses \ Span(c) :
        Entry(m', root, v) = Entry(m, root, v)

\* The part of the kernel half under the top entry of the kernel image means the
\* same in every address space, also after a kernel stack was mapped through one
\* of them.  Under a top entry that the kernel's table got later it does not.
KernelHalfShared ==
  ~m.refused /\ ~m.stale =>
    \A root \in Spaces, v \in Addresses :
      Index(v, LEVELS) = Index(Image, LEVELS) => Entry(m, root, v) = Entry(m, Root, v)
=============================================================================
