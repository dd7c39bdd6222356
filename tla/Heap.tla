-------------------------------- MODULE Heap --------------------------------
(***************************************************************************)
(* The kernel heap, mm/heap/heap.c over mm/heap/memlib.c: blocks with      *)
(* boundary tags and segregated free lists.  Memory is an array of words   *)
(* (WSIZE bytes): tags, words a caller wrote, and Junk, which the heap     *)
(* never reads.  The free lists are sequences of blocks, as module         *)
(* LinkedList shows them to be.  A call holds the heap's lock from start   *)
(* to end and is one step.                                                 *)
(***************************************************************************)
EXTENDS Integers, Sequences, FiniteSets, FiniteSetsExt, SequencesExt

CONSTANTS
  MAX_HEAP,    \* bytes that initKernelHeapMem maps
  INT_BITS,    \* width of mem_sbrk's int argument
  SIZE_BITS,   \* width of size_t
  SEARCH,      \* find_fit's limit, 11 in the code
  Sizes,       \* the sizes in bytes that callers ask for
  MaxLive,     \* a bound on the allocations that are live at once
  Junk         \* a word whose contents mean nothing

VARIABLES
  H,       \* [mem, lists, brk]: the words, free_lists and mem_brk in words
  live,    \* the blocks that callers hold, with the sizes they asked for
  fault    \* kcalloc has written through a null pointer

vars == <<H, live, fault>>

WSIZE == 8
ALIGNMENT == 16
MIN_BLOCK_SIZE_WORDS == 8
CHUNKSIZE == 36
NUM_LISTS == 12
NULL == 0
Classes == 0 .. NUM_LISTS - 1
MaxWords == MAX_HEAP \div WSIZE

Tag(size, inuse) == <<"tag", size, inuse>>
Data(k) == <<"data", k, 0>>
FENCE == Tag(0, 1)

Larger(x, y) == IF x > y THEN x ELSE y

get_seg_index(words) ==
  Min({NUM_LISTS - 1} \union {k \in Classes : words <= 8 * 2^k})

\* size_t arithmetic wraps.
align(size) == (((size + ALIGNMENT - 1) % 2^SIZE_BITS) \div ALIGNMENT) * ALIGNMENT

bsize(size) == align((size + 2 * WSIZE) % 2^SIZE_BITS)
awords(size) == Larger(MIN_BLOCK_SIZE_WORDS, bsize(size) \div WSIZE)

\* The conversion of a size_t to int.
ToInt(n) == ((n + 2^(INT_BITS - 1)) % 2^INT_BITS) - 2^(INT_BITS - 1)

\* A bound: the sizes that either wrap size_t, which _kmalloc checks, or pass
\* mem_sbrk's int argument unchanged or negative.
Asked == {s \in Sizes : bsize(s) < s \/ bsize(s) < 2^INT_BITS}

-----------------------------------------------------------------------------
(* Tags and lists.                                                         *)

blk_size(h, b) == h.mem[b][2]
blk_free(h, b) == h.mem[b][3] = 0
prev_inuse(h, b) == h.mem[b - 1][3] = 1
prev_blk(h, b) == b - h.mem[b - 1][2]
next_blk(h, b) == b + blk_size(h, b)

mark_block_used(h, b, size) ==
  [h EXCEPT !.mem[b] = Tag(size, 1), !.mem[b + size - 1] = Tag(size, 1)]

\* The payload of a free block holds its list element and means nothing else.
mark_block_free(h, b, size) ==
  [h EXCEPT !.mem = [w \in DOMAIN @ |->
     IF w \in {b, b + size - 1} THEN Tag(size, 0)
     ELSE IF w \in b + 1 .. b + size - 2 THEN Junk ELSE @[w]]]

\* list_remove, for every block of B
Unlist(h, B) ==
  [h EXCEPT !.lists = [i \in Classes |-> SelectSeq(@[i], LAMBDA b : b \notin B)]]

\* list_push_back(get_seg_list(size), ...)
Enlist(h, b) ==
  [h EXCEPT !.lists[get_seg_index(blk_size(h, b))] = Append(@, b)]

\* The block at b becomes one of used words in use and one of rest free.
Split(h, b, used, rest) ==
  Enlist(mark_block_free(mark_block_used(h, b, used), b + used, rest), b + used)

\* Mutant: the block before is merged, and stays on its free list as well.
coalesceRelisted(h, b) ==
  LET joined == {b} \union {p \in {prev_blk(h, b)} : ~prev_inuse(h, b)}
                    \union {n \in {next_blk(h, b)} : blk_free(h, n)}
  IN  IF joined = {b} THEN <<h, b>>
      ELSE <<Enlist(mark_block_free(Unlist(h, joined \ {Min(joined)}), Min(joined),
                      SumSet({blk_size(h, x) : x \in joined})), Min(joined)), Min(joined)>>

\* The links and the block that holds b now.
coalesce(h, b) ==
  LET joined == {b} \union {p \in {prev_blk(h, b)} : ~prev_inuse(h, b)}
                    \union {n \in {next_blk(h, b)} : blk_free(h, n)}
      first  == Min(joined)
      size   == MapThenSumSet(LAMBDA x : blk_size(h, x), joined)
  IN  IF joined = {b} THEN <<h, b>>
      ELSE <<Enlist(mark_block_free(Unlist(h, joined), first, size), first), first>>

-----------------------------------------------------------------------------
(* Growth, search and placement.                                           *)

\* memlib.c: whether the break can move by incr bytes.
mem_sbrk(h, incr) == ToInt(incr) >= 0 /\ h.brk + ToInt(incr) \div WSIZE <= MaxWords

\* The new block begins at the old epilogue and ends before the new one.
extend_heap(h, words) ==
  LET b == h.brk - 1
      g == mark_block_free([h EXCEPT !.brk = @ + words], b, words)
  IN  IF ~mem_sbrk(h, words * WSIZE) THEN <<h, NULL>>
      ELSE coalesce([Enlist(g, b) EXCEPT !.mem[b + words] = FENCE], b)

\* Mutant: the rest is split off although it is too small for a list element.
placeExact(h, b, asize) ==
  LET csize == blk_size(h, b)
      g     == Unlist(h, {b})
  IN  IF csize - asize >= 2 THEN Split(g, b, asize, csize - asize)
      ELSE mark_block_used(g, b, csize)

place(h, b, asize) ==
  LET csize == blk_size(h, b)
      g     == Unlist(h, {b})
  IN  IF csize - asize >= MIN_BLOCK_SIZE_WORDS THEN Split(g, b, asize, csize - asize)
      ELSE mark_block_used(g, b, csize)

\* The blocks of list i that find_fit looks at when it began at list idx; the
\* subtraction in its limit is unsigned.
Searched(h, i, idx) ==
  LET n == IF i - idx > SEARCH THEN Len(h.lists[i]) ELSE SEARCH - (i - idx) + 2
  IN  SubSeq(h.lists[i], 1, Min({n, Len(h.lists[i])}))

\* Mutant: the search stays in the list of the block's own class.
find_fitOwn(h, asize) ==
  LET fits == SelectSeq(Searched(h, get_seg_index(asize), get_seg_index(asize)),
                        LAMBDA b : blk_size(h, b) >= asize)
  IN  IF fits = <<>> THEN NULL ELSE fits[1]

find_fit(h, asize) ==
  LET idx     == get_seg_index(asize)
      Fits(i) == SelectSeq(Searched(h, i, idx), LAMBDA b : blk_size(h, b) >= asize)
      hits    == {i \in idx .. NUM_LISTS - 1 : Fits(i) # <<>>}
  IN  IF hits = {} THEN NULL ELSE Fits(Min(hits))[1]

\* The heap afterwards and the block, or NULL.
_kmalloc(h, size) ==
  LET b   == find_fit(h, awords(size))
      ext == extend_heap(h, Larger(awords(size), CHUNKSIZE))
  IN  IF size = 0 \/ bsize(size) < size THEN <<h, NULL>>
      ELSE IF b # NULL THEN <<place(h, b, awords(size)), b>>
      ELSE IF ext[2] = NULL THEN <<h, NULL>>
      ELSE <<place(ext[1], ext[2], awords(size)), ext[2]>>

_kfree(h, b) == coalesce(Enlist(mark_block_free(h, b, blk_size(h, b)), b), b)[1]

-----------------------------------------------------------------------------
(* _krealloc.                                                              *)

\* Mutant: the last word is left behind.
MoveShort(h, to, from, n) ==
  [h EXCEPT !.mem = [w \in DOMAIN @ |->
     IF w \in to + 1 .. to + n - 1 THEN @[from + (w - to)] ELSE @[w]]]

\* memmove of n words, from the payload of one block to that of another
Move(h, to, from, n) ==
  [h EXCEPT !.mem = [w \in DOMAIN @ |->
     IF w \in to + 1 .. to + n THEN @[from + (w - to)] ELSE @[w]]]

\* A block that ends at the epilogue first grows the heap; next_alloc was read
\* before and is not read again.
Grown(h, b, a) ==
  IF h.mem[next_blk(h, b)] = FENCE /\ prev_inuse(h, b) /\ a > blk_size(h, b)
  THEN extend_heap(h, Larger(a - blk_size(h, b), CHUNKSIZE))[1] ELSE h

_krealloc(h, b, size) ==
  LET a          == awords(size)
      old        == blk_size(h, b)
      prev_alloc == prev_inuse(h, b)
      next_alloc == ~blk_free(h, next_blk(h, b))
      g    == Grown(h, b, a)
      n    == next_blk(g, b)
      p    == prev_blk(g, b)
      next == blk_size(g, n)
      prev == blk_size(g, p)
      Leaves(total) == a < total /\ total - a >= MIN_BLOCK_SIZE_WORDS
      bytes == Min({size, (old - 2) * WSIZE})
      new   == _kmalloc(g, size)
  IN  CASE size = 0 -> <<_kfree(h, b), NULL>>
        [] size # 0 /\ bsize(size) < size -> <<h, NULL>>
        [] OTHER ->
           IF a = old THEN <<g, b>>
           ELSE IF Leaves(old)
             THEN <<coalesce(Split(g, b, a, old - a), b + a)[1], b>>
           ELSE IF ~next_alloc /\ prev_alloc /\ Leaves(old + next)
             THEN <<Split(Unlist(g, {n}), b, a, old + next - a), b>>
           ELSE IF ~prev_alloc /\ ~next_alloc /\ Leaves(prev + old + next)
             THEN <<Split(Move(Unlist(g, {p, n}), p, b, old - 2),
                          p, a, prev + old + next - a), p>>
           ELSE IF ~prev_alloc /\ Leaves(prev + old)
             THEN <<coalesce(Split(Move(Unlist(g, {p}), p, b, old - 2),
                                   p, a, prev + old - a), p + a)[1], p>>
           ELSE IF new[2] = NULL THEN <<g, NULL>>
           ELSE <<_kfree(Move(new[1], new[2], b, bytes \div WSIZE), b), new[2]>>

-----------------------------------------------------------------------------
(* Boot and the calls.                                                     *)

\* initKernelHeap: two unused words, two fences and the first chunk.
Boot ==
  extend_heap([mem   |-> [w \in 0 .. MaxWords - 1 |-> IF w \in {2, 3} THEN FENCE ELSE Junk],
               lists |-> [i \in Classes |-> <<>>], brk |-> 4], CHUNKSIZE)[1]

Init == H = Boot /\ live = {} /\ fault = FALSE

\* The caller writes its data into words k and up of the block; what lies
\* behind the size it asked for means nothing.
Fill(h, b, k, size) ==
  [h EXCEPT !.mem = [w \in DOMAIN @ |->
     IF w - b - 1 \notin k .. blk_size(h, b) - 3 THEN @[w]
     ELSE IF w - b - 1 < size \div WSIZE THEN Data(w - b - 1) ELSE Junk]]

\* kmalloc, and kcalloc when zero: its memset also runs on a null pointer.
Allocate(size, zero) ==
  LET r == _kmalloc(H, size)
  IN  /\ ~fault /\ Cardinality(live) < MaxLive
      /\ IF r[2] = NULL THEN H' = r[1] /\ UNCHANGED live
         ELSE H' = Fill(r[1], r[2], 0, size) /\ live' = live \union {<<r[2], size>>}
      /\ fault' = (zero /\ r[2] = NULL /\ size > 0)

kmalloc(size) == Allocate(size, FALSE)
kcalloc(size) == Allocate(size, TRUE)

kfree(a) ==
  /\ ~fault
  /\ H' = _kfree(H, a[1])
  /\ live' = live \ {a}
  /\ UNCHANGED fault

krealloc(a, size) ==
  LET r == _krealloc(H, a[1], size)
  IN  /\ ~fault
      /\ IF r[2] = NULL
         THEN H' = r[1] /\ live' = IF size = 0 THEN live \ {a} ELSE live
         ELSE /\ H' = Fill(r[1], r[2], Min({size, a[2]}) \div WSIZE, size)
              /\ live' = (live \ {a}) \union {<<r[2], size>>}
      /\ UNCHANGED fault

Next ==
  \/ \E size \in Asked : kmalloc(size) \/ kcalloc(size)
  \/ \E a \in live : kfree(a)
  \/ \E a \in live, size \in Asked : krealloc(a, size)

Spec == Init /\ [][Next]_vars

-----------------------------------------------------------------------------
(* Properties.                                                             *)

\* The blocks, walking the headers up from the first.
Blocks ==
  LET at[k \in 0 .. MaxWords] ==
        LET b == at[k - 1]
        IN  IF k = 0 THEN 3 ELSE IF b >= H.brk - 1 THEN b ELSE next_blk(H, b)
  IN  {at[k] : k \in 0 .. H.brk \div MIN_BLOCK_SIZE_WORDS + 1} \ {H.brk - 1}

\* The blocks fill the heap from the prologue to the epilogue: every footer
\* repeats its header, no block is too small to hold a list element, and two
\* free blocks are never neighbours, whatever sequence of kmalloc, krealloc and
\* kfree split and joined them.
Tiled ==
  /\ H.mem[2] = FENCE /\ H.mem[H.brk - 1] = FENCE
  /\ \A b \in Blocks :
       /\ blk_size(H, b) >= MIN_BLOCK_SIZE_WORDS
       /\ next_blk(H, b) \in Blocks \union {H.brk - 1}
       /\ H.mem[next_blk(H, b) - 1] = H.mem[b]
       /\ blk_free(H, b) => ~blk_free(H, next_blk(H, b))

\* The free lists hold exactly the free blocks, each once, on the list of its
\* size: coalesce, place and krealloc take a block off before its tags change.
FreeBlocksListed ==
  /\ \A b \in Blocks : blk_free(H, b) =>
       b \in Range(H.lists[get_seg_index(blk_size(H, b))])
  /\ FoldSet(LAMBDA i, n : n + Len(H.lists[i]), 0, Classes)
     = Cardinality({b \in Blocks : blk_free(H, b)})

\* Every allocation that is live has a block of its own, in use, aligned and
\* large enough, every block in use belongs to one, and what its owner wrote
\* is there: no tag, no other caller and none of krealloc's moves has touched
\* it, also when krealloc failed.
LiveIntact ==
  /\ {b \in Blocks : ~blk_free(H, b)} = {a[1] : a \in live}
  /\ \A a, c \in live : a[1] = c[1] => a = c
  /\ \A a \in live :
       /\ (a[1] + 1) * WSIZE % ALIGNMENT = 0
       /\ (blk_size(H, a[1]) - 2) * WSIZE >= a[2]
       /\ \A k \in 0 .. a[2] \div WSIZE - 1 : H.mem[a[1] + 1 + k] = Data(k)

\* kmalloc refuses a size only when the heap cannot grow by it and find_fit's
\* limit hides every free block that would do: at least SEARCH + 2 blocks of
\* its list come before it and are too small.
RefusedOnlyFull ==
  \A s \in Asked :
    s > 0 /\ bsize(s) >= s /\ _kmalloc(H, s)[2] = NULL =>
      /\ H.brk + Larger(awords(s), CHUNKSIZE) > MaxWords
      /\ \A b \in Blocks : blk_free(H, b) /\ blk_size(H, b) >= awords(s) =>
           LET l == H.lists[get_seg_index(blk_size(H, b))]
           IN  \E k \in DOMAIN l :
                 /\ l[k] = b
                 /\ \A j \in 1 .. SEARCH + 2 : j < k /\ blk_size(H, l[j]) < awords(s)
=============================================================================
