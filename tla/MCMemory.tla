------------------------------ MODULE MCMemory ------------------------------
(***************************************************************************)
(* Lists, the heap, page tables, the program loader and the C library on   *)
(* small instances.  These components share no state.  A behaviour is one  *)
(* of the component that part names, and x1 .. x8 are its variables, in    *)
(* the order in which its module declares them; the others stay 0.         *)
(***************************************************************************)
EXTENDS Integers, Sequences, TLC

CONSTANTS e1, e2, e3, e4, nil, Junk

VARIABLES part, x1, x2, x3, x4, x5, x6, x7, x8

-----------------------------------------------------------------------------
(* Lists: two with three elements, and one with four, two of them equal.   *)

McVal == e1 :> 1 @@ e2 :> 2 @@ e3 :> 2 @@ e4 :> 3
Two == INSTANCE LinkedList WITH h <- x1, Lists <- {"x", "y"}, Elems <- {e1, e2, e3}, val <- McVal,
         NULL <- nil
One == INSTANCE LinkedList WITH h <- x1, Lists <- {"x"}, Elems <- {e1, e2, e3, e4}, val <- McVal,
         NULL <- nil

-----------------------------------------------------------------------------
(* The heap: with sizes that wrap size_t, that become negative as an int,  *)
(* and that do neither; and with a search limit that blocks run into.      *)

Heap1 == INSTANCE Heap WITH H <- x1, live <- x2, fault <- x3, MAX_HEAP <- 640, INT_BITS <- 12,
           SIZE_BITS <- 13, SEARCH <- 11, Sizes <- {0, 40, 120, 3000, 8180}, MaxLive <- 3
Heap2 == INSTANCE Heap WITH H <- x1, live <- x2, fault <- x3, MAX_HEAP <- 616, INT_BITS <- 12,
           SIZE_BITS <- 13, SEARCH <- 0, Sizes <- {72, 104}, MaxLive <- 5

-----------------------------------------------------------------------------
(* Paging: three levels of four entries, and so 64 addresses.              *)

Zero == <<0, {}>>
K == {"P", "W"}
U == {"P", "W", "U"}

\* Page 1 is the top table.  Pages 2 and 3 map addresses 0 and 1 to
\* themselves; pages 4 and 5 map address 63, the kernel image, to page 6.
Table(e) == [i \in 0 .. 3 |-> IF i \in DOMAIN e THEN e[i] ELSE Zero]
McBoot(pages) ==
  [p \in 0 .. pages - 1 |->
     CASE p = 1 -> Table(0 :> <<2, K>> @@ 3 :> <<4, K>>)
       [] p = 2 -> Table(0 :> <<3, K>>)
       [] p = 3 -> Table(0 :> <<0, K>> @@ 1 :> <<1, K>>)
       [] p = 4 -> Table(3 :> <<5, K>>)
       [] p = 5 -> Table(3 :> <<6, K>>)
       [] OTHER -> Table(<<>>)]

\* A range across two tables, and a kernel stack under a table of its own; then
\* a range with address 0, and a kernel stack under a top entry that is not there
\* at boot.  Free pages hold zeros, but for one or two.
Left == Table(1 :> <<6, K>> @@ 2 :> <<5, K>>)
Boot1 == McBoot(21)
Boot2 == McBoot(16)
Paging1 == INSTANCE Paging WITH m <- x1, spaces <- x2, up <- x3, lock <- x4, LEVELS <- 3,
             ENTRIES <- 4, NUM_ALLOC <- 4, mem_pages <- 21, BootMem <- Boot1, Root <- 1,
             Blocks <- {8, 12, 16}, Stale <- Left, Dirty <- {{}, {9}, {12, 18}},
             Image <- 63, Calls <- {<<7, 2>>, <<50, 1>>}, FlagSets <- {U}, Pfree <- BOOLEAN,
             MaxSpaces <- 2
Paging2 == INSTANCE Paging WITH m <- x1, spaces <- x2, up <- x3, lock <- x4, LEVELS <- 3,
             ENTRIES <- 4, NUM_ALLOC <- 4, mem_pages <- 16, BootMem <- Boot2, Root <- 1,
             Blocks <- {8, 12}, Stale <- Left, Dirty <- {{}, {10}},
             Image <- 63, Calls <- {<<0, 2>>, <<7, 2>>, <<33, 1>>}, FlagSets <- {U},
             Pfree <- {TRUE}, MaxSpaces <- 2

-----------------------------------------------------------------------------
(* Programs.                                                               *)

seg(type, flags, offset, vaddr, size_file, size_mem) ==
  [type |-> type, flags |-> flags, offset |-> offset, vaddr |-> vaddr,
   size_file |-> size_file, size_mem |-> size_mem]
rw == {"read", "write"}
text == seg("LOAD", {"read", "exec"}, 4, 8, 3, 3)

\* resources/testprog.elf, whose data segment is .bss only, at offset 0; .data
\* and .bss in one segment over two pages; a segment that elfLoad does not
\* know; no ELF file.
McPrograms ==
  {[magic |-> TRUE, entry |-> 8, segs |->
      <<text, seg("LOAD", {"read"}, 8, 12, 2, 2), seg("LOAD", rw, 0, 16, 0, 2)>>],
   [magic |-> TRUE, entry |-> 8, segs |-> <<text, seg("LOAD", rw, 8, 12, 3, 6)>>],
   [magic |-> TRUE, entry |-> 8, segs |-> <<text, seg("NOTE", {"read"}, 8, 12, 2, 2)>>],
   [magic |-> FALSE, entry |-> 0, segs |-> <<>>]}
McStacks == <<[flags |-> rw \cup {"user"}, top |-> 40], [flags |-> rw, top |-> 56],
              [flags |-> rw, top |-> 72], [flags |-> rw, top |-> 88]>>
Elf == INSTANCE ElfLoad WITH pc <- x1, made <- x2, i <- x3, entries <- x4, table <- x5, cr3 <- x6,
         tlb <- x7, entry <- x8, PAGE_SIZE <- 4, Programs <- McPrograms, Types <- {"CODE"},
         Stacks <- McStacks, STACK_SIZE <- 4, STACK_STEP <- 100, NULL <- nil

-----------------------------------------------------------------------------
(* The C library.                                                          *)

\* Five bytes and a terminator; one of the characters is negative as a char.
Str == INSTANCE Strings WITH mem <- x1, p <- x2, ret <- x3, orig <- x4, tokens <- x5,
         Size <- 5, Chars <- {0, 65, 200}

McBits == [t \in {"CHAR", "SHORT", "INT", "LONG", "LONGLONG", "INTMAX", "PTRDIFFT", "SIZET"} |->
             CASE t = "CHAR" -> 8 [] t = "SHORT" -> 10 [] t = "INT" -> 12 [] OTHER -> 14]

FlagSeqs == {<<>>, <<"-">>, <<"0">>, <<"+">>, <<" ">>, <<"#">>, <<"'">>, <<"#", "0">>,
             <<"-", "0">>, <<"+", "0", " ">>, <<"'", "-", "#">>}
Types == {<<>>, <<"h", "h">>, <<"h">>, <<"l">>, <<"l", "l">>, <<"z">>, <<"j">>, <<"t">>}
Values == {0, 8, 200, 2048, 8191, 8192}

Format(flags, width, prec, type, conv) == <<"%">> \o flags \o width \o prec \o type \o <<conv>>

\* Every flag with every field and conversion; every type.
McIntegers ==
  {<<Format(f, w, q, <<"l">>, k), (IF w = <<"*">> THEN <<7>> ELSE <<>>) \o <<v>>>> :
     f \in FlagSeqs, w \in {<<>>, <<"8">>, <<"*">>}, q \in {<<>>, <<".">>, <<".", "6">>},
     k \in {"d", "u", "o", "X"}, v \in Values}
  \cup {<<Format(<<>>, <<>>, <<".", "*">>, t, k), <<q, v>>>> :
          t \in Types, k \in {"i", "u", "x"}, q \in {-1, 2}, v \in Values}

\* Text, characters, strings, pointers and what is not supported, in pairs.
Pieces ==
  {<<Format(f, w, q, <<>>, "s"), <<s>>>> : f \in {<<>>, <<"-">>}, w \in {<<>>, <<"3">>},
      q \in {<<>>, <<".", "1">>}, s \in {<<"NULL">>, <<"a", "b">>}}
  \cup {<<Format(<<>>, w, <<>>, <<>>, "p"), <<v>>>> : w \in {<<>>, <<"6">>}, v \in {0, 300}}
  \cup {<<Format(<<>>, <<"2">>, <<>>, <<>>, "c"), <<"a">>>>, <<<<"%", "%">>, <<>>>>,
        <<<<"a", "b">>, <<>>>>, <<<<"%", "f">>, <<>>>>, <<<<"%", "*", "y">>, <<1>>>>}
McText == {<<p[1] \o q[1], p[2] \o q[2]>> : p, q \in Pieces}

\* Integers; and text that does or does not fit its buffer.
Printf1 == INSTANCE Printf WITH format <- x1, at <- x2, args <- x3, aux <- x4, buffer <- x5,
             out <- x6, made <- x7, done <- x8, BUF <- 64, Bits <- McBits, Jobs <- McIntegers,
             Sizes <- {7}
Printf2 == INSTANCE Printf WITH format <- x1, at <- x2, args <- x3, aux <- x4, buffer <- x5,
             out <- x6, made <- x7, done <- x8, BUF <- 64, Bits <- McBits, Jobs <- McText,
             Sizes <- {0, 1, 4, 12}

\* Lines of four bytes and units of factor two.
Dmp == INSTANCE Dump WITH ofs <- x1, buf <- x2, size <- x3, ascii <- x4, lines <- x5,
         amount <- x6, unit <- x7, call <- x8, PER_LINE <- 4, FACTOR <- 2, MaxOfs <- 4,
         MaxSize <- 33

-----------------------------------------------------------------------------
(* All of them.                                                            *)

From4 == <<x4, x5, x6, x7, x8>>
From5 == <<x5, x6, x7, x8>>
vars == <<part, x1, x2, x3, From4>>

Idle6 == x6 = 0 /\ x7 = 0 /\ x8 = 0
Idle4 == x4 = 0 /\ x5 = 0 /\ Idle6
Idle2 == x2 = 0 /\ x3 = 0 /\ Idle4

Init ==
  \/ part = "two lists" /\ Two!Init /\ Idle2
  \/ part = "one list" /\ One!Init /\ Idle2
  \/ part = "heap" /\ Heap1!Init /\ Idle4
  \/ part = "heap search" /\ Heap2!Init /\ Idle4
  \/ part = "paging" /\ Paging1!Init /\ x5 = 0 /\ Idle6
  \/ part = "paging entry" /\ Paging2!Init /\ x5 = 0 /\ Idle6
  \/ part = "elf" /\ Elf!Init
  \/ part = "string" /\ Str!Init /\ Idle6
  \/ part = "integers" /\ Printf1!Init
  \/ part = "buffer" /\ Printf2!Init
  \/ part = "dump" /\ Dmp!Init

Next ==
  \/ part = "two lists" /\ Two!Next /\ UNCHANGED <<part, x2, x3, From4>>
  \/ part = "one list" /\ One!Next /\ UNCHANGED <<part, x2, x3, From4>>
  \/ part = "heap" /\ Heap1!Next /\ UNCHANGED <<part, From4>>
  \/ part = "heap search" /\ Heap2!Next /\ UNCHANGED <<part, From4>>
  \/ part = "paging" /\ Paging1!Next /\ UNCHANGED <<part, From5>>
  \/ part = "paging entry" /\ Paging2!Next /\ UNCHANGED <<part, From5>>
  \/ part = "elf" /\ Elf!Next /\ UNCHANGED part
  \/ part = "string" /\ Str!Next /\ UNCHANGED <<part, x6, x7, x8>>
  \/ part = "integers" /\ Printf1!Next /\ UNCHANGED part
  \/ part = "buffer" /\ Printf2!Next /\ UNCHANGED part
  \/ part = "dump" /\ Dmp!Next /\ UNCHANGED part

Spec == Init /\ [][Next]_vars

-----------------------------------------------------------------------------
(* Properties.                                                             *)

TwoSpec == INSTANCE ListSpec WITH Lists <- {"x", "y"}, Elems <- {e1, e2, e3}, val <- McVal,
             seq <- IF part = "two lists" THEN Two!Contents ELSE [l \in {"x", "y"} |-> <<>>]
OneSpec == INSTANCE ListSpec WITH Lists <- {"x"}, Elems <- {e1, e2, e3, e4}, val <- McVal,
             seq <- IF part = "one list" THEN One!Contents ELSE [l \in {"x"} |-> <<>>]

\* Every call of list.c does to the lists what its comment says: a removal takes
\* out that element only, a reversal, a stable sort, a splice, list_unique and
\* list_insert_ordered change the sequences as module ListSpec defines.  The
\* links agree in both directions, list_max and list_min return the earliest of
\* several extremes, and an ordered insertion is behind its equals.
ListsAreSequences ==
  /\ TwoSpec!Spec /\ OneSpec!Spec
  /\ [](part = "two lists" => Two!BothWays)
  /\ [](part = "one list" => One!BothWays /\ One!EarliestExtreme)
  /\ [][part = "one list" => One!OrderedInsert]_vars

\* Through every case of kmalloc, kcalloc, krealloc and kfree (heap.c) the blocks
\* fill the heap without gaps, the free lists hold exactly the free blocks, each
\* on the list of its size, and what callers hold is theirs and intact.  A size
\* is refused only when the heap is full or find_fit's limit hides every block.
HeapSound ==
  /\ part = "heap" => Heap1!Tiled /\ Heap1!FreeBlocksListed /\ Heap1!LiveIntact
  /\ part = "heap search" => Heap2!RefusedOnlyFull

\* As long as pmm.c has blocks and the pages taken for tables were zero, a page
\* (paging.c) has one use at a time, in one place, and the kernel half under the
\* entry of the kernel image means the same in every address space.
PagesAccounted ==
  /\ part = "paging" => Paging1!PagesAccounted /\ Paging1!KernelHalfShared
  /\ part = "paging entry" => Paging2!KernelHalfShared

\* Under the same conditions a call of paging.c changes the meaning of one range
\* of addresses only.
OnlyAsked ==
  [][/\ part = "paging" => Paging1!OnlyAsked
     /\ part = "paging entry" => Paging2!OnlyAsked]_vars

\* elfLoad (elf.c) puts the bytes of the file where its segments say, and a
\* running program finds the rights of its segments, not the loader's.
ProgramLoaded == part = "elf" => Elf!FileInMemory /\ Elf!SegmentRights

\* The functions of string.c: memmove copies overlapping ranges, the copies write
\* the string they should and nothing behind it, the searches find the first or
\* last place there is, strcmp takes a prefix for equal, strtok returns all
\* tokens over several calls; kmoduleFindByPath (kmodule.c) returns the first
\* module with that prefix.
StringFunctions ==
  part = "string" => /\ Str!MoveOverlap /\ Str!CopiesBounded /\ Str!Searches
                     /\ Str!PrefixEqual /\ Str!TokensSplit /\ Str!ModuleLookup

\* The functions of stdio.c: an integer that is printed reads back as the
\* argument, with sign, prefix and zeros where the comments say; padding fills the
\* field and no more; vsnkprintf keeps to its buffer and counts the whole output;
\* hex_dump prints every byte once, in its column; a size is printed in a unit
\* there is.
Formatting ==
  /\ part = "integers" => Printf1!ReadBack /\ Printf1!FieldFilled /\ Printf1!IntegerComments
  /\ part = "buffer" => Printf2!FieldFilled /\ Printf2!BufferDoc
  /\ part = "dump" => Dmp!DumpComplete /\ Dmp!HumanSize
=============================================================================
