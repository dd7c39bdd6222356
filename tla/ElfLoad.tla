------------------------------ MODULE ElfLoad ------------------------------
(***************************************************************************)
(* Loading programs: the address space part of threadCreate in             *)
(* threads/thread.c, elfLoad in user/elf.c and mm/addressspace.  The       *)
(* kernel writes a program through the new address space, with pages that  *)
(* it makes writeable, and then takes the right away; the TLB keeps the    *)
(* rights a page had when it was first touched until CR3 is loaded.        *)
(*                                                                         *)
(* A byte of a file is its offset plus 1, a byte of memory is a byte of    *)
(* the file, 0, or Old for what was on the page before.  Page tables are   *)
(* those of module Paging, seen as a map from pages to rights and bytes.   *)
(***************************************************************************)
EXTENDS Integers, Sequences, FiniteSets, FiniteSetsExt

CONSTANTS
  PAGE_SIZE,
  Programs,   \* files: [magic, entry, segs], segs a sequence of
              \* [type, flags, offset, vaddr, size_file, size_mem]
  NULL,       \* no file
  Types,      \* what the variable type, never assigned, may hold
  Stacks,     \* the four stack entries of thread 0: a sequence of [flags, top]
  STACK_SIZE,
  STACK_STEP  \* from a stack to that of the next thread, 0x1000000 in the code

VARIABLES
  pc,       \* step of threadCreate
  made,     \* the files of the address spaces so far, the last one at work
  i,        \* elfLoad's loop counter
  entries,  \* space->entries, of each address space
  table,    \* the new pages of each address space: [page -> [flags, bytes]]
  cr3,      \* the address space that is loaded, 0 for the kernel's
  tlb,      \* [page -> flags]
  entry     \* elfLoad's result, of each address space

vars == <<pc, made, i, entries, table, cr3, tlb, entry>>

Old == -1
Failed == -1   \* -1UL
Now == Len(made)
Seg == made[Now].segs[i]

ALIGN_TO_PAGE(v) == v \div PAGE_SIZE
GET_NUM_PAGES(size) == (size + PAGE_SIZE - 1) \div PAGE_SIZE

Over(f, g) == [p \in DOMAIN f \cup DOMAIN g |-> IF p \in DOMAIN g THEN g[p] ELSE f[p]]
None == [p \in {} |-> {}]

-----------------------------------------------------------------------------
(* mm/addressspace, and the paging calls it makes.                         *)

\* ADDRSPACE_FLAG_UNCACHEABLE has no user and is left out.
convAddrSpaceFlagsToPaging(flags) ==
  {"present"} \cup (flags \cap {"write", "user"})
    \cup (IF "exec" \in flags THEN {} ELSE {"noexec"})

\* A page that was mapped already is mapped again, to a new one.
vmallocCR3(t, start, pages, flags) ==
  Over(t, [p \in start .. start + pages - 1 |->
             [flags |-> flags, bytes |-> [b \in 0 .. PAGE_SIZE - 1 |-> Old]]])

\* The mask of vflagsHelper keeps the bit that forbids execution.
vflagsCR3(t, start, pages, flags) ==
  [p \in DOMAIN t |->
     IF p \in start .. start + pages - 1
     THEN [t[p] EXCEPT !.flags = (@ \cap {"noexec"}) \cup flags] ELSE t[p]]

\* The entries and the table after addressSpaceAddEntry.
addressSpaceAddEntry(es, t, type, flags, size, start) ==
  <<Append(es, [type |-> type, flags |-> flags, size |-> size, start |-> start]),
    vmallocCR3(t, ALIGN_TO_PAGE(start), GET_NUM_PAGES(size), convAddrSpaceFlagsToPaging(flags))>>

\* The flags of the entry with the given index, from 1 here.
addressSpaceChangeFlags(es, t, n, flags) ==
  <<[es EXCEPT ![n].flags = flags],
    vflagsCR3(t, ALIGN_TO_PAGE(es[n].start), GET_NUM_PAGES(es[n].size),
              convAddrSpaceFlagsToPaging(flags))>>

\* The rights an access finds: the TLB first, then the table of CR3.
Rights(p) == IF p \in DOMAIN tlb THEN tlb[p]
             ELSE IF p \in DOMAIN table[cr3] THEN table[cr3][p].flags ELSE {}

\* Mutant: the TLB keeps its entries.
pagingSetCR3Kept(space) == cr3' = space /\ UNCHANGED tlb

pagingSetCR3(space) == cr3' = space /\ tlb' = None

-----------------------------------------------------------------------------
(* threadCreate and elfLoad.                                               *)

Init ==
  /\ pc = "idle" /\ made = <<>> /\ i = 1
  /\ entries = <<>> /\ table = <<>> /\ entry = <<>>
  /\ cr3 = 0 /\ tlb = None

\* pagingCreateUser, addressSpaceNew, and elfLoad up to its loop.  A null file
\* and a wrong magic number end it.  addressSpaceNew has no return statement:
\* the compiled function leaves kmalloc's result, the new space, in rax.
Create(file) ==
  /\ pc = "idle" /\ Len(made) < 2
  /\ made' = Append(made, file)
  /\ entries' = Append(entries, <<>>)
  /\ table' = Append(table, None)
  /\ pagingSetCR3(Now + 1)
  /\ IF file # NULL /\ file.magic
     THEN pc' = "segment" /\ i' = 1 /\ UNCHANGED entry
     ELSE pc' = "loaded" /\ entry' = Append(entry, Failed) /\ UNCHANGED i

\* The rights of the loader, whatever the segment asks for.
Loading == {"user", "write", "exec"}

\* Mutant: the segment's own rights at once.
SegmentFlagsOwn == {"user"} \cup (Seg.flags \cap {"write", "exec"})

SegmentFlags == Loading

AddSegment ==
  /\ pc = "segment" /\ i <= Len(made[Now].segs)
  /\ Seg.type = "LOAD"
  /\ \E type \in Types :
       LET r == addressSpaceAddEntry(entries[Now], table[Now], type, SegmentFlags,
                                     Seg.size_mem, Seg.vaddr)
       IN  entries' = [entries EXCEPT ![Now] = r[1]] /\ table' = [table EXCEPT ![Now] = r[2]]
  /\ pc' = "copy"
  /\ UNCHANGED <<made, i, cr3, tlb, entry>>

\* The byte of the file that the byte b of the segment comes from.
Source(b) == Seg.offset + b + 1

\* memset and memcpy.  A page that may not be written ends in the page fault
\* handler, which stops the processor.
CopySegment ==
  LET at == Seg.vaddr .. Seg.vaddr + Seg.size_mem - 1
      touched == {ALIGN_TO_PAGE(a) : a \in at}
      byte(p, b) == LET a == p * PAGE_SIZE + b
                    IN  IF a \in at THEN Source(a - Seg.vaddr) ELSE table[Now][p].bytes[b]
  IN  /\ pc = "copy"
      /\ IF \A p \in touched : "write" \in Rights(p)
         THEN /\ tlb' = Over(tlb, [p \in touched |-> Rights(p)])
              /\ table' = [table EXCEPT ![Now] = [p \in DOMAIN @ |->
                   IF p \in touched THEN [@[p] EXCEPT !.bytes = [b \in DOMAIN @ |-> byte(p, b)]]
                   ELSE @[p]]]
              /\ pc' = "protect"
         ELSE pc' = "fault" /\ UNCHANGED <<tlb, table>>
      /\ UNCHANGED <<made, i, entries, cr3, entry>>

\* The entry is found by the number of the segment.
ProtectSegment ==
  LET r == addressSpaceChangeFlags(entries[Now], table[Now], i,
             {"user"} \cup (Seg.flags \cap {"write", "exec"}))
  IN  /\ pc = "protect"
      /\ entries' = [entries EXCEPT ![Now] = r[1]]
      /\ table' = [table EXCEPT ![Now] = r[2]]
      /\ i' = i + 1 /\ pc' = "segment"
      /\ UNCHANGED <<made, cr3, tlb, entry>>

OtherSegment ==
  /\ pc = "segment" /\ i <= Len(made[Now].segs)
  /\ Seg.type # "LOAD"
  /\ entry' = Append(entry, Failed) /\ pc' = "loaded"
  /\ UNCHANGED <<made, i, entries, table, cr3, tlb>>

AllSegments ==
  /\ pc = "segment" /\ i > Len(made[Now].segs)
  /\ entry' = Append(entry, made[Now].entry) /\ pc' = "loaded"
  /\ UNCHANGED <<made, i, entries, table, cr3, tlb>>

\* The CR3 of before, and the four stacks.
Finish ==
  LET add(r, s) == addressSpaceAddEntry(r[1], r[2], "STACK", s.flags, STACK_SIZE,
                                        s.top + STACK_STEP * (Now - 1) - STACK_SIZE)
      r4 == add(add(add(add(<<entries[Now], table[Now]>>, Stacks[1]), Stacks[2]),
                    Stacks[3]), Stacks[4])
  IN  /\ pc = "loaded"
      /\ pagingSetCR3(0)
      /\ entries' = [entries EXCEPT ![Now] = r4[1]]
      /\ table' = [table EXCEPT ![Now] = r4[2]]
      /\ pc' = "idle"
      /\ UNCHANGED <<made, i, entry>>

\* threadContextSwitch, once the threads have been made.
Run(space) ==
  /\ pc = "idle" /\ Len(made) = 2
  /\ pagingSetCR3(space)
  /\ UNCHANGED <<pc, made, i, entries, table, entry>>

\* The running program touches a page it has.
Touch(p) ==
  /\ pc = "idle" /\ cr3 # 0 /\ p \in DOMAIN table[cr3]
  /\ tlb' = Over(tlb, [q \in {p} |-> Rights(p)])
  /\ UNCHANGED <<pc, made, i, entries, table, cr3, entry>>

Next ==
  \/ \E file \in Programs \cup {NULL} : Create(file)
  \/ AddSegment \/ CopySegment \/ ProtectSegment \/ OtherSegment \/ AllSegments
  \/ Finish
  \/ \E space \in 1 .. 2 : Run(space)
  \/ \E p \in UNION {DOMAIN table[s] : s \in DOMAIN table} : Touch(p)

Spec == Init /\ [][Next]_vars

-----------------------------------------------------------------------------
(* Properties.                                                             *)

Byte(s, a) == table[s][a \div PAGE_SIZE].bytes[a % PAGE_SIZE]

\* The address spaces whose program was accepted to the last segment.
Whole == {s \in 1 .. Len(entry) : entry[s] # Failed}

Segments(s) == {made[s].segs[n] : n \in DOMAIN made[s].segs}

\* elfLoad is not stopped by a page fault of its own, and every byte that a
\* segment has in the file is at its address in the new address space; loading
\* a second program and adding the stacks does not change that.
FileInMemory ==
  /\ pc # "fault"
  /\ \A s \in Whole : \A g \in Segments(s) : \A b \in 0 .. g.size_file - 1 :
       Byte(s, g.vaddr + b) = g.offset + b + 1

\* Every access of a running program, through the TLB or the tables, finds the
\* rights of the segment the page belongs to, and not those of the loader or
\* of another program.
SegmentRights ==
  pc = "idle" /\ cr3 \in Whole =>
    \A g \in Segments(cr3) : \A a \in g.vaddr .. g.vaddr + g.size_mem - 1 :
      LET f == Rights(ALIGN_TO_PAGE(a))
      IN  /\ "user" \in f
          /\ "write" \in f <=> "write" \in g.flags
          /\ "noexec" \in f <=> "exec" \notin g.flags
=============================================================================
