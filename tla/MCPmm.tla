------------------------------- MODULE MCPmm -------------------------------
(* Small memory maps for Pmm.                                              *)
EXTENDS Pmm

Entry(b, l, t) == [base |-> b, length |-> l, type |-> t]

\* 32 pages of 4 bytes; the bitmaps (4 + 2 + 1 bytes) fill page 1 and end
\* inside page 2.  Usable pages: 2 to 9, so that the first and the last block
\* are partial.
MapSmall == << Entry(0, 4, "reserved"), Entry(4, 36, "usable"),
               Entry(40, 88, "reserved") >>

\* 64 pages of 15 bytes and four bitmaps (8 + 4 + 2 + 1 bytes, in page 1).
\* Usable pages: 5 and 6 in one region, 8 to 15, a block of the highest
\* order, in another.
MapDeep == << Entry(0, 15, "reserved"), Entry(15, 15, "usable"),
              Entry(75, 30, "usable"), Entry(105, 15, "reserved"),
              Entry(120, 120, "usable"), Entry(240, 720, "reserved") >>

\* 40 pages of 8 bytes: the first bitmap has 5 bytes, so the second should
\* have 2 and a half; it has 2.
MapOdd == << Entry(0, 8, "reserved"), Entry(8, 72, "usable"),
             Entry(80, 240, "reserved") >>
=============================================================================
