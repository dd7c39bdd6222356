-------------------------------- MODULE Dump --------------------------------
(***************************************************************************)
(* hex_dump and print_human_readable_size, libc/stdio.c.  A step is one    *)
(* turn of their loops; a printed line is its address and its columns.     *)
(***************************************************************************)
EXTENDS Integers, Sequences

CONSTANTS
  PER_LINE,   \* bytes of a line, 16 in the code
  FACTOR,     \* the step between units, 1024 in the code
  MaxOfs, MaxSize

VARIABLES
  ofs, buf, size,  \* the arguments, as the loop moves them on
  ascii,
  lines,           \* the lines printed
  amount, unit,    \* the size, scaled down, and its unit
  call             \* [ofs, size]: the arguments of the calls

vars == <<ofs, buf, size, ascii, lines, amount, unit, call>>

Blank == -1
Units == <<"bytes", "kB", "MB", "GB", "TB">>

Init ==
  /\ ofs \in 0 .. MaxOfs /\ size \in 0 .. MaxSize /\ ascii \in BOOLEAN
  /\ buf = 0 /\ lines = <<>>
  /\ amount = size /\ unit = 1
  /\ call = [ofs |-> ofs, size |-> size]

\* Mutant: the first line takes a whole line's bytes wherever it starts.
EndOfWhole(start) == IF PER_LINE > size THEN start + size ELSE PER_LINE

EndOf(start) == IF PER_LINE - start > size THEN start + size ELSE PER_LINE

\* Bytes are named by their index in the buffer.
hex_dump ==
  /\ size > 0
  /\ LET start == ofs % PER_LINE
         end   == EndOf(start)
         n     == end - start
         Column(i) == IF start < i /\ i <= end THEN buf + (i - 1 - start) ELSE Blank
     IN  /\ lines' = Append(lines, [addr |-> ofs - start,
                hex |-> [i \in 1 .. (IF ascii THEN PER_LINE ELSE end) |-> Column(i)],
                text |-> [i \in 1 .. (IF ascii THEN PER_LINE ELSE 0) |-> Column(i)]])
         /\ ofs' = ofs + n /\ buf' = buf + n /\ size' = size - n
  /\ UNCHANGED <<ascii, amount, unit, call>>

\* Mutant: the end of the table of units is not tested.
print_human_readable_sizeOver ==
  /\ amount >= FACTOR
  /\ amount' = amount \div FACTOR /\ unit' = unit + 1
  /\ UNCHANGED <<ofs, buf, size, ascii, lines, call>>

print_human_readable_size ==
  /\ amount >= FACTOR /\ unit < Len(Units)
  /\ amount' = amount \div FACTOR /\ unit' = unit + 1
  /\ UNCHANGED <<ofs, buf, size, ascii, lines, call>>

Next == hex_dump \/ print_human_readable_size

Spec == Init /\ [][Next]_vars

-----------------------------------------------------------------------------
(* Properties.                                                             *)

\* The dump shows every byte of the buffer once, in the column and on the line
\* of its address, the bytes to the right in the same columns; the lines start
\* at multiples of PER_LINE, also when the first byte is not at one.
DumpComplete ==
  /\ \A k \in DOMAIN lines :
       LET l == lines[k]
       IN  /\ l.addr = ((call.ofs \div PER_LINE) + k - 1) * PER_LINE
           /\ \A i \in DOMAIN l.hex : l.hex[i] # Blank => call.ofs + l.hex[i] = l.addr + i - 1
           /\ ascii => l.hex = l.text
  /\ \A b \in 0 .. buf - 1 :
       \E k \in DOMAIN lines : \E i \in DOMAIN lines[k].hex : lines[k].hex[i] = b
  /\ size = 0 => buf = call.size

\* However often it was scaled down, the size is the one given, rounded down in
\* a unit that there is and of which it has at least one.
HumanSize ==
  /\ unit \in DOMAIN Units
  /\ amount * FACTOR^(unit - 1) <= call.size
  /\ call.size < (amount + 1) * FACTOR^(unit - 1)
  /\ unit > 1 => amount > 0
=============================================================================
