-------------------------------- MODULE Pci --------------------------------
(***************************************************************************)
(* The PCI configuration space, device/pci/pci.c, and how initNVMe in      *)
(* device/nvme/nvme.c finds its controller there and turns its interrupts  *)
(* on.  A register is a tuple of four bytes, the lowest first; registers   *)
(* are numbered by offset / 4.                                             *)
(***************************************************************************)
EXTENDS Integers, Sequences, FiniteSets, SequencesExt

CONSTANTS
  Buses, Devs,   \* 0 .. 255 and 0 .. 31 in the code
  Spaces,        \* the configuration spaces a device may have
  Garbage        \* bits of the command word that initNVMe leaves undefined

VARIABLES
  space,   \* [Buses \X Devs -> registers]
  pc,      \* where initNVMe is
  at,      \* <<nvme_bus, nvme_dev>>
  table    \* what the driver takes for the MSI-X table: [base, offset, size]

vars == <<space, pc, at, table>>

PCI_CLASS_MASS_STORAGE == 1
PCI_SUBCLASS_NVM == 8
MSIX == 17                      \* 0x11
Error == -1

-----------------------------------------------------------------------------
(* Access.  offset & 0xFC selects the register, the low bits the byte.     *)

pciConfigReadLong(d, offset) == space[d][offset \div 4]
pciConfigReadByte(d, offset) == pciConfigReadLong(d, offset)[(offset % 4) + 1]

pciConfigReadWord(d, offset) ==
  LET r == pciConfigReadLong(d, offset)
      i == IF offset % 4 >= 2 THEN 3 ELSE 1
  IN  r[i] + 256 * r[i + 1]

\* Mutant: the device number is left out of the address.
pciConfigWriteLongFirst(d, offset, data) ==
  space' = [space EXCEPT ![<<d[1], 0>>][offset \div 4] = data]

\* Status bits are cleared by writing a one to them.
pciConfigWriteLong(d, offset, data) ==
  space' = [space EXCEPT ![d][offset \div 4] =
              IF offset = 4 THEN <<data[1], data[2], @[3], IF data[4] = @[4] THEN 0 ELSE @[4]>>
              ELSE data]

pciGetBaseClass(d) == pciConfigReadByte(d, 11)
pciGetSubClass(d) == pciConfigReadByte(d, 10)
pciReadStatus(d) == pciConfigReadWord(d, 6)
pciReadCommand(d) == pciConfigReadWord(d, 4)
pciGetBAR(d, bar) == pciConfigReadLong(d, 16 + bar * 4)
pciGetCapPointer(d) == pciConfigReadByte(d, 52)

\* Mutant: the capability that ends the list is not looked at.
CapFromShort(d, cap_base, cap) ==
  IF pciConfigReadByte(d, cap_base + 1) = 0 THEN 0
  ELSE IF pciConfigReadByte(d, cap_base) = cap THEN cap_base ELSE 0

\* The loop of pciGetCapabilityOffset.
RECURSIVE CapFrom(_, _, _)
CapFrom(d, cap_base, cap) ==
  IF pciConfigReadByte(d, cap_base) = cap THEN cap_base
  ELSE IF pciConfigReadByte(d, cap_base + 1) = 0 THEN 0
  ELSE CapFrom(d, pciConfigReadByte(d, cap_base + 1), cap)

pciGetCapabilityOffset(d, cap) == CapFrom(d, pciGetCapPointer(d), cap)

-----------------------------------------------------------------------------
(* Message-signalled interrupts.  An address is <<low, high register>>.    *)

LowBits(r, n) == [r EXCEPT ![1] = @ - (@ % n)]

pciGetMessageTableBaseAddr(d) ==
  LET msix_base == pciGetCapabilityOffset(d, MSIX)
      bar_idx   == pciConfigReadByte(d, msix_base + 4) % 8
      bar0      == pciGetBAR(d, bar_idx)
      x64_bar   == (bar0[1] \div 2) % 4 = 2
  IN  IF msix_base = 0 THEN Error
      ELSE <<LowBits(bar0, 16), IF x64_bar THEN pciGetBAR(d, bar_idx + 1) ELSE <<0, 0, 0, 0>>>>

pciGetMessageTableOffset(d) ==
  LET msix_base == pciGetCapabilityOffset(d, MSIX)
  IN  IF msix_base = 0 THEN Error ELSE LowBits(pciConfigReadLong(d, msix_base + 4), 8)

pciGetMessageTableSize(d) ==
  LET msix_base == pciGetCapabilityOffset(d, MSIX)
  IN  IF msix_base = 0 THEN Error ELSE pciConfigReadWord(d, msix_base + 2) % 2048

-----------------------------------------------------------------------------
(* initNVMe.                                                               *)

IsNvme(d) == pciGetBaseClass(d) = PCI_CLASS_MASS_STORAGE /\ pciGetSubClass(d) = PCI_SUBCLASS_NVM
Before(a, b) == a[1] < b[1] \/ (a[1] = b[1] /\ a[2] < b[2])

\* The two loops over buses and devices; without a controller the device at
\* <<0, 0>> is taken.
Search ==
  LET found == {d \in Buses \X Devs : IsNvme(d)}
  IN  /\ pc = "search" /\ pc' = "table"
      /\ at' = IF found = {} THEN <<0, 0>>
               ELSE CHOOSE d \in found : \A e \in found \ {d} : Before(d, e)
      /\ UNCHANGED <<space, table>>

ReadTable ==
  /\ pc = "table" /\ pc' = "command"
  /\ table' = [base |-> pciGetMessageTableBaseAddr(at),
               offset |-> pciGetMessageTableOffset(at),
               size |-> pciGetMessageTableSize(at)]
  /\ UNCHANGED <<space, at>>

\* bus_master, mem_space and int_disable are set and io_space cleared; the
\* status is written back as it was read.
pciWriteCommand(g) ==
  /\ pc = "command" /\ pc' = "enable"
  /\ pciConfigWriteLong(at, 4, <<6 + g, 4, pciReadStatus(at) % 256, pciReadStatus(at) \div 256>>)
  /\ UNCHANGED <<at, table>>

\* Mutant: the function mask is left as it is.
pciEnableMSIXMasked ==
  LET msix_base == pciGetCapabilityOffset(at, MSIX)
      reg       == pciConfigReadLong(at, msix_base)
  IN  /\ pc = "enable" /\ pc' = "done"
      /\ IF msix_base = 0 THEN UNCHANGED space
         ELSE pciConfigWriteLong(at, msix_base, [reg EXCEPT ![4] = (@ % 128) + 128])
      /\ UNCHANGED <<at, table>>

\* Bit 31 is set and bit 30, the function mask, is cleared.
pciEnableMSIX ==
  LET msix_base == pciGetCapabilityOffset(at, MSIX)
      reg       == pciConfigReadLong(at, msix_base)
  IN  /\ pc = "enable" /\ pc' = "done"
      /\ IF msix_base = 0 THEN UNCHANGED space
         ELSE pciConfigWriteLong(at, msix_base, [reg EXCEPT ![4] = (@ % 64) + 128])
      /\ UNCHANGED <<at, table>>

Init ==
  /\ space \in [Buses \X Devs -> Spaces]
  /\ pc = "search" /\ at = <<0, 0>> /\ table = [base |-> 0]

Next == Search \/ ReadTable \/ (\E g \in Garbage : pciWriteCommand(g)) \/ pciEnableMSIX

Spec == Init /\ [][Next]_vars

-----------------------------------------------------------------------------
(* Properties.                                                             *)

\* The offsets on the capability list of d.
OnList(d) ==
  LET S[n \in 0 .. 4] == IF n = 0 THEN {pciGetCapPointer(d)}
                         ELSE {pciConfigReadByte(d, o + 1) : o \in S[n - 1]} \ {0}
  IN  UNION {S[n] : n \in 0 .. 4}

\* Wherever a list has the capability, pciGetCapabilityOffset returns its
\* offset, and 0 if it is not on the list; also for the last one.
CapabilityFound ==
  \A d \in Buses \X Devs : pciGetCapPointer(d) # 0 =>
    LET has == {o \in OnList(d) : pciConfigReadByte(d, o) = MSIX}
        o   == pciGetCapabilityOffset(d, MSIX)
    IN  IF has = {} THEN o = 0 ELSE o \in has

\* When initNVMe has come so far, the first controller in the order of buses
\* and devices decodes memory, masters the
\* bus, and has MSI-X enabled and not masked; the table the driver maps is the
\* one of its BAR.
ControllerReady ==
  pc = "done" /\ IsNvme(at) /\ pciGetCapabilityOffset(at, MSIX) # 0 =>
    LET o == pciGetCapabilityOffset(at, MSIX)
        c == pciReadCommand(at)
    IN  /\ (c \div 2) % 4 = 3 /\ c % 2 = 0 /\ (c \div 1024) % 2 = 1
        /\ pciConfigReadByte(at, o + 3) \div 64 = 2
        /\ table.size = (pciConfigReadByte(at, o + 2) + 256 * pciConfigReadByte(at, o + 3)) % 2048
        /\ \A d \in Buses \X Devs : IsNvme(d) => ~Before(d, at)
        /\ \E bar \in 0 .. 5 : /\ pciConfigReadByte(at, o + 4) % 8 = bar
                               /\ table.base[1][2] = pciGetBAR(at, bar)[2]

\* No register but the command word, the status and the MSI-X control of the
\* device that was found is ever changed.
OthersUntouched ==
  /\ \A d \in (Buses \X Devs) \ {at} : space'[d] = space[d]
  /\ \A i \in DOMAIN space[at] : space'[at][i] # space[at][i] =>
       i = 1 \/ 4 * i = pciGetCapabilityOffset(at, MSIX)
=============================================================================
