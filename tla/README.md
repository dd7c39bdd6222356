# AnglOS in TLA+

TLA+ models of the AnglOS kernel: interrupts against threads, the scheduler, the
instruction sequences that enter and leave the kernel, physical pages, page
tables, the heap, program loading, the drivers with state of their own, and the
C library. TLC checks them on small instances, and TLAPS proves the main safety
properties of the input queue, the scheduler, the entry paths, the page
allocator, the console and four drivers for every value of their constants.

## The system

AnglOS is a small x86-64 kernel. `_start` (`boot/kernel.c`) initialises memory
and devices, creates two threads from ELF modules, starts a periodic timer and
selects the first thread. From then on the kernel runs only in system calls and
interrupts. One processor is started; the code that starts others is commented
out.

| Part | State | Operations | Meets |
| --- | --- | --- | --- |
| Boot sequence (`boot/kernel.c`, interrupt controllers) | gates, masks, redirections | the steps of `_start` | every device that interrupts |
| Input queue (`device/input`) | ring buffer, lock | `inputGetc` by threads, `inputPutc` by the keyboard interrupt | keyboard, scheduler |
| Keyboard (`device/keyboard`) | modifier flags, previous scan code | interrupt handler | input queue |
| Scheduler (`threads/thread.c`) | lists, runtimes, states, current thread | create, select, timer interrupt, block, kill, schedule | stubs, TSS, lists |
| Entry paths (`syscall_entry_point.asm`, `interrupt.asm`, `threadswitch.asm`) | GS bases, DS, saved registers, irq stacks | system call, `irq_stub`, first entry of a thread | scheduler |
| Page allocator (`mm/pmm`) | buddy bitmaps, counters | init, `pmalloc`, `pfree` | paging |
| Paging (`mm/paging`) | page tables, bulk page supply | map, unmap, change flags, new address space | page allocator |
| Address spaces, ELF loader | segments, TLB | load a program | paging, threads |
| Heap (`mm/heap`) | blocks with boundary tags, free lists | `kmalloc`, `kcalloc`, `kfree`, `krealloc` | lists, paging |
| Lists (`libc/kernel/list.c`) | links | all of `list.c` | threads, heap |
| Timers (`device/apic/timer.c`, `device/hpet`) | counters, armed one-shots | sleep, calibrate | interrupts |
| Console, text screen | lock, cursor, pixels | print, scroll | system calls |
| PCI, NVMe | configuration space, rings | find, set up, submit admin commands | interrupts |
| C library, boot modules | strtok's position, one print call | string and print functions | everything |

What makes it hard: interrupts stay enabled in system calls; the keyboard
handler ignores the queue lock; readers halt inside a critical section that
they leave and re-enter; the timer switches threads inside its handler, and the
handler of the old thread resumes much later; three registers (GS base, DS and a
flag in memory) must agree at each interrupt; the allocators' tags, bits, lists
and counters are updated separately; freed pages come back with what is on them;
drivers wait with a test and a `hlt`.

## Modules

| Module | Models |
| --- | --- |
| `Fifo` | abstract: a bounded queue with several readers |
| `InputQueue` | `iqueue.c`, `input.c`, the spinlock, the hand-over in the keyboard handler |
| `PageAllocator` | abstract: grants are runs of free pages |
| `Pmm` | `pmm.c` |
| `Scheduler` | `thread.c`, with system calls and interrupts as single steps |
| `KernelEntry` | the assembly paths, around an instance of `Scheduler` |
| `InputQueueProofs`, `SchedulerProofs`, `KernelEntryProofs` | theorems about these, the first also about `Keyboard` |
| `PmmGeometry`, `PmmCounting`, `PmmProofs` | lemmas on blocks and tilings, on counters and merging; the theorems about `Pmm` |
| `ConsoleProofs`, `DriverProofs` | theorems about `Console`; about `Sleep`, `BootIrq` and `Nvme` |
| `Links`, `LinkedList` | `list.c`: pointer operations, algorithms on them |
| `ListSpec` | abstract: lists as sequences |
| `Heap` | `heap.c`, `memlib.c` |
| `Paging` | `paging.c` |
| `ElfLoad` | `elf.c`, `addressspace.c`, the address space part of `threadCreate` |
| `Strings` | `string.c`, `kmodule.c` |
| `Printf`, `Dump` | `stdio.c` |
| `ThreadLife` | creation step by step, `threadBlock`, `threadKill`, `threadSchedule`, on the lists of `Links` |
| `BootIrq` | `_start`, `idt.c`, `isr.c`, `pic.c`, `apic.c` |
| `Sleep` | `timer.c`, `hpet.c` |
| `Keyboard` | `keyboard.c` |
| `Console`, `Text` | `console.c`, `text.c` |
| `Terminal` | abstract: a screen of rows and columns |
| `Pci`, `Nvme` | `pci.c`, `nvme.c` |
| `MC*` | constants for TLC |

**InputQueue.** `buf`, `head`, `tail` and `lock` are the fields of `iqueue_t`.
Each thread has a position inside `inputGetc`. Every access to shared memory is
a step, and the two accesses after the loop occur in either order, as a compiler
may emit them. An interrupt handler runs with interrupts off and is one step.
`hlt` stops the processor until the next interrupt. If `iqueuePutc` ever waited
in the handler, `cpu` would become `"hung"`.

**Pmm.** All bitmaps are one array of bits, as in memory, so that an index past
the end of one bitmap reaches the next. `clear` is the set of zero bits, `free`
and `free_mem` are the code's counters, and `live` is what callers hold.
Callers free whole runs or, like the paging code, single pages of a run.
`inside` records whether all indices used so far belong to their bitmap. The
boot loader's map is assumed to be one: its usable entries overlap no other entry
and do not include page 0, and one of them has room for the bitmaps. In
`PageAllocator` the allocator is set up once, with all usable pages.

**Scheduler.** `ready`, `state`, `runtime` and `current` are the code's. `gs`
and `kgs` are the two GS base registers, `ist` the owner of the stacks in the
TSS. `runtime` is an integer modulo `Modulus`, which stands for 2^64.
The assignment in `if (thread->runtime = -1UL)` (`thread.c:131`) is modelled as
written: a new thread has runtime 0.

**KernelEntry.** Splits a system call into the instruction groups between which
an interrupt makes a difference, and adds DS, `gs->syscall`, `gs->ctx`,
`gs->irq_rsp`, and the frames on the irq stacks. Register contents are reduced
to whose they are; rax and rdx are kept apart from the others, because a system
call does not give the program's back. An `irq_stub` is one step.
`Interruptible` is the set of points at which interrupts arrive: all of them in
`MCKernelEntry`. A stub that goes through a null GS base, or pops a frame of the
other layout, ends in `cpu = "fault"`.

**Lists.** `h` holds both links of every node, headers included, and an operation
maps links to links, assignment by assignment. Following a null link is outside
the function's domain, which TLC reports. `LinkedList` reads the sequence of each
list off the links, and `ListSpec` says what each call does to sequences.

**Heap.** Memory is an array of words: tags, what callers wrote, and words the
heap never reads. A call holds the heap's lock and is one step, `krealloc` with
all its in-place cases included. `size_t` and `int` have widths, so that a size
wraps or becomes negative on the way to `mem_sbrk` as in the code. Sizes that
would come out positive and too small (above 4 GB in the code) are left out by
`Asked`.

**Paging.** A page is an array of entries whether it is a table or a caller's
memory. The bulk supply is the code's, with the test that asks for new pages one
page early, and the loop in `pagingAllocTable` clears one entry, as it does in the
code. Neither the boot loader nor `pmm.c` clears a page, so what a free page holds
at boot is open (`Dirty`, `Stale`); pages that were freed one by one do not come
back in a bulk, because `pfree` of one page merges pairs only. `m.stale` says that
a table was made of a page that was not zero, `m.refused` that `pmalloc` had no
block and its 0 was taken for an address (`paging.c:40`). The call in which one of
them happens is followed to its end; the properties are about what comes before. A
call holds the paging lock. `ElfLoad` adds the TLB: a page keeps the rights it had when it was
first touched until CR3 is loaded.

**Strings, Printf, Dump.** The functions as operators on a memory of bytes or on a
call's state, each against a definition of what it returns. Integer types have 8
to 14 bits instead of 8 to 64.

**ThreadLife.** Goes through `threadCreate` and the end of `_start` with
interrupts enabled, then lets the timer switch while threads are blocked, killed
and scheduled. `threadNext` enters a NEW thread through `threadSelect` and any
other by the frame on its stack, and `frame` says whether an interrupt has put one
there. `threadBlock`, `threadKill` and `threadSchedule` have no caller in the
repository. The model's caller has interrupts disabled, blocks or kills only
listed threads, schedules only others, and leaves one on the list.

**BootIrq.** `_start` is cut into the steps between which an interrupt makes a
difference. Devices may ask at any time. The I/O APIC forgets what a masked pin
asks for, and the keyboard asks no more while its byte waits at port 0x60
(`full`). `wait` is the place in the loop of `hpetNanosleep`. `handler` is
`interrupt_handlers`, `stray` becomes true when an interrupt finds no handler or
another device's.

**Sleep.** A one-shot fires at any time after it was armed, also between the test
of `time_counter` and `hlt`. `on` is the HPET's enable bit, which `hpetStart` and
`hpetStop` set and toggle. The APIC's count register has `Word` values; the HPET's
comparator is written a step after its counter was read, when its time may be over
(`late`); `irq0` is the handler of IRQ0, which `initThread` takes from the sleeps.

**Keyboard.** A byte at a time from the wire. Keys have one or two bytes; the
meaning of a press is stated from the history of presses and releases: a modifier
is on when the last event of its keys was a press. `scan_code_1` ends at code 58.
What lies behind it is arbitrary (`Beyond`), and larger codes, and the prefix, mean
what is found there. `Layout` is what is assumed of the keys: one code, with the
prefix or without, and none whose release is the prefix byte. Pause and Print
Screen, which send more, are outside it.

**Console, Text.** A console call is a list of pieces, each printed under one
hold of the lock; `write_cnt++` is a load and a store. In `Text` positions are
pixels and the cursor saves and restores what it covers; the mapping to
`Terminal` puts the saved character back. All characters come in any order, also
0x91 and 0x92, which hide and show the cursor: `Terminal` says what they may
disturb.

**Pci, Nvme.** Configuration registers are tuples of bytes, so that partial reads
and writes are what they are. The NVMe controller is external: it fetches,
answers and interrupts at its own speed.

## Runs

| Run | Shows |
| --- | --- |
| `MCInputQueue` | three readers, ring of three slots: mutual exclusion, the handler never waits, the ring implements `Fifo` |
| `MCInputQueueLive` | two readers: a queued key is taken while somebody waits, the lock is released |
| `MCPmm` | eight usable pages, three bitmaps that end in the middle of a page: `BooksBalance` (types, every page accounted for, counters), merging, implements `PageAllocator` |
| `MCPmmDeep` | four bitmaps, two regions: the same across three levels |
| `MCPmmOdd` | violated: bitmap sizes that do not halve evenly |
| `MCScheduler` | four threads, runtimes that wrap: one runs, its context is active, a next thread is found |
| `MCSchedulerFair` | three threads up to the first wrap: equal shares, no starvation |
| `MCKernelEntry` | three threads, interrupts everywhere, up to a fault: registers and frames kept, no other thread's `gs_base_t` used, implements `Scheduler` |
| `MCKernelEntryCall` | violated: an interrupt inside the system call path finds a null GS base |
| `MCKernelEntryFresh` | violated: an interrupt before the first system call |
| `MCMemory` | lists, heap, paging, program loading, strings, formatted output |
| `MCDevices` | NVMe, PCI, screen, console, keyboard, sleeps, interrupts at boot, threads |

`MCMemory` and `MCDevices` hold several components that share no state. The
variable `part` says which component a behaviour is about; `x1`, `x2`, ... stand
for its variables, and the components are `INSTANCE`s with these for variables. A
property has a conjunct per component or part, guarded by `part`; the conjuncts
are defined, and explained, in the component's module.

| Property | Components | States |
| --- | --- | --- |
| `ListsAreSequences` | `LinkedList` | `list.c` implements `ListSpec`; links agree both ways; equal elements keep their order |
| `HeapSound` | `Heap` | blocks tile the heap, free lists are exact, callers' data survive, nothing is refused needlessly |
| `PagesAccounted` | `Paging` | a page has one use; the kernel half under the entry of the kernel image is common to all address spaces |
| `OnlyAsked` | `Paging` | a call changes the meaning of one range only |
| `ProgramLoaded` | `ElfLoad` | the file's bytes are in place; a program has its segments' rights and no others |
| `StringFunctions` | `Strings` | each function against its definition, overlapping moves and repeated `strtok` included |
| `Formatting` | `Printf`, `Dump` | numbers read back, fields and buffers are kept, dumps are complete |
| `NvmeInStep` | `Nvme` | commands arrive once and in order; answers belong to their commands; set up while stopped |
| `ControllerReady` | `Pci` | capability found, interrupts enabled, no other register changed |
| `ShowsText` | `Text` | implements `Terminal`, for any order of characters; inside the margins |
| `OutputTogether`, `CallsReturn` | `Console` | lines stay together, no count is lost, calls return |
| `KeysArrive` | `Keyboard` | every press arrives with its meaning |
| `SleepReturns` | `Sleep` | sleeps end, for their own interrupt, with four exceptions (below) |
| `BootInterrupts` | `BootIrq` | no stray interrupt; `_start` ends unless it misses the HPET's interrupt; keys are handled if none came before `keyboardSetRedir` |
| `ThreadsSound` | `ThreadLife` | the timer handler does not deadlock, and faults only on a thread that was blocked before it first ran; a thread off the list does not run |

**Bounds.** Three slots are the smallest ring that is neither full nor empty in
between, wraps, and holds more than one key; three readers allow one to hold the
lock, one to spin and one to be halted. The page maps have partial blocks at
both ends of a region. Four bitmaps instead of seven still have a bottom, a top
and two levels between. `Sizes` includes zero, powers of two, numbers between
them and more than the largest block. Four threads with a modulus of 16 and a
tick of 2 wrap within eight ticks; `Horizon` stops the clock. Threads are
symmetric in the safety runs (the order of the ready list is chosen by the order
of creation, which is free); liveness runs use no symmetry. In `MCMemory`, four list elements
with two equal values show an unstable sort, and two lists are needed for
splices. The heap has room for the three live blocks between which every case of
`krealloc` arises; a second heap has a search limit of 0, so that the limit is
met. Page tables have three levels of four entries, enough for an inner table
that is neither root nor leaf and for ranges across two tables; the bulk is four
pages and runs out, with all pages zero at first or some not. In `MCDevices`, NVMe rings have eight entries as in the code
and, to wrap within the five commands, three. The screen is three rows of two columns with a
resolution that is no multiple of a character. Two threads make three console
calls between them. Any four presses and releases of fourteen keys are typed, four of which are
outside the table, with two contents behind it.
Sleeps have lengths below and above a tick, at rates that divide a second and one
that does not, and one length fills a count register of four values exactly.

**Fairness.** In `InputQueue` the timer gives each thread the processor again
and again (weak fairness) and a thread that can step does so within its slices
(strong fairness). Nobody has to press a key or call getc. The scheduler justifies
the first part: `EveryThreadRuns`. In `Scheduler` the boot sequence finishes,
the periodic timer ticks, and a new thread makes its first system call, as both
programs in the repository do at once.
In `Console` every thread with a step to do does it in the end (the
scheduler again); the calls are bounded, so `CallsReturn` does not say that a
spinning thread gets the lock from threads that never stop printing. In `Sleep` and `BootIrq` the processor goes on, an armed timer
fires, and a pending interrupt that can be delivered is. No other
interrupt is promised, which is why `SleepReturns` and `BootInterrupts` exclude the
window before `hlt`. Several parts of `MCMemory` and `MCDevices` may stop for good (a
string is used up, a machine is out of memory), so these two runs do not look for
deadlocks.

## What the violated runs show

* `MCPmmOdd`: with a number of pages that is not a multiple of 512, `initPMM`
  looks at parent bits beyond the end of a bitmap.
* `MCKernelEntryCall`: interrupts are on in system calls, because `initSyscall`
  sets no flag mask. After `syscall_kernel_to_user` has loaded DS
  (`syscall_entry_point.asm:61`) and before `swapgs` (`:115`), `irq_stub` takes the
  call for the program, exchanges the GS bases and stores through the null one.
  From the second call of a thread on, the same holds on the way in between `:87`
  and `:27`.
* `MCKernelEntryFresh`: a new program starts with the kernel's DS, so the first
  interrupt before its first system call is taken for one inside a call.

`MCKernelEntry` has interrupts at these points too, and shows how far the damage
goes: the processor faults, at once or when the thread is resumed, and until then
no thread's registers, frame or `gs_base_t` is touched by another's interrupt. At
the `SafePoints` (user code after the first system call, the first and last
instruction of the path, and where DS is the kernel's) the stub always finds its
thread.

## What the models show besides

Behaviour met while modelling. The models have it, and the properties are stated
so that they hold with it.

* The page in which the allocator's bitmaps end counts as usable, because the
  base of its entry is rounded down. `Pmm` does not follow what callers write to
  pages.
* `syscall_kernel_to_user` pushes the kernel's rdx before it restores the program's
  registers and pops it over the restored one (`syscall_entry_point.asm:53`, `:80`);
  `syscall_user_to_kernel` stores the address of `ctx` where rax should go (`:23`).
  After a system call a program has the kernel's rdx, and the macros of `syscall.h`
  declare no register as overwritten. `RegistersKept` is about the others.
* `pmallocBulk` asks for new pages one page early (`paging.c:39`), and the last
  page of every bulk is lost. When `pmalloc` refuses, the supply is the pages from
  0 on (`paging.c:40`). `pagingAllocTable` clears one entry 512 times
  (`paging.c:53`), so that a page with old contents becomes a table that maps
  them. `PagesAccounted` and `OnlyAsked` hold up to such a call.
* `pagingCreateUser` copies the kernel's top entries as they are (`paging.c:390`).
  Under a top entry that the kernel's table gets later, address spaces differ.
* A free of one page merges pairs of pages only (`pmm.c:213`); larger blocks stay
  split.
* A table entry keeps the flags of the call that made it (`paging.c:129`); a later
  `vmalloc` below it with more rights does not get them.
* `elfLoad` copies the segment's size in memory, not in the file (`elf.c:47`), over
  the zeros it has just written: `.bss` starts with the bytes that follow in
  the file.
* `apicNanosleep`, `hpetNanosleep` and `initNVMe` halt after a test; an interrupt
  in between is not waited for again. Three more things keep a sleep from ending:
  a count that is 0 in the 32 bits of the APIC's register (`timer.c:62`), an HPET
  comparator that is written after its time (`hpet.c:61`), and an APIC sleep after
  `initThread` (`thread.c:108`), whose handler counts nothing. `initNVMe`, the one
  caller of such a sleep, is commented out behind `initThread`.
* A key pressed before `keyboardSetRedir` (`kernel.c:83`) is not delivered, its
  byte is never read, and the keyboard stays silent from then on.
* `scan_code_1` has 59 entries and the handler looks up 7-bit codes
  (`keyboard.c:78`). With `scan_code_1_shift` right behind it, Page Up types a
  backspace, F11 an enter, and F12 acts as a control key.
* A thread that is blocked or killed before it first ran and then scheduled is
  READY, and `threadNext` takes it for one with a saved frame (`thread.c:256`).
* Ticks are rounded up to whole nanoseconds (`timer.c:45`), which makes sleeps
  short by that share.
* A negative `*` width with the flag `0` pads on both sides (`stdio.c:306`), and
  with `'` the commas count as digits of the precision (`stdio.c:418`).
* `textPutc` removes the cursor for 0x91 (`text.c:196`), which `keyboard.h:19`
  names `CURSOR_EN`. Moves and new lines after 0x91 blank the character at the
  place they leave, and a second 0x92 makes the block of the cursor the character.

## Proofs

Each theorem holds for every value of the constants that satisfies the named
assumptions of its module and the hypothesis it states.

**`InputQueueProofs`**, for any non-empty set of threads and any buffer of at
least two slots: `TypeOK`, `MutualExclusion`, `HandlerNeverWaits`, and that
`InputQueue` implements `Fifo`. The inductive invariant adds `HolderInv`, what the
holder of the lock knows: past the empty test the queue is still not empty, a
loaded character is still the oldest one, and a slot that was passed but not
loaded yet is the one just before `tail`. It holds because only a lock holder
moves `tail` and the interrupt only adds at `head`, never into the slot before
`tail`. The refinement follows from it and from lemmas on how the ring's contents
change when `head` or `tail` advances. The module also has the keyboard's
`KeysArrive`, for every layout (`Layout`), any contents behind the tables and any
number of events. Between events the flags and the characters are those that the
history of presses gives; before the first byte of an event they are those before
it, and between its two bytes the same, apart from the modifier that the prefix
itself may release.

**`SchedulerProofs`**, for any non-empty set of threads: `TypeOK`, `OneRunning`,
`ContextIsCurrents`, `MinRuntimeFound` and, when `Horizon` is at most `Modulus`,
`FairShare`. `MinRuntimeFound` is not inductive alone: the invariant adds that
every runtime is even, since the tick and the modulus are, while -1UL is odd.
`FairShare` needs `LeastRuns`, that the running thread has the least runtime, and
`NoneRan`, that nobody has run before the first selection. The existence of a
least runtime comes from the well-foundedness of the naturals.

**`KernelEntryProofs`**, for any set of points at which interrupts arrive:
`TypeOK`, `RegistersKept`, `FrameKept`, `OwnGsOrNull`, and that `KernelEntry`
implements `Scheduler` up to a fault. The invariant holds until the processor
has stopped. It says what DS, `gs->syscall` and the saved
context are at each point of the running thread's path (`RunningInv`), and that
a thread that is not running has left a frame that matches the point where it
was interrupted (`WaitingInv`). A step that is one of `Scheduler` keeps the
scheduler's invariant by the lemmas of `SchedulerProofs`, which are instantiated.

**`PmmGeometry`, `PmmCounting`, `PmmProofs`**, when the bitmap sizes halve exactly
(`Halving`, which `MCPmmOdd` shows to be needed): `BooksBalance`,
`FreeBuddiesMerged`, `BitmapNotHandedOut`, `IndexInBitmap`, and that `Pmm`
implements `PageAllocator`. The invariant is that the free blocks of all levels
tile the usable pages nobody holds (every such page is in exactly one of them),
that each counter is the number of free blocks on its level, and that the runs
that are out are disjoint. Taking a block out and putting back what `pmalloc`
leaves of it, freeing pages on the lowest level and merging buddies keep a tiling.
`coalesce` goes up the levels, so its lemma is an induction over them; sizes,
offsets and what `initPMM` marks are recursive functions. These inductions are
done with sets of numbers: `LeastNat` gives the least counterexample. That a
refused single page means that none is free follows from the tiling: a free page
lies in a free block of some level, and that block is large enough for it.

**`ConsoleProofs`**, for any threads, calls and strings that are sequences: what
one hold of the lock prints stays together, and no `write_cnt++` is lost. The
invariant has mutual exclusion, that a loaded count is still current, and that the
characters of the call that holds the lock are the last ones printed.

**`DriverProofs`**, for three components of `MCDevices`:

* `Sleep`: a sleep returns only for its own timer, and if its one-shot was armed and
  its handler counts, its interrupt is not lost between firing and the loop (for
  lengths that are naturals and a period above 0, `Lengths`). In a sleep the timer
  is as its one-shot wrote it, or its interrupt is pending, or counted, or was taken
  by a handler that counts nothing; between sleeps nothing is armed or counted.
* `BootIrq`: no interrupt finds another's handler. The invariant says for each step
  of `_start` which gates, handlers and redirections there are, and that a device
  with a route to the processor has its handler registered.
* `Nvme`: the registers are set up while the controller is stopped; it gets the
  commands in order (`Roomy`: the ring is larger than their number, eight and five
  in the code); the answer read is the one to the command submitted, for rings of
  two entries or more (`Rings`), as long as only the controller wakes the driver.
  For the last, `TurnInv` follows a command through submitted, working and
  answered, with the head, tail and phase on both sides of the ring.

These, and `KeysArrive` above, are the components' own properties. The properties of `MCDevices` with the
same names are about its small instances, which satisfy the hypotheses.

Assumptions on constants are named in the modules: an even modulus and an even
tick smaller than it (the code has 2^64 and 10000), a null pointer that is no
thread, and the memory map's above.

Only model-checked:

* Liveness: `ReaderProgress`, `LockReleased`, `EveryThreadRuns`, `CallsReturn`, and
  the parts of `SleepReturns` and `BootInterrupts` that say that something happens.
  They need fairness, which is out of the prover's reach.
* `LinkedList`, `Pci`, `Strings` and `Printf`: their loops are recursive operators,
  and what these compute is an induction over data.
* `Heap`, `Paging`, `ElfLoad`, `Text` and `ThreadLife`: they fold over sequences of
  pages, blocks or list elements, where the same holds.

## Not modelled

* Exceptions: each handler ends in `cli; hlt`. An undefined system call number
  executes `ud2`.
* Timer interrupts before the first thread is selected, in `Scheduler`: the handler
  finds no current thread and only counts. `ThreadLife` has them. (`InputQueue`
  does allow early keys.)
* NVMe reads and writes: the I/O rings have no caller, and no doorbell is rung for
  them. `initNVMe` itself is commented out in `_start`.
* The periodic mode of the HPET, which has no caller. The periodic APIC timer is
  the tick of `Scheduler`.
* ACPI: one linear search through the firmware's tables.
* Pixels: glyphs and colours, `graphics.c`. Pure output.
* The packing of descriptors into GDT, IDT and TSS: constant bit layout.
* Further processors, whose start is commented out.
* The user library: wrappers around `syscall`.
* Functions that nothing calls and that no modelled component needs, such as
  `spinTrylock`, `threadStopTimer`, `mem_reset_brk`, `consoleSetMode`,
  `picUnmaskIRQ`.
* Caches, memory ordering between processors and the timing of devices.

## Plan

1. Proofs: the heap's tiling of memory, the ready list of `ThreadLife`.
2. Composition of `Keyboard` with `InputQueue`, and of `ThreadLife` with
   `Scheduler`.
