----------------------------- MODULE MCDevices -----------------------------
(***************************************************************************)
(* Drivers, timers, the console, interrupts during the boot sequence and   *)
(* the life of threads on small instances.  These components share no      *)
(* state here.  A behaviour is one of the component that part names, and   *)
(* x1 .. x14 are its variables, in the order in which its module declares  *)
(* them; the others stay 0.                                                *)
(***************************************************************************)
EXTENDS Integers, Sequences, TLC

CONSTANTS t1, t2, t3, nil

VARIABLES part, x1, x2, x3, x4, x5, x6, x7, x8, x9, x10, x11, x12, x13, x14

-----------------------------------------------------------------------------
(* The NVMe controller: rings of eight entries, as in the code, and rings  *)
(* that wrap.                                                              *)

Nvme8 == INSTANCE Nvme WITH pc <- x1, k <- x2, drv <- x3, status <- x4, response <- x5, sub <- x6,
           com <- x7, dev <- x8, seen <- x9, irq <- x10, stray <- x11, admin_queue_size <- 8
Nvme3 == INSTANCE Nvme WITH pc <- x1, k <- x2, drv <- x3, status <- x4, response <- x5, sub <- x6,
           com <- x7, dev <- x8, seen <- x9, irq <- x10, stray <- x11, admin_queue_size <- 3

-----------------------------------------------------------------------------
(* Two devices on the PCI bus.                                             *)

Chains == {<<64>>, <<128>>, <<64, 72>>, <<72, 64>>, <<128, 72, 64>>, <<64, 128, 72>>}

\* The space of a device of class 1.sub with the chain c, MSI-X at its m-th
\* place (or nowhere), and its table in bar, at offset 8192 + 16.
McSpace(sub, c, m, bar, control) ==
  [i \in 0 .. 63 |->
     CASE i = 0 -> <<134, 128, 17, 0>>
       [] i = 1 -> <<0, 0, 16, 32>>
       [] i = 2 -> <<0, 2, sub, 1>>
       [] i = 4 -> <<4, 16, 0, 240>>
       [] i = 5 -> <<1, 0, 0, 0>>
       [] i = 7 -> <<0, 32, 0, 240>>
       [] i = 13 -> <<c[1], 0, 0, 0>>
       [] \E k \in DOMAIN c : 4 * i = c[k] ->
            LET k == CHOOSE k \in DOMAIN c : 4 * i = c[k]
            IN  <<IF k = m THEN 17 ELSE 5, IF k = Len(c) THEN 0 ELSE c[k + 1], 32, control>>
       [] m \in DOMAIN c /\ 4 * i = c[m] + 4 -> <<16 + bar, 32, 0, 0>>
       [] OTHER -> <<0, 0, 0, 0>>]

McSpaces ==
  {McSpace(8, c, m, bar, control) : c \in Chains, m \in 1 .. 3, bar \in {0, 3}, control \in {0, 64}}
  \cup {McSpace(6, <<64>>, 1, 0, 0), McSpace(6, <<0>>, 0, 0, 0)}
Bus == INSTANCE Pci WITH space <- x1, pc <- x2, at <- x3, table <- x4, Buses <- {0},
         Devs <- {0, 1}, Spaces <- McSpaces, Garbage <- {0, 16}

-----------------------------------------------------------------------------
(* A screen of three rows of two columns, and two threads that print.         *)

Screen == INSTANCE Text WITH screen <- x1, cursor_x <- x2, cursor_y <- x3, pixels_at_cursor <- x4,
            cursor_enabled <- x5, XRes <- 27, YRes <- 68, margin <- 4, spacing_x <- 2,
            spacing_y <- 4, character_size_x <- 8, character_size_y <- 16, Printable <- {"a"}

Con == INSTANCE Console WITH spin <- x1, pc <- x2, todo <- x3, calls <- x4, write_cnt <- x5,
         loaded <- x6, kprintf <- x7, written <- x8, Threads <- {t1, t2},
         Strings <- {<<>>, <<"a", "b">>}, MaxCalls <- 3

-----------------------------------------------------------------------------
(* Fourteen keys, some with a prefix byte and some behind the tables.      *)

McPlain == 14 :> "backspace" @@ 28 :> "enter" @@ 29 :> "control" @@ 30 :> "a" @@ 38 :> "l"
           @@ 42 :> "shift" @@ 54 :> "shift" @@ 56 :> "alt"
McShifted == 14 :> "backspace" @@ 28 :> "enter" @@ 29 :> "control" @@ 30 :> "A" @@ 38 :> "L"
             @@ 42 :> "shift" @@ 54 :> "shift" @@ 56 :> "alt"
McKeys == "a" :> <<30>> @@ "l" :> <<38>> @@ "left shift" :> <<42>> @@ "right shift" :> <<54>>
          @@ "left control" :> <<29>> @@ "right control" :> <<224, 29>> @@ "alt" :> <<56>>
          @@ "backspace" :> <<14>> @@ "enter" :> <<28>> @@ "pad enter" :> <<224, 28>>
          @@ "up" :> <<224, 72>> @@ "pad 8" :> <<72>> @@ "page up" :> <<224, 73>>
          @@ "f12" :> <<88>>
\* scan_code_1_shift right behind scan_code_1, or something else with modifiers.
McBeyond ==
  {<<72 :> "+" @@ 73 :> "backspace" @@ 88 :> "control" @@ 96 :> "K", 72 :> "x" @@ 88 :> "y">>,
   <<72 :> "enter" @@ 73 :> "alt" @@ 88 :> "x" @@ 96 :> "shift", 72 :> "y" @@ 88 :> "enter">>}
Keys == INSTANCE Keyboard WITH wire <- x1, shift_pressed <- x2, ctrl_pressed <- x3,
          alt_pressed <- x4, prev_scan <- x5, behind <- x6, put <- x7, events <- x8,
          Plain <- McPlain, Shifted <- McShifted, Beyond <- McBeyond, Keys <- McKeys, MaxEvents <- 4
ASSUME KeysLayout == Keys!Layout

-----------------------------------------------------------------------------
(* Timers, interrupts and threads.                                         *)

\* Sixty nanoseconds are a second; one rate does not divide it.
\* A count of twelve is 0 in a register of four values.
Slp == INSTANCE Sleep WITH pc <- x1, dev <- x2, time <- x3, rate <- x4,
         nanoseconds_per_tick <- x5, armed <- x6, lvt <- x7, on <- x8, pending <- x9,
         time_counter <- x10, fired <- x11, irq0 <- x12, late <- x13, NS <- 60, Word <- 4,
         Rates <- {10, 20, 25}, period <- 2, Times <- {1, 2, 5, 36}

\* All lines of the 8259 masked, or the timer, the keyboard and a disk left open.
Irq == INSTANCE BootIrq WITH i <- x1, interrupts <- x2, handler <- x3, picMask <- x4,
         picOffset <- x5, redir <- x6, lvt <- x7, armed <- x8, pending <- x9, in_service <- x10,
         counted <- x11, wait <- x12, full <- x13, stray <- x14, PicStart <- {0 .. 15, 0 .. 15 \ {0, 1, 15}}

\* Two threads of _start and a later one.
Life == INSTANCE ThreadLife WITH pc <- x1, n <- x2, lock <- x3, interrupts <- x4, timer <- x5,
          h <- x6, state <- x7, runtime <- x8, filled <- x9, gs <- x10, current <- x11, cpu <- x12,
          off <- x13, frame <- x14, Boot <- <<t1, t2>>, Late <- {t3}, Horizon <- 3,
          Lists <- {"all", "ready"}, Elems <- {"all", "ready"} \X {t1, t2, t3}, NULL <- nil

-----------------------------------------------------------------------------
(* All of them.                                                            *)

From9 == <<x9, x10, x11, x12, x13, x14>>
From6 == <<x6, x7, x8, From9>>
vars == <<part, x1, x2, x3, x4, x5, From6>>

Idle12 == x12 = 0 /\ x13 = 0 /\ x14 = 0
Idle9 == x9 = 0 /\ x10 = 0 /\ x11 = 0 /\ Idle12
Idle6 == x6 = 0 /\ x7 = 0 /\ x8 = 0 /\ Idle9

Init ==
  \/ part = "nvme" /\ Nvme8!Init /\ Idle12
  \/ part = "nvme wrap" /\ Nvme3!Init /\ Idle12
  \/ part = "pci" /\ Bus!Init /\ x5 = 0 /\ Idle6
  \/ part = "text" /\ Screen!Init /\ Idle6
  \/ part = "console" /\ Con!Init /\ Idle9
  \/ part = "keyboard" /\ Keys!Init /\ Idle9
  \/ part = "sleep" /\ Slp!Init /\ x14 = 0
  \/ part = "boot" /\ Irq!Init
  \/ part = "threads" /\ Life!Init

\* What a component keeps as it is.
Keep12 == UNCHANGED <<part, x12, x13, x14>>
Keep14 == UNCHANGED <<part, x14>>
Keep9 == UNCHANGED <<part, From9>>

Next ==
  \/ part = "nvme" /\ Nvme8!Next /\ Keep12
  \/ part = "nvme wrap" /\ Nvme3!Next /\ Keep12
  \/ part = "pci" /\ Bus!Next /\ UNCHANGED <<part, x5, From6>>
  \/ part = "text" /\ Screen!Next /\ UNCHANGED <<part, From6>>
  \/ part = "console" /\ Con!Next /\ Keep9
  \/ part = "keyboard" /\ Keys!Next /\ Keep9
  \/ part = "sleep" /\ Slp!Next /\ Keep14
  \/ part = "boot" /\ Irq!Next /\ UNCHANGED part
  \/ part = "threads" /\ Life!Next /\ UNCHANGED part

\* The fairness of each component, as its Spec has it.
Spec ==
  /\ Init /\ [][Next]_vars
  /\ \A t \in {t1, t2} : WF_vars(part = "console" /\ Con!Step(t) /\ Keep9)
  /\ WF_vars(part = "sleep" /\ Slp!Goes /\ Keep14)
  /\ \A d \in {"apic", "hpet"} : /\ WF_vars(part = "sleep" /\ Slp!Fire(d) /\ Keep14)
                                 /\ WF_vars(part = "sleep" /\ Slp!Handler(d) /\ Keep14)
  /\ WF_vars(part = "boot" /\ Irq!Boot /\ UNCHANGED part)
  /\ WF_vars(part = "boot" /\ Irq!Asks("hpet") /\ UNCHANGED part)
  /\ \A d \in {"keyboard", "hpet", "timer", "pit", "disk"} :
       WF_vars(part = "boot" /\ Irq!Deliver(d) /\ UNCHANGED part)

-----------------------------------------------------------------------------
(* Properties.                                                             *)

\* The controller gets every admin command of initNVMe (nvme.c) once and in order,
\* and its queue registers are written while it is stopped.  As long as only the
\* controller's interrupts end a hlt, ringAdminCom reads the answer to the command
\* just submitted, also after the rings wrapped.
NvmeInStep ==
  /\ [](part = "nvme" => Nvme8!CommandsKept)
  /\ [](part = "nvme wrap" => Nvme3!ResponseInStep)
  /\ [][part = "nvme" => Nvme8!SetUpWhileOff]_vars

\* pciGetCapabilityOffset (pci.c) finds a capability wherever it is on the list.
\* After initNVMe's calls of pci.c the first controller decodes memory, masters
\* the bus and has MSI-X enabled and unmasked; only its command word, its status
\* and its MSI-X control are ever changed.
ControllerReady ==
  /\ [](part = "pci" => Bus!CapabilityFound /\ Bus!ControllerReady)
  /\ [][part = "pci" => Bus!OthersUntouched]_vars

Shows == INSTANCE Terminal WITH Rows <- Screen!Rows, Cols <- Screen!Cols, Blank <- "blank",
           Block <- "block", Printable <- {"a"},
           grid <- IF part = "text" THEN Screen!Grid
                   ELSE [p \in (1 .. Screen!Rows) \X (1 .. Screen!Cols) |-> "blank"],
           row <- IF part = "text" THEN Screen!Row ELSE 1,
           col <- IF part = "text" THEN Screen!Col ELSE 1,
           on <- IF part = "text" THEN x5 ELSE TRUE

\* What is on the screen (text.c) is what the characters put so far say: lines
\* that wrap and scroll, backspace, arrows, with the cursor drawn over one place.
\* 0x91 and 0x92 disturb no more than the character at the cursor, and only when
\* something else than a character or 0x92 follows 0x91, or 0x92 comes with the
\* cursor shown.  The character at the cursor fits inside the margins.
ShowsText == Shows!Spec /\ [](part = "text" => Screen!InsideMargins)

\* What one consolePuts or consolePutbuf prints stays together (console.c), and
\* write_cnt counts every character.
OutputTogether == part = "console" => Con!OutputTogether /\ Con!EveryCharacterCounted

\* Every call of the console returns.
CallsReturn ==
  \A t \in {t1, t2} :
    part = "console" /\ x2[t] # "out" ~> part = "console" /\ x2[t] = "out"

\* Every key pressed arrives once, in order, as the character that the state of
\* the modifier keys gives it (keyboard.c), however the prefix bytes fall.  A code
\* that is not in scan_code_1 means what lies behind it.
KeysArrive == part = "keyboard" => Keys!KeysArrive

\* Every sleep returns (timer.c, hpet.c), and for its own timer's interrupt, not for
\* one that was left over, except for a count that is 0 in the APIC's register, a
\* comparator written too late, a handler that initThread replaced, and an
\* interrupt that came between the test of the counter and hlt.
SleepReturns ==
  /\ part = "sleep" /\ x1 = "sleep" ~> part = "sleep" /\ (x1 = "awake" \/ Slp!Missed)
  /\ [](part = "sleep" => Slp!OwnTimer)

\* No interrupt finds the handler of another device, or none, at any point of
\* the boot sequence; _start comes to its end, unless the HPET's interrupt came
\* between the test and the hlt of hpetNanosleep; every key is handled that is
\* pressed after keyboardSetRedir, when none was pressed before.
BootInterrupts ==
  /\ [](part = "boot" => Irq!OwnHandler)
  /\ part = "boot" ~> part = "boot" /\ (x1 > Len(Irq!Order) \/ Irq!Missed)
  /\ [](part = "boot" /\ Irq!Routed /\ ~x13 => []<>(part = "boot" /\ ~x13))

\* The timer's handler never waits for a lock that the code it interrupted holds,
\* nor follows a null pointer, nor selects a thread without a gs_base_t (thread.c);
\* it switches to a thread without a frame only when that was blocked before it
\* first ran.  The ready list has every thread created and not blocked or killed
\* once, and a thread that was blocked or killed is not switched to until it is
\* scheduled again.
ThreadsSound ==
  /\ [](part = "threads" => Life!HandlerSafe /\ Life!ReadyListSound)
  /\ [][part = "threads" => Life!OffStaysOff]_vars
=============================================================================
