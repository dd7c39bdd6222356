------------------------------ MODULE BootIrq ------------------------------
(***************************************************************************)
(* Interrupts while _start (boot/kernel.c) sets the machine up: the gates  *)
(* of boot/interrupts, the 8259 of device/8259/pic.c, the I/O APIC and the *)
(* local APIC of device/apic, and the devices that use them.  Devices may  *)
(* ask for an interrupt at any time; the module follows whether it is      *)
(* delivered, to which handler, and whether the handler ends it.           *)
(*                                                                         *)
(* _start is a sequence of the steps between which an interrupt makes a    *)
(* difference.  hpetMillisleep's one-shot is taken to be written in time   *)
(* (module Sleep has the other case); its loop is a test, a hlt and the    *)
(* processor halted, and the interrupt may come between any two.           *)
(***************************************************************************)
EXTENDS Integers, Sequences

CONSTANTS
  PicStart   \* lines of the 8259 that the firmware leaves masked

VARIABLES
  i,          \* the next step of _start
  interrupts, \* the interrupt flag
  handler,    \* interrupt_handlers, for the vectors that have a gate
  picMask, picOffset,
  redir,      \* the I/O APIC: [line -> vector], 0 for a masked line
  lvt,        \* the local APIC's timer: a vector, 0 when masked
  armed,      \* devices that may ask for an interrupt
  pending,    \* devices that have asked for one
  in_service, \* vectors that the local APIC has delivered and not seen an EOI for
  counted,    \* hpet.c's time_counter
  wait,       \* where the loop of hpetNanosleep is: "test", "hlt" or "halted"
  full,       \* a byte of the keyboard has not been read from port 0x60
  stray       \* an interrupt found no gate, or the handler of another device

vars == <<i, interrupts, handler, picMask, picOffset, redir, lvt, armed, pending, in_service,
          counted, wait, full, stray>>

IRQ0 == 32
KEYBOARD_IRQ == IRQ0 + 1
IRQ2 == IRQ0 + 2
IRQ7 == IRQ0 + 7
Lines == 0 .. 15            \* of the 8259
KEY_LINE == KEYBOARD_IRQ - IRQ0
HPET_LINE == 22             \* 0x16
Vectors == 0 .. IRQ0 + 15

-----------------------------------------------------------------------------
(* Gates, the 8259 and the I/O APIC.                                       *)

\* The exceptions' gates.
isrInstall == [v \in Vectors |-> IF v < 32 THEN "isrHandler" ELSE "none"]

irqRegisterHandler(n, name) == handler' = [handler EXCEPT ![n] = name]

\* Mutant: one line too few.
picDisableShort(mask) == mask \cup 0 .. 14

\* picMaskIRQ for every line; picRemapOffsets has put the masks back.
picDisable(mask) == mask \cup Lines

ioapicWriteRedir(line, vector) == redir' = [redir EXCEPT ![line] = vector]

-----------------------------------------------------------------------------
(* _start.                                                                 *)

\* Mutant: interrupts are enabled only after initAPICTimer.
OrderStiLate ==
  <<"initIDT", "initAPIC", "hpetRegister", "hpetRoute", "timerRegister", "timerLvt",
    "hpetStart", "hpetWait", "timerMask", "sti", "cli", "keyRegister", "threadRegister", "sti",
    "keyRoute", "threadStartTimer", "threadSelect">>

\* initIDT, initAPIC, initHPET, initAPICTimer, initKeyboard, initThread,
\* keyboardSetRedir, threadStartTimer and threadSelect.
Order ==
  <<"initIDT", "initAPIC", "sti", "hpetRegister", "hpetRoute", "timerRegister", "timerLvt",
    "hpetStart", "hpetWait", "timerMask", "cli", "keyRegister", "threadRegister", "sti",
    "keyRoute", "threadStartTimer", "threadSelect">>

At(name) == i <= Len(Order) /\ Order[i] = name
Step(name) == At(name) /\ i' = i + 1

initIDT ==
  /\ Step("initIDT") /\ handler' = isrInstall
  /\ UNCHANGED <<interrupts, picMask, picOffset, redir, lvt, armed, counted>>

\* picDisable, apicEnable and the spurious interrupt's handler.
initAPIC ==
  /\ Step("initAPIC")
  /\ picOffset' = 32 /\ picMask' = picDisable(picMask)
  /\ irqRegisterHandler(IRQ7, "irqSpuriousHandler")
  /\ UNCHANGED <<interrupts, redir, lvt, armed, counted>>

cpuSTI ==
  /\ Step("sti") /\ interrupts' = TRUE
  /\ UNCHANGED <<handler, picMask, picOffset, redir, lvt, armed, counted>>

cpuCLI ==
  /\ Step("cli") /\ interrupts' = FALSE
  /\ UNCHANGED <<handler, picMask, picOffset, redir, lvt, armed, counted>>

initHPET ==
  /\ \/ Step("hpetRegister") /\ irqRegisterHandler(IRQ2, "irqHPETHandler") /\ UNCHANGED redir
     \/ Step("hpetRoute") /\ ioapicWriteRedir(HPET_LINE, IRQ2) /\ UNCHANGED handler
  /\ UNCHANGED <<interrupts, picMask, picOffset, lvt, armed, counted>>

\* The one-shot of hpetMillisleep arms the HPET; the APIC timer counts down from
\* its largest value and does not run out meanwhile.
initAPICTimer ==
  /\ \/ /\ Step("timerRegister") /\ irqRegisterHandler(IRQ0, "irqAPICTimerHandler")
        /\ UNCHANGED <<lvt, armed, counted>>
     \/ Step("timerLvt") /\ lvt' = IRQ0 /\ UNCHANGED <<handler, armed, counted>>
     \/ Step("hpetStart") /\ armed' = armed \cup {"hpet"} /\ UNCHANGED <<handler, lvt, counted>>
     \/ /\ Step("hpetWait") /\ wait = "test" /\ counted > 0 /\ counted' = 0
        /\ UNCHANGED <<handler, lvt, armed>>
     \/ Step("timerMask") /\ lvt' = 0 /\ UNCHANGED <<handler, armed, counted>>
  /\ UNCHANGED <<interrupts, picMask, picOffset, redir>>

\* while (!time_counter) hlt, in hpetNanosleep.
hpetLoop ==
  /\ At("hpetWait")
  /\ \/ wait = "test" /\ counted = 0 /\ wait' = "hlt"
     \/ wait = "hlt" /\ wait' = "halted"
  /\ UNCHANGED <<i, interrupts, handler, picMask, picOffset, redir, lvt, armed, counted>>

\* initKeyboard, and initThread, which takes IRQ0 over.
initHandlers ==
  /\ \/ Step("keyRegister") /\ irqRegisterHandler(KEYBOARD_IRQ, "irqKeyboardHandler")
     \/ Step("threadRegister") /\ irqRegisterHandler(IRQ0, "irqThreadTimerHandler")
  /\ UNCHANGED <<interrupts, picMask, picOffset, redir, lvt, armed, counted>>

keyboardSetRedir ==
  /\ Step("keyRoute") /\ ioapicWriteRedir(KEY_LINE, KEYBOARD_IRQ)
  /\ UNCHANGED <<interrupts, handler, picMask, picOffset, lvt, armed, counted>>

threadStartTimer ==
  /\ Step("threadStartTimer") /\ lvt' = IRQ0 /\ armed' = armed \cup {"timer"}
  /\ UNCHANGED <<interrupts, handler, picMask, picOffset, redir, counted>>

\* threadSelect disables interrupts, and the thread starts with them enabled.
threadSelect ==
  /\ Step("threadSelect") /\ interrupts' = TRUE
  /\ UNCHANGED <<handler, picMask, picOffset, redir, lvt, armed, counted>>

Boot ==
  /\ \/ hpetLoop
     \/ /\ \/ initIDT \/ initAPIC \/ cpuSTI \/ cpuCLI \/ initHPET \/ initAPICTimer \/ initHandlers
           \/ keyboardSetRedir \/ threadStartTimer \/ threadSelect
        /\ UNCHANGED wait
  /\ UNCHANGED <<pending, in_service, full, stray>>

-----------------------------------------------------------------------------
(* Devices.                                                                *)

\* Devices on lines of the 8259, for which no handler is written.
Legacy == [d \in {"pit", "disk"} |-> IF d = "pit" THEN 0 ELSE 15]

\* The vector a device's interrupt has, 0 for none.
VectorOf(d) == CASE d = "keyboard" -> redir[KEY_LINE]
                 [] d = "hpet" -> redir[HPET_LINE]
                 [] d = "timer" -> lvt
                 [] d \in DOMAIN Legacy -> IF Legacy[d] \in picMask THEN 0
                                           ELSE picOffset + Legacy[d]

\* The 8259 keeps a request of a masked line.  The I/O APIC and the timer's entry
\* ignore it, and the keyboard asks no more until its byte is read.
Asks(d) ==
  /\ d \in armed
  /\ d = "keyboard" => ~full
  /\ pending' = IF d \notin DOMAIN Legacy /\ VectorOf(d) = 0 THEN pending ELSE pending \cup {d}
  /\ armed' = IF d = "hpet" THEN armed \ {d} ELSE armed
  /\ full' = (full \/ d = "keyboard")
  /\ UNCHANGED <<i, interrupts, handler, picMask, picOffset, redir, lvt, in_service, counted, wait,
                 stray>>

HandlersOf(d) == CASE d = "keyboard" -> {"irqKeyboardHandler"}
                   [] d = "hpet" -> {"irqHPETHandler"}
                   [] d = "timer" -> {"irqAPICTimerHandler", "irqThreadTimerHandler"}
                   [] d \in DOMAIN Legacy -> {}

\* Mutant: irqKeyboardHandler returns early.
EndsWithoutKeyboard == {"irqHPETHandler", "irqAPICTimerHandler", "irqThreadTimerHandler"}

\* The handlers that call apicSendEOI.
Ends == {"irqKeyboardHandler", "irqHPETHandler", "irqAPICTimerHandler", "irqThreadTimerHandler"}

\* The local APIC, or the 8259, delivers; all vectors are in one priority class.  The
\* handler runs to its end; that of the keyboard reads port 0x60.
Deliver(d) ==
  LET v == VectorOf(d)
  IN  /\ d \in pending /\ interrupts /\ v # 0 /\ in_service = {}
      /\ pending' = pending \ {d}
      /\ in_service' = IF handler[v] \in Ends THEN {} ELSE {v}
      /\ counted' = IF handler[v] = "irqHPETHandler" THEN counted + 1 ELSE counted
      /\ wait' = IF wait = "halted" THEN "test" ELSE wait
      /\ full' = (full /\ handler[v] # "irqKeyboardHandler")
      /\ stray' = (stray \/ handler[v] \notin HandlersOf(d))
      /\ UNCHANGED <<i, interrupts, handler, picMask, picOffset, redir, lvt, armed>>

Init ==
  /\ i = 1 /\ interrupts = FALSE
  /\ handler = [v \in Vectors |-> "none"]
  /\ picMask \in PicStart /\ picOffset = 8
  /\ redir = [l \in 0 .. 23 |-> 0] /\ lvt = 0
  /\ armed = {"keyboard"} \cup DOMAIN Legacy /\ pending = {} /\ in_service = {}
  /\ counted = 0 /\ wait = "test" /\ full = FALSE /\ stray = FALSE

Devices == {"keyboard", "hpet", "timer"} \cup DOMAIN Legacy

Next == Boot \/ \E d \in Devices : Asks(d) \/ Deliver(d)

\* The processor runs _start, an armed HPET comes to its time, and the local
\* APIC delivers what it can.
Spec ==
  /\ Init /\ [][Next]_vars
  /\ WF_vars(Boot) /\ WF_vars(Asks("hpet"))
  /\ \A d \in Devices : WF_vars(Deliver(d))

-----------------------------------------------------------------------------
(* Properties.                                                             *)

\* No interrupt is delivered before its gate and its own handler are there,
\* at any point of _start and whenever the devices ask.
OwnHandler == ~stray

\* The HPET's interrupt came between the test and the hlt of its loop.
Missed == At("hpetWait") /\ wait = "halted" /\ counted > 0

\* _start comes to its end, unless initAPICTimer missed the HPET's interrupt.
BootEnds == <>(i > Len(Order) \/ Missed)

\* If no key was pressed before keyboardSetRedir, every key pressed from then on is
\* handled: no handler leaves its interrupt in service.
Routed == redir[KEY_LINE] # 0
KeyHandled == [](Routed /\ ~full => []<>~full)
=============================================================================
