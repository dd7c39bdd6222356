---------------------------- MODULE DriverProofs ----------------------------
(***************************************************************************)
(* Theorems about the timers, the boot sequence's interrupts and the NVMe  *)
(* driver, for every value of their constants.  The three components share *)
(* no state: every theorem is about the variables of one of them, and a    *)
(* name that two of them use stands for the variable of the component that *)
(* the theorem is about.                                                   *)
(***************************************************************************)
EXTENDS Integers, Sequences, FiniteSets, TLAPS

\* A leaf that names no prover is SMT's, and Zenon's if SMT gives up.
USE SMTT(100), ZenonT(100)

CONSTANTS NS, Word, Rates, period, Times, PicStart, admin_queue_size

VARIABLES
  pc, dev, time, rate, nanoseconds_per_tick, armed, lvt, on, pending, time_counter, fired, irq0, late,
  step, interrupts, handler, picMask, picOffset, redir, in_service, counted, wait, full, stray,
  cmd, drv, status, response, sub, com, seen, irq

Slp == INSTANCE Sleep
Irq == INSTANCE BootIrq WITH i <- step
Nvm == INSTANCE Nvme WITH k <- cmd

-----------------------------------------------------------------------------
(* Sleeping on the timers.                                                 *)

Quiet == [d \in Slp!Devices |-> 0]

\* What the one-shot of a sleep writes.
Written ==
  IF dev = "apic" THEN Slp!Ticks(time, nanoseconds_per_tick) % Word
  ELSE IF late THEN 0 ELSE Slp!Ticks(time, period)

\* Between sleeps nothing is armed, pending or counted.  In a sleep its own timer
\* is in one of four states: as its one-shot wrote it, fired with its interrupt
\* pending, counted once, or handled by a handler that counts nothing; the other
\* timer does nothing.
SleepInv ==
  /\ dev \in Slp!Devices /\ time \in Times \union {0}
  /\ pc \in {"boot", "idle", "sleep", "counter", "measured", "test", "hlt", "halted", "awake"}
  /\ pc \in {"boot", "idle", "sleep", "counter", "measured"} =>
       armed = Quiet /\ pending = {} /\ time_counter = Quiet
  /\ pc = "counter" => on
  /\ pc \in {"test", "hlt", "halted"} =>
       \/ /\ armed = [Quiet EXCEPT ![dev] = Written]
          /\ pending = {} /\ time_counter = Quiet /\ ~fired
       \/ armed = Quiet /\ pending = {dev} /\ time_counter = Quiet /\ fired
       \/ armed = Quiet /\ pending = {} /\ time_counter = [Quiet EXCEPT ![dev] = 1] /\ fired
       \/ armed = Quiet /\ pending = {} /\ time_counter = Quiet /\ fired /\ ~Slp!Counts(dev)
  /\ pc = "awake" =>
       armed = Quiet /\ pending = {} /\ time_counter = [Quiet EXCEPT ![dev] = 1] /\ fired
  /\ pc \in {"test", "hlt", "halted", "awake"} => IF dev = "apic" THEN lvt = "IRQ0" ELSE on

\* SleepInv holds before initAPICTimer, when nothing is armed.
LEMMA SleepInit == Slp!Init => SleepInv
PROOF
  BY DEF Slp!Init, SleepInv, Quiet, Slp!Devices

\* A timer that is armed for no other sleep is the sleep's own.
LEMMA SleepArmed ==
  ASSUME SleepInv, NEW d \in Slp!Devices, armed[d] # 0
  PROVE  /\ d = dev /\ pc \in {"test", "hlt", "halted"} /\ ~fired
         /\ pending = {} /\ time_counter = Quiet
         /\ [armed EXCEPT ![d] = 0] = Quiet
PROOF
  <1>1. Quiet[d] = 0
    BY DEF Quiet, Slp!Devices
  <1>2. armed # Quiet
    BY <1>1
  <1>3. PICK n : /\ armed = [Quiet EXCEPT ![dev] = n] /\ pc \in {"test", "hlt", "halted"}
                 /\ pending = {} /\ time_counter = Quiet /\ ~fired
    BY <1>2 DEF SleepInv
  <1>4. d = dev
    BY <1>1, <1>3 DEF Quiet
  <1> QED
    BY <1>3, <1>4 DEF Quiet

\* Every step of the processor, of a timer and of a handler preserves SleepInv.
LEMMA SleepNext == SleepInv /\ [Slp!Next]_(Slp!vars) => SleepInv'
PROOF
  <1> SUFFICES ASSUME SleepInv, [Slp!Next]_(Slp!vars)
               PROVE  SleepInv'
    OBVIOUS
  <1>1. CASE Slp!initAPICTimer
    BY <1>1 DEF SleepInv, Slp!initAPICTimer, Slp!calm, Slp!Devices
  <1>2. CASE Slp!Sleep
    BY <1>2 DEF SleepInv, Slp!Sleep, Slp!calm
  <1>3. CASE Slp!apicTimerOneShot
    BY <1>3, ZenonT(100) DEF SleepInv, Slp!apicTimerOneShot, Slp!calm, Written
  <1>4. CASE Slp!hpetOneShot
    <2>1. CASE pc = "sleep"
      BY <1>4, <2>1, ZenonT(100) DEF SleepInv, Slp!hpetOneShot, Slp!calm, Slp!hpetStart
    <2>2. CASE pc = "counter"
      BY <1>4, <2>2, ZenonT(100) DEF SleepInv, Slp!hpetOneShot, Slp!calm, Written
    <2> QED
      BY <1>4, <2>1, <2>2 DEF Slp!hpetOneShot
  <1>5. CASE Slp!Test
    <2>1. Quiet[dev] = 0
      BY DEF SleepInv, Quiet
    <2> QED
      BY <1>5, <2>1 DEF SleepInv, Slp!Test, Slp!calm, Written, Slp!Counts
  <1>6. CASE Slp!Hlt
    BY <1>6 DEF SleepInv, Slp!Hlt, Slp!calm, Written, Slp!Counts
  <1>7. CASE Slp!Return
    <2>1. [[Quiet EXCEPT ![dev] = 1] EXCEPT ![dev] = 0] = Quiet
      BY DEF SleepInv, Quiet
    <2> QED
      BY <1>7, <2>1 DEF SleepInv, Slp!Return, Slp!calm, Slp!Counter
  <1>8. CASE Slp!Calibrate
    BY <1>8 DEF SleepInv, Slp!Calibrate
  <1>9. ASSUME NEW d \in Slp!Devices, Slp!Fire(d)
        PROVE  SleepInv'
    <2>1. armed[d] # 0
      BY <1>9 DEF Slp!Fire
    <2>2. /\ d = dev /\ pc \in {"test", "hlt", "halted"} /\ ~fired
          /\ pending = {} /\ time_counter = Quiet /\ armed' = Quiet
      BY <1>9, <2>1, SleepArmed DEF Slp!Fire
    <2>3. pending' = {dev} /\ fired'
      BY <1>9, <2>2, ZenonT(100) DEF Slp!Fire, SleepInv, Slp!Devices
    <2> QED
      BY <1>9, <2>2, <2>3 DEF SleepInv, Slp!Fire, Slp!calm
  <1>10. ASSUME NEW d \in Slp!Devices, Slp!Handler(d)
         PROVE  SleepInv'
    <2>1. /\ d = dev /\ pc \in {"test", "hlt", "halted"} /\ fired
          /\ pending = {dev} /\ time_counter = Quiet /\ armed = Quiet
      BY <1>10 DEF SleepInv, Slp!Handler
    <2>2. pending' = {} /\ pc' \in {"test", "hlt", "halted"}
          /\ UNCHANGED <<dev, time, armed, lvt, on, fired, irq0>>
      BY <1>10, <2>1 DEF Slp!Handler
    <2>3. CASE Slp!Counts(dev)
      <3>1. time_counter' = [Quiet EXCEPT ![dev] = 1]
        BY <1>10, <2>1, <2>3 DEF Slp!Handler, Quiet
      <3> QED
        BY <2>1, <2>2, <3>1, ZenonT(100) DEF SleepInv
    <2>4. CASE ~Slp!Counts(dev)
      <3>1. time_counter' = Quiet /\ ~Slp!Counts(dev)'
        BY <1>10, <2>1, <2>2, <2>4, ZenonT(100) DEF Slp!Handler, Slp!Counts
      <3> QED
        BY <2>1, <2>2, <3>1, ZenonT(100) DEF SleepInv
    <2> QED
      BY <2>3, <2>4
  <1>11. CASE Slp!OtherInterrupt
    BY <1>11 DEF SleepInv, Slp!OtherInterrupt, Slp!calm, Written, Slp!Counts
  <1>12. CASE Slp!initThread
    BY <1>12 DEF SleepInv, Slp!initThread
  <1>13. CASE UNCHANGED Slp!vars
    BY <1>13 DEF SleepInv, Slp!vars, Written, Slp!Counts
  <1> QED
    BY <1>1, <1>2, <1>3, <1>4, <1>5, <1>6, <1>7, <1>8, <1>9, <1>10, <1>11, <1>12, <1>13
    DEF Slp!Next, Slp!Goes

\* Slp!OwnTimer: apicNanosleep and hpetNanosleep return only after their own timer
\* has fired in this sleep, whatever interrupts woke the hlt of their loop and
\* whatever was counted in an earlier sleep.
THEOREM SleepsOwnTimer == Slp!Spec => []Slp!OwnTimer
PROOF
  <1>1. SleepInv => Slp!OwnTimer
    BY DEF SleepInv, Slp!OwnTimer
  <1> QED
    BY <1>1, SleepInit, SleepNext, PTL DEF Slp!Spec

\* A sleep whose one-shot is armed and whose handler counts does not lose its
\* interrupt: the timer is armed until it fires, the interrupt is pending or in
\* time_counter from then until the loop of the sleep sees it, and an HPET that is
\* armed runs although hpetStop only toggles its enable bit.
InterruptKept ==
  pc \in {"test", "hlt", "halted"} /\ ~Slp!Unarmed /\ Slp!Counts(dev) =>
    /\ ~fired => armed[dev] # 0
    /\ fired => dev \in pending \/ time_counter[dev] = 1
    /\ dev = "hpet" => on

\* The HPET has a period, and sleeps have a length.
Lengths == period \in Nat \ {0} /\ Times \subseteq Nat

\* hpetOneShot never asks for 0 ticks.
LEMMA TicksSome ==
  ASSUME NEW n \in Nat, NEW p \in Nat \ {0}
  PROVE  Slp!Ticks(n, p) # 0
PROOF
  <1> DEFINE x == IF n < p THEN p ELSE n
  <1>1. x \in Nat /\ x >= p
    OBVIOUS
  <1> HIDE DEF x
  <1>2. x \div p \in Int /\ x < p * (x \div p + 1)
    BY <1>1
  <1>3. x \div p # 0
    BY <1>1, <1>2
  <1> QED
    BY <1>3 DEF Slp!Ticks, x

\* InterruptKept holds throughout: the part of SleepReturns that needs no fairness.
THEOREM SleepsKeepInterrupt ==
  ASSUME Lengths
  PROVE  Slp!Spec => []InterruptKept
PROOF
  <1>1. SleepInv => InterruptKept
    <2> SUFFICES ASSUME SleepInv, pc \in {"test", "hlt", "halted"}, ~Slp!Unarmed, Slp!Counts(dev)
                 PROVE  /\ ~fired => armed[dev] # 0
                        /\ fired => dev \in pending \/ time_counter[dev] = 1
                        /\ dev = "hpet" => on
      BY DEF InterruptKept
    <2>1. Quiet \in [{"apic", "hpet"} -> {0}] /\ dev \in {"apic", "hpet"}
      BY DEF SleepInv, Quiet, Slp!Devices
    <2>2. Written # 0
      BY TicksSome DEF Slp!Unarmed, Written, SleepInv, Lengths
    <2>3. dev = "hpet" => on
      BY DEF SleepInv
    <2>4. CASE armed = [Quiet EXCEPT ![dev] = Written] /\ ~fired
      BY <2>1, <2>2, <2>3, <2>4
    <2>5. CASE pending = {dev} /\ fired
      BY <2>3, <2>5
    <2>6. CASE time_counter = [Quiet EXCEPT ![dev] = 1] /\ fired
      BY <2>1, <2>3, <2>6
    <2> QED
      BY <2>4, <2>5, <2>6 DEF SleepInv
  <1> QED
    BY <1>1, SleepInit, SleepNext, PTL DEF Slp!Spec

-----------------------------------------------------------------------------
(* Interrupts during the boot sequence.                                    *)

Handlers == {"none", "isrHandler", "irqSpuriousHandler", "irqHPETHandler", "irqAPICTimerHandler",
             "irqKeyboardHandler", "irqThreadTimerHandler"}

\* How far _start has come decides which handlers are registered.  A device has a
\* vector only when its handler is, and interrupts are enabled only when the 8259
\* is masked.
Registered(s, h) ==
  /\ h \in [0 .. 47 -> Handlers]
  /\ s > 4 => h[34] = "irqHPETHandler"
  /\ s > 6 => h[32] \in {"irqAPICTimerHandler", "irqThreadTimerHandler"}
  /\ s > 12 => h[33] = "irqKeyboardHandler"

Routed(s, r, l) ==
  /\ r \in [0 .. 23 -> Int]
  /\ r[22] = 0 \/ (r[22] = 34 /\ s > 4)
  /\ r[1] = 0 \/ (r[1] = 33 /\ s > 12)
  /\ l = 0 \/ (l = 32 /\ s > 6)

Masked(s, m) == s > 2 => Irq!Lines \subseteq m

BootInv ==
  /\ step \in 1 .. 18
  /\ Registered(step, handler) /\ Routed(step, redir, lvt) /\ Masked(step, picMask)
  /\ interrupts => step > 2
  /\ ~stray

\* The steps of _start by their names, and their number.
LEMMA Order ==
  /\ Len(Irq!Order) = 17
  /\ \A n \in 1 .. 17 :
       /\ Irq!Order[n] = "initIDT" => n = 1
       /\ Irq!Order[n] = "initAPIC" => n = 2
       /\ Irq!Order[n] = "sti" => n > 2
       /\ Irq!Order[n] = "hpetRegister" => n = 4
       /\ Irq!Order[n] = "hpetRoute" => n = 5
       /\ Irq!Order[n] = "timerRegister" => n = 6
       /\ Irq!Order[n] = "timerLvt" => n = 7
       /\ Irq!Order[n] = "keyRegister" => n = 12
       /\ Irq!Order[n] = "threadRegister" => n = 13
       /\ Irq!Order[n] = "keyRoute" => n = 15
       /\ Irq!Order[n] = "threadStartTimer" => n = 16
       /\ Irq!Order[n] = "threadSelect" => n = 17
       /\ n = 1 => Irq!Order[n] = "initIDT"
       /\ n = 2 => Irq!Order[n] = "initAPIC"
       /\ n = 4 => Irq!Order[n] = "hpetRegister"
       /\ n = 6 => Irq!Order[n] = "timerRegister"
       /\ n = 12 => Irq!Order[n] = "keyRegister"
PROOF
  <1>1. Len(Irq!Order) = 17
    BY DEF Irq!Order
  <1> QED
    BY <1>1 DEF Irq!Order

\* The vectors and lines are different from each other.
LEMMA VectorNumbers ==
  /\ Irq!IRQ0 = 32 /\ Irq!KEYBOARD_IRQ = 33 /\ Irq!IRQ2 = 34 /\ Irq!IRQ7 = 39
  /\ Irq!KEY_LINE = 1 /\ Irq!HPET_LINE = 22 /\ Irq!Vectors = 0 .. 47
PROOF
  BY DEF Irq!IRQ0, Irq!KEYBOARD_IRQ, Irq!IRQ2, Irq!IRQ7, Irq!KEY_LINE, Irq!HPET_LINE, Irq!Vectors

\* BootInv holds before _start: there are no handlers, and nothing has a vector.
LEMMA BootInit == Irq!Init => BootInv
PROOF
  <1> SUFFICES ASSUME Irq!Init PROVE BootInv
    OBVIOUS
  <1>1. Registered(step, handler)
    BY VectorNumbers DEF Irq!Init, Registered, Handlers
  <1>2. Routed(step, redir, lvt)
    BY DEF Irq!Init, Routed
  <1> QED
    BY <1>1, <1>2 DEF Irq!Init, BootInv, Masked

\* A step of _start is where its name is in Order, and takes _start one further.
LEMMA BootStep ==
  ASSUME BootInv, NEW name, Irq!Step(name)
  PROVE  step \in 1 .. 17 /\ step' = step + 1 /\ Irq!Order[step] = name
PROOF
  BY Order DEF BootInv, Irq!Step, Irq!At

\* A step that registers no handler that a later step relies on.
LEMMA RegisteredKept ==
  ASSUME NEW s \in 1 .. 17, NEW h, Registered(s, h), s \notin {4, 6, 12}
  PROVE  Registered(s + 1, h)
PROOF
  <1>1. (s + 1 > 4 => s > 4) /\ (s + 1 > 6 => s > 6) /\ (s + 1 > 12 => s > 12)
    OBVIOUS
  <1> QED
    BY <1>1 DEF Registered

\* What is routed stays so as _start goes on.
LEMMA RoutedKept ==
  ASSUME NEW s \in 1 .. 17, NEW r, NEW l, Routed(s, r, l)
  PROVE  Routed(s + 1, r, l)
PROOF
  BY DEF Routed

\* Every step of _start preserves BootInv.
LEMMA BootGoes ==
  ASSUME BootInv, Irq!Boot
  PROVE  BootInv'
PROOF
  <1> USE VectorNumbers
  <1>0. ~stray' /\ step \in 1 .. 18 /\ Registered(step, handler) /\ Routed(step, redir, lvt)
        /\ Masked(step, picMask) /\ (interrupts => step > 2)
    BY DEF Irq!Boot, BootInv
  <1>9. CASE Irq!hpetLoop
    BY <1>0, <1>9 DEF Irq!hpetLoop, BootInv
  <1>a. SUFFICES ASSUME ~Irq!hpetLoop
                 PROVE  /\ step \in 1 .. 17 /\ step' = step + 1
                        /\ Registered(step', handler') /\ Routed(step', redir', lvt')
                        /\ Masked(step', picMask') /\ (interrupts' => step' > 2)
    BY <1>0, <1>9 DEF BootInv
  <1>b. step # 2 /\ step' = step + 1 => Masked(step', picMask)
    BY <1>0 DEF Masked
  <1>c. /\ "irqSpuriousHandler" \in Handlers /\ "irqHPETHandler" \in Handlers
        /\ "irqAPICTimerHandler" \in Handlers /\ "irqKeyboardHandler" \in Handlers
        /\ "irqThreadTimerHandler" \in Handlers
    BY DEF Handlers
  <1>d. handler \in [0 .. 47 -> Handlers]
    BY <1>0 DEF Registered
  <1>1. CASE Irq!initIDT
    <2>1. step = 1 /\ step' = 2
      BY <1>1, BootStep, Order DEF Irq!initIDT
    <2>2. Registered(step', handler')
      BY <1>1, <2>1 DEF Irq!initIDT, Irq!isrInstall, Handlers, Registered
    <2>3. Routed(step', redir', lvt')
      BY <1>0, <1>1, <2>1, RoutedKept DEF Irq!initIDT
    <2> QED
      BY <1>0, <1>1, <1>b, <2>1, <2>2, <2>3 DEF Irq!initIDT
  <1>2. CASE Irq!initAPIC
    <2>1. step = 2 /\ step' = 3
      BY <1>2, BootStep, Order DEF Irq!initAPIC
    <2>2. handler' = [handler EXCEPT ![39] = "irqSpuriousHandler"]
      BY <1>2 DEF Irq!initAPIC, Irq!irqRegisterHandler
    <2>3. Registered(step', handler')
      <3>1. handler' \in [0 .. 47 -> Handlers]
        BY <1>c, <1>d, <2>2
      <3> QED
        BY <2>1, <3>1 DEF Registered
    <2>4. Routed(step', redir', lvt')
      BY <1>0, <1>2, <2>1, RoutedKept DEF Irq!initAPIC
    <2>5. Masked(step', picMask')
      BY <1>2 DEF Irq!initAPIC, Irq!picDisable, Masked
    <2> QED
      BY <1>0, <1>2, <2>1, <2>3, <2>4, <2>5 DEF Irq!initAPIC
  <1>3. CASE Irq!cpuSTI \/ Irq!cpuCLI \/ Irq!threadSelect
    <2>1. step \in 1 .. 17 /\ step' = step + 1 /\ step \notin {1, 2, 4, 6, 12}
      BY <1>3, BootStep, Order DEF Irq!cpuSTI, Irq!cpuCLI, Irq!threadSelect
    <2>2. UNCHANGED <<handler, picMask, redir, lvt>>
      BY <1>3 DEF Irq!cpuSTI, Irq!cpuCLI, Irq!threadSelect
    <2> QED
      BY <1>0, <1>b, <2>1, <2>2, RegisteredKept, RoutedKept
  <1>4. CASE Irq!initHPET
    <2>1. CASE Irq!Step("hpetRegister") /\ Irq!irqRegisterHandler(34, "irqHPETHandler") /\ UNCHANGED redir
      <3>1. step = 4 /\ step' = step + 1
        BY <2>1, BootStep, Order
      <3>2. Registered(step', handler')
        <4>1. handler' = [handler EXCEPT ![34] = "irqHPETHandler"]
          BY <2>1 DEF Irq!irqRegisterHandler
        <4>2. /\ handler' \in [0 .. 47 -> Handlers]
              /\ handler'[32] = handler[32] /\ handler'[33] = handler[33] /\ handler'[34] = "irqHPETHandler"
          BY <1>c, <1>d, <4>1
        <4> QED
          BY <1>0, <3>1, <4>2 DEF Registered
      <3> QED
        BY <1>0, <1>4, <1>b, <2>1, <3>1, <3>2, RoutedKept DEF Irq!initHPET
    <2>2. CASE Irq!Step("hpetRoute") /\ Irq!ioapicWriteRedir(22, 34) /\ UNCHANGED handler
      <3>1. step = 5 /\ step' = step + 1
        BY <2>2, BootStep, Order
      <3>2. redir' = [redir EXCEPT ![22] = 34] /\ UNCHANGED lvt
        BY <1>4, <2>2 DEF Irq!ioapicWriteRedir, Irq!initHPET
      <3>3. Routed(step', redir', lvt')
        BY <1>0, <3>1, <3>2 DEF Routed
      <3> QED
        BY <1>0, <1>4, <1>b, <2>2, <3>1, <3>3, RegisteredKept DEF Irq!initHPET
    <2> QED
      BY <1>4, <2>1, <2>2 DEF Irq!initHPET
  <1>5. CASE Irq!initAPICTimer
    <2>1. UNCHANGED <<interrupts, picMask, redir>>
      BY <1>5 DEF Irq!initAPICTimer
    <2>2. CASE Irq!Step("timerRegister") /\ Irq!irqRegisterHandler(32, "irqAPICTimerHandler")
               /\ UNCHANGED lvt
      <3>1. step = 6 /\ step' = step + 1
        BY <2>2, BootStep, Order
      <3>2. Registered(step', handler')
        <4>1. handler' = [handler EXCEPT ![32] = "irqAPICTimerHandler"]
          BY <2>2 DEF Irq!irqRegisterHandler
        <4>2. /\ handler' \in [0 .. 47 -> Handlers]
              /\ handler'[32] = "irqAPICTimerHandler" /\ handler'[33] = handler[33] /\ handler'[34] = handler[34]
          BY <1>c, <1>d, <4>1
        <4> QED
          BY <1>0, <3>1, <4>2 DEF Registered
      <3> QED
        BY <1>0, <1>b, <2>1, <2>2, <3>1, <3>2, RoutedKept
    <2>3. CASE Irq!Step("timerLvt") /\ lvt' = 32 /\ UNCHANGED handler
      <3>1. step = 7 /\ step' = step + 1
        BY <2>3, BootStep, Order
      <3>2. Routed(step', redir', lvt')
        BY <1>0, <2>1, <2>3, <3>1 DEF Routed
      <3> QED
        BY <1>0, <1>b, <2>1, <2>3, <3>1, <3>2, RegisteredKept
    <2>4. CASE (Irq!Step("hpetStart") \/ Irq!Step("hpetWait")) /\ UNCHANGED <<handler, lvt>>
      <3>1. step \in 1 .. 17 /\ step' = step + 1 /\ step \notin {2, 4, 6, 12}
        BY <2>4, BootStep, Order
      <3> QED
        BY <1>0, <1>b, <2>1, <2>4, <3>1, RegisteredKept, RoutedKept
    <2>5. CASE Irq!Step("timerMask") /\ lvt' = 0 /\ UNCHANGED handler
      <3>1. step \in 1 .. 17 /\ step' = step + 1 /\ step \notin {2, 4, 6, 12}
        BY <2>5, BootStep, Order
      <3>2. Routed(step', redir', lvt')
        BY <1>0, <2>1, <2>5, <3>1 DEF Routed
      <3> QED
        BY <1>0, <1>b, <2>1, <2>5, <3>1, <3>2, RegisteredKept
    <2> QED
      BY <1>5, <2>2, <2>3, <2>4, <2>5 DEF Irq!initAPICTimer
  <1>6. CASE Irq!initHandlers
    <2>1. UNCHANGED <<interrupts, picMask, redir, lvt>>
      BY <1>6 DEF Irq!initHandlers
    <2>2. CASE Irq!Step("keyRegister") /\ Irq!irqRegisterHandler(33, "irqKeyboardHandler")
      <3>1. step = 12 /\ step' = step + 1
        BY <2>2, BootStep, Order
      <3>2. Registered(step', handler')
        <4>1. handler' = [handler EXCEPT ![33] = "irqKeyboardHandler"]
          BY <2>2 DEF Irq!irqRegisterHandler
        <4>2. /\ handler' \in [0 .. 47 -> Handlers]
              /\ handler'[32] = handler[32] /\ handler'[33] = "irqKeyboardHandler" /\ handler'[34] = handler[34]
          BY <1>c, <1>d, <4>1
        <4> QED
          BY <1>0, <3>1, <4>2 DEF Registered
      <3> QED
        BY <1>0, <1>b, <2>1, <3>1, <3>2, RoutedKept
    <2>3. CASE Irq!Step("threadRegister") /\ Irq!irqRegisterHandler(32, "irqThreadTimerHandler")
      <3>1. step = 13 /\ step' = step + 1
        BY <2>3, BootStep, Order
      <3>2. Registered(step', handler')
        <4>1. handler' = [handler EXCEPT ![32] = "irqThreadTimerHandler"]
          BY <2>3 DEF Irq!irqRegisterHandler
        <4>2. /\ handler' \in [0 .. 47 -> Handlers]
              /\ handler'[32] = "irqThreadTimerHandler" /\ handler'[33] = handler[33] /\ handler'[34] = handler[34]
          BY <1>c, <1>d, <4>1
        <4> QED
          BY <1>0, <3>1, <4>2 DEF Registered
      <3> QED
        BY <1>0, <1>b, <2>1, <3>1, <3>2, RoutedKept
    <2> QED
      BY <1>6, <2>2, <2>3 DEF Irq!initHandlers
  <1>7. CASE Irq!keyboardSetRedir
    <2>1. step = 15 /\ step' = step + 1
      BY <1>7, BootStep, Order DEF Irq!keyboardSetRedir
    <2>2. redir' = [redir EXCEPT ![1] = 33] /\ UNCHANGED <<interrupts, handler, picMask, lvt>>
      BY <1>7 DEF Irq!ioapicWriteRedir, Irq!keyboardSetRedir
    <2>3. Routed(step', redir', lvt')
      BY <1>0, <2>1, <2>2 DEF Routed
    <2> QED
      BY <1>0, <1>b, <2>1, <2>2, <2>3, RegisteredKept
  <1>8. CASE Irq!threadStartTimer
    <2>1. step = 16 /\ step' = step + 1
      BY <1>8, BootStep, Order DEF Irq!threadStartTimer
    <2>2. lvt' = 32 /\ UNCHANGED <<interrupts, handler, picMask, redir>>
      BY <1>8 DEF Irq!threadStartTimer
    <2>3. Routed(step', redir', lvt')
      BY <1>0, <2>1, <2>2 DEF Routed
    <2> QED
      BY <1>0, <1>b, <2>1, <2>2, <2>3, RegisteredKept
  <1> QED
    BY <1>1, <1>2, <1>3, <1>4, <1>5, <1>6, <1>7, <1>8, <1>a DEF Irq!Boot

\* What is delivered while BootInv holds finds the handler of its own device.
LEMMA DeliverOwn ==
  ASSUME BootInv, NEW d \in Irq!Devices, interrupts, Irq!VectorOf(d) # 0
  PROVE  handler[Irq!VectorOf(d)] \in Irq!HandlersOf(d)
PROOF
  <1> USE VectorNumbers
  <1>0. Registered(step, handler) /\ Routed(step, redir, lvt) /\ Irq!Lines \subseteq picMask
    BY DEF BootInv, Masked
  <1>1. Irq!Legacy["pit"] \in Irq!Lines /\ Irq!Legacy["disk"] \in Irq!Lines
        /\ DOMAIN Irq!Legacy = {"pit", "disk"}
    BY DEF Irq!Legacy, Irq!Lines
  <1>2. CASE d = "keyboard"
    <2>1. Irq!VectorOf(d) = redir[1]
      BY <1>1, <1>2 DEF Irq!VectorOf
    <2>2. Irq!HandlersOf(d) = {"irqKeyboardHandler"}
      BY <1>1, <1>2 DEF Irq!HandlersOf
    <2> QED
      BY <1>0, <2>1, <2>2 DEF Registered, Routed
  <1>3. CASE d = "hpet"
    <2>1. Irq!VectorOf(d) = redir[22]
      BY <1>1, <1>3 DEF Irq!VectorOf
    <2>2. Irq!HandlersOf(d) = {"irqHPETHandler"}
      BY <1>1, <1>3 DEF Irq!HandlersOf
    <2> QED
      BY <1>0, <2>1, <2>2 DEF Registered, Routed
  <1>4. CASE d = "timer"
    <2>1. Irq!VectorOf(d) = lvt
      BY <1>1, <1>4 DEF Irq!VectorOf
    <2>2. Irq!HandlersOf(d) = {"irqAPICTimerHandler", "irqThreadTimerHandler"}
      BY <1>1, <1>4 DEF Irq!HandlersOf
    <2> QED
      BY <1>0, <2>1, <2>2 DEF Registered, Routed
  <1>5. CASE d \in DOMAIN Irq!Legacy
    <2>1. d \notin {"keyboard", "hpet", "timer"} /\ Irq!Legacy[d] \in picMask
      BY <1>0, <1>1, <1>5
    <2>2. Irq!VectorOf(d) = 0
      BY <1>5, <2>1 DEF Irq!VectorOf
    <2> QED
      BY <2>2
  <1> QED
    BY <1>2, <1>3, <1>4, <1>5 DEF Irq!Devices

\* Every step of _start and of the devices preserves BootInv.
LEMMA BootNext == BootInv /\ [Irq!Next]_(Irq!vars) => BootInv'
PROOF
  <1> SUFFICES ASSUME BootInv, [Irq!Next]_(Irq!vars)
               PROVE  BootInv'
    OBVIOUS
  <1>1. CASE Irq!Boot
    BY <1>1, BootGoes
  <1>2. ASSUME NEW d \in Irq!Devices, Irq!Asks(d)
        PROVE  BootInv'
    BY <1>2 DEF Irq!Asks, BootInv
  <1>3. ASSUME NEW d \in Irq!Devices, Irq!Deliver(d)
        PROVE  BootInv'
    <2>1. interrupts /\ Irq!VectorOf(d) # 0 /\ ~stray
      BY <1>3 DEF Irq!Deliver, BootInv
    <2>2. ~stray'
      BY <1>3, <2>1, DeliverOwn, ZenonT(100) DEF Irq!Deliver
    <2> QED
      BY <1>3, <2>2 DEF Irq!Deliver, BootInv
  <1>4. CASE UNCHANGED Irq!vars
    BY <1>4 DEF Irq!vars, BootInv
  <1> QED
    BY <1>1, <1>2, <1>3, <1>4 DEF Irq!Next

\* Irq!OwnHandler: wherever _start is, and whatever lines the firmware left open in
\* the 8259, an interrupt that is delivered finds its gate and the handler that its
\* own device registered.
THEOREM HandlersOwn == Irq!Spec => []Irq!OwnHandler
PROOF
  <1>1. BootInv => Irq!OwnHandler
    BY DEF BootInv, Irq!OwnHandler
  <1> QED
    BY <1>1, BootInit, BootNext, PTL DEF Irq!Spec

-----------------------------------------------------------------------------
(* The NVMe driver.                                                        *)

\* The rings have at least two entries (the code: eight).
Rings == admin_queue_size \in Nat \ {0, 1}

Work == {"none", "controller", "list", "namespace", "create completion queue",
         "create submission queue"}

Waits == {"hlt", "halted", "get", "ringcom"}

NvmType ==
  /\ pc \in {"status", "disable", "off", "setup", "on", "put", "ring", "done"} \union Waits
  /\ cmd \in 1 .. 6 /\ (cmd = 6 <=> pc = "done")
  /\ drv \in [tail : Nvm!Slots, head : Nvm!Slots, phase : {0, 1}]
  /\ status \in BOOLEAN /\ irq \in BOOLEAN /\ stray \in BOOLEAN
  /\ sub \in [Nvm!Slots -> Work]
  /\ com \in [Nvm!Slots -> Work \X {0, 1}]
  /\ dev \in [enable : BOOLEAN, ready : BOOLEAN, sub_tail : Nvm!Slots, sub_head : Nvm!Slots,
              com_tail : Nvm!Slots, com_head : Nvm!Slots, phase : {0, 1}, work : Work]
  /\ seen \in Seq(Work)

\* The commands are five, and none of them is the empty entry.
LEMMA CommandTypes ==
  /\ Len(Nvm!Commands) = 5
  /\ \A n \in 1 .. 5 : Nvm!Commands[n] \in Work \ {"none"}
PROOF
  BY DEF Nvm!Commands, Nvm!nvmeIdentifyController, Nvm!nvmeIdentifyNamespaceList,
         Nvm!nvmeIdentifyNamespace, Nvm!nvmeCreateComQueue, Nvm!nvmeCreateSubQueue, Work

\* The place after x in a ring.
LEMMA RingNext ==
  ASSUME Rings, NEW x \in Nvm!Slots
  PROVE  /\ (x + 1) % admin_queue_size \in Nvm!Slots
         /\ x + 1 < admin_queue_size => (x + 1) % admin_queue_size = x + 1
         /\ 0 \in Nvm!Slots
PROOF
  BY DEF Rings, Nvm!Slots

\* The states before initNVMe have their types.
LEMMA NvmTypeInit ==
  ASSUME Rings, Nvm!Init
  PROVE  NvmType
PROOF
  <1>1. 0 \in Nvm!Slots
    BY DEF Rings, Nvm!Slots
  <1>2. com \in [Nvm!Slots -> Work \X {0, 1}] /\ sub \in [Nvm!Slots -> Work]
    BY ZenonT(100) DEF Nvm!Init, Nvm!None, Work
  <1>3. dev \in [enable : BOOLEAN, ready : BOOLEAN, sub_tail : Nvm!Slots, sub_head : Nvm!Slots,
                 com_tail : Nvm!Slots, com_head : Nvm!Slots, phase : {0, 1}, work : Work]
    BY <1>1, ZenonT(100) DEF Nvm!Init, Work
  <1>4. drv \in [tail : Nvm!Slots, head : Nvm!Slots, phase : {0, 1}]
    BY <1>1 DEF Nvm!Init
  <1>5. seen \in Seq(Work) /\ cmd = 1 /\ pc = "status" /\ status \in BOOLEAN /\ irq = FALSE
        /\ stray = FALSE
    BY DEF Nvm!Init
  <1>6. cmd \in 1 .. 6 /\ cmd # 6 /\ pc # "done"
    BY <1>5
  <1>7. irq \in BOOLEAN /\ stray \in BOOLEAN
    BY <1>5, ZenonT(100)
  <1> QED
    BY <1>2, <1>3, <1>4, <1>5, <1>6, <1>7, ZenonT(100) DEF NvmType, Waits

\* Every step of the driver and of the controller preserves NvmType.
LEMMA NvmTypeNext ==
  ASSUME Rings, NvmType, [Nvm!Next]_(Nvm!vars)
  PROVE  NvmType'
PROOF
  <1> USE DEF NvmType, Waits, Nvm!Goto
  <1>1. CASE Nvm!nvmeReadStatus
    BY <1>1 DEF Nvm!nvmeReadStatus
  <1>2. CASE Nvm!nvmeWriteConfig
    BY <1>2, ZenonT(100) DEF Nvm!nvmeWriteConfig
  <1>3. CASE Nvm!putAdminCommand
    <2>1. Nvm!Commands[cmd] \in Work
      BY <1>3, CommandTypes DEF Nvm!putAdminCommand
    <2> QED
      BY <1>3, <2>1 DEF Nvm!putAdminCommand
  <1>4. CASE Nvm!ringAdminSub
    <2>1. (drv.tail + 1) % admin_queue_size \in Nvm!Slots
      BY RingNext
    <2> QED
      BY <1>4, <2>1, ZenonT(100) DEF Nvm!ringAdminSub
  <1>5. CASE Nvm!hlt
    BY <1>5 DEF Nvm!hlt
  <1>6. CASE Nvm!getAdminResponse
    BY <1>6 DEF Nvm!getAdminResponse
  <1>7. CASE Nvm!ringAdminCom
    <2>1. (drv.head + 1) % admin_queue_size \in Nvm!Slots
      BY RingNext
    <2>2. cmd \in 1 .. 5 /\ cmd' = cmd + 1 /\ (pc' = "done" <=> cmd = 5) /\ pc' \in {"done", "put"}
      BY <1>7, CommandTypes DEF Nvm!ringAdminCom
    <2>3. drv' \in [tail : Nvm!Slots, head : Nvm!Slots, phase : {0, 1}]
      <3> DEFINE h == (drv.head + 1) % admin_queue_size
                 p == IF h = 0 THEN 1 - drv.phase ELSE drv.phase
      <3>1. drv' = [drv EXCEPT !.head = h, !.phase = p]
        BY <1>7 DEF Nvm!ringAdminCom
      <3>2. p \in {0, 1}
        OBVIOUS
      <3> HIDE DEF h, p
      <3> QED
        BY <2>1, <3>1, <3>2, ZenonT(100) DEF h
    <2>4. dev' \in [enable : BOOLEAN, ready : BOOLEAN, sub_tail : Nvm!Slots, sub_head : Nvm!Slots,
                    com_tail : Nvm!Slots, com_head : Nvm!Slots, phase : {0, 1}, work : Work]
      BY <1>7, <2>1, ZenonT(100) DEF Nvm!ringAdminCom
    <2> QED
      BY <1>7, <2>2, <2>3, <2>4 DEF Nvm!ringAdminCom
  <1>8. CASE Nvm!irqNVMeHandler \/ Nvm!OtherInterrupt
    BY <1>8, ZenonT(100) DEF Nvm!irqNVMeHandler, Nvm!OtherInterrupt, Nvm!Wake
  <1>9. CASE Nvm!DevFollow
    BY <1>9, ZenonT(100) DEF Nvm!DevFollow
  <1>10. CASE Nvm!DevFetch
    <2>1. (dev.sub_head + 1) % admin_queue_size \in Nvm!Slots /\ sub[dev.sub_head] \in Work
      BY RingNext
    <2>2. seen' \in Seq(Work)
      BY <1>10, <2>1 DEF Nvm!DevFetch
    <2> QED
      BY <1>10, <2>1, <2>2, ZenonT(100) DEF Nvm!DevFetch
  <1>11. CASE Nvm!DevComplete
    <2>1. (dev.com_tail + 1) % admin_queue_size \in Nvm!Slots
      BY RingNext
    <2>2. dev' \in [enable : BOOLEAN, ready : BOOLEAN, sub_tail : Nvm!Slots, sub_head : Nvm!Slots,
                    com_tail : Nvm!Slots, com_head : Nvm!Slots, phase : {0, 1}, work : Work]
      <3> DEFINE t == (dev.com_tail + 1) % admin_queue_size
                 p == IF t = 0 THEN 1 - dev.phase ELSE dev.phase
      <3>1. dev' = [dev EXCEPT !.work = "none", !.com_tail = t, !.phase = p]
        BY <1>11 DEF Nvm!DevComplete
      <3>2. p \in {0, 1}
        OBVIOUS
      <3>3. "none" \in Work
        BY ZenonT(100) DEF Work
      <3> HIDE DEF t, p
      <3> QED
        BY <2>1, <3>1, <3>2, <3>3, ZenonT(100) DEF t
    <2>3. com' \in [Nvm!Slots -> Work \X {0, 1}]
      BY <1>11 DEF Nvm!DevComplete
    <2> QED
      BY <1>11, <2>2, <2>3 DEF Nvm!DevComplete
  <1>12. CASE UNCHANGED Nvm!vars
    BY <1>12 DEF Nvm!vars
  <1> QED
    BY <1>1, <1>2, <1>3, <1>4, <1>5, <1>6, <1>7, <1>8, <1>9, <1>10, <1>11, <1>12
    DEF Nvm!Next, Nvm!Driver

\* The fields of the driver and of the controller have their types.
LEMMA NvmFields ==
  ASSUME NvmType
  PROVE  /\ drv.tail \in Nvm!Slots /\ drv.head \in Nvm!Slots /\ drv.phase \in {0, 1}
         /\ dev.enable \in BOOLEAN /\ dev.ready \in BOOLEAN
         /\ dev.sub_tail \in Nvm!Slots /\ dev.sub_head \in Nvm!Slots /\ dev.com_tail \in Nvm!Slots
         /\ dev.phase \in {0, 1} /\ dev.work \in Work
PROOF
  BY DEF NvmType

\* ready follows enable, so it cannot come back once status was read as stopped:
\* what initNVMe knows of the controller at each place of the reset.
ResetInv ==
  /\ pc \in {"status", "disable"} => dev.ready = dev.enable
  /\ pc = "disable" => status = dev.ready
  /\ pc = "off" => ~dev.enable /\ (~status => ~dev.ready)
  /\ pc = "setup" => ~dev.enable /\ ~dev.ready

\* Every step preserves ResetInv.
LEMMA ResetNext ==
  ASSUME NvmType, ResetInv, [Nvm!Next]_(Nvm!vars)
  PROVE  ResetInv'
PROOF
  <1> USE NvmFields DEF Nvm!Goto
  <1>1. CASE Nvm!nvmeReadStatus
    BY <1>1 DEF Nvm!nvmeReadStatus, ResetInv
  <1>2. CASE Nvm!nvmeWriteConfig
    <2>1. pc = "disable" => dev'.enable = FALSE /\ dev'.ready = dev.ready /\ status' = status
      BY <1>2 DEF Nvm!nvmeWriteConfig, NvmType
    <2> QED
      BY <1>2, <2>1 DEF Nvm!nvmeWriteConfig, ResetInv
  <1>3. CASE Nvm!putAdminCommand \/ Nvm!ringAdminSub \/ Nvm!hlt \/ Nvm!getAdminResponse
             \/ Nvm!ringAdminCom
    BY <1>3 DEF Nvm!putAdminCommand, Nvm!ringAdminSub, Nvm!hlt, Nvm!getAdminResponse,
                Nvm!ringAdminCom, ResetInv
  <1>4. CASE Nvm!irqNVMeHandler \/ Nvm!OtherInterrupt
    BY <1>4 DEF Nvm!irqNVMeHandler, Nvm!OtherInterrupt, Nvm!Wake, ResetInv
  <1>5. CASE Nvm!DevFollow
    <2>1. /\ dev'.enable = dev.enable /\ dev'.ready = dev.enable /\ dev.ready # dev.enable
          /\ pc' = pc /\ status' = status
      BY <1>5 DEF Nvm!DevFollow, NvmType
    <2> QED
      BY <2>1 DEF ResetInv
  <1>6. CASE Nvm!DevFetch \/ Nvm!DevComplete
    <2>1. dev'.enable = dev.enable /\ dev'.ready = dev.ready /\ pc' = pc /\ status' = status
      BY <1>6, ZenonT(100) DEF Nvm!DevFetch, Nvm!DevComplete, NvmType
    <2> QED
      BY <2>1 DEF ResetInv
  <1>7. CASE UNCHANGED Nvm!vars
    BY <1>7 DEF Nvm!vars, ResetInv
  <1> QED
    BY <1>1, <1>2, <1>3, <1>4, <1>5, <1>6, <1>7 DEF Nvm!Next, Nvm!Driver

\* Nvm!SetUpWhileOff: initNVMe writes the queue registers and sets enable only when
\* the controller is disabled and has stopped, whether or not the firmware had left
\* it running.
THEOREM SetUpOff ==
  ASSUME Rings
  PROVE  Nvm!Spec => [][Nvm!SetUpWhileOff]_(Nvm!vars)
PROOF
  <1> DEFINE I == NvmType /\ ResetInv
  <1>1. Nvm!Init => I
    <2> SUFFICES ASSUME Nvm!Init PROVE I
      OBVIOUS
    <2>1. NvmType
      BY NvmTypeInit
    <2>2. ResetInv
      BY DEF Nvm!Init, ResetInv
    <2> QED
      BY <2>1, <2>2
  <1>2. I /\ [Nvm!Next]_(Nvm!vars) => I'
    BY NvmTypeNext, ResetNext
  <1>3. I /\ [Nvm!Next]_(Nvm!vars) => [Nvm!SetUpWhileOff]_(Nvm!vars)
    BY DEF ResetInv, Nvm!SetUpWhileOff
  <1> HIDE DEF I
  <1> QED
    BY <1>1, <1>2, <1>3, PTL DEF Nvm!Spec

\* The rings are larger than the number of commands (the code: eight and five).
Roomy == admin_queue_size \in Nat /\ admin_queue_size > Len(Nvm!Commands)

\* The tail counts the commands submitted, and slot j has command j + 1 from its
\* putAdminCommand on.  The controller has fetched a part of those announced.
SubmitInv ==
  /\ drv.tail = IF pc \in Waits THEN cmd ELSE cmd - 1
  /\ dev.sub_tail = drv.tail
  /\ \A j \in 0 .. drv.tail - 1 : sub[j] = Nvm!Commands[j + 1]
  /\ pc = "ring" => sub[drv.tail] = Nvm!Commands[cmd]
  /\ dev.sub_head <= drv.tail
  /\ Len(seen) = dev.sub_head
  /\ \A n \in 1 .. Len(seen) : seen[n] = Nvm!Commands[n]

\* A step that keeps the ring, the tail and the place in the list of commands.
LEMMA SubmitKept ==
  ASSUME SubmitInv, UNCHANGED <<cmd, sub, seen>>, drv'.tail = drv.tail,
         dev'.sub_tail = dev.sub_tail, dev'.sub_head = dev.sub_head,
         pc' \in Waits <=> pc \in Waits, pc' # "ring"
  PROVE  SubmitInv'
PROOF
  BY DEF SubmitInv, Waits

\* Every step preserves SubmitInv.
LEMMA SubmitNext ==
  ASSUME Roomy, NvmType, SubmitInv, [Nvm!Next]_(Nvm!vars)
  PROVE  SubmitInv'
PROOF
  <1> USE DEF Nvm!Goto
  <1>0. Rings /\ Len(Nvm!Commands) = 5 /\ Nvm!Slots = 0 .. admin_queue_size - 1
        /\ admin_queue_size \in Nat /\ admin_queue_size > 5
    BY CommandTypes DEF Roomy, Rings, Nvm!Slots
  <1>a. /\ drv.tail \in Nat /\ drv.tail < admin_queue_size /\ dev.sub_head \in Nat
        /\ cmd \in 1 .. 6 /\ (cmd = 6 <=> pc = "done")
    BY <1>0, NvmFields DEF NvmType
  <1>1. CASE Nvm!nvmeReadStatus \/ Nvm!nvmeWriteConfig
    <2>1. /\ UNCHANGED <<cmd, sub, seen, drv>> /\ dev'.sub_tail = dev.sub_tail
          /\ dev'.sub_head = dev.sub_head
      BY <1>1 DEF Nvm!nvmeReadStatus, Nvm!nvmeWriteConfig, NvmType
    <2>2. pc' \notin Waits /\ pc \notin Waits /\ pc' # "ring"
      BY <1>1 DEF Nvm!nvmeReadStatus, Nvm!nvmeWriteConfig, Waits
    <2> QED
      BY <2>1, <2>2, SubmitKept
  <1>2. CASE Nvm!putAdminCommand
    <2>1. sub' = [sub EXCEPT ![drv.tail] = Nvm!Commands[cmd]] /\ drv.tail = cmd - 1
          /\ UNCHANGED <<cmd, drv, dev, seen>> /\ pc' = "ring"
      BY <1>2 DEF Nvm!putAdminCommand, SubmitInv, Waits
    <2>2. sub'[drv.tail] = Nvm!Commands[cmd] /\ \A j \in 0 .. drv.tail - 1 : sub'[j] = sub[j]
      BY <1>0, <1>a, <2>1 DEF NvmType
    <2> QED
      BY <2>1, <2>2 DEF SubmitInv, Waits
  <1>3. CASE Nvm!ringAdminSub
    <2>1. drv.tail = cmd - 1 /\ cmd < 6 /\ pc = "ring" /\ pc' = "hlt" /\ UNCHANGED <<cmd, sub, seen>>
      BY <1>3, <1>a DEF Nvm!ringAdminSub, SubmitInv, Waits
    <2>2. (drv.tail + 1) % admin_queue_size = drv.tail + 1
      BY <1>0, <1>a, <2>1
    <2>3. /\ drv'.tail = drv.tail + 1 /\ dev'.sub_tail = drv.tail + 1
          /\ dev'.sub_head = dev.sub_head
      BY <1>3, <2>2 DEF Nvm!ringAdminSub, NvmType
    <2>4. \A j \in 0 .. drv.tail : sub[j] = Nvm!Commands[j + 1]
      BY <1>a, <2>1 DEF SubmitInv
    <2> QED
      BY <1>a, <2>1, <2>3, <2>4 DEF SubmitInv, Waits
  <1>4. CASE Nvm!hlt \/ Nvm!getAdminResponse \/ Nvm!irqNVMeHandler \/ Nvm!OtherInterrupt
    <2>1. UNCHANGED <<cmd, sub, seen, drv, dev>>
      BY <1>4 DEF Nvm!hlt, Nvm!getAdminResponse, Nvm!irqNVMeHandler, Nvm!OtherInterrupt
    <2>2. pc' = pc \/ (pc' \in Waits /\ pc \in Waits)
      BY <1>4 DEF Nvm!hlt, Nvm!getAdminResponse, Nvm!irqNVMeHandler, Nvm!OtherInterrupt, Nvm!Wake,
                  Waits
    <2> QED
      BY <2>1, <2>2 DEF SubmitInv, Waits
  <1>5. CASE Nvm!ringAdminCom
    <2>1. /\ cmd' = cmd + 1 /\ UNCHANGED <<sub, seen>> /\ pc \in Waits
          /\ pc' \in {"done", "put"} /\ drv'.tail = drv.tail
          /\ dev'.sub_tail = dev.sub_tail /\ dev'.sub_head = dev.sub_head
      BY <1>5 DEF Nvm!ringAdminCom, NvmType, Waits
    <2>2. pc' \notin Waits /\ pc' # "ring" /\ (cmd + 1) - 1 = cmd
      BY <1>a, <2>1 DEF Waits
    <2> QED
      BY <2>1, <2>2 DEF SubmitInv
  <1>6. CASE Nvm!DevFollow \/ Nvm!DevComplete
    <2>1. /\ UNCHANGED <<pc, cmd, sub, seen, drv>> /\ dev'.sub_tail = dev.sub_tail
          /\ dev'.sub_head = dev.sub_head
      BY <1>6, ZenonT(100) DEF Nvm!DevFollow, Nvm!DevComplete, NvmType
    <2> QED
      BY <2>1 DEF SubmitInv
  <1>7. CASE Nvm!DevFetch
    <2> DEFINE h == dev.sub_head
    <2>1. h # drv.tail /\ h < drv.tail /\ h + 1 < admin_queue_size
      BY <1>7, <1>0, <1>a DEF Nvm!DevFetch, SubmitInv, Waits
    <2>2. (h + 1) % admin_queue_size = h + 1
      BY <1>0, <1>a, <2>1
    <2>3. UNCHANGED <<pc, cmd, sub, drv>> /\ seen' = Append(seen, sub[h])
      BY <1>7 DEF Nvm!DevFetch
    <2>4. dev'.sub_tail = dev.sub_tail /\ dev'.sub_head = h + 1
      BY <1>7, <2>2 DEF Nvm!DevFetch, NvmType
    <2>5. sub[h] = Nvm!Commands[h + 1]
      BY <1>a, <2>1 DEF SubmitInv
    <2>6. seen \in Seq(Work) /\ Len(seen) = h /\ \A n \in 1 .. h : seen[n] = Nvm!Commands[n]
      BY DEF SubmitInv, NvmType
    <2> HIDE DEF h
    <2>7. /\ Len(seen') = h + 1
          /\ \A n \in 1 .. Len(seen') : seen'[n] = Nvm!Commands[n]
      BY <2>3, <2>5, <2>6
    <2> QED
      BY <1>a, <2>1, <2>3, <2>4, <2>7 DEF SubmitInv, h
  <1>8. CASE UNCHANGED Nvm!vars
    BY <1>8 DEF Nvm!vars, SubmitInv
  <1> QED
    BY <1>1, <1>2, <1>3, <1>4, <1>5, <1>6, <1>7, <1>8 DEF Nvm!Next, Nvm!Driver

\* Nvm!CommandsKept: the controller gets the commands of initNVMe once and in their
\* order, however early other interrupts end a hlt, for rings that are larger than
\* the number of commands.
THEOREM CommandsAllKept ==
  ASSUME Roomy
  PROVE  Nvm!Spec => []Nvm!CommandsKept
PROOF
  <1> DEFINE I == NvmType /\ SubmitInv
  <1>0. Rings
    BY CommandTypes DEF Roomy, Rings
  <1>1. Nvm!Init => I
    <2> SUFFICES ASSUME Nvm!Init PROVE I
      OBVIOUS
    <2>1. NvmType
      BY <1>0, NvmTypeInit
    <2>2. SubmitInv
      BY DEF Nvm!Init, SubmitInv, Waits
    <2> QED
      BY <2>1, <2>2
  <1>2. I /\ [Nvm!Next]_(Nvm!vars) => I'
    BY <1>0, NvmTypeNext, SubmitNext
  <1>3. I => Nvm!CommandsKept
    <2> SUFFICES ASSUME I PROVE Nvm!CommandsKept
      OBVIOUS
    <2>1. cmd \in 1 .. 6 /\ seen \in Seq(Work) /\ drv.tail \in Nat /\ dev.sub_head \in Nat
      BY <1>0, NvmFields DEF NvmType, Nvm!Slots, Rings
    <2>2. Len(seen) <= drv.tail /\ drv.tail <= cmd
      BY <2>1 DEF SubmitInv
    <2>3. cmd = 6 => drv.tail = 5
      BY DEF SubmitInv, NvmType, Waits
    <2>4. Len(seen) <= IF cmd > Len(Nvm!Commands) THEN cmd - 1 ELSE cmd
      BY <2>1, <2>2, <2>3, CommandTypes
    <2>5. \A n \in DOMAIN seen : seen[n] = Nvm!Commands[n]
      BY <2>1 DEF SubmitInv
    <2> QED
      BY <2>4, <2>5 DEF Nvm!CommandsKept
  <1> HIDE DEF I
  <1> QED
    BY <1>1, <1>2, <1>3, PTL DEF Nvm!Spec

\* The driver's and the controller's places in the completion ring agree.
Even == dev.com_tail = drv.head /\ dev.phase = drv.phase

\* Nothing is under way.
Rest == Even /\ dev.work = "none" /\ dev.sub_head = dev.sub_tail /\ ~irq

\* The command is announced, fetched, answered.
Submitted ==
  /\ Even /\ dev.work = "none" /\ ~irq
  /\ dev.sub_tail = (dev.sub_head + 1) % admin_queue_size
  /\ sub[dev.sub_head] = Nvm!Commands[cmd]
Working == Even /\ dev.work = Nvm!Commands[cmd] /\ dev.sub_head = dev.sub_tail /\ ~irq
Answered ==
  /\ dev.work = "none" /\ dev.sub_head = dev.sub_tail
  /\ com[drv.head] = <<Nvm!Commands[cmd], drv.phase>>
  /\ dev.com_tail = (drv.head + 1) % admin_queue_size
  /\ dev.phase = IF dev.com_tail = 0 THEN 1 - drv.phase ELSE drv.phase

\* As long as no other interrupt has ended a hlt, the driver and the controller
\* take turns, command by command, around the rings.
TurnInv ==
  /\ dev.sub_tail = drv.tail
  /\ pc \notin Waits => Rest
  /\ pc = "ring" => sub[drv.tail] = Nvm!Commands[cmd]
  /\ pc \in {"hlt", "halted"} => Submitted \/ Working \/ Answered
  /\ pc \in {"get", "ringcom"} => Answered /\ ~irq
  /\ pc = "ringcom" => response = <<Nvm!Commands[cmd], drv.phase>>

\* Without such an interrupt every step preserves TurnInv.
LEMMA TurnNext ==
  ASSUME Rings, NvmType, TurnInv, [Nvm!Next]_(Nvm!vars), ~stray'
  PROVE  TurnInv'
PROOF
  <1> USE DEF Nvm!Goto
  <1>0. /\ drv.tail \in Nvm!Slots /\ drv.head \in Nvm!Slots /\ dev.com_tail \in Nvm!Slots
        /\ dev.sub_head \in Nvm!Slots
    BY NvmFields
  <1>1. CASE Nvm!nvmeReadStatus \/ Nvm!nvmeWriteConfig
    <2>1. /\ UNCHANGED <<cmd, sub, com, drv, irq, response>>
          /\ dev'.sub_tail = dev.sub_tail /\ dev'.sub_head = dev.sub_head
          /\ dev'.com_tail = dev.com_tail /\ dev'.phase = dev.phase /\ dev'.work = dev.work
      BY <1>1 DEF Nvm!nvmeReadStatus, Nvm!nvmeWriteConfig, NvmType
    <2>2. pc' \notin Waits /\ pc \notin Waits /\ pc' # "ring"
      BY <1>1 DEF Nvm!nvmeReadStatus, Nvm!nvmeWriteConfig, Waits
    <2> QED
      BY <2>1, <2>2 DEF TurnInv, Rest, Even, Waits
  <1>2. CASE Nvm!putAdminCommand
    <2>1. sub' = [sub EXCEPT ![drv.tail] = Nvm!Commands[cmd]] /\ pc = "put" /\ pc' = "ring"
          /\ UNCHANGED <<cmd, drv, dev, com, irq, response>>
      BY <1>2 DEF Nvm!putAdminCommand
    <2>2. sub'[drv.tail] = Nvm!Commands[cmd]
      BY <1>0, <2>1 DEF NvmType
    <2> QED
      BY <2>1, <2>2 DEF TurnInv, Rest, Even, Waits
  <1>3. CASE Nvm!ringAdminSub
    <2> DEFINE t == (drv.tail + 1) % admin_queue_size
    <2>1. pc = "ring" /\ pc' = "hlt" /\ UNCHANGED <<cmd, sub, com, irq>>
      BY <1>3 DEF Nvm!ringAdminSub
    <2>2. /\ drv'.tail = t /\ drv'.head = drv.head /\ drv'.phase = drv.phase
          /\ dev'.sub_tail = t /\ dev'.sub_head = dev.sub_head /\ dev'.work = dev.work
          /\ dev'.com_tail = dev.com_tail /\ dev'.phase = dev.phase
      BY <1>3 DEF Nvm!ringAdminSub, NvmType
    <2>3. Rest /\ sub[drv.tail] = Nvm!Commands[cmd] /\ dev.sub_tail = drv.tail
      BY <2>1 DEF TurnInv, Waits
    <2>4. Submitted'
      BY <2>1, <2>2, <2>3 DEF Rest, Even, Submitted
    <2> QED
      BY <2>1, <2>2, <2>4 DEF TurnInv, Waits
  <1>4. CASE Nvm!hlt
    BY <1>4 DEF Nvm!hlt, TurnInv, Waits, Submitted, Working, Answered, Even
  <1>5. CASE Nvm!getAdminResponse
    <2>1. pc = "get" /\ pc' = "ringcom" /\ response' = com[drv.head]
          /\ UNCHANGED <<cmd, drv, dev, com, irq>>
      BY <1>5 DEF Nvm!getAdminResponse
    <2> QED
      BY <2>1 DEF TurnInv, Waits, Answered
  <1>6. CASE Nvm!ringAdminCom
    <2> DEFINE h == (drv.head + 1) % admin_queue_size
               p == IF h = 0 THEN 1 - drv.phase ELSE drv.phase
    <2>1. pc = "ringcom" /\ pc' \in {"done", "put"} /\ UNCHANGED <<irq>>
      BY <1>6 DEF Nvm!ringAdminCom
    <2>2. /\ drv'.tail = drv.tail /\ drv'.head = h /\ drv'.phase = p
          /\ dev'.sub_tail = dev.sub_tail /\ dev'.sub_head = dev.sub_head /\ dev'.work = dev.work
          /\ dev'.com_tail = dev.com_tail /\ dev'.phase = dev.phase
      BY <1>6 DEF Nvm!ringAdminCom, NvmType
    <2>3. Answered /\ ~irq /\ dev.sub_tail = drv.tail
      BY <2>1 DEF TurnInv
    <2>4. dev.com_tail = h /\ dev.phase = p
      BY <2>3 DEF Answered
    <2> HIDE DEF h, p
    <2>5. Rest'
      BY <2>1, <2>2, <2>3, <2>4 DEF Rest, Even, Answered
    <2> QED
      BY <2>1, <2>2, <2>3, <2>5 DEF TurnInv, Waits
  <1>7. CASE Nvm!irqNVMeHandler
    <2>1. irq /\ ~irq' /\ UNCHANGED <<cmd, drv, dev, sub, com, response>>
          /\ pc' = IF pc = "halted" THEN "get" ELSE pc
      BY <1>7 DEF Nvm!irqNVMeHandler, Nvm!Wake
    <2>2. Answered /\ pc \in {"hlt", "halted"}
      BY <2>1 DEF TurnInv, Rest, Submitted, Working, Waits, NvmType
    <2>3. Answered'
      BY <2>1, <2>2 DEF Answered
    <2> QED
      BY <2>1, <2>2, <2>3 DEF TurnInv, Waits
  <1>8. CASE Nvm!OtherInterrupt
    BY <1>8 DEF Nvm!OtherInterrupt
  <1>9. CASE Nvm!DevFollow
    <2>1. /\ UNCHANGED <<pc, cmd, sub, com, drv, irq, response>>
          /\ dev'.sub_tail = dev.sub_tail /\ dev'.sub_head = dev.sub_head
          /\ dev'.com_tail = dev.com_tail /\ dev'.phase = dev.phase /\ dev'.work = dev.work
      BY <1>9 DEF Nvm!DevFollow, NvmType
    <2> QED
      BY <2>1 DEF TurnInv, Rest, Even, Submitted, Working, Answered
  <1>10. CASE Nvm!DevFetch
    <2> DEFINE n == (dev.sub_head + 1) % admin_queue_size
    <2>1. /\ dev.sub_head # dev.sub_tail /\ dev.work = "none"
          /\ UNCHANGED <<pc, cmd, sub, com, drv, irq, response>>
      BY <1>10 DEF Nvm!DevFetch
    <2>2. /\ dev'.sub_tail = dev.sub_tail /\ dev'.sub_head = n
          /\ dev'.com_tail = dev.com_tail /\ dev'.phase = dev.phase
          /\ dev'.work = sub[dev.sub_head]
      BY <1>10 DEF Nvm!DevFetch, NvmType
    <2>3. Submitted /\ pc \in {"hlt", "halted"} /\ dev.sub_tail = drv.tail
      BY <2>1 DEF TurnInv, Rest, Working, Answered, Waits, NvmType
    <2>4. Working'
      BY <2>1, <2>2, <2>3, ZenonT(100) DEF Submitted, Working, Even
    <2> QED
      BY <2>1, <2>2, <2>3, <2>4, ZenonT(100) DEF TurnInv, Waits
  <1>11. CASE Nvm!DevComplete
    <2> DEFINE t == (dev.com_tail + 1) % admin_queue_size
               p == IF t = 0 THEN 1 - dev.phase ELSE dev.phase
    <2>1. /\ dev.work # "none" /\ UNCHANGED <<pc, cmd, sub, drv, response>>
          /\ com' = [com EXCEPT ![dev.com_tail] = <<dev.work, dev.phase>>]
      BY <1>11 DEF Nvm!DevComplete
    <2>2. /\ dev'.sub_tail = dev.sub_tail /\ dev'.sub_head = dev.sub_head
          /\ dev'.com_tail = t /\ dev'.phase = p /\ dev'.work = "none"
      BY <1>11 DEF Nvm!DevComplete, NvmType
    <2>3. Working /\ pc \in {"hlt", "halted"} /\ dev.sub_tail = drv.tail
      BY <2>1 DEF TurnInv, Rest, Submitted, Answered, Waits, NvmType
    <2>4. com'[drv.head] = <<Nvm!Commands[cmd], drv.phase>>
      BY <1>0, <2>1, <2>3 DEF Working, Even, NvmType
    <2>5. t = (drv.head + 1) % admin_queue_size /\ p = IF t = 0 THEN 1 - drv.phase ELSE drv.phase
      BY <2>3 DEF Working, Even
    <2> HIDE DEF t, p
    <2>6. Answered'
      BY <2>1, <2>2, <2>3, <2>4, <2>5 DEF Working, Answered, Even
    <2> QED
      BY <2>1, <2>2, <2>3, <2>6 DEF TurnInv, Waits
  <1>12. CASE UNCHANGED Nvm!vars
    BY <1>12 DEF Nvm!vars, TurnInv, Rest, Even, Submitted, Working, Answered
  <1> QED
    BY <1>1, <1>2, <1>3, <1>4, <1>5, <1>6, <1>7, <1>8, <1>9, <1>10, <1>11, <1>12
    DEF Nvm!Next, Nvm!Driver

\* An interrupt of another device that has ended a hlt is not forgotten.
LEMMA StrayStays ==
  ASSUME NvmType, [Nvm!Next]_(Nvm!vars), ~stray'
  PROVE  ~stray
PROOF
  BY DEF Nvm!Next, Nvm!Driver, Nvm!vars, Nvm!nvmeReadStatus, Nvm!nvmeWriteConfig,
         Nvm!putAdminCommand, Nvm!ringAdminSub, Nvm!hlt, Nvm!getAdminResponse, Nvm!ringAdminCom,
         Nvm!irqNVMeHandler, Nvm!OtherInterrupt, Nvm!DevFollow, Nvm!DevFetch, Nvm!DevComplete

\* Nvm!ResponseInStep: as long as only the controller's interrupts end a hlt, the
\* entry that getAdminResponse copies is the answer to the command just submitted
\* and has the phase admin_new_phase, which the code never tests, for rings of any
\* size and so also when they wrap.
THEOREM ResponsesInStep ==
  ASSUME Rings
  PROVE  Nvm!Spec => []Nvm!ResponseInStep
PROOF
  <1> DEFINE I == NvmType /\ (~stray => TurnInv)
  <1>1. Nvm!Init => I
    <2> SUFFICES ASSUME Nvm!Init PROVE I
      OBVIOUS
    <2>1. NvmType
      BY NvmTypeInit
    <2>2. TurnInv
      BY DEF Nvm!Init, TurnInv, Rest, Even, Waits
    <2> QED
      BY <2>1, <2>2
  <1>2. I /\ [Nvm!Next]_(Nvm!vars) => I'
    BY NvmTypeNext, TurnNext, StrayStays
  <1>3. I => Nvm!ResponseInStep
    BY DEF NvmType, TurnInv, Rest, Even, Waits, Nvm!ResponseInStep
  <1> HIDE DEF I
  <1> QED
    BY <1>1, <1>2, <1>3, PTL DEF Nvm!Spec
=============================================================================
