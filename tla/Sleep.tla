------------------------------- MODULE Sleep -------------------------------
(***************************************************************************)
(* Sleeping on the two timers: device/apic/timer.c and device/hpet/hpet.c. *)
(* A sleep arms a one-shot, waits for the handler to count an interrupt,   *)
(* and takes the count back.  initAPICTimer measures the speed of the APIC *)
(* timer with an HPET sleep inside a pair of hpetStart and hpetStop.       *)
(*                                                                         *)
(* A timer fires at any time once it is armed, so also between the test of *)
(* time_counter and the hlt: that sleep goes on until another interrupt.   *)
(* Three more things keep a sleep from its interrupt: a count that is 0 in *)
(* the 32 bits of the APIC's register, an HPET comparator that is written  *)
(* after its time (it would match again only when the counter has gone     *)
(* round), and initThread (boot/kernel.c), which gives IRQ0 to another     *)
(* handler.  The APIC timer does not run out during the measurement.       *)
(***************************************************************************)
EXTENDS Integers

CONSTANTS
  NS,         \* nanoseconds in a second
  Word,       \* values of a register of the APIC, 2^32
  Rates,      \* APIC timer ticks per second, as measured
  period,     \* nanoseconds per tick of the HPET
  Times       \* lengths of a sleep

VARIABLES
  pc,         \* what the processor does
  dev,        \* the timer of the sleep, "apic" or "hpet"
  time,       \* its length
  rate,       \* ticks per second of the APIC timer
  nanoseconds_per_tick, \* 0 until initAPICTimer is done
  armed,      \* ticks that each timer has to go, 0 when it is not armed
  lvt,        \* the APIC timer's entry: "IRQ0" or "mask"
  on,         \* the enable bit of the HPET
  pending,    \* timers whose interrupt is not handled yet
  time_counter, \* of each timer
  fired,      \* ghost: the timer fired in this sleep
  irq0,       \* the handler of IRQ0
  late        \* the HPET's comparator was written after its time

vars == <<pc, dev, time, rate, nanoseconds_per_tick, armed, lvt, on, pending, time_counter, fired,
          irq0, late>>

calm == <<rate, nanoseconds_per_tick>>

Devices == {"apic", "hpet"}

Init ==
  /\ pc = "boot" /\ dev = "hpet" /\ time = 0
  /\ rate \in Rates /\ nanoseconds_per_tick = 0
  /\ armed = [d \in Devices |-> 0] /\ lvt = "mask" /\ on = FALSE
  /\ pending = {} /\ time_counter = [d \in Devices |-> 0] /\ fired = FALSE
  /\ irq0 = "irqAPICTimerHandler" /\ late = FALSE

-----------------------------------------------------------------------------
(* The registers.                                                          *)

\* Mutant: the enable bit is toggled, as hpetStop does.
hpetStartToggle(b) == ~b

hpetStart(b) == TRUE      \* | 0x1
hpetStop(b) == ~b         \* ^ 0x1

\* The ticks of a one-shot, at least one.
Ticks(t, tick) == (IF t < tick THEN tick ELSE t) \div tick

Resolution(r) == NS \div r + (IF NS % r # 0 THEN 1 ELSE 0)

-----------------------------------------------------------------------------
(* The processor.                                                          *)

\* initAPICTimer up to its sleep.
initAPICTimer ==
  /\ pc = "boot"
  /\ on' = hpetStart(on) /\ lvt' = "IRQ0"
  /\ dev' = "hpet" /\ time' \in Times
  /\ pc' = "sleep"
  /\ UNCHANGED <<calm, armed, pending, time_counter, fired, irq0, late>>

\* initThread registers irqThreadTimerHandler, which counts nothing.
initThread ==
  /\ pc = "idle" /\ irq0' = "irqThreadTimerHandler"
  /\ UNCHANGED <<calm, pc, dev, time, armed, lvt, on, pending, time_counter, fired, late>>

\* A sleep is called for.
Sleep ==
  /\ pc = "idle"
  /\ dev' \in Devices /\ time' \in Times
  /\ pc' = "sleep"
  /\ UNCHANGED <<calm, armed, lvt, on, pending, time_counter, fired, irq0, late>>

\* The count as the register takes it; writing 0 stops the timer.
apicTimerOneShot ==
  LET n == Ticks(time, nanoseconds_per_tick) % Word
  IN  /\ pc = "sleep" /\ dev = "apic"
      /\ lvt' = "IRQ0" /\ armed' = [armed EXCEPT !["apic"] = n]
      /\ fired' = FALSE /\ pc' = "test"
      /\ UNCHANGED <<calm, dev, time, on, pending, time_counter, irq0, late>>

\* hpetStart and hpetOneShot: the counter is read, and the comparator is written
\* when the counter may have passed it.
hpetOneShot ==
  /\ dev = "hpet"
  /\ \/ /\ pc = "sleep" /\ pc' = "counter"
        /\ on' = hpetStart(on)
        /\ UNCHANGED <<armed, fired, late>>
     \/ /\ pc = "counter" /\ pc' = "test"
        /\ late' \in BOOLEAN
        /\ armed' = [armed EXCEPT !["hpet"] = IF late' THEN 0 ELSE Ticks(time, period)]
        /\ fired' = FALSE
        /\ UNCHANGED on
  /\ UNCHANGED <<calm, dev, time, lvt, pending, time_counter, irq0>>

Test ==
  /\ pc = "test"
  /\ pc' = IF time_counter[dev] = 0 THEN "hlt" ELSE "awake"
  /\ UNCHANGED <<calm, dev, time, armed, lvt, on, pending, time_counter, fired, irq0, late>>

Hlt ==
  /\ pc = "hlt" /\ pc' = "halted"
  /\ UNCHANGED <<calm, dev, time, armed, lvt, on, pending, time_counter, fired, irq0, late>>

\* Mutant: the count is not taken back.
CounterKept == time_counter

Counter == [time_counter EXCEPT ![dev] = 0]

\* The end of apicNanosleep and of hpetNanosleep.
Return ==
  /\ pc = "awake"
  /\ IF dev = "apic" THEN lvt' = "mask" /\ UNCHANGED on ELSE on' = hpetStop(on) /\ UNCHANGED lvt
  /\ time_counter' = Counter
  /\ pc' = IF nanoseconds_per_tick = 0 THEN "measured" ELSE "idle"
  /\ UNCHANGED <<calm, dev, time, armed, pending, fired, irq0, late>>

\* The rest of initAPICTimer.  hpetStop toggles the bit a second time.
Calibrate ==
  /\ pc = "measured"
  /\ lvt' = "mask" /\ on' = hpetStop(on)
  /\ nanoseconds_per_tick' = Resolution(rate)
  /\ pc' = "idle"
  /\ UNCHANGED <<dev, time, rate, armed, pending, time_counter, fired, irq0, late>>

-----------------------------------------------------------------------------
(* The timers and their handlers.                                          *)

Fire(d) ==
  /\ armed[d] # 0
  /\ d = "hpet" => on
  /\ armed' = [armed EXCEPT ![d] = 0]
  /\ pending' = IF d = "apic" /\ lvt = "mask" THEN pending ELSE pending \cup {d}
  /\ fired' = (fired \/ d = dev)
  /\ UNCHANGED <<calm, pc, dev, time, lvt, on, time_counter, irq0, late>>

\* The handlers that count: irqHPETHandler, and irqAPICTimerHandler while IRQ0 is its.
Counts(d) == d = "hpet" \/ irq0 = "irqAPICTimerHandler"

\* An interrupt ends the hlt.
Handler(d) ==
  /\ d \in pending
  /\ pending' = pending \ {d}
  /\ time_counter' = IF Counts(d) THEN [time_counter EXCEPT ![d] = @ + 1] ELSE time_counter
  /\ pc' = IF pc = "halted" THEN "test" ELSE pc
  /\ UNCHANGED <<calm, dev, time, armed, lvt, on, fired, irq0, late>>

\* The handler of another interrupt.
OtherInterrupt ==
  /\ pc = "halted" /\ pc' = "test"
  /\ UNCHANGED <<calm, dev, time, armed, lvt, on, pending, time_counter, fired, irq0, late>>

\* What the processor does on its own, once a sleep was called for.
Goes == initAPICTimer \/ apicTimerOneShot \/ hpetOneShot \/ Test \/ Hlt \/ Return \/ Calibrate

Next ==
  \/ Goes \/ Sleep \/ initThread
  \/ \E d \in Devices : Fire(d) \/ Handler(d)
  \/ OtherInterrupt

\* The processor goes on, armed timers fire and their interrupts are handled.
\* Nothing promises another interrupt.
Spec ==
  /\ Init /\ [][Next]_vars
  /\ WF_vars(Goes)
  /\ \A d \in Devices : WF_vars(Fire(d)) /\ WF_vars(Handler(d))

-----------------------------------------------------------------------------
(* Properties.                                                             *)

\* A sleep returns only after its own timer has fired, not because of an
\* interrupt that was counted before or of some other interrupt.
OwnTimer == pc = "awake" => fired

\* What keeps the interrupt of a sleep away: its one-shot never fires, its handler
\* counts nothing, or it came between the test of time_counter and the hlt.
Unarmed == IF dev = "apic" THEN Ticks(time, nanoseconds_per_tick) % Word = 0 ELSE late
Missed ==
  /\ pc \in {"test", "hlt", "halted"}
  /\ Unarmed \/ ~Counts(dev) \/ (pc = "halted" /\ time_counter[dev] > 0)

\* Every other sleep returns, however often the HPET was started and stopped before.
SleepReturns == pc = "sleep" ~> pc = "awake" \/ Missed
=============================================================================
