----------------------------- MODULE InputQueue -----------------------------
(***************************************************************************)
(* The keyboard input queue: device/input/iqueue.c and input.c, filled by  *)
(* the keyboard interrupt (device/keyboard/keyboard.c) and emptied by the  *)
(* threads that are inside sys_getc.                                       *)
(*                                                                         *)
(* There is one processor.  Interrupt handlers run with interrupts off, so *)
(* each is one step; a thread can be interrupted, and preempted by the     *)
(* timer, between any two of its steps, also while it holds the queue's    *)
(* spinlock.  The keyboard handler does not take that lock.                *)
(*                                                                         *)
(* A thread in hlt stops the processor until the next interrupt.           *)
(***************************************************************************)
EXTENDS Naturals, Sequences

CONSTANTS Threads,         \* threads that may call sys_getc
          Chars,           \* characters the keyboard can produce
          Nul,             \* the zero byte, in Chars
          IQUEUE_BUFSIZE

ASSUME BufsizeAssumption == IQUEUE_BUFSIZE \in Nat \ {0, 1}
ASSUME NulAssumption == Nul \in Chars
ASSUME ThreadsAssumption == Threads # {}

VARIABLES
  buf, head, tail,   \* iqueue_t: head is the write, tail the read position
  lock,              \* iqueue_t.lock, 0 or BUSY
  current,           \* the thread the processor is running
  pc,                \* where each thread is inside inputGetc
  c,                 \* iqueueGetc's local: the character loaded from buf
  idx,               \* the value of tail that getc loaded
  ret,               \* the character each thread's latest getc returned
  cpu                \* "runs", or "hung": in hlt inside an interrupt handler

queue == <<buf, head, tail>>
regs == <<c, idx, ret>>
vars == <<buf, head, tail, lock, current, pc, c, idx, ret, cpu>>

BUSY == 1
Slots == 0 .. IQUEUE_BUFSIZE - 1

\* Where a thread can be.  "lock" spins in spinLock; "test" evaluates the
\* loop condition; "yield" and "hlt" are the loop body; "halted" is inside
\* hlt; "read", "load" and "advance" are the two accesses after the loop;
\* "unlock" is inputGetc's inputUnlock.
Points == {"user", "lock", "test", "yield", "hlt", "halted",
           "read", "load", "advance", "unlock"}

\* Mutant: the wrap is forgotten.
nextNoWrap(pos) == pos + 1

next(pos) == (pos + 1) % IQUEUE_BUFSIZE

iqueueEmpty == head = tail

\* Mutant: the full test does not wrap.
iqueueFullNoWrap == head + 1 = tail

iqueueFull == next(head) = tail

initIQueue ==
  /\ lock = 0
  /\ head = 0
  /\ tail = 0

Init ==
  /\ initIQueue
  /\ buf = [i \in Slots |-> Nul]
  /\ current \in Threads
  /\ pc = [t \in Threads |-> "user"]
  /\ c = [t \in Threads |-> Nul]
  /\ idx = [t \in Threads |-> 0]
  /\ ret = [t \in Threads |-> Nul]
  /\ cpu = "runs"

-----------------------------------------------------------------------------
(* Steps of the running thread.                                            *)

Runs(t) == current = t /\ cpu = "runs"

Goto(t, from, to) == pc[t] = from /\ pc' = [pc EXCEPT ![t] = to]

\* The system call enters inputGetc.
sys_getc(t) ==
  /\ Runs(t) /\ Goto(t, "user", "lock")
  /\ UNCHANGED <<buf, head, tail, lock, current, c, idx, ret, cpu>>

\* spinLock's xchg reads 0.
spinLock(t) ==
  /\ Runs(t) /\ Goto(t, "lock", "test")
  /\ lock = 0
  /\ lock' = BUSY
  /\ UNCHANGED <<buf, head, tail, current, c, idx, ret, cpu>>

\* The condition of iqueueGetc's loop.
iqueueGetcTest(t) ==
  /\ Runs(t)
  /\ Goto(t, "test", IF iqueueEmpty THEN "yield" ELSE "read")
  /\ UNCHANGED <<buf, head, tail, lock, current, c, idx, ret, cpu>>

\* Mutant: the wait keeps the lock.
iqueueGetcYieldLocked(t) ==
  /\ Runs(t) /\ Goto(t, "yield", "hlt")
  /\ UNCHANGED <<buf, head, tail, lock, current, c, idx, ret, cpu>>

\* The loop body gives the lock up ...
iqueueGetcYield(t) ==
  /\ Runs(t) /\ Goto(t, "yield", "hlt")
  /\ lock' = 0
  /\ UNCHANGED <<buf, head, tail, current, c, idx, ret, cpu>>

\* ... and halts, also when a key has arrived since the test.
cpuHLT(t) ==
  /\ Runs(t) /\ Goto(t, "hlt", "halted")
  /\ UNCHANGED <<buf, head, tail, lock, current, c, idx, ret, cpu>>

\* c = buf[tail] and tail = next(tail) are plain accesses to different
\* objects: the compiled code may perform them in either order.
iqueueGetcLoad(t) ==
  /\ Runs(t) /\ Goto(t, "read", "advance")
  /\ c' = [c EXCEPT ![t] = buf[tail]]
  /\ UNCHANGED <<buf, head, tail, lock, current, idx, ret, cpu>>

iqueueGetcAdvance(t) ==
  /\ Runs(t) /\ Goto(t, "advance", "unlock")
  /\ tail' = next(tail)
  /\ ret' = [ret EXCEPT ![t] = c[t]]
  /\ UNCHANGED <<buf, head, lock, current, c, idx, cpu>>

iqueueGetcAdvanceFirst(t) ==
  /\ Runs(t) /\ Goto(t, "read", "load")
  /\ idx' = [idx EXCEPT ![t] = tail]
  /\ tail' = next(tail)
  /\ UNCHANGED <<buf, head, lock, current, c, ret, cpu>>

iqueueGetcLoadLast(t) ==
  /\ Runs(t) /\ Goto(t, "load", "unlock")
  /\ c' = [c EXCEPT ![t] = buf[idx[t]]]
  /\ ret' = [ret EXCEPT ![t] = buf[idx[t]]]
  /\ UNCHANGED <<buf, head, tail, lock, current, idx, cpu>>

\* Mutant: inputGetc returns with the lock held.
inputUnlockForgotten(t) ==
  /\ Runs(t) /\ Goto(t, "unlock", "user")
  /\ UNCHANGED <<buf, head, tail, lock, current, c, idx, ret, cpu>>

\* inputUnlock, and the return to user mode with the character.
inputUnlock(t) ==
  /\ Runs(t) /\ Goto(t, "unlock", "user")
  /\ lock' = 0
  /\ UNCHANGED <<buf, head, tail, current, c, idx, ret, cpu>>

\* What the code does inside inputGetc once it has been called.
InGetc(t) ==
  \/ spinLock(t) \/ iqueueGetcTest(t) \/ iqueueGetcYield(t) \/ cpuHLT(t)
  \/ iqueueGetcLoad(t) \/ iqueueGetcAdvance(t)
  \/ iqueueGetcAdvanceFirst(t) \/ iqueueGetcLoadLast(t) \/ inputUnlock(t)

-----------------------------------------------------------------------------
(* Interrupts.  Any of them ends the hlt of the running thread.            *)

\* Mutant: the loop does not take the lock again after hlt.
WokenUnlocked == [t \in Threads |-> IF pc[t] = "halted" THEN "test" ELSE pc[t]]

Woken == [t \in Threads |-> IF pc[t] = "halted" THEN "lock" ELSE pc[t]]

\* iqueuePutc's loop would release the lock and halt; in an interrupt
\* handler nothing wakes the processor again.
iqueuePutc(ch) ==
  IF iqueueFull
  THEN /\ lock' = 0
       /\ cpu' = "hung"
       /\ UNCHANGED queue
  ELSE /\ buf' = [buf EXCEPT ![head] = ch]
       /\ head' = next(head)
       /\ UNCHANGED <<tail, lock, cpu>>

\* Mutant: the handler does not ask inputFull first.
irqKeyboardHandlerUnchecked(ch) ==
  /\ cpu = "runs"
  /\ iqueuePutc(ch)
  /\ pc' = Woken
  /\ UNCHANGED <<current, c, idx, ret>>

\* The part of irqKeyboardHandler that concerns the queue, for a key that
\* produces the character ch.  A key that finds the queue full is dropped.
irqKeyboardHandler(ch) ==
  /\ cpu = "runs"
  /\ IF ~iqueueFull
     THEN iqueuePutc(ch)
     ELSE UNCHANGED <<buf, head, tail, lock, cpu>>
  /\ pc' = Woken
  /\ UNCHANGED <<current, c, idx, ret>>

\* The timer interrupt; the scheduler resumes thread t.
irqThreadTimerHandler(t) ==
  /\ cpu = "runs"
  /\ current' = t
  /\ pc' = Woken
  /\ UNCHANGED <<buf, head, tail, lock, c, idx, ret, cpu>>

Next ==
  \/ \E t \in Threads : sys_getc(t)
  \/ \E t \in Threads : InGetc(t)
  \/ \E ch \in Chars : irqKeyboardHandler(ch)
  \/ \E t \in Threads : irqThreadTimerHandler(t)

Spec == Init /\ [][Next]_vars

\* The periodic timer keeps ticking and its handler gives every thread the
\* processor again and again (module Scheduler); a time slice is long enough
\* for a thread that can take a step to take one.  Nobody has to press keys
\* or to call getc.
Fairness ==
  /\ \A t \in Threads : WF_vars(irqThreadTimerHandler(t))
  /\ \A t \in Threads : SF_vars(InGetc(t))

FairSpec == Spec /\ Fairness
-----------------------------------------------------------------------------
(* Properties.                                                             *)

\* Every variable has its type; head and tail stay inside the buffer.
TypeOK ==
  /\ buf \in [Slots -> Chars]
  /\ head \in Slots /\ tail \in Slots
  /\ lock \in {0, BUSY}
  /\ current \in Threads
  /\ pc \in [Threads -> Points]
  /\ c \in [Threads -> Chars]
  /\ idx \in [Threads -> Slots]
  /\ ret \in [Threads -> Chars]
  /\ cpu \in {"runs", "hung"}

Holds(t) == pc[t] \in {"test", "yield", "read", "load", "advance", "unlock"}

\* The queue lock works although its holder can be preempted and halts in the
\* middle of iqueueGetc: at most one thread is between a spinLock and the
\* matching spinUnlock, and the lock byte is BUSY exactly then.
MutualExclusion ==
  /\ \A t, u \in Threads : Holds(t) /\ Holds(u) => t = u
  /\ lock = BUSY <=> \E t \in Threads : Holds(t)

\* The keyboard interrupt never enters iqueuePutc's wait loop, where it would
\* release a lock it does not hold and halt with interrupts off; a thread is
\* halted only while it is the one the processor runs.
HandlerNeverWaits ==
  /\ cpu = "runs"
  /\ \A t \in Threads : pc[t] = "halted" => t = current

\* The characters between tail and head, oldest first.
CountOf(h, t) == IF h >= t THEN h - t ELSE h + IQUEUE_BUFSIZE - t

ContentsOf(b, h, t) ==
  [i \in 1 .. CountOf(h, t) |-> b[(t + i - 1) % IQUEUE_BUFSIZE]]

Contents == ContentsOf(buf, head, tail)

\* What getc has taken for each thread: a thread that has advanced tail but
\* not loaded the character yet owns the one still in its slot.
Taken == [t \in Threads |-> IF pc[t] = "load" THEN buf[idx[t]] ELSE ret[t]]

Abs == INSTANCE Fifo WITH
         Readers <- Threads, Items <- Chars, Capacity <- IQUEUE_BUFSIZE - 1,
         Initial <- Nul, q <- Contents, last <- Taken

\* The ring buffer implements a bounded FIFO, with an interrupt handler that
\* ignores the lock on one side and preemptible readers on the other: every
\* accepted key is returned once, to one reader, in order, and no key
\* overwrites one that has not been read.
ImplementsFifo == Abs!Spec

\* A thread between its call of inputGetc and taking a character.
Waiting(t) == pc[t] \in Points \ {"user", "load", "unlock"}

\* While a thread waits in getc and a key is queued, a key is eventually
\* taken: the wakeup lost when a key arrives between the empty test and hlt
\* is made up for by the timer.
ReaderProgress ==
  \A i \in Slots :
    (tail = i /\ ~iqueueEmpty /\ \E t \in Threads : Waiting(t)) ~> tail # i

\* Nobody keeps the queue lock forever, in particular not a thread that waits
\* for a key that never comes.
LockReleased == lock = BUSY ~> lock = 0
=============================================================================
