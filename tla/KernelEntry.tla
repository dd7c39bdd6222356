---------------------------- MODULE KernelEntry ----------------------------
(***************************************************************************)
(* The ways into and out of the kernel: the system call path of            *)
(* user/syscall_entry_point.asm, the irq_stub of                           *)
(* boot/interrupts/interrupt.asm and threadContextSwitch of                *)
(* threads/threadswitch.asm, around the scheduler of module Scheduler.     *)
(*                                                                         *)
(* Interrupts stay enabled during a system call (initSyscall leaves the    *)
(* flag mask alone), so one can arrive between any two instructions of the *)
(* path.  An irq_stub runs with interrupts off and is one step.  It takes  *)
(* the interrupted code for a system call when DS holds the kernel's       *)
(* selector, and for user code otherwise; on its way out it goes by the    *)
(* flag gs->syscall of the thread it returns to.                           *)
(*                                                                         *)
(* Register contents are reduced to whose they are: the user's registers   *)
(* of a thread, which change while its program runs, or those of its       *)
(* system call.  rax and rdx are kept apart (ax): a system call gives its  *)
(* result back in the one and leaves what it had in the other.  A GS base  *)
(* is identified with the thread whose gs_base_t it is, the null address   *)
(* with None.                                                              *)
(***************************************************************************)
EXTENDS Integers, Sequences

CONSTANTS
  Threads, None, Modulus, tick_microseconds, Horizon,   \* as in Scheduler
  Interruptible   \* the points at which interrupts arrive

VARIABLES
  boot, ready, state, runtime, current, gs, kgs, ist, cpu,   \* as in Scheduler
  at,        \* where each thread is
  ds,        \* the selector in DS: 0x30 is "kernel", 0x3B is "user"
  syscall,   \* gs->syscall of each thread
  regs,      \* the general registers
  user,      \* what each program has in its registers
  ctx,       \* gs->ctx of each thread
  irq_rsp,   \* gs->irq_rsp: the irq stack it points into
  stack      \* the interrupt frame on each thread's irq stack

thread_vars == <<boot, ready, state, runtime, current, ist>>
entry_vars == <<at, ds, syscall, regs, user, ctx, irq_rsp, stack>>
vars == <<boot, ready, state, runtime, current, gs, kgs, ist, cpu,
          at, ds, syscall, regs, user, ctx, irq_rsp, stack>>

\* The points of the system call path, named by what has been done so far.
\* "fresh" is user code before the thread's first system call.
Outside == {"fresh", "user"}
Points == Outside \union
          {"freshEntry", "entry", "swapped", "flagged", "saving", "body",
           "loading", "unflagged", "back"}

\* Where the GS base, DS and the flag always agree: user code after the first
\* system call, the first and the last instruction of the system call path, and
\* the stretch where DS is the kernel's.
SafePoints == {"user", "entry", "saving", "body", "back"}

ASSUME PointsAssumption == Interruptible \subseteq Points
\* The assumptions of module Scheduler.
ASSUME NoneAssumption == None \notin Threads
ASSUME ThreadsAssumption == Threads # {}
ASSUME RuntimeAssumption ==
  /\ Modulus \in Nat \ {0} /\ Modulus % 2 = 0
  /\ tick_microseconds \in Nat \ {0} /\ tick_microseconds % 2 = 0
  /\ tick_microseconds < Modulus
ASSUME HorizonAssumption == Horizon \in Nat

\* What a program u has in its registers: v in most, ax in rax and rdx.
Programs == [v : {0, 1}, ax : {"own", "kernel"}]
UserRegs(t, u) == [of |-> t, in |-> "user", v |-> u.v, ax |-> u.ax]
KernelRegs(t) == [of |-> t, in |-> "kernel", v |-> 0, ax |-> "kernel"]
Junk == [of |-> None, in |-> "kernel", v |-> 0, ax |-> "kernel"]

PointMode(p) ==
  CASE p \in {"fresh", "freshEntry"} -> "fresh"
    [] p \in {"user", "entry", "back"} -> "user"
    [] OTHER -> "kernel"

Mode == [t \in Threads |-> PointMode(at[t])]

S == INSTANCE Scheduler WITH mode <- Mode

Init ==
  /\ at = [t \in Threads |-> "fresh"]
  /\ ds = "kernel"
  /\ syscall = [t \in Threads |-> 0]
  /\ regs = Junk
  /\ user = [t \in Threads |-> [v |-> 0, ax |-> "own"]]
  /\ ctx = [t \in Threads |-> UserRegs(t, user[t])]
  /\ irq_rsp = [t \in Threads |-> t]
  /\ stack = [t \in Threads |-> [kind |-> "none", regs |-> Junk, of |-> None]]
  /\ S!Init

-----------------------------------------------------------------------------
(* _start, and the switch to the first thread by threadContextSwitch.      *)

threadCreate(t) == UNCHANGED entry_vars /\ S!threadCreate(t)

threadStartTimer == UNCHANGED entry_vars /\ S!threadStartTimer

\* sysret to the program's entry point: DS keeps the kernel's selector.
threadContextSwitch(t) ==
  /\ regs' = ctx[t]
  /\ ds' = "kernel"

bootSelect ==
  /\ boot = "select"
  /\ UNCHANGED <<at, syscall, user, ctx, irq_rsp, stack>>
  /\ threadContextSwitch(ready[1])
  /\ S!bootSelect

-----------------------------------------------------------------------------
(* The program, and the system call path.                                  *)

At(p) == boot = "done" /\ cpu = "runs" /\ at[current] = p

Goto(p) == at' = [at EXCEPT ![current] = p] /\ UNCHANGED <<thread_vars, cpu>>

Step(from, to) == At(from) /\ Goto(to)

\* An access through a null GS base faults, and so does the exception stub's.
nullGs ==
  /\ cpu' = "fault"
  /\ UNCHANGED <<thread_vars, gs, kgs, entry_vars>>

\* The program changes its registers.
compute(p) ==
  /\ Step(p, p)
  /\ user' = [user EXCEPT ![current] = [v |-> 1 - @.v, ax |-> "own"]]
  /\ regs' = UserRegs(current, user'[current])
  /\ UNCHANGED <<gs, kgs, ds, syscall, ctx, irq_rsp, stack>>

\* The syscall instruction.
enter(p) ==
  /\ Step(p, IF p = "fresh" THEN "freshEntry" ELSE "entry")
  /\ UNCHANGED <<gs, kgs, ds, syscall, regs, user, ctx, irq_rsp, stack>>

swapgsIn(p) ==
  /\ Step(p, "swapped")
  /\ gs' = kgs /\ kgs' = gs
  /\ UNCHANGED <<ds, syscall, regs, user, ctx, irq_rsp, stack>>

flag ==
  /\ At("swapped")
  /\ IF gs = None THEN nullGs
     ELSE /\ Goto("flagged")
          /\ syscall' = [syscall EXCEPT ![gs] = 1]
          /\ UNCHANGED <<gs, kgs, ds, regs, user, ctx, irq_rsp, stack>>

\* syscall_user_to_kernel loads DS and then saves the registers.  The address of
\* ctx goes where rax should.
loadKernelDs ==
  /\ Step("flagged", "saving")
  /\ ds' = "kernel"
  /\ UNCHANGED <<gs, kgs, syscall, regs, user, ctx, irq_rsp, stack>>

saveRegs ==
  /\ At("saving")
  /\ IF gs = None THEN nullGs
     ELSE /\ Goto("body")
          /\ ctx' = [ctx EXCEPT ![gs] = [regs EXCEPT !.ax = "kernel"]]
          /\ regs' = KernelRegs(current)
          /\ UNCHANGED <<gs, kgs, ds, syscall, user, irq_rsp, stack>>

\* syscall_kernel_to_user loads DS and then restores the registers, and pops the
\* kernel's rdx and the result over two of them.
loadUserDs ==
  /\ Step("body", "loading")
  /\ ds' = "user"
  /\ UNCHANGED <<gs, kgs, syscall, regs, user, ctx, irq_rsp, stack>>

restoreRegs ==
  /\ At("loading")
  /\ IF gs = None THEN nullGs
     ELSE /\ Goto("unflagged")
          /\ regs' = [ctx[gs] EXCEPT !.ax = "kernel"]
          /\ user' = [user EXCEPT ![current].ax = "kernel"]
          /\ syscall' = [syscall EXCEPT ![gs] = 0]
          /\ UNCHANGED <<gs, kgs, ds, ctx, irq_rsp, stack>>

\* Mutant: the way out of a system call does not exchange the GS bases.
swapgsOutMissing ==
  /\ Step("unflagged", "back")
  /\ UNCHANGED <<gs, kgs, ds, syscall, regs, user, ctx, irq_rsp, stack>>

swapgsOut ==
  /\ Step("unflagged", "back")
  /\ gs' = kgs /\ kgs' = gs
  /\ UNCHANGED <<ds, syscall, regs, user, ctx, irq_rsp, stack>>

sysret ==
  /\ Step("back", "user")
  /\ UNCHANGED <<gs, kgs, ds, syscall, regs, user, ctx, irq_rsp, stack>>

Program ==
  \/ \E p \in Outside : compute(p) \/ enter(p)
  \/ \E p \in {"freshEntry", "entry"} : swapgsIn(p)
  \/ flag \/ loadKernelDs \/ saveRegs \/ loadUserDs \/ restoreRegs
  \/ swapgsOut \/ sysret

-----------------------------------------------------------------------------
(* irq_stub.                                                               *)

inSyscall == ds = "kernel"

\* The GS bases after the stub's own swapgs.
stubGs == IF inSyscall THEN gs ELSE kgs
stubKgs == IF inSyscall THEN kgs ELSE gs

\* The frame on the stack in the TSS; push_general puts the registers of a system
\* call there too.
Frame == [kind |-> IF inSyscall THEN "syscall" ELSE "user",
          regs |-> IF inSyscall THEN regs ELSE Junk, of |-> current]

\* Mutant: the registers of an interrupted program are not saved.
saveFrameOnly ==
  /\ ctx' = ctx
  /\ stack' = [stack EXCEPT ![ist] = Frame]
  /\ irq_rsp' = [irq_rsp EXCEPT ![stubGs] = ist]

\* The registers of a program go to ctx (save_context).
saveFrame ==
  /\ ctx' = IF inSyscall THEN ctx ELSE [ctx EXCEPT ![stubGs] = regs]
  /\ stack' = [stack EXCEPT ![ist] = Frame]
  /\ irq_rsp' = [irq_rsp EXCEPT ![stubGs] = ist]

\* .exit_syscall or .exit_user for the thread that owns the active GS base g.
\* The two pop different layouts: an iretq from the other one faults.  A frame of
\* the right kind that is another thread's leads into that thread's code.
exitStub(g, k) ==
  LET f == stack'[irq_rsp'[g]]
  IN  \/ /\ syscall[g] = 1 /\ f.kind = "syscall"
         /\ ds' = "kernel" /\ gs' = g /\ kgs' = k
         /\ regs' = f.regs
         /\ UNCHANGED cpu
      \/ /\ syscall[g] = 0 /\ f.kind = "user"
         /\ ds' = "user" /\ gs' = k /\ kgs' = g
         /\ regs' = IF f.of = g THEN ctx'[g] ELSE Junk
         /\ UNCHANGED cpu
      \/ /\ f.kind # (IF syscall[g] = 1 THEN "syscall" ELSE "user")
         /\ cpu' = "fault"
         /\ UNCHANGED <<ds, gs, kgs, regs>>

interrupted ==
  /\ boot = "done" /\ cpu = "runs"
  /\ at[current] \in Interruptible

\* A device other than the timer.
irqDevice ==
  /\ interrupted
  /\ IF stubGs = None
     THEN nullGs
     ELSE /\ saveFrame
          /\ exitStub(stubGs, stubKgs)
          /\ UNCHANGED <<thread_vars, at, syscall, user>>

\* Mutant: the TSS keeps the stacks of the previous thread.
threadNextStacks(t) ==
  /\ state' = [state EXCEPT ![current] = "READY", ![t] = "RUNNING"]
  /\ current' = t
  /\ IF state[t] = "NEW"
     THEN gs' = None /\ kgs' = t /\ threadContextSwitch(t) /\ UNCHANGED cpu
     ELSE exitStub(t, None)
  /\ UNCHANGED ist

\* threadNext, up to the return from the stub or the sysret to a NEW thread.
threadNext(t) ==
  /\ state' = [state EXCEPT ![current] = "READY", ![t] = "RUNNING"]
  /\ IF state[t] = "NEW"
     THEN S!threadSelect(t) /\ threadContextSwitch(t) /\ UNCHANGED cpu
     ELSE /\ current' = t
          /\ ist' = t
          /\ exitStub(t, None)

\* The handler after the stub's entry: it switches only when the GS base that
\* is not active is null.
irqThreadTimerHandler ==
  /\ runtime' = [runtime EXCEPT ![current] = S!advance]
  /\ LET t == S!getThreadWithMinRuntime(runtime')
     IN  IF stubKgs # None
         THEN /\ exitStub(stubGs, stubKgs)
              /\ UNCHANGED <<state, current, ist>>
         ELSE IF t = None
         THEN /\ cpu' = "fault"
              /\ UNCHANGED <<state, current, gs, kgs, ist, ds, regs>>
         ELSE threadNext(t)
  /\ UNCHANGED <<boot, ready, at, syscall, user>>

irqTimer ==
  /\ interrupted
  /\ runtime[current] + tick_microseconds < Horizon
  /\ IF stubGs = None
     THEN nullGs
     ELSE saveFrame /\ irqThreadTimerHandler

Next ==
  \/ \E t \in Threads : threadCreate(t)
  \/ threadStartTimer
  \/ bootSelect
  \/ Program
  \/ irqDevice
  \/ irqTimer

Spec == Init /\ [][Next]_vars

-----------------------------------------------------------------------------
(* Properties.                                                             *)

RegSets == {UserRegs(t, u) : t \in Threads, u \in Programs}
           \union {KernelRegs(t) : t \in Threads}

\* Every variable has its type.  The registers of a running thread are never
\* what an irq_stub popped from a frame that was not its own.
TypeOK ==
  /\ at \in [Threads -> Points]
  /\ ds \in {"kernel", "user"}
  /\ syscall \in [Threads -> {0, 1}]
  /\ regs \in RegSets \union (IF boot = "done" THEN {} ELSE {Junk})
  /\ user \in [Threads -> Programs]
  /\ ctx \in [Threads -> RegSets]
  /\ irq_rsp \in [Threads -> Threads]
  /\ S!TypeOK

InKernel(t) == at[t] \in {"body", "loading"}

\* Wherever interrupts arrive, as long as none has stopped the processor: a
\* program finds all the registers it left after an interrupt or a switch, and
\* all but rax and rdx after a system call (rcx and r11 are the syscall
\* instruction's own); a system call finds its own.
RegistersKept ==
  boot = "done" /\ cpu = "runs" =>
    regs = IF InKernel(current) THEN KernelRegs(current)
           ELSE UserRegs(current, user[current])

\* What a thread that waits for the processor needs in order to go on is left
\* alone, wherever it was interrupted: its frame on its own irq stack, of the kind
\* its flag announces, with its registers.  The one exception is a thread in its
\* first system call, interrupted between swapgs and the store of the flag: its
\* frame is a system call's and its flag a program's.
FrameKept ==
  boot = "done" =>
    \A t \in Threads \ {current} :
      state[t] # "NEW" =>
        LET f == stack[irq_rsp[t]]
        IN  /\ f.of = t /\ irq_rsp[t] = t
            /\ f.kind = IF syscall[t] = 1 \/ at[t] = "swapped" THEN "syscall" ELSE "user"
            /\ f.kind = "user" => ctx[t] = UserRegs(t, user[t])
            /\ at[t] = "body" => ctx[t] = UserRegs(t, [user[t] EXCEPT !.ax = "kernel"])

\* Whenever an interrupt can arrive, the GS base that the irq_stub will use is
\* that of the interrupted thread's gs_base_t, where thread.h puts
\* "irq_rsp; // gs:0x38".
StubFindsGs == interrupted => stubGs = current /\ stubKgs = None

\* Wherever an interrupt arrives, the irq_stub never saves a frame through the
\* gs_base_t of another thread: it finds the interrupted thread's or, outside the
\* safe points, the null base, at which it stops.
OwnGsOrNull ==
  interrupted =>
    \/ stubGs = current /\ stubKgs = None
    \/ stubGs = None /\ at[current] \notin SafePoints

\* Up to the step in which an interrupt stops the processor, entry paths and
\* stubs together do what module Scheduler says, with one step for each way in
\* and out.
ImplementsScheduler == S!Init /\ [][S!Next \/ cpu' = "fault"]_(S!vars)
=============================================================================
