------------------------- MODULE KernelEntryProofs -------------------------
(***************************************************************************)
(* Theorems about the ways into and out of the kernel, for any set of      *)
(* threads and any set of points at which interrupts arrive.  As long as   *)
(* the processor runs the inductive invariant IInv holds; an interrupt at  *)
(* the wrong point stops it, and then the state is Halted.                 *)
(*                                                                         *)
(* SP instantiates the theorems about the scheduler: a step that is a step *)
(* of module Scheduler keeps the scheduler's inductive invariant.          *)
(***************************************************************************)
EXTENDS KernelEntry, TLAPS

\* A leaf that names no prover is SMT's, and Zenon's if SMT gives up.
USE SMTT(100), ZenonT(100)

SP == INSTANCE SchedulerProofs WITH mode <- Mode

\* Where a thread that is not running was interrupted: with the frame of a system
\* call, all but "swapped" with the flag up, or with that of a program.
Flagged == {"flagged", "saving", "body"}
InSyscall == Flagged \union {"swapped"}
InUser == {"user", "entry", "back"}

\* What a system call saves of the program's registers.
Saved(t) == UserRegs(t, [user[t] EXCEPT !.ax = "kernel"])

\* The registers are the running thread's.
RegsInv ==
  boot = "done" =>
    regs = IF InKernel(current) THEN KernelRegs(current)
           ELSE UserRegs(current, user[current])

\* The flag is up from its setting to the restoring of the registers; DS is the
\* kernel's or the user's at all points but the two between swapgs and its load,
\* where it is the kernel's in the first call of a thread alone.
RunningInv ==
  boot = "done" =>
    /\ syscall[current] = IF at[current] \in Flagged \union {"loading"} THEN 1 ELSE 0
    /\ at[current] \in {"fresh", "freshEntry", "saving", "body"} => ds = "kernel"
    /\ at[current] \in InUser \union {"loading", "unflagged"} => ds = "user"
    /\ InKernel(current) => ctx[current] = Saved(current)

\* The frame of a thread that was interrupted and all it needs to go on.
Waits(t) ==
  /\ at[t] \in InSyscall \union InUser
  /\ syscall[t] = IF at[t] \in Flagged THEN 1 ELSE 0
  /\ stack[t].of = t
  /\ stack[t].kind = IF at[t] \in InSyscall THEN "syscall" ELSE "user"
  /\ at[t] \in InSyscall \ {"body"} => stack[t].regs = UserRegs(t, user[t])
  /\ at[t] = "body" => stack[t].regs = KernelRegs(t) /\ ctx[t] = Saved(t)
  /\ at[t] \in InUser => ctx[t] = UserRegs(t, user[t])

WaitingInv ==
  boot = "done" => \A t \in Threads \ {current} : state[t] # "NEW" => Waits(t)

\* A thread that has never run has the context that threadCreate gave it.
NewInv ==
  \A t \in Threads :
    state[t] = "NEW" =>
      /\ at[t] = "fresh" /\ syscall[t] = 0
      /\ ctx[t] = UserRegs(t, user[t])

\* The interrupt stack pointer never leaves the thread's own stack.
OwnStack == irq_rsp = [t \in Threads |-> t]

EntryType ==
  /\ at \in [Threads -> Points]
  /\ ds \in {"kernel", "user"}
  /\ syscall \in [Threads -> {0, 1}]
  /\ regs \in RegSets \union {Junk}
  /\ user \in [Threads -> Programs]
  /\ ctx \in [Threads -> RegSets]
  /\ stack \in [Threads -> [kind : {"none", "user", "syscall"},
                            regs : RegSets \union {Junk},
                            of : Threads \union {None}]]

EntryInv ==
  EntryType /\ RegsInv /\ RunningInv /\ WaitingInv /\ NewInv /\ OwnStack

IInv == SP!IInv /\ EntryInv

\* What is left when an interrupt has stopped the processor.
Halted == boot = "done" /\ cpu = "fault" /\ TypeOK /\ FrameKept

-----------------------------------------------------------------------------
(* What the invariant says of the running thread.                          *)

\* The GS bases and the TSS are the running thread's, the way round that its
\* point in the system call path needs.
LEMMA RunningFacts ==
  ASSUME IInv, boot = "done"
  PROVE  /\ current \in Threads /\ current # None /\ cpu = "runs" /\ ist = current
         /\ at[current] \in Points
         /\ Mode[current] = PointMode(at[current])
         /\ IF PointMode(at[current]) = "kernel"
            THEN gs = current /\ kgs = None
            ELSE gs = None /\ kgs = current
         /\ \A t \in Threads : state[t] = "RUNNING" <=> t = current
         /\ state \in [Threads -> {"RUNNING", "READY", "NEW"}]
PROOF
  <1>1. current \in Threads /\ cpu = "runs"
    BY DEF IInv, SP!IInv, SP!BootInv, SP!MinRuntimeFound
  <1>2. current # None
    BY <1>1, NoneAssumption
  <1>3. at \in [Threads -> Points]
    BY DEF IInv, EntryInv, EntryType
  <1>4. Mode[current] = PointMode(at[current])
    BY <1>1 DEF Mode
  <1>5. /\ ist = current
        /\ IF Mode[current] = "kernel"
           THEN gs = current /\ kgs = None
           ELSE gs = None /\ kgs = current
    BY DEF IInv, SP!IInv, SP!ContextIsCurrents
  <1>6. \A t \in Threads : state[t] = "RUNNING" <=> t = current
    BY ZenonT(100) DEF IInv, SP!IInv, SP!OneRunning
  <1>7. state \in [Threads -> {"RUNNING", "READY", "NEW"}]
    BY DEF IInv, SP!IInv, SP!TypeOK, SP!States
  <1> QED
    BY <1>1, <1>2, <1>3, <1>4, <1>5, <1>6, <1>7

\* A step of the program or of its system call path leaves the other threads'
\* frames alone: what is left to show is about the running thread.
LEMMA ProgramKeeps ==
  ASSUME IInv, boot = "done", UNCHANGED <<boot, state, current, stack, irq_rsp>>,
         \A t \in Threads \ {current} :
           at'[t] = at[t] /\ syscall'[t] = syscall[t] /\ user'[t] = user[t] /\ ctx'[t] = ctx[t],
         EntryType', RegsInv', RunningInv'
  PROVE  EntryInv'
PROOF
  <1>1. \A t \in Threads : state[t] = "RUNNING" <=> t = current
    BY RunningFacts
  <1>2. WaitingInv'
    BY DEF IInv, EntryInv, WaitingInv, Waits, Saved
  <1>3. NewInv'
    BY <1>1 DEF IInv, EntryInv, NewInv
  <1>4. OwnStack'
    BY DEF IInv, EntryInv, OwnStack
  <1> QED
    BY <1>2, <1>3, <1>4 DEF EntryInv

-----------------------------------------------------------------------------
(* The program and its system call path.                                   *)

\* A program's registers and a system call's are register contents.
LEMMA RegsTyped ==
  ASSUME NEW t \in Threads, NEW u \in Programs
  PROVE  UserRegs(t, u) \in RegSets /\ KernelRegs(t) \in RegSets
PROOF
  BY DEF RegSets

\* Overwriting ax in a program's registers gives what a system call saves.
LEMMA SavedRegs ==
  ASSUME NEW t \in Threads, user[t] \in Programs
  PROVE  /\ [user[t] EXCEPT !.ax = "kernel"] \in Programs
         /\ [UserRegs(t, user[t]) EXCEPT !.ax = "kernel"] = Saved(t)
         /\ [Saved(t) EXCEPT !.ax = "kernel"] = Saved(t)
         /\ Saved(t) \in RegSets
PROOF
  <1>1. [user[t] EXCEPT !.ax = "kernel"] \in Programs
    BY DEF Programs
  <1>2. [UserRegs(t, user[t]) EXCEPT !.ax = "kernel"] = Saved(t)
    BY DEF Programs, UserRegs, Saved
  <1>3. [Saved(t) EXCEPT !.ax = "kernel"] = Saved(t)
    BY DEF Programs, UserRegs, Saved
  <1>4. Saved(t) \in RegSets
    BY <1>1, RegsTyped DEF Saved
  <1> QED
    BY <1>1, <1>2, <1>3, <1>4

\* The points are different, and each is in one mode.
LEMMA ModeOfPoint ==
  /\ \A p \in {"fresh", "freshEntry"} : PointMode(p) = "fresh"
  /\ \A p \in InUser : PointMode(p) = "user"
  /\ \A p \in {"swapped", "flagged", "saving", "body", "loading", "unflagged"} :
       PointMode(p) = "kernel"
PROOF
  BY DEF PointMode, InUser

\* A step of the running thread to point p changes its mode alone.
LEMMA ModeStep ==
  ASSUME NEW p, at \in [Threads -> Points], at' = [at EXCEPT ![current] = p],
         current \in Threads
  PROVE  Mode' = [Mode EXCEPT ![current] = PointMode(p)]
PROOF
  BY ZenonT(100) DEF Mode

\* The steps between the two swapgs and around them that touch no GS base are
\* invisible to the scheduler.
LEMMA SchedulerStutters ==
  ASSUME IInv, boot = "done", NEW p, Goto(p), PointMode(p) = PointMode(at[current]),
         UNCHANGED <<gs, kgs>>
  PROVE  UNCHANGED S!vars
PROOF
  <1>1. /\ current \in Threads /\ Mode[current] = PointMode(at[current])
        /\ at \in [Threads -> Points]
    BY RunningFacts DEF IInv, EntryInv, EntryType
  <1>2. Mode' = [Mode EXCEPT ![current] = PointMode(p)]
    BY <1>1, ModeStep, ZenonT(100) DEF Goto
  <1>3. Mode \in [Threads -> {Mode[t] : t \in Threads}]
    BY DEF Mode
  <1>4. Mode' = Mode
    BY <1>1, <1>2, <1>3
  <1> QED
    BY <1>4 DEF S!vars, Goto, thread_vars

\* The program's own steps.
LEMMA ComputeStep ==
  ASSUME IInv, NEW p \in Outside, compute(p)
  PROVE  EntryInv' /\ UNCHANGED S!vars
PROOF
  <1>1. boot = "done" /\ at[current] = p
    BY DEF compute, Step, At
  <1>2. current \in Threads
    BY <1>1, RunningFacts
  <1>3. UNCHANGED S!vars
    BY <1>1, SchedulerStutters DEF compute, Step
  <1> USE DEF compute, Step, At, Goto, thread_vars
  <1>4. EntryType'
    <2>1. user \in [Threads -> Programs] /\ user[current].v \in {0, 1}
      BY <1>2 DEF IInv, EntryInv, EntryType, Programs
    <2>2. [v |-> 1 - user[current].v, ax |-> "own"] \in Programs
      BY <2>1 DEF Programs
    <2>3. user' \in [Threads -> Programs] /\ user'[current] \in Programs
      BY <1>2, <2>1, <2>2
    <2>4. regs' \in RegSets
      BY <1>2, <2>3, RegsTyped
    <2> QED
      BY <1>1, <1>2, <2>3, <2>4 DEF IInv, EntryInv, EntryType, Outside, Points
  <1>5. RegsInv'
    BY <1>1, <1>2 DEF IInv, EntryInv, EntryType, RegsInv, InKernel, Outside
  <1>6. RunningInv'
    BY <1>1, <1>2
       DEF IInv, EntryInv, EntryType, RunningInv, InKernel, Outside, InSyscall, InUser, Flagged
  <1>7. EntryInv'
    <2>1. UNCHANGED <<boot, state, current, stack, irq_rsp>>
      OBVIOUS
    <2>2. \A t \in Threads \ {current} :
           at'[t] = at[t] /\ syscall'[t] = syscall[t] /\ user'[t] = user[t] /\ ctx'[t] = ctx[t]
      BY <1>1 DEF IInv, EntryInv, EntryType
    <2> QED
      BY <1>1, <1>4, <1>5, <1>6, <2>1, <2>2, ProgramKeeps
  <1> QED
    BY <1>3, <1>7

\* The program and its system call path keep the entry paths' invariant.
LEMMA PathStep ==
  ASSUME IInv, boot = "done",
         \/ \E p \in Outside : enter(p)
         \/ \E p \in {"freshEntry", "entry"} : swapgsIn(p)
         \/ flag \/ loadKernelDs \/ saveRegs \/ loadUserDs \/ restoreRegs
         \/ swapgsOut \/ sysret
  PROVE  EntryInv'
PROOF
  <1>1. /\ current \in Threads /\ current # None
        /\ PointMode(at[current]) = "kernel" => gs = current
    BY RunningFacts
  <1>2. at[current] \in {"swapped", "saving", "loading"} => gs = current /\ gs # None
    BY <1>1, ModeOfPoint
  <1> USE DEF Step, At, Goto, thread_vars
  <1>3. ASSUME UNCHANGED <<boot, state, current, stack, irq_rsp, user>>,
               \A t \in Threads \ {current} :
                 at'[t] = at[t] /\ syscall'[t] = syscall[t] /\ ctx'[t] = ctx[t],
               EntryType', RegsInv', RunningInv'
        PROVE  EntryInv'
    BY <1>3, ProgramKeeps
  <1>4. ASSUME NEW p \in Outside, enter(p)
        PROVE  EntryInv'
    <2> USE DEF IInv, EntryInv, EntryType, RegsInv, RunningInv, InKernel, RegSets,
                Outside, Points, InSyscall, InUser, Flagged, Saved
    <2>1. /\ UNCHANGED <<boot, state, current, stack, irq_rsp, user>>
          /\ \A t \in Threads \ {current} :
               at'[t] = at[t] /\ syscall'[t] = syscall[t] /\ ctx'[t] = ctx[t]
      BY <1>1, <1>2, <1>4 DEF enter
    <2>2. EntryType'
      BY <1>1, <1>2, <1>4 DEF enter
    <2>3. RegsInv'
      BY <1>1, <1>2, <1>4 DEF enter
    <2>4. RunningInv'
      BY <1>1, <1>2, <1>4 DEF enter
    <2> QED
      BY <1>3, <2>1, <2>2, <2>3, <2>4
  <1>5. ASSUME NEW p \in {"freshEntry", "entry"}, swapgsIn(p)
        PROVE  EntryInv'
    <2> USE DEF IInv, EntryInv, EntryType, RegsInv, RunningInv, InKernel, RegSets,
                Outside, Points, InSyscall, InUser, Flagged, Saved
    <2>1. /\ UNCHANGED <<boot, state, current, stack, irq_rsp, user>>
          /\ \A t \in Threads \ {current} :
               at'[t] = at[t] /\ syscall'[t] = syscall[t] /\ ctx'[t] = ctx[t]
      BY <1>1, <1>2, <1>5 DEF swapgsIn
    <2>2. EntryType'
      BY <1>1, <1>2, <1>5 DEF swapgsIn
    <2>3. RegsInv'
      BY <1>1, <1>2, <1>5 DEF swapgsIn
    <2>4. RunningInv'
      BY <1>1, <1>2, <1>5 DEF swapgsIn
    <2> QED
      BY <1>3, <2>1, <2>2, <2>3, <2>4
  <1>6. CASE flag
    <2>0. /\ at[current] = "swapped" /\ Goto("flagged")
          /\ syscall' = [syscall EXCEPT ![current] = 1]
          /\ UNCHANGED <<gs, kgs, ds, regs, user, ctx, irq_rsp, stack>>
      BY <1>2, <1>6 DEF flag
    <2> USE DEF IInv, EntryInv, EntryType, RegsInv, RunningInv, InKernel, RegSets,
                Outside, Points, InSyscall, InUser, Flagged, Saved
    <2>1. /\ UNCHANGED <<boot, state, current, stack, irq_rsp, user>>
          /\ \A t \in Threads \ {current} :
               at'[t] = at[t] /\ syscall'[t] = syscall[t] /\ ctx'[t] = ctx[t]
      BY <1>1, <2>0
    <2>2. EntryType'
      BY <1>1, <2>0
    <2>3. RegsInv'
      BY <1>1, <2>0
    <2>4. RunningInv'
      BY <1>1, <2>0
    <2> QED
      BY <1>3, <2>1, <2>2, <2>3, <2>4
  <1>7. CASE loadKernelDs
    <2> USE DEF IInv, EntryInv, EntryType, RegsInv, RunningInv, InKernel, RegSets,
                Outside, Points, InSyscall, InUser, Flagged, Saved
    <2>1. /\ UNCHANGED <<boot, state, current, stack, irq_rsp, user>>
          /\ \A t \in Threads \ {current} :
               at'[t] = at[t] /\ syscall'[t] = syscall[t] /\ ctx'[t] = ctx[t]
      BY <1>1, <1>2, <1>7 DEF loadKernelDs
    <2>2. EntryType'
      BY <1>1, <1>2, <1>7 DEF loadKernelDs
    <2>3. RegsInv'
      BY <1>1, <1>2, <1>7 DEF loadKernelDs
    <2>4. RunningInv'
      BY <1>1, <1>2, <1>7 DEF loadKernelDs
    <2> QED
      BY <1>3, <2>1, <2>2, <2>3, <2>4
  <1>8. CASE saveRegs
    <2>0. /\ at[current] = "saving" /\ Goto("body")
          /\ ctx' = [ctx EXCEPT ![current] = Saved(current)]
          /\ Saved(current) \in RegSets
          /\ regs' = KernelRegs(current) /\ regs' \in RegSets
          /\ UNCHANGED <<gs, kgs, ds, syscall, user, irq_rsp, stack>>
      <3>1. user[current] \in Programs
        BY <1>1 DEF IInv, EntryInv, EntryType
      <3>2. at[current] = "saving" /\ regs = UserRegs(current, user[current])
        BY <1>8 DEF saveRegs, IInv, EntryInv, RegsInv, InKernel
      <3>3. /\ [regs EXCEPT !.ax = "kernel"] = Saved(current)
            /\ Saved(current) \in RegSets /\ KernelRegs(current) \in RegSets
        <4>1. /\ [UserRegs(current, user[current]) EXCEPT !.ax = "kernel"] = Saved(current)
              /\ Saved(current) \in RegSets
          BY <1>1, <3>1, SavedRegs
        <4>2. KernelRegs(current) \in RegSets
          BY <1>1, <3>1, RegsTyped
        <4> QED
          BY <3>2, <4>1, <4>2
      <3> QED
        BY <1>2, <1>8, <3>2, <3>3 DEF saveRegs
    <2> USE DEF IInv, EntryInv, EntryType, RegsInv, RunningInv, InKernel, RegSets,
                Outside, Points, InSyscall, InUser, Flagged, Saved
    <2>1. /\ UNCHANGED <<boot, state, current, stack, irq_rsp, user>>
          /\ \A t \in Threads \ {current} :
               at'[t] = at[t] /\ syscall'[t] = syscall[t] /\ ctx'[t] = ctx[t]
      BY <1>1, <2>0
    <2>2. EntryType'
      BY <1>1, <2>0
    <2>3. RegsInv'
      BY <1>1, <2>0
    <2>4. RunningInv'
      BY <1>1, <2>0
    <2> QED
      BY <1>3, <2>1, <2>2, <2>3, <2>4
  <1>9. CASE loadUserDs
    <2> USE DEF IInv, EntryInv, EntryType, RegsInv, RunningInv, InKernel, RegSets,
                Outside, Points, InSyscall, InUser, Flagged, Saved
    <2>1. /\ UNCHANGED <<boot, state, current, stack, irq_rsp, user>>
          /\ \A t \in Threads \ {current} :
               at'[t] = at[t] /\ syscall'[t] = syscall[t] /\ ctx'[t] = ctx[t]
      BY <1>1, <1>2, <1>9 DEF loadUserDs
    <2>2. EntryType'
      BY <1>1, <1>2, <1>9 DEF loadUserDs
    <2>3. RegsInv'
      BY <1>1, <1>2, <1>9 DEF loadUserDs
    <2>4. RunningInv'
      BY <1>1, <1>2, <1>9 DEF loadUserDs
    <2> QED
      BY <1>3, <2>1, <2>2, <2>3, <2>4
  <1>10. CASE restoreRegs
    <2>1. user[current] \in Programs
      BY <1>1 DEF IInv, EntryInv, EntryType
    <2>2. at[current] = "loading" /\ ctx[current] = Saved(current)
      BY <1>10 DEF restoreRegs, IInv, EntryInv, RunningInv, InKernel
    <2>3. /\ at[current] = "loading" /\ Goto("unflagged")
          /\ user' = [user EXCEPT ![current] = [user[current] EXCEPT !.ax = "kernel"]]
          /\ syscall' = [syscall EXCEPT ![current] = 0]
          /\ UNCHANGED <<gs, kgs, ds, ctx, irq_rsp, stack>>
      BY <1>2, <1>10 DEF restoreRegs
    <2>4. regs' = [Saved(current) EXCEPT !.ax = "kernel"]
      BY <1>2, <1>10, <2>2 DEF restoreRegs
    <2>5. /\ [user[current] EXCEPT !.ax = "kernel"] \in Programs
          /\ regs' = Saved(current) /\ Saved(current) \in RegSets
      BY <1>1, <2>1, <2>4, SavedRegs
    <2>6. user'[current] = [user[current] EXCEPT !.ax = "kernel"]
      BY <1>1, <2>3 DEF IInv, EntryInv, EntryType
    <2>7. EntryType'
      BY <1>1, <2>3, <2>5 DEF IInv, EntryInv, EntryType, Points, Outside
    <2>8. RegsInv'
      BY <1>1, <2>3, <2>5, <2>6 DEF IInv, EntryInv, EntryType, RegsInv, InKernel, Saved
    <2>9. RunningInv'
      BY <1>1, <2>3
         DEF IInv, EntryInv, EntryType, RunningInv, InKernel, InUser, Flagged
    <2>10. /\ UNCHANGED <<boot, state, current, stack, irq_rsp>>
           /\ \A t \in Threads \ {current} :
                at'[t] = at[t] /\ syscall'[t] = syscall[t] /\ user'[t] = user[t]
                /\ ctx'[t] = ctx[t]
      BY <1>1, <2>3 DEF IInv, EntryInv, EntryType
    <2> QED
      BY <2>7, <2>8, <2>9, <2>10, ProgramKeeps
  <1>11. CASE swapgsOut
    <2> USE DEF IInv, EntryInv, EntryType, RegsInv, RunningInv, InKernel, RegSets,
                Outside, Points, InSyscall, InUser, Flagged, Saved
    <2>1. /\ UNCHANGED <<boot, state, current, stack, irq_rsp, user>>
          /\ \A t \in Threads \ {current} :
               at'[t] = at[t] /\ syscall'[t] = syscall[t] /\ ctx'[t] = ctx[t]
      BY <1>1, <1>2, <1>11 DEF swapgsOut
    <2>2. EntryType'
      BY <1>1, <1>2, <1>11 DEF swapgsOut
    <2>3. RegsInv'
      BY <1>1, <1>2, <1>11 DEF swapgsOut
    <2>4. RunningInv'
      BY <1>1, <1>2, <1>11 DEF swapgsOut
    <2> QED
      BY <1>3, <2>1, <2>2, <2>3, <2>4
  <1>12. CASE sysret
    <2> USE DEF IInv, EntryInv, EntryType, RegsInv, RunningInv, InKernel, RegSets,
                Outside, Points, InSyscall, InUser, Flagged, Saved
    <2>1. /\ UNCHANGED <<boot, state, current, stack, irq_rsp, user>>
          /\ \A t \in Threads \ {current} :
               at'[t] = at[t] /\ syscall'[t] = syscall[t] /\ ctx'[t] = ctx[t]
      BY <1>1, <1>2, <1>12 DEF sysret
    <2>2. EntryType'
      BY <1>1, <1>2, <1>12 DEF sysret
    <2>3. RegsInv'
      BY <1>1, <1>2, <1>12 DEF sysret
    <2>4. RunningInv'
      BY <1>1, <1>2, <1>12 DEF sysret
    <2> QED
      BY <1>3, <2>1, <2>2, <2>3, <2>4
  <1> QED
    BY <1>4, <1>5, <1>6, <1>7, <1>8, <1>9, <1>10, <1>11, <1>12

\* To the scheduler, the swapgs at either end is the system call entering and
\* leaving the kernel, and the rest of the path is nothing.
LEMMA PathSchedules ==
  ASSUME IInv, boot = "done", Program
  PROVE  [S!Next]_(S!vars)
PROOF
  <1>1. /\ current \in Threads /\ current # None
        /\ Mode[current] = PointMode(at[current])
        /\ PointMode(at[current]) = "kernel" => gs = current
    BY RunningFacts
  <1>2. at[current] \in {"swapped", "saving", "loading"} => gs # None
    BY <1>1, ModeOfPoint
  <1>3. at \in [Threads -> Points]
    BY DEF IInv, EntryInv, EntryType
  <1>4. ASSUME NEW p \in Outside, compute(p) \/ enter(p)
        PROVE  UNCHANGED S!vars
    <2>1. /\ \E q \in {"fresh", "freshEntry", "user", "entry"} :
               Goto(q) /\ PointMode(q) = PointMode(at[current])
          /\ UNCHANGED <<gs, kgs>>
      BY <1>4, ModeOfPoint DEF compute, enter, Step, At, Outside, InUser
    <2> QED
      BY <2>1, SchedulerStutters
  <1>5. ASSUME NEW p \in {"freshEntry", "entry"}, swapgsIn(p)
        PROVE  S!syscallEnter
    <2>1. at[current] = p /\ Mode[current] \in {"fresh", "user"} /\ cpu = "runs"
      BY <1>1, <1>5, ModeOfPoint DEF swapgsIn, Step, At, InUser
    <2>2. Mode' = [Mode EXCEPT ![current] = "kernel"]
      BY <1>1, <1>3, <1>5, ModeStep, ModeOfPoint, ZenonT(100) DEF swapgsIn, Step, Goto
    <2> QED
      BY <1>5, <2>1, <2>2
         DEF S!syscallEnter, S!Up, swapgsIn, Step, At, Goto, thread_vars
  <1>6. CASE flag \/ saveRegs \/ restoreRegs \/ loadKernelDs \/ loadUserDs
    <2>1. /\ \E q \in {"flagged", "saving", "body", "loading", "unflagged"} :
               Goto(q) /\ PointMode(q) = PointMode(at[current])
          /\ UNCHANGED <<gs, kgs>>
      BY <1>2, <1>6, ModeOfPoint
         DEF flag, saveRegs, restoreRegs, loadKernelDs, loadUserDs, Step, At
    <2> QED
      BY <2>1, SchedulerStutters
  <1>7. CASE swapgsOut
    <2>1. at[current] = "unflagged" /\ Mode[current] = "kernel" /\ cpu = "runs"
      BY <1>1, <1>7, ModeOfPoint DEF swapgsOut, Step, At
    <2>2. Mode' = [Mode EXCEPT ![current] = "user"]
      BY <1>1, <1>3, <1>7, ModeStep, ModeOfPoint, ZenonT(100) DEF swapgsOut, Step, Goto, InUser
    <2>3. S!syscallLeave
      BY <1>7, <2>1, <2>2
         DEF S!syscallLeave, S!Up, swapgsOut, Step, At, Goto, thread_vars
    <2> QED
      BY <2>3 DEF S!Next
  <1>8. CASE sysret
    <2>1. /\ Goto("user") /\ PointMode("user") = PointMode(at[current])
          /\ UNCHANGED <<gs, kgs>>
      BY <1>8, ModeOfPoint DEF sysret, Step, At, InUser
    <2> QED
      BY <2>1, SchedulerStutters
  <1> QED
    BY <1>4, <1>5, <1>6, <1>7, <1>8 DEF Program, S!Next

-----------------------------------------------------------------------------
(* The irq_stub.                                                           *)

\* Where the stub does not find a null GS base it finds the running thread's, and
\* takes the way in that the thread's point calls for.
LEMMA StubFacts ==
  ASSUME IInv, interrupted, stubGs # None
  PROVE  /\ stubGs = current /\ stubKgs = None
         /\ at[current] \in InSyscall \union InUser
         /\ inSyscall <=> at[current] \in InSyscall
         /\ syscall[current] = IF at[current] \in Flagged THEN 1 ELSE 0
PROOF
  <1>1. boot = "done" /\ at[current] \in Points /\ current # None
    BY RunningFacts DEF interrupted
  <1>2. IF PointMode(at[current]) = "kernel"
        THEN gs = current /\ kgs = None
        ELSE gs = None /\ kgs = current
    BY <1>1, RunningFacts
  <1>3. /\ at[current] \in {"fresh", "freshEntry", "saving", "body"} => inSyscall
        /\ at[current] \in InUser \union {"loading", "unflagged"} => ~ inSyscall
        /\ ds \in {"kernel", "user"}
        /\ syscall[current] = IF at[current] \in Flagged \union {"loading"} THEN 1 ELSE 0
    BY <1>1 DEF inSyscall, IInv, EntryInv, EntryType, RunningInv, InUser
  <1>4. /\ inSyscall => stubGs = gs /\ stubKgs = kgs
        /\ ~ inSyscall => stubGs = kgs /\ stubKgs = gs
    BY DEF stubGs, stubKgs
  <1>5. CASE at[current] \in {"fresh", "freshEntry"}
    BY <1>2, <1>3, <1>4, <1>5, ModeOfPoint
  <1>6. CASE at[current] \in InUser
    BY <1>2, <1>3, <1>4, <1>6, ModeOfPoint DEF InUser, InSyscall, Flagged
  <1>7. CASE at[current] \in InSyscall
    BY <1>2, <1>3, <1>4, <1>7, ModeOfPoint DEF InUser, InSyscall, Flagged
  <1>8. CASE at[current] \in {"loading", "unflagged"}
    BY <1>2, <1>3, <1>4, <1>8, ModeOfPoint
  <1> QED
    BY <1>1, <1>5, <1>6, <1>7, <1>8 DEF Points, Outside, InUser, InSyscall, Flagged

\* The stub's way in leaves a complete frame of the running thread and the
\* frames of the others alone.
LEMMA SavedFrame ==
  ASSUME IInv, interrupted, stubGs # None, saveFrame,
         UNCHANGED <<at, syscall, user>>, NEW c, c = current
  PROVE  /\ Waits(c)' /\ irq_rsp' = irq_rsp
         /\ \A t \in Threads \ {current} : stack'[t] = stack[t] /\ ctx'[t] = ctx[t]
         /\ ctx' \in [Threads -> RegSets]
         /\ stack' \in [Threads -> [kind : {"none", "user", "syscall"},
                                    regs : RegSets \union {Junk},
                                    of : Threads \union {None}]]
PROOF
  <1>1. /\ boot = "done" /\ current \in Threads /\ ist = current
    BY RunningFacts DEF interrupted
  <1>2. /\ at[current] \in InSyscall \union InUser
        /\ inSyscall <=> at[current] \in InSyscall
        /\ syscall[current] = IF at[current] \in Flagged THEN 1 ELSE 0
        /\ stubGs = current
    BY StubFacts
  <1>3. /\ ctx' = IF inSyscall THEN ctx ELSE [ctx EXCEPT ![current] = regs]
        /\ stack' = [stack EXCEPT ![current] = Frame]
        /\ irq_rsp' = [irq_rsp EXCEPT ![current] = current]
    BY <1>1, <1>2 DEF saveFrame
  <1>4. regs = IF at[current] \in {"body", "loading"} THEN KernelRegs(current)
               ELSE UserRegs(current, user[current])
    BY <1>1 DEF IInv, EntryInv, RegsInv, InKernel
  <1>5. /\ ctx \in [Threads -> RegSets]
        /\ user \in [Threads -> Programs]
        /\ regs \in RegSets \union {Junk}
        /\ stack \in [Threads -> [kind : {"none", "user", "syscall"},
                                  regs : RegSets \union {Junk},
                                  of : Threads \union {None}]]
        /\ at[current] = "body" => ctx[current] = Saved(current)
    BY <1>1 DEF IInv, EntryInv, EntryType, RunningInv, InKernel
  <1>6. irq_rsp' = irq_rsp
    BY <1>1, <1>3 DEF IInv, EntryInv, OwnStack
  <1>7. /\ Frame.kind = IF inSyscall THEN "syscall" ELSE "user"
        /\ Frame.of = current
        /\ inSyscall => Frame.regs = regs
        /\ Frame \in [kind : {"none", "user", "syscall"},
                      regs : RegSets \union {Junk},
                      of : Threads \union {None}]
    BY <1>1, <1>5 DEF Frame
  <1>8. /\ stack'[current] = Frame
        /\ ctx'[current] = IF inSyscall THEN ctx[current] ELSE regs
    BY <1>1, <1>3, <1>5
  <1>9. Saved(c)' = Saved(current)
    BY DEF Saved
  <1>10. Waits(c)'
    BY <1>2, <1>4, <1>5, <1>7, <1>8, <1>9 DEF Waits, InSyscall, InUser, Flagged
  <1>11. inSyscall \/ regs \in RegSets
    <2>1. user[current] \in Programs
      BY <1>1, <1>5
    <2>2. UserRegs(current, user[current]) \in RegSets
      BY <1>1, <2>1, RegsTyped
    <2> QED
      BY <1>2, <1>4, <2>2 DEF InSyscall, InUser, Flagged
  <1> QED
    BY <1>1, <1>3, <1>5, <1>6, <1>7, <1>10, <1>11

\* The way out to a thread with a complete frame gives it back what it had, unless
\* the thread was interrupted before it set its flag: that stops the processor.
LEMMA StubExit ==
  ASSUME NEW g \in Threads, NEW k, Waits(g)', irq_rsp' = [t \in Threads |-> t],
         UNCHANGED <<at, syscall, user>>, exitStub(g, k)
  PROVE  IF at[g] = "swapped"
         THEN cpu' = "fault" /\ UNCHANGED <<ds, gs, kgs, regs>>
         ELSE /\ regs' = IF at[g] = "body" THEN KernelRegs(g) ELSE UserRegs(g, user[g])
              /\ IF at[g] \in InSyscall THEN ds' = "kernel" /\ gs' = g /\ kgs' = k
                 ELSE ds' = "user" /\ gs' = k /\ kgs' = g
              /\ UNCHANGED cpu
PROOF
  <1> DEFINE f == stack'[irq_rsp'[g]]
  <1>1. /\ f.of = g /\ f.kind = IF at[g] \in InSyscall THEN "syscall" ELSE "user"
        /\ at[g] \in InSyscall \ {"body"} => f.regs = UserRegs(g, user[g])
        /\ at[g] = "body" => f.regs = KernelRegs(g)
        /\ at[g] \in InUser => ctx'[g] = UserRegs(g, user[g])
        /\ syscall[g] = IF at[g] \in Flagged THEN 1 ELSE 0
        /\ at[g] \in InSyscall \union InUser
    BY DEF Waits
  <1>2. \/ /\ syscall[g] = 1 /\ f.kind = "syscall"
           /\ ds' = "kernel" /\ gs' = g /\ kgs' = k
           /\ regs' = f.regs
           /\ UNCHANGED cpu
        \/ /\ syscall[g] = 0 /\ f.kind = "user"
           /\ ds' = "user" /\ gs' = k /\ kgs' = g
           /\ regs' = IF f.of = g THEN ctx'[g] ELSE Junk
           /\ UNCHANGED cpu
        \/ /\ f.kind # (IF syscall[g] = 1 THEN "syscall" ELSE "user")
           /\ cpu' = "fault"
           /\ UNCHANGED <<ds, gs, kgs, regs>>
    BY DEF exitStub
  <1> HIDE DEF f
  <1>3. CASE at[g] = "swapped"
    BY <1>1, <1>2, <1>3 DEF InSyscall, Flagged
  <1>4. CASE at[g] \in Flagged
    BY <1>1, <1>2, <1>4 DEF InSyscall, Flagged
  <1>5. CASE at[g] \in InUser
    BY <1>1, <1>2, <1>5 DEF InSyscall, Flagged, InUser
  <1> QED
    BY <1>1, <1>3, <1>4, <1>5 DEF InSyscall

\* What the stub leaves behind when another thread, or the same one, goes on:
\* every thread but that one waits with a complete frame or is new.
LEMMA StubLeaves ==
  ASSUME IInv, interrupted, stubGs # None, saveFrame,
         UNCHANGED <<boot, at, syscall, user>>,
         NEW n \in Threads, current' = n, state' \in [Threads -> {"RUNNING", "READY", "NEW"}],
         \A t \in Threads : state'[t] = "NEW" <=> state[t] = "NEW" /\ t # n
  PROVE  /\ WaitingInv' /\ NewInv' /\ OwnStack' /\ irq_rsp' = [t \in Threads |-> t]
         /\ state[n] # "NEW" => Waits(n)'
         /\ \A t \in Threads : state[t] = "NEW" => ctx'[t] = UserRegs(t, user[t])
PROOF
  <1>1. /\ boot = "done" /\ current \in Threads
        /\ \A t \in Threads : state[t] = "RUNNING" <=> t = current
    BY RunningFacts DEF interrupted
  <1>2. PICK c : c = current
    OBVIOUS
  <1>3. /\ Waits(c)' /\ irq_rsp' = irq_rsp
        /\ \A t \in Threads \ {c} : stack'[t] = stack[t] /\ ctx'[t] = ctx[t]
    BY <1>2, SavedFrame
  <1>4. ASSUME NEW t \in Threads, state[t] # "NEW"
        PROVE  Waits(t)'
    <2>1. CASE t = c
      BY <1>3, <2>1
    <2>2. CASE t # c
      <3>1. Waits(t) /\ stack'[t] = stack[t] /\ ctx'[t] = ctx[t]
        BY <1>1, <1>2, <1>3, <1>4, <2>2 DEF IInv, EntryInv, WaitingInv
      <3> QED
        BY <3>1 DEF Waits, Saved
    <2> QED
      BY <2>1, <2>2
  <1>5. \A t \in Threads : state[t] = "NEW" =>
          /\ at[t] = "fresh" /\ syscall[t] = 0
          /\ ctx'[t] = UserRegs(t, user[t])
    BY <1>1, <1>2, <1>3 DEF IInv, EntryInv, NewInv
  <1>6. WaitingInv'
    BY <1>4 DEF WaitingInv
  <1>7. NewInv'
    BY <1>5 DEF NewInv
  <1>8. irq_rsp' = [t \in Threads |-> t]
    BY <1>3 DEF IInv, EntryInv, OwnStack
  <1> QED
    BY <1>4, <1>5, <1>6, <1>7, <1>8 DEF OwnStack

\* While the processor runs, every variable has its type and every frame is kept.
LEMMA LiveFacts ==
  ASSUME IInv
  PROVE  TypeOK /\ FrameKept
PROOF
  <1>1. S!TypeOK
    BY DEF IInv, SP!IInv, SP!TypeOK, S!TypeOK, SP!MAX, S!MAX, SP!States, S!States
  <1>2. irq_rsp \in [Threads -> Threads]
    BY DEF IInv, EntryInv, OwnStack
  <1>3. boot = "done" => regs \in RegSets
    <2> SUFFICES ASSUME boot = "done" PROVE regs \in RegSets
      OBVIOUS
    <2>1. current \in Threads /\ user[current] \in Programs
      BY RunningFacts DEF IInv, EntryInv, EntryType
    <2>2. \/ regs = KernelRegs(current)
          \/ regs = UserRegs(current, user[current])
      BY DEF IInv, EntryInv, RegsInv
    <2> QED
      BY <2>1, <2>2, RegsTyped
  <1>4. TypeOK
    BY <1>1, <1>2, <1>3 DEF IInv, EntryInv, EntryType, TypeOK
  <1>5. FrameKept
    BY DEF IInv, EntryInv, WaitingInv, Waits, OwnStack, FrameKept, InSyscall, InUser,
           Flagged, Saved
  <1> QED
    BY <1>4, <1>5

\* An access through the null GS base stops the processor and changes nothing else.
LEMMA NullStops ==
  ASSUME IInv, boot = "done", nullGs
  PROVE  Halted'
PROOF
  <1>1. UNCHANGED <<boot, ready, state, runtime, current, ist, gs, kgs, entry_vars>>
        /\ cpu' = "fault"
    BY DEF nullGs, thread_vars
  <1>2. TypeOK /\ FrameKept
    BY LiveFacts
  <1>3. S!TypeOK'
    BY <1>1, <1>2 DEF TypeOK, S!TypeOK, S!MAX, S!States, Mode, entry_vars
  <1>4. TypeOK'
    BY <1>1, <1>2, <1>3 DEF TypeOK, entry_vars
  <1>5. FrameKept'
    BY <1>1, <1>2 DEF FrameKept, entry_vars
  <1> QED
    BY <1>1, <1>4, <1>5 DEF Halted

\* The stub stops at a thread that was interrupted before it set its flag, and
\* the frames of the threads stay complete.
LEMMA StubStops ==
  ASSUME IInv, interrupted, stubGs # None, saveFrame,
         UNCHANGED <<boot, at, syscall, user>>,
         NEW n \in Threads, current' = n, state' \in [Threads -> {"RUNNING", "READY", "NEW"}],
         \A t \in Threads : state'[t] = "NEW" <=> state[t] = "NEW" /\ t # n,
         state[n] # "NEW", exitStub(n, None), at[n] = "swapped",
         cpu' = "fault" /\ UNCHANGED <<gs, kgs>> => S!TypeOK'
  PROVE  Halted'
PROOF
  <1>1. /\ WaitingInv' /\ OwnStack' /\ irq_rsp' = [t \in Threads |-> t]
        /\ Waits(n)'
    BY StubLeaves
  <1>2. cpu' = "fault" /\ UNCHANGED <<ds, gs, kgs, regs>>
    BY <1>1, StubExit
  <1>3. ctx' \in [Threads -> RegSets]
    BY SavedFrame
  <1>4. TypeOK /\ boot = "done"
    BY LiveFacts DEF interrupted
  <1>5. TypeOK'
    BY <1>1, <1>2, <1>3, <1>4 DEF TypeOK
  <1>6. FrameKept'
    BY <1>1 DEF WaitingInv, Waits, OwnStack, FrameKept, InSyscall, InUser, Flagged, Saved
  <1> QED
    BY <1>2, <1>4, <1>5, <1>6 DEF Halted

\* The stub returns to a thread that has run before, and the GS bases are the
\* way round that its mode needs.
LEMMA StubReturns ==
  ASSUME IInv, interrupted, stubGs # None, saveFrame,
         UNCHANGED <<boot, at, syscall, user>>,
         NEW n \in Threads, current' = n, state' \in [Threads -> {"RUNNING", "READY", "NEW"}],
         \A t \in Threads : state'[t] = "NEW" <=> state[t] = "NEW" /\ t # n,
         state[n] # "NEW", exitStub(n, None), at[n] # "swapped"
  PROVE  /\ EntryInv' /\ UNCHANGED cpu
         /\ IF Mode[n] = "kernel" THEN gs' = n /\ kgs' = None ELSE gs' = None /\ kgs' = n
PROOF
  <1>1. /\ WaitingInv' /\ NewInv' /\ OwnStack' /\ irq_rsp' = [t \in Threads |-> t]
        /\ Waits(n)'
    BY StubLeaves
  <1>2. /\ regs' = IF at[n] = "body" THEN KernelRegs(n) ELSE UserRegs(n, user[n])
        /\ IF at[n] \in InSyscall THEN ds' = "kernel" /\ gs' = n /\ kgs' = None
           ELSE ds' = "user" /\ gs' = None /\ kgs' = n
        /\ UNCHANGED cpu
    BY <1>1, StubExit
  <1>3. /\ at[n] \in InSyscall \union InUser
        /\ syscall[n] = IF at[n] \in Flagged THEN 1 ELSE 0
        /\ at[n] = "body" => ctx'[n] = Saved(n)
    BY <1>1 DEF Waits, Saved
  <1>4. /\ ctx' \in [Threads -> RegSets]
        /\ stack' \in [Threads -> [kind : {"none", "user", "syscall"},
                                    regs : RegSets \union {Junk},
                                    of : Threads \union {None}]]
    BY SavedFrame
  <1>5. EntryType'
    <2>1. user[n] \in Programs
      BY DEF IInv, EntryInv, EntryType
    <2>2. regs' \in RegSets
      BY <1>2, <2>1, RegsTyped
    <2> QED
      BY <1>2, <1>4, <2>2 DEF IInv, EntryInv, EntryType
  <1>6. RegsInv'
    BY <1>2, <1>3 DEF RegsInv, InKernel, InSyscall, InUser, Flagged
  <1>7. RunningInv'
    BY <1>2, <1>3 DEF RunningInv, InKernel, InSyscall, InUser, Flagged, Saved
  <1>8. Mode[n] = "kernel" <=> at[n] \in InSyscall
    BY <1>3, ModeOfPoint DEF Mode, InSyscall, InUser, Flagged
  <1> QED
    BY <1>1, <1>2, <1>5, <1>6, <1>7, <1>8 DEF EntryInv

\* threadContextSwitch enters a thread that has never run, from the stub.
LEMMA StubEnters ==
  ASSUME IInv, interrupted, stubGs # None, saveFrame,
         UNCHANGED <<boot, at, syscall, user>>,
         NEW n \in Threads, current' = n, state' \in [Threads -> {"RUNNING", "READY", "NEW"}],
         \A t \in Threads : state'[t] = "NEW" <=> state[t] = "NEW" /\ t # n,
         state[n] = "NEW", threadContextSwitch(n)
  PROVE  EntryInv'
PROOF
  <1>1. /\ WaitingInv' /\ NewInv' /\ OwnStack'
        /\ ctx'[n] = UserRegs(n, user[n])
    BY StubLeaves
  <1>2. n # current /\ at[n] = "fresh" /\ syscall[n] = 0 /\ ctx[n] = UserRegs(n, user[n])
    BY RunningFacts DEF interrupted, IInv, EntryInv, NewInv
  <1>3. regs' = UserRegs(n, user[n]) /\ ds' = "kernel"
    BY <1>2 DEF threadContextSwitch
  <1>4. /\ ctx' \in [Threads -> RegSets]
        /\ stack' \in [Threads -> [kind : {"none", "user", "syscall"},
                                    regs : RegSets \union {Junk},
                                    of : Threads \union {None}]]
    BY SavedFrame
  <1>5. EntryType'
    <2>1. user[n] \in Programs
      BY DEF IInv, EntryInv, EntryType
    <2>2. regs' \in RegSets
      BY <1>3, <2>1, RegsTyped
    <2> QED
      BY <1>3, <1>4, <2>2 DEF IInv, EntryInv, EntryType
  <1>6. RegsInv' /\ RunningInv'
    BY <1>2, <1>3 DEF RegsInv, RunningInv, InKernel, InSyscall, InUser, Flagged
  <1> QED
    BY <1>1, <1>5, <1>6 DEF EntryInv

\* A device interrupt returns to where it came from, and the scheduler does
\* not notice; or it stops the processor.
LEMMA DeviceStep ==
  ASSUME IInv, irqDevice
  PROVE  (EntryInv' /\ UNCHANGED S!vars) \/ Halted'
PROOF
  <1>1. interrupted /\ boot = "done" /\ current \in Threads /\ current # None
    BY RunningFacts DEF irqDevice, interrupted
  <1>2. CASE stubGs = None
    BY <1>1, <1>2, NullStops DEF irqDevice
  <1>3. CASE stubGs # None
    <2>1. stubGs = current /\ stubKgs = None
      BY <1>1, <1>3, StubFacts
    <2>2. /\ saveFrame /\ exitStub(current, None)
          /\ UNCHANGED <<thread_vars, at, syscall, user>>
      BY <1>1, <1>3, <2>1 DEF irqDevice
    <2>3. PICK n \in Threads : n = current
      BY <1>1
    <2>4. /\ state[n] = "RUNNING"
          /\ state' \in [Threads -> {"RUNNING", "READY", "NEW"}]
          /\ UNCHANGED <<boot, at, syscall, user>>
          /\ current' = n
          /\ \A t \in Threads : state'[t] = "NEW" <=> state[t] = "NEW" /\ t # n
          /\ exitStub(n, None)
      BY <1>1, <2>2, <2>3, RunningFacts DEF thread_vars
    <2>5. Mode' = Mode
      BY <2>2 DEF Mode
    <2>6. CASE at[n] = "swapped"
      <3>1. cpu' = "fault" /\ UNCHANGED <<gs, kgs>> => S!TypeOK'
        BY <2>2, <2>5, LiveFacts DEF TypeOK, S!TypeOK, S!MAX, S!States, thread_vars
      <3>2. Halted'
        BY <1>1, <1>3, <2>2, <2>4, <2>6, <3>1, StubStops
      <3> QED
        BY <3>2
    <2>7. CASE at[n] # "swapped"
      <3>1. /\ EntryInv' /\ UNCHANGED cpu
            /\ IF Mode[n] = "kernel" THEN gs' = n /\ kgs' = None
               ELSE gs' = None /\ kgs' = n
        BY <1>1, <1>3, <2>2, <2>4, <2>7, StubReturns
      <3>2. IF Mode[n] = "kernel" THEN gs = n /\ kgs = None ELSE gs = None /\ kgs = n
        BY <1>1, <2>3, RunningFacts
      <3> QED
        BY <2>2, <2>5, <3>1, <3>2 DEF S!vars, thread_vars
    <2> QED
      BY <2>6, <2>7
  <1> QED
    BY <1>2, <1>3

\* A timer interrupt that finds a GS base charges the running thread and goes to
\* a thread.
LEMMA TimerFacts ==
  ASSUME IInv, irqTimer, stubGs # None
  PROVE  /\ saveFrame /\ stubKgs = None /\ at[current] \in InSyscall \union InUser
         /\ runtime' = [runtime EXCEPT ![current] = S!advance]
         /\ runtime' \in [Threads -> 0 .. S!MAX]
         /\ UNCHANGED <<boot, ready, at, syscall, user>>
         /\ \E m \in Threads :
              /\ m # None /\ m = S!getThreadWithMinRuntime(runtime')
              /\ threadNext(m)
PROOF
  <1> DEFINE n == S!getThreadWithMinRuntime(runtime')
  <1>1. interrupted /\ boot = "done"
    BY DEF irqTimer, interrupted
  <1>2. stubKgs = None /\ at[current] \in InSyscall \union InUser
    BY <1>1, StubFacts
  <1>3. saveFrame /\ irqThreadTimerHandler
    BY DEF irqTimer
  <1>4. runtime' = [runtime EXCEPT ![current] = S!advance]
    BY <1>3 DEF irqThreadTimerHandler
  <1>5. n \in Threads /\ runtime' \in [Threads -> 0 .. S!MAX]
    <2>1. S!advance = SP!advance /\ S!MAX = SP!MAX
      BY DEF S!advance, SP!advance, S!MAX, SP!MAX
    <2>2. n = SP!getThreadWithMinRuntime(runtime')
      BY DEF S!getThreadWithMinRuntime, SP!getThreadWithMinRuntime, S!MAX, SP!MAX
    <2>3. /\ SP!getThreadWithMinRuntime(runtime') \in Threads
          /\ runtime' \in [Threads -> 0 .. SP!MAX]
      BY <1>1, <1>4, <2>1, SP!NextFound, NoneAssumption, ThreadsAssumption,
         RuntimeAssumption, HorizonAssumption, ZenonT(100) DEF IInv
    <2> QED
      BY <2>1, <2>2, <2>3
  <1>6. n # None
    BY <1>5, NoneAssumption
  <1> HIDE DEF n
  <1>7. threadNext(n) /\ UNCHANGED <<boot, ready, at, syscall, user>>
    BY <1>2, <1>3, <1>6 DEF irqThreadTimerHandler, n
  <1> QED
    BY <1>2, <1>3, <1>4, <1>5, <1>6, <1>7 DEF n

\* A timer interrupt is the scheduler's, and whatever thread goes on finds its
\* registers; or it stops the processor.
LEMMA TimerStep ==
  ASSUME IInv, irqTimer
  PROVE  (EntryInv' /\ S!irqThreadTimerHandler) \/ Halted'
PROOF
  <1>1. /\ interrupted /\ boot = "done" /\ current \in Threads /\ current # None
        /\ cpu = "runs"
    BY RunningFacts DEF irqTimer, interrupted
  <1>2. CASE stubGs = None
    BY <1>1, <1>2, NullStops DEF irqTimer
  <1>3. CASE stubGs # None
    <2>1. /\ saveFrame /\ stubKgs = None /\ at[current] \in InSyscall \union InUser
          /\ runtime' = [runtime EXCEPT ![current] = S!advance]
          /\ runtime' \in [Threads -> 0 .. S!MAX]
          /\ UNCHANGED <<boot, ready, at, syscall, user>>
      BY <1>3, TimerFacts
    <2>2. PICK m \in Threads :
            /\ m # None /\ m = S!getThreadWithMinRuntime(runtime')
            /\ threadNext(m)
      BY <1>3, TimerFacts
    <2>3. /\ current' = m /\ ist' = m
          /\ state' = [state EXCEPT ![current] = "READY", ![m] = "RUNNING"]
          /\ IF state[m] = "NEW"
             THEN gs' = None /\ kgs' = m /\ threadContextSwitch(m) /\ UNCHANGED cpu
             ELSE exitStub(m, None)
      BY <2>2 DEF threadNext, S!threadSelect
    <2>4. /\ state' \in [Threads -> {"RUNNING", "READY", "NEW"}]
          /\ \A t \in Threads : state'[t] = "NEW" <=> state[t] = "NEW" /\ t # m
      <3>1. /\ state \in [Threads -> {"RUNNING", "READY", "NEW"}]
            /\ state[current] = "RUNNING"
        BY <1>1, RunningFacts
      <3> QED
        BY <1>1, <2>3, <3>1
    <2>5. Mode' = Mode
      BY <2>1 DEF Mode
    <2>6. CASE state[m] # "NEW" /\ at[m] = "swapped"
      <3>1. TypeOK
        BY LiveFacts
      <3>2. cpu' = "fault" /\ UNCHANGED <<gs, kgs>> => S!TypeOK'
        <4>1. /\ boot \in {"create", "select", "done"} /\ ready \in Seq(Threads)
              /\ gs \in Threads \union {None} /\ kgs \in Threads \union {None}
              /\ Mode \in [Threads -> {"fresh", "user", "kernel"}]
          BY <3>1 DEF TypeOK, S!TypeOK
        <4>2. state' \in [Threads -> S!States]
          BY <2>4 DEF S!States
        <4>3. runtime' \in [Threads -> 0 .. S!MAX] /\ boot' = boot /\ ready' = ready
          BY <2>1
        <4>4. current' \in Threads \union {None} /\ ist' \in Threads \union {None}
          BY <2>3
        <4> QED
          BY ONLY <2>5, <4>1, <4>2, <4>3, <4>4, SMTT(100) DEF S!TypeOK, S!States, S!MAX
      <3>3. Halted'
        BY <1>1, <1>3, <2>1, <2>3, <2>4, <2>6, <3>2, StubStops
      <3> QED
        BY <3>3
    <2>7. CASE ~ (state[m] # "NEW" /\ at[m] = "swapped")
      <3>1. /\ EntryInv' /\ UNCHANGED cpu
            /\ IF state[m] = "NEW" \/ Mode[m] # "kernel"
               THEN gs' = None /\ kgs' = m
               ELSE gs' = m /\ kgs' = None
        <4>1. CASE state[m] = "NEW"
          BY <1>1, <1>3, <2>1, <2>3, <2>4, <4>1, StubEnters
        <4>2. CASE state[m] # "NEW"
          BY <1>1, <1>3, <2>1, <2>3, <2>4, <2>7, <4>2, StubReturns
        <4> QED
          BY <4>1, <4>2
      <3>2. S!threadNext(m)
        BY <2>3, <3>1 DEF S!threadNext, S!threadSelect
      <3>3. /\ Mode[current] = PointMode(at[current]) /\ Mode[current] # "fresh"
            /\ IF Mode[current] = "user" THEN kgs # None /\ gs = None
               ELSE gs # None /\ kgs = None
        BY <1>1, <2>1, RunningFacts, ModeOfPoint DEF InSyscall, InUser, Flagged
      <3>4. runtime[current] + tick_microseconds < Horizon
        BY DEF irqTimer
      <3>5. S!irqThreadTimerHandler
        BY <1>1, <2>1, <2>2, <2>5, <3>1, <3>2, <3>3, <3>4
           DEF S!irqThreadTimerHandler, S!Up
      <3> QED
        BY <3>1, <3>5
    <2> QED
      BY <2>6, <2>7
  <1> QED
    BY <1>2, <1>3

-----------------------------------------------------------------------------
(* _start.                                                                 *)

\* Creating threads and selecting the first one keeps the invariant.
LEMMA BootStep ==
  ASSUME IInv, (\E t \in Threads : threadCreate(t)) \/ threadStartTimer \/ bootSelect
  PROVE  EntryInv' /\ S!Next
PROOF
  <1>1. ASSUME NEW t \in Threads, threadCreate(t)
        PROVE  EntryInv' /\ S!Next
    <2>1. /\ UNCHANGED entry_vars /\ boot' = boot /\ boot # "done" /\ current' = current
          /\ state' = [state EXCEPT ![t] = "NEW"]
      BY <1>1 DEF threadCreate, S!threadCreate
    <2>2. \A u \in Threads : state[u] = "NEW"
      BY <2>1 DEF IInv, SP!IInv, SP!BootInv
    <2>3. NewInv'
      BY <2>1, <2>2 DEF IInv, EntryInv, NewInv, entry_vars
    <2>4. EntryInv'
      BY <2>1, <2>3 DEF IInv, EntryInv, EntryType, RegsInv, RunningInv, WaitingInv,
                        OwnStack, entry_vars
    <2> QED
      BY <1>1, <2>4 DEF threadCreate, S!Next
  <1>2. CASE threadStartTimer
    <2>1. UNCHANGED <<entry_vars, state, current>> /\ boot = "create" /\ boot' = "select"
      BY <1>2 DEF threadStartTimer, S!threadStartTimer
    <2>2. EntryInv'
      BY <2>1 DEF IInv, EntryInv, EntryType, RegsInv, RunningInv, WaitingInv, NewInv,
                  OwnStack, entry_vars
    <2> QED
      BY <1>2, <2>2 DEF threadStartTimer, S!Next
  <1>3. CASE bootSelect
    <2>1. ready[1] \in Threads
      <3>1. boot = "select"
        BY <1>3 DEF bootSelect
      <3>2. ready \in Seq(Threads)
        BY DEF IInv, SP!IInv, SP!TypeOK
      <3>3. SP!Listed = Threads
        BY <3>1 DEF IInv, SP!IInv, SP!BootInv
      <3> QED
        BY <3>2, <3>3, ThreadsAssumption DEF SP!Listed
    <2>2. PICK m \in Threads : m = ready[1]
      BY <2>1
    <2>3. \A u \in Threads : state[u] = "NEW"
      <3>1. boot # "done"
        BY <1>3 DEF bootSelect
      <3> QED
        BY <3>1 DEF IInv, SP!IInv, SP!BootInv
    <2>4. /\ at[m] = "fresh" /\ syscall[m] = 0 /\ ctx[m] = UserRegs(m, user[m])
      BY <2>3 DEF IInv, EntryInv, NewInv
    <2>5. /\ boot' = "done" /\ current' = m /\ regs' = ctx[m] /\ ds' = "kernel"
          /\ state' = [state EXCEPT ![m] = "RUNNING"]
          /\ UNCHANGED <<at, syscall, user, ctx, irq_rsp, stack>>
      BY <1>3, <2>2 DEF bootSelect, threadContextSwitch, S!bootSelect, S!threadSelect
    <2>6. EntryType'
      BY <2>5 DEF IInv, EntryInv, EntryType
    <2>7. RegsInv' /\ RunningInv'
      BY <2>4, <2>5 DEF RegsInv, RunningInv, InKernel, InSyscall, InUser, Flagged
    <2>8. state \in [Threads -> {"RUNNING", "READY", "NEW"}]
      BY DEF IInv, SP!IInv, SP!TypeOK, SP!States
    <2>9. WaitingInv' /\ NewInv'
      BY <2>3, <2>5, <2>8 DEF IInv, EntryInv, NewInv, WaitingInv
    <2>10. OwnStack'
      BY <2>5 DEF IInv, EntryInv, OwnStack
    <2> QED
      BY <1>3, <2>6, <2>7, <2>9, <2>10 DEF EntryInv, bootSelect, S!Next
  <1> QED
    BY <1>1, <1>2, <1>3

-----------------------------------------------------------------------------
(* The theorems.                                                           *)

\* The scheduler that KernelEntry is built around and the one that the
\* theorems are about are the same.
LEMMA SameScheduler ==
  /\ S!Init <=> SP!Init
  /\ [S!Next]_(S!vars) <=> [SP!Next]_(SP!vars)
PROOF
  BY ZenonT(100) DEF S!Init, SP!Init, S!vars, SP!vars, S!Next, SP!Next, S!threadCreate, SP!threadCreate,
         S!Listed, SP!Listed, S!threadStartTimer, SP!threadStartTimer, S!bootSelect,
         SP!bootSelect, S!threadSelect, SP!threadSelect, S!syscallEnter, SP!syscallEnter,
         S!syscallLeave, SP!syscallLeave, S!Up, SP!Up, S!irqThreadTimerHandler,
         SP!irqThreadTimerHandler, S!advance, SP!advance, S!threadNext, SP!threadNext,
         S!getThreadWithMinRuntime, SP!getThreadWithMinRuntime, S!MAX, SP!MAX

\* The invariant holds at the start.
LEMMA InitIInv == Init => IInv
PROOF
  <1> SUFFICES ASSUME Init PROVE IInv
    OBVIOUS
  <1>1. SP!IInv
    BY SameScheduler, SP!InitIInv, NoneAssumption, ThreadsAssumption,
       RuntimeAssumption, HorizonAssumption DEF Init
  <1>2. boot = "create" /\ state = [t \in Threads |-> "NEW"]
    BY DEF Init, S!Init
  <1>3. EntryType
    <2>1. user \in [Threads -> Programs]
      BY DEF Init, Programs
    <2>2. ctx \in [Threads -> RegSets]
      BY <2>1, RegsTyped DEF Init
    <2> QED
      BY <2>1, <2>2 DEF Init, EntryType, Points, Outside
  <1>4. RegsInv /\ RunningInv /\ WaitingInv /\ NewInv /\ OwnStack
    BY <1>2 DEF Init, RegsInv, RunningInv, WaitingInv, NewInv, OwnStack
  <1> QED
    BY <1>1, <1>3, <1>4 DEF IInv, EntryInv

\* Every step keeps the invariant and is a step of the scheduler or invisible
\* to it, or stops the processor.
LEMMA NextIInv ==
  ASSUME IInv, [Next]_vars
  PROVE  (IInv' /\ [S!Next]_(S!vars)) \/ Halted'
PROOF
  <1>1. (EntryInv' /\ [S!Next]_(S!vars)) \/ Halted'
    <2>1. CASE UNCHANGED vars
      <3>1. EntryInv'
        <4>1. EntryType' /\ RegsInv' /\ RunningInv'
          BY <2>1 DEF IInv, EntryInv, EntryType, RegsInv, InKernel, RunningInv, Saved, vars
        <4>2. WaitingInv'
          BY <2>1 DEF IInv, EntryInv, WaitingInv, Waits, Saved, vars
        <4>3. NewInv' /\ OwnStack'
          BY <2>1 DEF IInv, EntryInv, NewInv, OwnStack, vars
        <4> QED
          BY <4>1, <4>2, <4>3 DEF EntryInv
      <3>2. UNCHANGED S!vars
        BY <2>1 DEF vars, S!vars, Mode
      <3> QED
        BY <3>1, <3>2
    <2>2. CASE (\E t \in Threads : threadCreate(t)) \/ threadStartTimer \/ bootSelect
      BY <2>2, BootStep
    <2>3. CASE Program
      <3>1. boot = "done"
        BY <2>3 DEF Program, compute, enter, swapgsIn, flag, loadKernelDs, saveRegs,
                    loadUserDs, restoreRegs, swapgsOut, sysret, Step, At
      <3>2. EntryInv'
        BY <2>3, <3>1, ComputeStep, PathStep DEF Program
      <3> QED
        BY <2>3, <3>1, <3>2, PathSchedules
    <2>4. CASE irqDevice
      BY <2>4, DeviceStep
    <2>5. CASE irqTimer
      BY <2>5, TimerStep DEF S!Next
    <2> QED
      BY <2>1, <2>2, <2>3, <2>4, <2>5 DEF Next
  <1>2. CASE EntryInv' /\ [S!Next]_(S!vars)
    <2>1. [SP!Next]_(SP!vars)
      BY <1>2, SameScheduler
    <2>2. SP!IInv'
      BY <2>1, SP!NextIInv, NoneAssumption, ThreadsAssumption, RuntimeAssumption,
         HorizonAssumption DEF IInv
    <2> QED
      BY <1>2, <2>2 DEF IInv
  <1> QED
    BY <1>1, <1>2

\* A processor that has stopped stays stopped, and nothing changes any more.
LEMMA HaltedStays ==
  ASSUME Halted, [Next]_vars
  PROVE  Halted' /\ UNCHANGED S!vars
PROOF
  <1>1. boot = "done" /\ cpu = "fault"
    BY DEF Halted
  <1>2. ~ Program
    BY <1>1 DEF Program, compute, enter, swapgsIn, flag, loadKernelDs, saveRegs,
                loadUserDs, restoreRegs, swapgsOut, sysret, Step, At
  <1>3. ~ irqDevice /\ ~ irqTimer
    BY <1>1 DEF irqDevice, irqTimer, interrupted
  <1>4. ~ bootSelect /\ ~ threadStartTimer /\ ~ \E t \in Threads : threadCreate(t)
    BY <1>1 DEF bootSelect, threadStartTimer, threadCreate, S!threadStartTimer,
                S!threadCreate
  <1>5. UNCHANGED vars
    BY <1>2, <1>3, <1>4 DEF Next
  <1>6. UNCHANGED S!vars
    BY <1>5 DEF vars, S!vars, Mode
  <1>7. TypeOK'
    BY <1>5, <1>6 DEF Halted, TypeOK, S!TypeOK, S!MAX, S!States, vars, S!vars
  <1>8. FrameKept'
    BY <1>5 DEF Halted, FrameKept, vars
  <1> QED
    BY <1>1, <1>5, <1>6, <1>7, <1>8 DEF Halted, vars

\* In every reachable state the processor runs with the inductive invariant, or
\* an interrupt has stopped it.
THEOREM Invariance == Spec => [](IInv \/ Halted)
PROOF
  <1>1. (IInv \/ Halted) /\ [Next]_vars => (IInv \/ Halted)'
    BY NextIInv, HaltedStays
  <1> QED
    BY <1>1, InitIInv, PTL DEF Spec

\* Every variable keeps its type and no stub ever fills the registers from a
\* frame of another thread, wherever interrupts arrive.
THEOREM TypeCorrect == Spec => []TypeOK
PROOF
  <1>1. IInv \/ Halted => TypeOK
    BY LiveFacts DEF Halted
  <1> QED
    BY <1>1, Invariance, PTL

\* A program finds the registers it left, but for rax and rdx after a system
\* call, and so does a system call, whatever interrupts and switches of any
\* number of threads come between, at whatever points, as long as the processor
\* runs.
THEOREM RegistersSurvive == Spec => []RegistersKept
PROOF
  <1>1. IInv \/ Halted => RegistersKept
    BY DEF IInv, EntryInv, RegsInv, RegistersKept, Halted
  <1> QED
    BY <1>1, Invariance, PTL

\* The frame of a thread that waits for the processor stays as the stub left
\* it, for any number of threads and wherever interrupts arrive.
THEOREM FramesSurvive == Spec => []FrameKept
PROOF
  <1>1. IInv \/ Halted => FrameKept
    BY LiveFacts DEF Halted
  <1> QED
    BY <1>1, Invariance, PTL

\* Wherever an interrupt arrives, the irq_stub uses the gs_base_t of the thread
\* it interrupted or, outside the safe points, stops at the null base: it never
\* writes into that of another thread.
THEOREM GsFound == Spec => []OwnGsOrNull
PROOF
  <1>1. ASSUME IInv
        PROVE  OwnGsOrNull
    <2> SUFFICES ASSUME interrupted
                 PROVE  \/ stubGs = current /\ stubKgs = None
                        \/ stubGs = None /\ at[current] \notin SafePoints
      BY DEF OwnGsOrNull
    <2>1. CASE stubGs # None
      BY <1>1, <2>1, StubFacts
    <2>2. CASE at[current] \in SafePoints
      <3>1. boot = "done"
        BY DEF interrupted
      <3>2. /\ current # None
            /\ IF PointMode(at[current]) = "kernel"
               THEN gs = current /\ kgs = None
               ELSE gs = None /\ kgs = current
        BY <1>1, <3>1, RunningFacts
      <3>3. inSyscall <=> at[current] \in {"saving", "body"}
        BY <1>1, <2>2, <3>1
           DEF inSyscall, IInv, EntryInv, RunningInv, SafePoints, InUser
      <3>4. PointMode(at[current]) = "kernel" <=> at[current] \in {"saving", "body"}
        BY <2>2, ModeOfPoint DEF SafePoints, InUser
      <3> QED
        BY <3>2, <3>3, <3>4 DEF stubGs, stubKgs
    <2> QED
      BY <2>1, <2>2
  <1>2. Halted => OwnGsOrNull
    BY DEF Halted, OwnGsOrNull, interrupted
  <1> QED
    BY <1>1, <1>2, Invariance, PTL

\* The entry paths and the stubs, instruction by instruction, implement the
\* scheduler until an interrupt stops the processor, for any number of threads and
\* wherever interrupts arrive.
THEOREM SchedulerImplemented == Spec => ImplementsScheduler
PROOF
  <1>1. Init => S!Init
    BY DEF Init
  <1>2. (IInv \/ Halted) /\ [Next]_vars => [S!Next \/ cpu' = "fault"]_(S!vars)
    BY NextIInv, HaltedStays DEF Halted
  <1> QED
    BY <1>1, <1>2, Invariance, PTL DEF Spec, ImplementsScheduler
=============================================================================
