----------------------------- MODULE Scheduler -----------------------------
(***************************************************************************)
(* The thread scheduler, threads/thread.c, on the one processor that the   *)
(* kernel starts: _start creates the threads, starts the periodic timer    *)
(* and selects the first thread; from then on every timer interrupt picks  *)
(* the ready thread with the least runtime.                                *)
(*                                                                         *)
(* The module also follows the two GS base registers and the interrupt     *)
(* stack of the TSS, through which the interrupt and system call stubs     *)
(* find the data of the running thread.  A thread's gs_base_t is           *)
(* identified with the thread, the null address with None.  Here a system  *)
(* call enters and leaves the kernel in one step each, and the timer does  *)
(* not interrupt a thread that has not made its first system call; module  *)
(* KernelEntry opens both up.                                              *)
(*                                                                         *)
(* Interrupts before the first thread is selected only count and are left  *)
(* out.                                                                    *)
(***************************************************************************)
EXTENDS Integers, Sequences

CONSTANTS
  Threads,           \* the threads that _start creates
  None,              \* the null pointer
  Modulus,           \* 2^64, the range of a uint64_t
  tick_microseconds, \* 10000 in _start
  Horizon            \* bound: no tick takes a runtime to Horizon or beyond

ASSUME NoneAssumption == None \notin Threads
ASSUME ThreadsAssumption == Threads # {}
\* A 64-bit counter, and a tick that is even like the one _start passes.
ASSUME RuntimeAssumption ==
  /\ Modulus \in Nat \ {0} /\ Modulus % 2 = 0
  /\ tick_microseconds \in Nat \ {0} /\ tick_microseconds % 2 = 0
  /\ tick_microseconds < Modulus
ASSUME HorizonAssumption == Horizon \in Nat

VARIABLES
  boot,      \* the next step of _start
  ready,     \* the list ready[0]; a thread stays on it while it runs
  state,     \* thread->state
  runtime,   \* thread->runtime
  current,   \* current_thread
  mode,      \* "fresh" before the first system call, then "user" or
             \* "kernel": thread->gs->syscall is 1 in "kernel"
  gs,        \* the active GS base (USER_GS_BASE)
  kgs,       \* the other one, which swapgs exchanges it with (KERN_GS_BASE)
  ist,       \* whose stacks are in the TSS
  cpu        \* "runs", or "fault" after a null pointer is dereferenced

vars == <<boot, ready, state, runtime, current, mode, gs, kgs, ist, cpu>>

MAX == Modulus - 1   \* -1UL

Listed == {ready[i] : i \in DOMAIN ready}

Init ==
  /\ boot = "create"
  /\ ready = <<>>
  /\ state = [t \in Threads |-> "NEW"]
  /\ runtime = [t \in Threads |-> 0]
  /\ current = None
  /\ mode = [t \in Threads |-> "fresh"]
  /\ gs = None /\ kgs = None
  /\ ist = None
  /\ cpu = "runs"

-----------------------------------------------------------------------------
(* _start.                                                                 *)

\* The test of getMinRuntime's result is an assignment, so a new thread
\* starts with runtime 0 whatever the others have.
threadCreate(t) ==
  /\ boot = "create" /\ t \notin Listed
  /\ runtime' = [runtime EXCEPT ![t] = 0]
  /\ state' = [state EXCEPT ![t] = "NEW"]
  /\ ready' = Append(ready, t)
  /\ UNCHANGED <<boot, current, mode, gs, kgs, ist, cpu>>

threadStartTimer ==
  /\ boot = "create" /\ Listed = Threads
  /\ boot' = "select"
  /\ UNCHANGED <<ready, state, runtime, current, mode, gs, kgs, ist, cpu>>

\* What threadSelect sets up before threadContextSwitch's sysret.
threadSelect(t) ==
  /\ current' = t
  /\ gs' = None /\ kgs' = t
  /\ ist' = t

bootSelect ==
  /\ boot = "select"
  /\ boot' = "done"
  /\ threadSelect(ready[1])
  /\ state' = [state EXCEPT ![ready[1]] = "RUNNING"]
  /\ UNCHANGED <<ready, runtime, mode, cpu>>

-----------------------------------------------------------------------------
(* System calls.                                                           *)

Up == boot = "done" /\ cpu = "runs"

syscallEnter ==
  /\ Up /\ mode[current] \in {"fresh", "user"}
  /\ mode' = [mode EXCEPT ![current] = "kernel"]
  /\ gs' = kgs /\ kgs' = gs
  /\ UNCHANGED <<boot, ready, state, runtime, current, ist, cpu>>

syscallLeave ==
  /\ Up /\ mode[current] = "kernel"
  /\ mode' = [mode EXCEPT ![current] = "user"]
  /\ gs' = kgs /\ kgs' = gs
  /\ UNCHANGED <<boot, ready, state, runtime, current, ist, cpu>>

-----------------------------------------------------------------------------
(* The timer interrupt.                                                    *)

\* Mutant: the search starts from the largest signed number.
getThreadWithMinRuntimeSigned(rt) ==
  LET seen == {i \in DOMAIN ready : rt[ready[i]] < Modulus \div 2 - 1}
  IN  IF seen = {} THEN None
      ELSE ready[CHOOSE i \in seen : \A j \in seen :
                   \/ rt[ready[i]] < rt[ready[j]]
                   \/ rt[ready[i]] = rt[ready[j]] /\ i <= j]

\* Mutant: the search stops at the first thread.
getThreadWithMinRuntimeFirst(rt) == ready[1]

\* The search starts from min = -1UL and replaces it only by a smaller
\* runtime, so it ends at the first of the threads with the least runtime and
\* does not see a thread whose runtime is -1UL.
getThreadWithMinRuntime(rt) ==
  LET seen == {i \in DOMAIN ready : rt[ready[i]] < MAX}
  IN  IF seen = {} THEN None
      ELSE ready[CHOOSE i \in seen : \A j \in seen :
                   \/ rt[ready[i]] < rt[ready[j]]
                   \/ rt[ready[i]] = rt[ready[j]] /\ i <= j]

\* Mutant: the thread that is switched away from stays RUNNING.
threadNextRunning(t) ==
  /\ state' = [state EXCEPT ![t] = "RUNNING"]
  /\ IF state[t] = "NEW" \/ mode[t] # "kernel"
     THEN threadSelect(t)
     ELSE /\ current' = t
          /\ gs' = t /\ kgs' = None
          /\ ist' = t

\* Mutant: the TSS keeps the stacks of the previous thread.
threadNextStacks(t) ==
  /\ state' = [state EXCEPT ![current] = "READY", ![t] = "RUNNING"]
  /\ current' = t
  /\ IF state[t] = "NEW" \/ mode[t] # "kernel"
     THEN gs' = None /\ kgs' = t
     ELSE gs' = t /\ kgs' = None
  /\ UNCHANGED ist

\* threadNext and the stub's exit.  A NEW thread is entered by threadSelect.
\* Any other gets the active GS base, and the stub exchanges it with the null
\* one when the thread goes back to user mode.
threadNext(t) ==
  /\ state' = [state EXCEPT ![current] = "READY", ![t] = "RUNNING"]
  /\ IF state[t] = "NEW" \/ mode[t] # "kernel"
     THEN threadSelect(t)
     ELSE /\ current' = t
          /\ gs' = t /\ kgs' = None
          /\ ist' = t

\* Mutant: the counter has no width.
advanceNoWrap == runtime[current] + tick_microseconds

advance == (runtime[current] + tick_microseconds) % Modulus

\* In the handler the active GS base is the one the stub found or, from user
\* mode, exchanged; the handler switches threads only when it is not null
\* and the other one is.
irqThreadTimerHandler ==
  /\ Up /\ mode[current] # "fresh"
  /\ runtime[current] + tick_microseconds < Horizon
  /\ runtime' = [runtime EXCEPT ![current] = advance]
  /\ LET inUser == mode[current] = "user"
         t == getThreadWithMinRuntime(runtime')
     IN  IF (IF inUser THEN kgs # None /\ gs = None ELSE gs # None /\ kgs = None)
         THEN IF t = None
              THEN /\ cpu' = "fault"
                   /\ UNCHANGED <<state, current, gs, kgs, ist>>
              ELSE threadNext(t) /\ UNCHANGED cpu
         ELSE UNCHANGED <<state, current, gs, kgs, ist, cpu>>
  /\ UNCHANGED <<boot, ready, mode>>

Next ==
  \/ \E t \in Threads : threadCreate(t)
  \/ threadStartTimer
  \/ bootSelect
  \/ syscallEnter
  \/ syscallLeave
  \/ irqThreadTimerHandler

Spec == Init /\ [][Next]_vars

\* _start runs to its end, the timer keeps ticking, and a new thread makes
\* its first system call: both programs of the repository begin with one.
Fairness ==
  /\ WF_vars(\E t \in Threads : threadCreate(t))
  /\ WF_vars(threadStartTimer)
  /\ WF_vars(bootSelect)
  /\ WF_vars(syscallEnter /\ mode[current] = "fresh")
  /\ WF_vars(irqThreadTimerHandler)

FairSpec == Spec /\ Fairness

-----------------------------------------------------------------------------
(* Properties.                                                             *)

States == {"RUNNING", "READY", "NEW"}

\* Every variable has its type, and a runtime fits its 64 bits.
TypeOK ==
  /\ boot \in {"create", "select", "done"}
  /\ ready \in Seq(Threads)
  /\ state \in [Threads -> States]
  /\ runtime \in [Threads -> 0 .. MAX]
  /\ current \in Threads \union {None}
  /\ mode \in [Threads -> {"fresh", "user", "kernel"}]
  /\ gs \in Threads \union {None}
  /\ kgs \in Threads \union {None}
  /\ ist \in Threads \union {None}
  /\ cpu \in {"runs", "fault"}

\* Exactly one thread is RUNNING, the current one, however switches, first
\* runs and system calls interleave; the threads that have never run are NEW.
OneRunning ==
  boot = "done" =>
    /\ \A t \in Threads : state[t] = "RUNNING" <=> t = current
    /\ \A t \in Threads : state[t] = "NEW" => mode[t] = "fresh"

\* The GS base registers and the TSS always belong to the running thread, and
\* the registers are the way round that the thread's mode needs: the next
\* system call or interrupt finds its own gs_base_t and its own stack.
ContextIsCurrents ==
  boot = "done" =>
    /\ ist = current
    /\ IF mode[current] = "kernel"
       THEN gs = current /\ kgs = None
       ELSE gs = None /\ kgs = current

\* threadNext always finds a thread: getThreadWithMinRuntime never returns
\* NULL, although it passes over a runtime of -1UL and runtimes wrap around.
MinRuntimeFound == cpu = "runs"

\* As long as no runtime wraps, no ready thread is ever more than one tick
\* ahead of another.
FairShare ==
  \A t, u \in Threads : runtime[t] <= runtime[u] + tick_microseconds

\* No thread is starved: as long as no runtime has come to the horizon, the
\* runtime of every thread grows again, whatever the others do.
EveryThreadRuns ==
  \A t \in Threads, v \in 0 .. Horizon - tick_microseconds - 1 :
    runtime[t] = v ~> runtime[t] > v
=============================================================================
