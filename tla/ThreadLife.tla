----------------------------- MODULE ThreadLife -----------------------------
(***************************************************************************)
(* The life of threads in threads/thread.c: how _start creates them step   *)
(* by step with interrupts enabled, and threadSchedule, threadBlock and    *)
(* threadKill on the ready list of libc/kernel/list.c while the timer      *)
(* switches threads.  Module Scheduler follows what a switch sets up.      *)
(*                                                                         *)
(* No code in the repository calls threadSchedule, threadBlock and         *)
(* threadKill.  Their caller is assumed to have interrupts disabled, to    *)
(* block and kill only threads on the ready list, to schedule only threads *)
(* off it, and to leave one thread on it.                                  *)
(***************************************************************************)
EXTENDS Links, FiniteSets, SequencesExt

CONSTANTS
  Boot,      \* the threads that _start creates, in their order
  Late,      \* threads created later
  Horizon    \* bound: no tick takes a runtime beyond it

VARIABLES
  pc,        \* step of _start, "run" once a thread runs
  n,         \* the thread of Boot at work
  lock,
  interrupts,\* the interrupt flag
  timer,     \* whether the periodic timer is started
  h,         \* the links
  state, runtime,
  filled,    \* threads whose gs and ctx are allocated
  gs,        \* the GS base that an interrupt handler finds
  current,   \* current_thread
  cpu,       \* "runs", "fault" or "spins" with interrupts disabled
  off,       \* ghost: threads blocked or killed
  frame      \* "saved" once a timer interrupt has put the thread's frame on its stack,
             \* else "none", or "early" (ghost) when it was blocked before it first ran

vars == <<pc, n, lock, interrupts, timer, h, state, runtime, filled, gs, current, cpu, off, frame>>

Threads == {Boot[i] : i \in DOMAIN Boot} \cup Late
all_elem(t) == <<"all", t>>
ready_elem(t) == <<"ready", t>>

\* The elements of a list, from front to back.
Walk(l) ==
  LET onward(w, k) == LET e == IF w = <<>> THEN list_begin(h, l) ELSE list_next(h, Last(w))
                      IN  IF e \in Elems THEN Append(w, e) ELSE w
  IN  FoldLeft(onward, <<>>, [k \in 1 .. Cardinality(Threads) + 1 |-> k])

Ready == LET w == Walk("ready") IN [i \in DOMAIN w |-> w[i][2]]
Listed == ToSet(Ready)

\* initThread, with interrupts enabled.
Init ==
  /\ pc = "create" /\ n = 1 /\ lock = 0 /\ interrupts = TRUE /\ timer = FALSE
  /\ h = LET none == [x \in Nodes |-> NULL]
         IN  list_init(list_init([next |-> none, prev |-> none], "all"), "ready")
  /\ state = [t \in Threads |-> "none"] /\ runtime = [t \in Threads |-> 0]
  /\ filled = {} /\ gs = NULL /\ current = NULL /\ cpu = "runs" /\ off = {}
  /\ frame = [t \in Threads |-> "none"]

-----------------------------------------------------------------------------
(* _start.                                                                 *)

Linked(t) == list_push_back(list_push_back(h, "all", all_elem(t)), "ready", ready_elem(t))

Outside == cpu = "runs"
At(a, b) == Outside /\ pc = a /\ pc' = b

\* threadCreate takes the lock; its runtime is set to 0 by the test.
createLock ==
  /\ At("create", "link") /\ n <= Len(Boot)
  /\ lock = 0 /\ lock' = 1
  /\ state' = [state EXCEPT ![Boot[n]] = "NEW"]
  /\ runtime' = [runtime EXCEPT ![Boot[n]] = 0]
  /\ UNCHANGED <<n, interrupts, timer, h, filled, gs, current, cpu, off, frame>>

createLink ==
  /\ At("link", "fill")
  /\ h' = Linked(Boot[n]) /\ lock' = 0
  /\ UNCHANGED <<n, interrupts, timer, state, runtime, filled, gs, current, cpu, off, frame>>

\* Only now the thread gets its gs_base_t and its context.
createFill ==
  /\ At("fill", "create")
  /\ filled' = filled \cup {Boot[n]} /\ n' = n + 1
  /\ UNCHANGED <<lock, interrupts, timer, h, state, runtime, gs, current, cpu, off, frame>>

threadStartTimer ==
  /\ At("create", "select") /\ n > Len(Boot)
  /\ timer' = TRUE
  /\ UNCHANGED <<n, lock, interrupts, h, state, runtime, filled, gs, current, cpu, off, frame>>

\* threadSelect: cli, the lock, and what the thread needs.
selectLock ==
  /\ At("select", "selected")
  /\ interrupts' = FALSE
  /\ lock = 0 /\ lock' = 1
  /\ current' = Boot[1] /\ state' = [state EXCEPT ![Boot[1]] = "RUNNING"]
  /\ UNCHANGED <<n, timer, h, runtime, filled, gs, cpu, off, frame>>

selectSwitch ==
  /\ At("selected", "run")
  /\ lock' = 0 /\ gs' = current /\ interrupts' = TRUE
  /\ UNCHANGED <<n, timer, h, state, runtime, filled, current, cpu, off, frame>>

-----------------------------------------------------------------------------
(* The timer interrupt.                                                    *)

\* The first of the threads with the least runtime.
MinRuntime(rt) ==
  LET r == Ready
  IN  r[CHOOSE i \in DOMAIN r : \A j \in DOMAIN r :
          rt[r[i]] < rt[r[j]] \/ (rt[r[i]] = rt[r[j]] /\ i <= j)]

\* Mutant: a switch whenever a handler runs.
handlerSwitchesAlways == TRUE

handlerSwitches == gs # NULL

\* A NEW thread is entered through threadSelect, any other by the frame that the
\* stub finds on its stack.
Enters(t) == state[t] = "NEW" \/ frame[t] = "saved"

\* After the stub has saved the frame of current_thread.
threadNext(rt) ==
  LET t == MinRuntime(rt)
      stops(how) == cpu' = how /\ UNCHANGED <<state, current, gs>>
  IN  IF current = NULL \/ current \notin filled THEN stops("fault")
      ELSE IF lock = 1 THEN stops("spins")
      ELSE IF Ready = <<>> THEN stops("fault")
      ELSE /\ cpu' = IF t \in filled /\ (t = current \/ Enters(t)) THEN "runs" ELSE "fault"
           /\ state' = [state EXCEPT ![current] = "READY", ![t] = "RUNNING"]
           /\ current' = t /\ gs' = t

irqThreadTimerHandler ==
  /\ Outside /\ timer /\ interrupts
  /\ current # NULL => runtime[current] < Horizon
  /\ runtime' = IF current = NULL THEN runtime ELSE [runtime EXCEPT ![current] = @ + 1]
  /\ frame' = IF current = NULL THEN frame ELSE [frame EXCEPT ![current] = "saved"]
  /\ IF handlerSwitches THEN threadNext(runtime')
     ELSE UNCHANGED <<state, current, gs, cpu>>
  /\ UNCHANGED <<pc, n, lock, interrupts, timer, h, filled, off>>

-----------------------------------------------------------------------------
(* Calls from a thread in the kernel, interrupts disabled.                 *)

Running == Outside /\ pc = "run"

threadCreate(t) ==
  /\ Running /\ state[t] = "none"
  /\ h' = Linked(t)
  /\ state' = [state EXCEPT ![t] = "NEW"] /\ runtime' = [runtime EXCEPT ![t] = 0]
  /\ filled' = filled \cup {t}
  /\ UNCHANGED <<pc, n, lock, interrupts, timer, gs, current, cpu, off, frame>>

threadSchedule(t) ==
  /\ Running /\ t \in off
  /\ state' = [state EXCEPT ![t] = "READY"]
  /\ h' = list_push_back(h, "ready", ready_elem(t))
  /\ off' = off \ {t}
  /\ UNCHANGED <<pc, n, lock, interrupts, timer, runtime, filled, gs, current, cpu, frame>>

\* Mutant: the element of the other list is taken out.
RemovedAll(t) == list_remove(h, all_elem(t))

Removed(t) == list_remove(h, ready_elem(t))

\* threadBlock, and threadKill with DYING.
threadBlock(t, why) ==
  /\ Running /\ t \in Listed /\ Listed # {t}
  /\ state' = [state EXCEPT ![t] = why]
  /\ h' = Removed(t)
  /\ off' = off \cup {t}
  /\ frame' = IF state[t] = "NEW" THEN [frame EXCEPT ![t] = "early"] ELSE frame
  /\ UNCHANGED <<pc, n, lock, interrupts, timer, runtime, filled, gs, current, cpu>>

Next ==
  \/ createLock \/ createLink \/ createFill \/ threadStartTimer \/ selectLock \/ selectSwitch
  \/ irqThreadTimerHandler
  \/ \E t \in Late : threadCreate(t)
  \/ \E t \in Threads : threadSchedule(t) \/ threadBlock(t, "BLOCKED") \/ threadBlock(t, "DYING")

Spec == Init /\ [][Next]_vars

-----------------------------------------------------------------------------
(* Properties.                                                             *)

\* The timer handler never waits for a lock that the code it interrupted
\* holds, never follows a null current_thread, and never selects a thread that
\* threadCreate has linked but not yet given a gs_base_t.  It switches to a thread
\* that has no frame only when the thread was blocked or killed before it first ran
\* and scheduled again: it is READY then, and threadNext takes it for one that ran.
HandlerSafe ==
  \/ cpu = "runs"
  \/ cpu = "fault" /\ current \in Threads /\ frame[current] = "early"

\* A thread that was blocked or killed is not switched to until it is
\* scheduled again, although threadNext overwrites the state of a thread that
\* was blocked or killed while it ran with READY.
OffStaysOff == current' # current => current' \notin off'

\* The ready list has every thread that was created and is not blocked or
\* killed exactly once, and its links agree in both directions, whatever
\* stale links the elements keep that were taken out.
ReadyListSound ==
  LET r == Walk("ready")
      w == <<head("ready")>> \o r \o <<tail("ready")>>
  IN  /\ \A i \in 1 .. Len(w) - 1 : h.next[w[i]] = w[i + 1] /\ h.prev[w[i + 1]] = w[i]
      /\ IsInjective(r)
      /\ lock = 0 => Listed = {t \in Threads : state[t] # "none"} \ off
=============================================================================
