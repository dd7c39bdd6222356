-------------------------- MODULE SchedulerProofs --------------------------
(***************************************************************************)
(* Theorems about the scheduler for any set of threads, any even tick and  *)
(* any even counter range.                                                 *)
(***************************************************************************)
EXTENDS Scheduler, WellFoundedInduction, TLAPS

\* A leaf that names no prover is SMT's, and Zenon's if SMT gives up.
USE SMTT(100), ZenonT(100)

\* A nonempty set of natural numbers has a least member.
LEMMA LeastNat ==
  ASSUME NEW T, T \subseteq Nat, T # {}
  PROVE  \E x \in T : \A y \in T : x <= y
PROOF
  <1> DEFINE R == OpToRel(<, Nat)
  <1>1. IsWellFoundedOn(R, Nat)
    BY NatLessThanWellFounded, ZenonT(100)
  <1>2. \A x, y \in Nat : <<y, x>> \in R <=> y < x
    BY DEF OpToRel
  <1> HIDE DEF R
  <1>3. PICK x \in T : \A y \in T : ~ (<<y, x>> \in R)
    BY <1>1, WFMin, ZenonT(100)
  <1>4. ASSUME NEW y \in T
        PROVE  x <= y
    <2>1. x \in Nat /\ y \in Nat
      OBVIOUS
    <2>2. ~ (y < x)
      BY <1>2, <1>3, <2>1, ZenonT(100)
    <2> QED
      BY <2>1, <2>2
  <1> QED
    BY <1>4

\* The list scan of getThreadWithMinRuntime ends somewhere: among the list
\* positions in I there is a first one with the least runtime.
LEMMA FirstLeast ==
  ASSUME NEW I, I \subseteq Nat, I # {}, NEW r \in [I -> Nat]
  PROVE  \E i \in I : \A j \in I : r[i] < r[j] \/ (r[i] = r[j] /\ i <= j)
PROOF
  <1> DEFINE V == {r[i] : i \in I}
  <1>1. V \subseteq Nat /\ V # {}
    BY ZenonT(100)
  <1>2. PICK m \in V : \A v \in V : m <= v
    BY <1>1, LeastNat, ZenonT(100)
  <1> DEFINE J == {i \in I : r[i] = m}
  <1>3. J \subseteq Nat /\ J # {}
    BY <1>2, ZenonT(100)
  <1>4. PICK k \in J : \A j \in J : k <= j
    BY <1>3, LeastNat, ZenonT(100)
  <1>5. \A j \in I : m <= r[j]
    BY <1>2
  <1>6. ASSUME NEW j \in I
        PROVE  r[k] < r[j] \/ (r[k] = r[j] /\ k <= j)
    <2>1. r[k] = m /\ m \in Nat /\ r[j] \in Nat /\ m <= r[j]
      BY <1>4, <1>1, <1>5
    <2>2. CASE r[j] = m
      BY <2>1, <2>2, <1>4
    <2>3. CASE r[j] # m
      BY <2>1, <2>3
    <2> QED
      BY <2>2, <2>3
  <1> QED
    BY <1>4, <1>6

\* getThreadWithMinRuntime returns a thread of the list with the least
\* runtime, when no runtime is -1UL.
LEMMA Chosen ==
  ASSUME ready \in Seq(Threads), Listed = Threads,
         NEW rt \in [Threads -> Nat], \A u \in Threads : rt[u] < MAX
  PROVE  /\ getThreadWithMinRuntime(rt) \in Threads
         /\ \A u \in Threads : rt[getThreadWithMinRuntime(rt)] <= rt[u]
PROOF
  <1> DEFINE seen == {i \in DOMAIN ready : rt[ready[i]] < MAX}
             Least(i) == \A j \in seen :
                           \/ rt[ready[i]] < rt[ready[j]]
                           \/ rt[ready[i]] = rt[ready[j]] /\ i <= j
             r == [i \in seen |-> rt[ready[i]]]
             i0 == CHOOSE i \in seen : Least(i)
  <1>1. DOMAIN ready \subseteq Nat /\ \A i \in DOMAIN ready : ready[i] \in Threads
    OBVIOUS
  <1>2. seen = DOMAIN ready
    BY <1>1, ZenonT(100)
  <1>3. seen \subseteq Nat /\ seen # {}
    BY <1>1, <1>2, ThreadsAssumption DEF Listed
  <1>4. r \in [seen -> Nat]
    BY <1>1, <1>2
  <1>5. \E i \in seen : Least(i)
    <2> HIDE DEF seen
    <2>1. \E i \in seen : \A j \in seen : r[i] < r[j] \/ (r[i] = r[j] /\ i <= j)
      <3> HIDE DEF r
      <3> QED
        BY <1>3, <1>4, FirstLeast, ZenonT(100)
    <2> QED
      BY <2>1
  <1>6. i0 \in seen /\ Least(i0)
    <2> HIDE DEF seen, Least
    <2> QED
      BY <1>5
  <1>7. getThreadWithMinRuntime(rt) = ready[i0]
    BY <1>3 DEF getThreadWithMinRuntime
  <1>8. ready[i0] \in Threads
    BY <1>1, <1>2, <1>6, ZenonT(100)
  <1>9. ASSUME NEW u \in Threads
        PROVE  rt[ready[i0]] <= rt[u]
    <2>1. PICK j \in DOMAIN ready : ready[j] = u
      BY DEF Listed
    <2>2. rt[ready[i0]] < rt[u] \/ rt[ready[i0]] = rt[u]
      BY <1>2, <1>6, <2>1, ZenonT(100)
    <2>3. rt[u] \in Nat /\ rt[ready[i0]] \in Nat
      BY <1>8
    <2> HIDE DEF i0
    <2> QED
      BY <2>2, <2>3
  <1> QED
    BY <1>7, <1>8, <1>9, ZenonT(100)

\* A sum of two values of the counter wraps at most once.
LEMMA WrapOnce ==
  \A x \in Nat : x < 2 * Modulus =>
    x % Modulus = IF x < Modulus THEN x ELSE x - Modulus
PROOF
  BY RuntimeAssumption, Z3T(100)

\* One tick keeps a runtime in range and even, so it never becomes -1UL.
LEMMA AdvanceEven ==
  ASSUME NEW r \in 0 .. MAX, r % 2 = 0
  PROVE  LET n == (r + tick_microseconds) % Modulus
         IN  /\ n \in 0 .. MAX /\ n % 2 = 0 /\ n < MAX
             /\ r + tick_microseconds < Modulus => n = r + tick_microseconds
PROOF
  <1> DEFINE x == r + tick_microseconds
             n == x % Modulus
  <1>1. x \in Nat /\ x < 2 * Modulus /\ x % 2 = 0
    BY RuntimeAssumption DEF MAX
  <1>2. n = IF x < Modulus THEN x ELSE x - Modulus
    <2> HIDE DEF x
    <2> QED
      BY <1>1, WrapOnce
  <1> HIDE DEF n
  <1>3. n \in Nat /\ n < Modulus /\ n % 2 = 0
    <2> HIDE DEF x
    <2> QED
      BY <1>1, <1>2, RuntimeAssumption
  <1>4. n \in 0 .. MAX /\ n < MAX
    BY <1>3, RuntimeAssumption DEF MAX
  <1>5. x < Modulus => n = x
    BY <1>2
  <1> QED
    BY <1>3, <1>4, <1>5 DEF n

-----------------------------------------------------------------------------
(* The inductive invariant.                                                *)

\* What holds before and after the first thread is selected, and that every
\* runtime is even.
BootInv ==
  /\ boot # "create" => Listed = Threads
  /\ boot = "done" => current \in Threads
  /\ boot # "done" => \A t \in Threads : state[t] = "NEW" /\ mode[t] = "fresh"
  /\ \A t \in Threads : runtime[t] % 2 = 0

IInv == TypeOK /\ OneRunning /\ ContextIsCurrents /\ MinRuntimeFound /\ BootInv

USE DEF States

\* A step that leaves the ready list alone leaves its members alone.
LEMMA ListedSame ==
  ASSUME ready' = ready PROVE Listed' = Listed
PROOF
  BY DEF Listed

\* The invariant holds at the start of _start.
LEMMA InitIInv == Init => IInv
PROOF
  <1> SUFFICES ASSUME Init PROVE IInv
    OBVIOUS
  <1>1. MAX \in Nat
    BY RuntimeAssumption DEF MAX
  <1>2. TypeOK
    BY <1>1 DEF Init, TypeOK
  <1>3. OneRunning /\ ContextIsCurrents /\ MinRuntimeFound /\ BootInv
    BY DEF Init, OneRunning, ContextIsCurrents, MinRuntimeFound, BootInv
  <1> QED
    BY <1>2, <1>3 DEF IInv

\* The steps of _start keep the invariant.
LEMMA BootIInv ==
  ASSUME IInv,
         (\E t \in Threads : threadCreate(t)) \/ threadStartTimer \/ bootSelect
  PROVE  IInv'
PROOF
  <1> USE DEF IInv, TypeOK, OneRunning, ContextIsCurrents, MinRuntimeFound, BootInv
  <1>1. MAX \in Nat
    BY RuntimeAssumption DEF MAX
  <1>2. ASSUME NEW t \in Threads, threadCreate(t)
        PROVE  IInv'
    <2>1. TypeOK'
      BY <1>1, <1>2 DEF threadCreate
    <2>2. (OneRunning /\ ContextIsCurrents /\ MinRuntimeFound)'
      BY <1>2 DEF threadCreate
    <2>3. BootInv'
      BY <1>2 DEF threadCreate
    <2> QED
      BY <2>1, <2>2, <2>3, ZenonT(100)
  <1>3. CASE threadStartTimer
    <2>1. Listed' = Listed /\ Listed = Threads
      <3>1. ready' = ready /\ Listed = Threads
        BY <1>3 DEF threadStartTimer
      <3> QED
        BY ONLY <3>1, ListedSame
    <2>2. TypeOK'
      BY <1>3 DEF threadStartTimer
    <2>3. (OneRunning /\ ContextIsCurrents /\ MinRuntimeFound)'
      BY <1>3 DEF threadStartTimer
    <2>4. BootInv'
      BY <1>3, <2>1 DEF threadStartTimer
    <2> QED
      BY <2>2, <2>3, <2>4
  <1>4. CASE bootSelect
    <2>1. ready[1] \in Threads
      BY <1>4, ThreadsAssumption DEF bootSelect, Listed
    <2>2. TypeOK'
      BY <1>4, <2>1 DEF bootSelect, threadSelect
    <2>3. Listed' = Listed
      <3>1. ready' = ready
        BY <1>4 DEF bootSelect
      <3> QED
        BY ONLY <3>1, ListedSame
    <2>4. OneRunning'
      BY <1>4, <2>1 DEF bootSelect, threadSelect
    <2>5. ContextIsCurrents' /\ MinRuntimeFound'
      BY <1>4, <2>1 DEF bootSelect, threadSelect
    <2>6. BootInv'
      BY <1>4, <2>1, <2>3 DEF bootSelect, threadSelect
    <2> QED
      BY <2>2, <2>4, <2>5, <2>6
  <1> QED
    BY <1>2, <1>3, <1>4, ZenonT(100)

\* Entering and leaving the kernel keeps the invariant.
LEMMA SyscallIInv ==
  ASSUME IInv, syscallEnter \/ syscallLeave
  PROVE  IInv'
PROOF
  <1> USE DEF IInv, TypeOK, OneRunning, ContextIsCurrents, MinRuntimeFound, BootInv,
              Up, syscallEnter, syscallLeave
  <1>1. Listed' = Listed
    <2>1. ready' = ready
      OBVIOUS
    <2> QED
      BY ONLY <2>1, ListedSame
  <1>2. TypeOK'
    BY ZenonT(100)
  <1>3. OneRunning'
    BY NoneAssumption
  <1>4. ContextIsCurrents' /\ MinRuntimeFound'
    OBVIOUS
  <1>5. BootInv'
    BY <1>1
  <1> QED
    BY <1>2, <1>3, <1>4, <1>5

\* After a tick the runtimes are in range and even, and the search finds a
\* thread with the least of them.
LEMMA NextFound ==
  ASSUME IInv, boot = "done", NEW rt, rt = [runtime EXCEPT ![current] = advance]
  PROVE  /\ rt \in [Threads -> 0 .. MAX]
         /\ \A t \in Threads : rt[t] % 2 = 0
         /\ getThreadWithMinRuntime(rt) \in Threads
         /\ \A u \in Threads : rt[getThreadWithMinRuntime(rt)] <= rt[u]
PROOF
  <1>1. current \in Threads /\ Listed = Threads
    BY DEF IInv, BootInv
  <1>2. /\ runtime \in [Threads -> 0 .. MAX]
        /\ ready \in Seq(Threads)
        /\ \A u \in Threads : runtime[u] % 2 = 0
    BY DEF IInv, TypeOK, BootInv
  <1>3. advance \in 0 .. MAX /\ advance % 2 = 0
    BY <1>1, <1>2, AdvanceEven DEF advance
  <1>4. /\ rt \in [Threads -> 0 .. MAX]
        /\ \A u \in Threads : rt[u] % 2 = 0
    BY <1>1, <1>2, <1>3
  <1>5. MAX \in Nat /\ MAX % 2 = 1
    BY RuntimeAssumption DEF MAX
  <1>6. rt \in [Threads -> Nat] /\ \A u \in Threads : rt[u] < MAX
    BY <1>4, <1>5
  <1> QED
    BY <1>1, <1>2, <1>4, <1>6, Chosen, ZenonT(100)

\* What a timer interrupt does when the invariant holds: the current thread is
\* charged one tick and the processor goes to a thread with the least runtime.
LEMMA TimerStep ==
  ASSUME IInv, irqThreadTimerHandler
  PROVE  /\ runtime' \in [Threads -> 0 .. MAX]
         /\ \A t \in Threads : runtime'[t] % 2 = 0
         /\ runtime' = [runtime EXCEPT ![current] = advance]
         /\ \E t \in Threads :
              /\ \A u \in Threads : runtime'[t] <= runtime'[u]
              /\ threadNext(t)
         /\ cpu' = "runs"
         /\ UNCHANGED <<boot, ready, mode>>
PROOF
  <1> DEFINE t == getThreadWithMinRuntime(runtime')
  <1>1. boot = "done" /\ cpu = "runs" /\ current \in Threads
    BY DEF IInv, irqThreadTimerHandler, Up, BootInv
  <1>2. mode \in [Threads -> {"fresh", "user", "kernel"}]
    BY DEF IInv, TypeOK
  <1>3. runtime' = [runtime EXCEPT ![current] = advance]
    BY DEF irqThreadTimerHandler
  <1>4. /\ runtime' \in [Threads -> 0 .. MAX]
        /\ \A u \in Threads : runtime'[u] % 2 = 0
        /\ t \in Threads
        /\ \A u \in Threads : runtime'[t] <= runtime'[u]
    BY <1>1, <1>3, NextFound, ZenonT(100)
  <1>5. IF mode[current] = "user"
        THEN kgs # None /\ gs = None
        ELSE gs # None /\ kgs = None
    BY <1>1, <1>2, NoneAssumption
       DEF IInv, ContextIsCurrents, irqThreadTimerHandler
  <1>6. t # None
    BY <1>4, NoneAssumption
  <1> HIDE DEF t
  <1>7. threadNext(t) /\ UNCHANGED cpu
    BY <1>5, <1>6 DEF irqThreadTimerHandler, t
  <1>8. UNCHANGED <<boot, ready, mode>>
    BY DEF irqThreadTimerHandler
  <1> QED
    BY <1>1, <1>3, <1>4, <1>7, <1>8

\* A timer interrupt keeps the invariant.
LEMMA TimerIInv ==
  ASSUME IInv, irqThreadTimerHandler
  PROVE  IInv'
PROOF
  <1>1. PICK t \in Threads : threadNext(t)
    BY TimerStep
  <1>2. /\ boot = "done" /\ boot' = "done" /\ ready' = ready /\ mode' = mode
        /\ cpu' = "runs"
        /\ runtime' \in [Threads -> 0 .. MAX]
        /\ \A u \in Threads : runtime'[u] % 2 = 0
    BY TimerStep DEF irqThreadTimerHandler, Up
  <1>3. /\ current \in Threads /\ Listed' = Threads
        /\ state \in [Threads -> States]
        /\ mode \in [Threads -> {"fresh", "user", "kernel"}]
        /\ ready \in Seq(Threads)
    <2>1. Listed' = Listed
      BY ONLY <1>2, ListedSame
    <2> QED
      BY <1>2, <2>1 DEF IInv, TypeOK, BootInv
  <1>4. /\ state' = [state EXCEPT ![current] = "READY", ![t] = "RUNNING"]
        /\ current' = t /\ ist' = t
    BY <1>1 DEF threadNext, threadSelect
  <1>5. IF mode[t] = "kernel" THEN gs' = t /\ kgs' = None ELSE gs' = None /\ kgs' = t
    BY <1>1, <1>2, <1>3 DEF threadNext, threadSelect, IInv, OneRunning
  <1>6. TypeOK'
    BY <1>2, <1>3, <1>4, <1>5 DEF TypeOK
  <1>7. OneRunning'
    BY <1>2, <1>3, <1>4, ZenonT(100) DEF IInv, OneRunning
  <1>8. ContextIsCurrents' /\ MinRuntimeFound'
    BY <1>2, <1>4, <1>5 DEF ContextIsCurrents, MinRuntimeFound
  <1>9. BootInv'
    BY <1>2, <1>3, <1>4 DEF BootInv
  <1> QED
    BY <1>6, <1>7, <1>8, <1>9 DEF IInv

\* Every step keeps the invariant.
LEMMA NextIInv == IInv /\ [Next]_vars => IInv'
PROOF
  <1> SUFFICES ASSUME IInv, [Next]_vars PROVE IInv'
    OBVIOUS
  <1>1. CASE UNCHANGED vars
    BY <1>1 DEF vars, IInv, TypeOK, OneRunning, ContextIsCurrents, MinRuntimeFound,
                BootInv, Listed
  <1>2. CASE (\E t \in Threads : threadCreate(t)) \/ threadStartTimer \/ bootSelect
    BY <1>2, BootIInv
  <1>3. CASE syscallEnter \/ syscallLeave
    BY <1>3, SyscallIInv
  <1>4. CASE irqThreadTimerHandler
    BY <1>4, TimerIInv
  <1> QED
    BY <1>1, <1>2, <1>3, <1>4 DEF Next

\* The inductive invariant holds in every reachable state.
THEOREM Invariance == Spec => []IInv
PROOF
  BY InitIInv, NextIInv, PTL DEF Spec

\* Every variable keeps its type, for any number of threads.
THEOREM TypeCorrect == Spec => []TypeOK
PROOF
  <1>1. IInv => TypeOK
    BY DEF IInv
  <1> QED
    BY <1>1, Invariance, PTL

\* Exactly the current thread is RUNNING, for any number of threads.
THEOREM RunsAlone == Spec => []OneRunning
PROOF
  <1>1. IInv => OneRunning
    BY DEF IInv
  <1> QED
    BY <1>1, Invariance, PTL

\* The GS bases and the TSS belong to the running thread, for any number of
\* threads.
THEOREM ContextFollows == Spec => []ContextIsCurrents
PROOF
  <1>1. IInv => ContextIsCurrents
    BY DEF IInv
  <1> QED
    BY <1>1, Invariance, PTL

\* threadNext never gets NULL from getThreadWithMinRuntime: the tick and the
\* range of the counter are even, so no runtime ever equals -1UL.
THEOREM NeverNull == Spec => []MinRuntimeFound
PROOF
  <1>1. IInv => MinRuntimeFound
    BY DEF IInv
  <1> QED
    BY <1>1, Invariance, PTL

-----------------------------------------------------------------------------
(* Fair shares, before any runtime wraps.                                  *)

\* The running thread has the least runtime.
LeastRuns == boot = "done" => \A u \in Threads : runtime[current] <= runtime[u]

\* Before the first selection nobody has run.
NoneRan == boot # "done" => \A t \in Threads : runtime[t] = 0

ShareInv == FairShare /\ LeastRuns /\ NoneRan

\* Every step keeps the shares fair when the horizon lies within the counter's
\* range.
LEMMA NextShare ==
  ASSUME Horizon <= Modulus, IInv, ShareInv, [Next]_vars
  PROVE  ShareInv'
PROOF
  <1> USE DEF ShareInv, FairShare, LeastRuns, NoneRan
  <1>1. /\ runtime \in [Threads -> 0 .. MAX] /\ MAX \in Nat
        /\ tick_microseconds \in Nat
    BY RuntimeAssumption DEF IInv, TypeOK, MAX
  <1>2. CASE UNCHANGED vars
    BY <1>2 DEF vars
  <1>3. ASSUME NEW t \in Threads, threadCreate(t)
        PROVE  ShareInv'
    <2>1. runtime' = runtime /\ boot' = boot /\ boot # "done"
      BY <1>1, <1>3 DEF threadCreate
    <2> QED
      BY <2>1
  <1>4. CASE threadStartTimer \/ syscallEnter \/ syscallLeave
    BY <1>4 DEF threadStartTimer, syscallEnter, syscallLeave, Up
  <1>5. CASE bootSelect
    <2>1. ready[1] \in Threads
      BY <1>5, ThreadsAssumption DEF bootSelect, Listed, IInv, TypeOK, BootInv
    <2> QED
      BY <1>1, <1>5, <2>1 DEF bootSelect, threadSelect
  <1>6. CASE irqThreadTimerHandler
    <2>1. /\ boot = "done" /\ boot' = "done" /\ current \in Threads
          /\ runtime[current] + tick_microseconds < Horizon
          /\ runtime[current] % 2 = 0
      BY <1>6, TimerStep DEF IInv, BootInv, irqThreadTimerHandler, Up
    <2>2. runtime[current] + tick_microseconds < Modulus
      BY <1>1, <2>1, HorizonAssumption, RuntimeAssumption
    <2>3. advance = runtime[current] + tick_microseconds
      BY <1>1, <2>1, <2>2, AdvanceEven DEF advance
    <2>4. runtime' = [runtime EXCEPT ![current] = runtime[current] + tick_microseconds]
      BY <1>6, <2>3, TimerStep
    <2>5. FairShare'
      BY <1>1, <2>1, <2>4
    <2>6. PICK t \in Threads : /\ \A u \in Threads : runtime'[t] <= runtime'[u]
                               /\ threadNext(t)
      BY <1>6, TimerStep
    <2>7. current' = t
      BY <2>6 DEF threadNext, threadSelect
    <2> QED
      BY <2>1, <2>5, <2>6, <2>7
  <1> QED
    BY <1>2, <1>3, <1>4, <1>5, <1>6 DEF Next

\* For any number of threads, no thread is ever more than one tick ahead of
\* another before a runtime wraps.
THEOREM SharesFair ==
  ASSUME Horizon <= Modulus
  PROVE  Spec => []FairShare
PROOF
  <1>1. Init => ShareInv
    BY RuntimeAssumption DEF Init, ShareInv, FairShare, LeastRuns, NoneRan
  <1>2. IInv /\ ShareInv /\ [Next]_vars => ShareInv'
    BY NextShare
  <1>3. ShareInv => FairShare
    BY DEF ShareInv
  <1> QED
    BY <1>1, <1>2, <1>3, Invariance, PTL DEF Spec
=============================================================================
