-------------------------- MODULE InputQueueProofs --------------------------
(***************************************************************************)
(* Proofs about InputQueue for every set of threads, every character set   *)
(* and every buffer size of at least two, and about the keyboard handler,  *)
(* which fills the queue, for every layout of the keys.                    *)
(***************************************************************************)
EXTENDS InputQueue, FiniteSets, FiniteSetTheorems, TLAPS

\* A leaf that names no prover is SMT's, and Zenon's if SMT gives up.
USE SMTT(100), ZenonT(100)

CONSTANTS Plain, Shifted, Beyond, Keys, MaxEvents

VARIABLES wire, shift_pressed, ctrl_pressed, alt_pressed, prev_scan, behind, put, events

Kbd == INSTANCE Keyboard

N == IQUEUE_BUFSIZE

\* Ring arithmetic: below twice the buffer size, % only wraps once.
LEMMA WrapOnce ==
  \A x \in Nat : x < 2 * N => x % N = IF x < N THEN x ELSE x - N
BY BufsizeAssumption DEF N

\* next moves to the following slot, and from the last one to the first.
LEMMA NextSlot ==
  ASSUME NEW p \in Slots
  PROVE  /\ next(p) \in Slots
         /\ next(p) = IF p + 1 = N THEN 0 ELSE p + 1
<1>1. p + 1 \in Nat /\ p + 1 < 2 * N
  BY BufsizeAssumption DEF Slots, N
<1>. QED
  BY <1>1, WrapOnce, BufsizeAssumption DEF next, Slots, N

-----------------------------------------------------------------------------
(* The inductive invariant.                                                *)

\* What the holder of the lock knows: after the loop the queue is not empty,
\* a loaded character is the oldest one, and a slot that was passed but not
\* loaded yet is the one just before tail.
HolderInv ==
  \A t \in Threads :
    /\ pc[t] \in {"read", "advance"} => head # tail
    /\ pc[t] = "advance" => c[t] = buf[tail]
    /\ pc[t] = "load" => next(idx[t]) = tail

IInv == TypeOK /\ MutualExclusion /\ HandlerNeverWaits /\ HolderInv

\* The invariant holds once initIQueue has run.
LEMMA InitIInv == Init => IInv
<1> SUFFICES ASSUME Init PROVE IInv
  OBVIOUS
<1>1. TypeOK
  BY BufsizeAssumption, NulAssumption
  DEF Init, initIQueue, TypeOK, Slots, Points, BUSY
<1>2. MutualExclusion /\ HandlerNeverWaits /\ HolderInv
  BY DEF Init, initIQueue, MutualExclusion, HandlerNeverWaits, HolderInv, Holds, BUSY
<1>. QED
  BY <1>1, <1>2 DEF IInv

\* The steps of a thread in getc preserve the invariant.
LEMMA ThreadStepIInv ==
  ASSUME NEW t \in Threads, IInv, sys_getc(t) \/ InGetc(t)
  PROVE  IInv'
<1> USE DEF IInv, Runs, Goto
<1>0. next(tail) \in Slots
  BY NextSlot DEF TypeOK
<1>1. TypeOK'
  BY <1>0 DEF TypeOK, Points, BUSY, InGetc, sys_getc, spinLock, iqueueGetcTest,
     iqueueGetcYield, cpuHLT, iqueueGetcLoad, iqueueGetcAdvance,
     iqueueGetcAdvanceFirst, iqueueGetcLoadLast, inputUnlock
<1>2. MutualExclusion'
  BY DEF TypeOK, MutualExclusion, Holds, BUSY, InGetc, sys_getc, spinLock,
     iqueueGetcTest, iqueueGetcYield, cpuHLT, iqueueGetcLoad,
     iqueueGetcAdvance, iqueueGetcAdvanceFirst, iqueueGetcLoadLast, inputUnlock
<1>3. HandlerNeverWaits'
  BY DEF TypeOK, HandlerNeverWaits, InGetc, sys_getc, spinLock,
     iqueueGetcTest, iqueueGetcYield, cpuHLT, iqueueGetcLoad,
     iqueueGetcAdvance, iqueueGetcAdvanceFirst, iqueueGetcLoadLast, inputUnlock
<1>4. HolderInv'
  <2> SUFFICES ASSUME NEW u \in Threads
               PROVE  /\ pc'[u] \in {"read", "advance"} => head' # tail'
                      /\ pc'[u] = "advance" => c'[u] = buf'[tail']
                      /\ pc'[u] = "load" => next(idx'[u]) = tail'
    BY DEF HolderInv, next
  <2>1. u # t => ~(Holds(t) /\ Holds(u))
    BY DEF MutualExclusion
  <2>2. CASE sys_getc(t) \/ spinLock(t) \/ cpuHLT(t) \/ iqueueGetcYield(t)
             \/ inputUnlock(t)
    BY <2>2 DEF TypeOK, HolderInv, sys_getc, spinLock, cpuHLT, iqueueGetcYield,
       inputUnlock
  <2>3. CASE iqueueGetcTest(t)
    BY <2>3 DEF TypeOK, HolderInv, iqueueGetcTest, iqueueEmpty
  <2>4. CASE iqueueGetcLoad(t)
    BY <2>4 DEF TypeOK, HolderInv, iqueueGetcLoad
  <2>5. CASE iqueueGetcAdvance(t)
    BY <2>5, <2>1 DEF TypeOK, HolderInv, Holds, iqueueGetcAdvance
  <2>6. CASE iqueueGetcAdvanceFirst(t)
    BY <2>6, <2>1 DEF TypeOK, HolderInv, Holds, iqueueGetcAdvanceFirst
  <2>7. CASE iqueueGetcLoadLast(t)
    BY <2>7, <2>1 DEF TypeOK, HolderInv, Holds, iqueueGetcLoadLast
  <2>. QED
    BY <2>2, <2>3, <2>4, <2>5, <2>6, <2>7 DEF InGetc
<1>. QED
  BY <1>1, <1>2, <1>3, <1>4

\* The keyboard interrupt preserves it: a key never lands in a slot that
\* holds an unread character or one that is about to be loaded.
LEMMA KeyboardIInv ==
  ASSUME NEW ch \in Chars, IInv, irqKeyboardHandler(ch)
  PROVE  IInv'
<1> USE DEF IInv, irqKeyboardHandler
<1>0. next(head) \in Slots
  BY NextSlot DEF TypeOK
<1>1. /\ pc' = Woken /\ UNCHANGED <<current, c, idx, ret, tail, lock, cpu>>
      /\ \/ UNCHANGED <<buf, head>>
         \/ /\ next(head) # tail
            /\ buf' = [buf EXCEPT ![head] = ch]
            /\ head' = next(head)
  BY DEF iqueuePutc, iqueueFull
<1>2. \A u \in Threads : /\ pc'[u] = pc[u] \/ (pc[u] = "halted" /\ pc'[u] = "lock")
                         /\ pc'[u] # "halted"
  BY <1>1 DEF Woken
<1>3. TypeOK'
  <2>1. pc' \in [Threads -> Points]
    BY <1>1 DEF Woken, TypeOK, Points
  <2>. QED
    BY <1>0, <1>1, <2>1 DEF TypeOK
<1>4. MutualExclusion'
  BY <1>1, <1>2 DEF MutualExclusion, Holds
<1>5. HandlerNeverWaits'
  BY <1>1, <1>2 DEF HandlerNeverWaits
<1>6. HolderInv'
  <2> SUFFICES ASSUME NEW u \in Threads
               PROVE  /\ pc'[u] \in {"read", "advance"} => head' # tail'
                      /\ pc'[u] = "advance" => c'[u] = buf'[tail']
                      /\ pc'[u] = "load" => next(idx'[u]) = tail'
    BY DEF HolderInv, next
  <2>1. pc'[u] \in {"read", "advance", "load"} => pc'[u] = pc[u]
    BY <1>2
  <2>. QED
    BY <1>1, <2>1 DEF HolderInv, TypeOK
<1>. QED
  BY <1>3, <1>4, <1>5, <1>6

\* The timer interrupt preserves it.
LEMMA TimerIInv ==
  ASSUME NEW t \in Threads, IInv, irqThreadTimerHandler(t)
  PROVE  IInv'
<1> USE DEF IInv, irqThreadTimerHandler
<1>1. \A u \in Threads : /\ pc'[u] = pc[u] \/ (pc[u] = "halted" /\ pc'[u] = "lock")
                         /\ pc'[u] # "halted"
  BY DEF Woken
<1>2. TypeOK'
  <2>1. pc' \in [Threads -> Points]
    BY DEF Woken, TypeOK, Points
  <2>. QED
    BY <2>1 DEF TypeOK
<1>3. MutualExclusion' /\ HandlerNeverWaits'
  BY <1>1 DEF MutualExclusion, HandlerNeverWaits, Holds
<1>4. HolderInv'
  BY <1>1 DEF HolderInv, next
<1>. QED
  BY <1>2, <1>3, <1>4

\* Every step of the system preserves the invariant.
LEMMA NextIInv == IInv /\ [Next]_vars => IInv'
<1> SUFFICES ASSUME IInv, [Next]_vars PROVE IInv'
  OBVIOUS
<1>1. CASE UNCHANGED vars
  BY <1>1 DEF vars, IInv, TypeOK, MutualExclusion, HandlerNeverWaits, HolderInv,
     Holds, next
<1>. QED
  BY <1>1, ThreadStepIInv, KeyboardIInv, TimerIInv DEF Next

\* The inductive invariant holds throughout.
THEOREM Invariance == Spec => []IInv
BY InitIInv, NextIInv, PTL DEF Spec

\* head and tail never leave the buffer, and every other variable keeps its
\* type, for every buffer size.
THEOREM TypeCorrect == Spec => []TypeOK
<1>1. IInv => TypeOK
  BY DEF IInv
<1>. QED
  BY <1>1, Invariance, PTL

\* spinLock and spinUnlock keep readers out of each other's critical section.
THEOREM ReadersExclude == Spec => []MutualExclusion
<1>1. IInv => MutualExclusion
  BY DEF IInv
<1>. QED
  BY <1>1, Invariance, PTL

\* The keyboard interrupt never waits for room.
THEOREM KeyboardNeverWaits == Spec => []HandlerNeverWaits
<1>1. IInv => HandlerNeverWaits
  BY DEF IInv
<1>. QED
  BY <1>1, Invariance, PTL

-----------------------------------------------------------------------------
(* The ring buffer as a sequence.                                          *)

\* The slot that holds the i-th queued character.
SlotOf(t, i) == (t + i - 1) % N

\* It is a slot, and the wrap is a single subtraction.
LEMMA SlotValue ==
  ASSUME NEW t \in Slots, NEW i \in 1 .. N
  PROVE  /\ SlotOf(t, i) \in Slots
         /\ SlotOf(t, i) = IF t + i - 1 < N THEN t + i - 1 ELSE t + i - 1 - N
<1>1. t + i - 1 \in Nat /\ t + i - 1 < 2 * N
  BY BufsizeAssumption DEF Slots, N
<1>. QED
  BY <1>1, WrapOnce, BufsizeAssumption DEF SlotOf, Slots, N

\* The contents are a sequence of at most N - 1 characters.
LEMMA Shape ==
  \A b \in [Slots -> Chars], h \in Slots, t \in Slots :
         /\ CountOf(h, t) \in 0 .. N - 1
         /\ CountOf(h, t) = 0 <=> h = t
         /\ ContentsOf(b, h, t) \in Seq(Chars)
         /\ Len(ContentsOf(b, h, t)) = CountOf(h, t)
         /\ \A i \in 1 .. CountOf(h, t) : ContentsOf(b, h, t)[i] = b[SlotOf(t, i)]
<1> TAKE b \in [Slots -> Chars], h \in Slots, t \in Slots
<1>1. CountOf(h, t) \in 0 .. N - 1 /\ (CountOf(h, t) = 0 <=> h = t)
  BY BufsizeAssumption DEF CountOf, Slots, N
<1>2. \A i \in 1 .. CountOf(h, t) : SlotOf(t, i) \in Slots
  BY <1>1, SlotValue, BufsizeAssumption DEF N
<1>3. ContentsOf(b, h, t) = [i \in 1 .. CountOf(h, t) |-> b[SlotOf(t, i)]]
  BY DEF ContentsOf, SlotOf, N
<1>. QED
  BY <1>1, <1>2, <1>3, BufsizeAssumption DEF N

\* Storing at head of a queue that is not full appends.
LEMMA PutShape ==
  ASSUME NEW b \in [Slots -> Chars], NEW h \in Slots, NEW t \in Slots,
         NEW ch \in Chars, next(h) # t
  PROVE  /\ CountOf(h, t) < N - 1
         /\ ContentsOf([b EXCEPT ![h] = ch], next(h), t) = Append(ContentsOf(b, h, t), ch)
<1> DEFINE b2 == [b EXCEPT ![h] = ch]
           n == CountOf(h, t)
<1>0. N \in Nat /\ N > 1
  BY BufsizeAssumption DEF N
<1>1. next(h) \in Slots /\ next(h) = (IF h + 1 = N THEN 0 ELSE h + 1)
  BY NextSlot
<1>2. n \in 0 .. N - 1 /\ n < N - 1 /\ CountOf(next(h), t) = n + 1
  BY <1>0, <1>1 DEF CountOf, Slots, N
<1>3. b2 \in [Slots -> Chars] /\ b2[h] = ch /\ \A j \in Slots : j # h => b2[j] = b[j]
  OBVIOUS
<1> HIDE DEF b2
<1>4. SlotOf(t, n + 1) = h
  BY <1>0, <1>2, SlotValue DEF CountOf, Slots, N
<1>5. \A i \in 1 .. n : SlotOf(t, i) # h /\ SlotOf(t, i) \in Slots
  <2> SUFFICES ASSUME NEW i \in 1 .. n PROVE SlotOf(t, i) # h /\ SlotOf(t, i) \in Slots
    OBVIOUS
  <2>1. i \in 1 .. N
    BY <1>0, <1>2
  <2>2. /\ SlotOf(t, i) \in Slots
        /\ SlotOf(t, i) = IF t + i - 1 < N THEN t + i - 1 ELSE t + i - 1 - N
    BY <2>1, SlotValue
  <2>. QED
    BY <1>0, <1>2, <2>2 DEF CountOf, Slots, N
<1>6. /\ ContentsOf(b2, next(h), t) \in Seq(Chars)
      /\ Len(ContentsOf(b2, next(h), t)) = n + 1
      /\ \A i \in 1 .. n + 1 : ContentsOf(b2, next(h), t)[i] = b2[SlotOf(t, i)]
  <2> DEFINE h2 == next(h)
  <2>1. h2 \in Slots /\ CountOf(h2, t) = n + 1
    BY <1>1, <1>2
  <2> HIDE DEF h2, n
  <2>2. /\ ContentsOf(b2, h2, t) \in Seq(Chars)
        /\ Len(ContentsOf(b2, h2, t)) = CountOf(h2, t)
        /\ \A i \in 1 .. CountOf(h2, t) : ContentsOf(b2, h2, t)[i] = b2[SlotOf(t, i)]
    <3>1. b2 \in [Slots -> Chars] /\ h2 \in Slots
      BY <1>3, <2>1
    <3>. QED
      BY <3>1, Shape
  <2>. QED
    BY <2>1, <2>2 DEF h2
<1>7. /\ ContentsOf(b, h, t) \in Seq(Chars)
      /\ Len(ContentsOf(b, h, t)) = n
      /\ \A i \in 1 .. n : ContentsOf(b, h, t)[i] = b[SlotOf(t, i)]
  BY Shape
<1> HIDE DEF n
<1>8. \A i \in 1 .. n + 1 :
        ContentsOf(b2, next(h), t)[i] = Append(ContentsOf(b, h, t), ch)[i]
  <2> SUFFICES ASSUME NEW i \in 1 .. n + 1
               PROVE ContentsOf(b2, next(h), t)[i] = Append(ContentsOf(b, h, t), ch)[i]
    BY ZenonT(100)
  <2>1. CASE i = n + 1
    BY <2>1, <1>2, <1>3, <1>4, <1>6, <1>7
  <2>2. CASE i \in 1 .. n
    BY <2>2, <1>2, <1>3, <1>5, <1>6, <1>7
  <2>. QED
    <3>1. n \in Nat
      BY <1>2
    <3>2. i = n + 1 \/ i \in 1 .. n
      BY <3>1
    <3>. QED
      BY <3>2, <2>1, <2>2, ZenonT(100)
<1>. QED
  <2> DEFINE s == ContentsOf(b2, next(h), t)
             r == Append(ContentsOf(b, h, t), ch)
  <2>1. s \in Seq(Chars) /\ r \in Seq(Chars) /\ Len(s) = n + 1 /\ Len(r) = n + 1
    BY <1>6, <1>7
  <2>2. \A i \in 1 .. n + 1 : s[i] = r[i]
    BY <1>8, ZenonT(100)
  <2> HIDE DEF s, r
  <2>3. s = r
    BY <2>1, <2>2
  <2>. QED
    BY <2>3, <1>2, ZenonT(100) DEF s, r, n, b2

\* Advancing tail of a queue that is not empty removes the front character.
LEMMA GetShape ==
  ASSUME NEW b \in [Slots -> Chars], NEW h \in Slots, NEW t \in Slots, h # t
  PROVE  /\ ContentsOf(b, h, t) # << >>
         /\ Head(ContentsOf(b, h, t)) = b[t]
         /\ ContentsOf(b, h, next(t)) = Tail(ContentsOf(b, h, t))
<1> DEFINE n == CountOf(h, t)
           t2 == next(t)
           s == ContentsOf(b, h, t)
           r == ContentsOf(b, h, t2)
<1>0. N \in Nat /\ N > 1
  BY BufsizeAssumption DEF N
<1>1. t2 \in Slots /\ t2 = (IF t + 1 = N THEN 0 ELSE t + 1)
  BY NextSlot
<1>2. n \in 1 .. N - 1 /\ CountOf(h, t2) = n - 1
  BY <1>0, <1>1 DEF CountOf, Slots, N
<1>3. SlotOf(t, 1) = t
  BY <1>0, SlotValue DEF Slots, N
<1>4. \A i \in 1 .. n - 1 : SlotOf(t2, i) = SlotOf(t, i + 1)
  <2> SUFFICES ASSUME NEW i \in 1 .. n - 1 PROVE SlotOf(t2, i) = SlotOf(t, i + 1)
    OBVIOUS
  <2>1. i \in 1 .. N /\ i + 1 \in 1 .. N
    BY <1>0, <1>2
  <2>2. /\ SlotOf(t2, i) = (IF t2 + i - 1 < N THEN t2 + i - 1 ELSE t2 + i - 1 - N)
        /\ SlotOf(t, i + 1) = (IF t + (i + 1) - 1 < N THEN t + (i + 1) - 1
                               ELSE t + (i + 1) - 1 - N)
    BY <1>1, <2>1, SlotValue
  <2>. QED
    BY <1>0, <1>1, <2>1, <2>2 DEF Slots, N
<1> HIDE DEF n, t2
<1>5. /\ s \in Seq(Chars) /\ Len(s) = n
      /\ \A i \in 1 .. n : s[i] = b[SlotOf(t, i)]
  BY Shape DEF n
<1>6. /\ r \in Seq(Chars) /\ Len(r) = n - 1
      /\ \A i \in 1 .. n - 1 : r[i] = b[SlotOf(t2, i)]
  <2>1. t2 \in Slots
    BY <1>1
  <2>2. /\ r \in Seq(Chars) /\ Len(r) = CountOf(h, t2)
        /\ \A i \in 1 .. CountOf(h, t2) : r[i] = b[SlotOf(t2, i)]
    BY <2>1, Shape
  <2>. QED
    BY <1>2, <2>2
<1> HIDE DEF s, r
<1>7. s # << >> /\ Head(s) = b[t]
  BY <1>2, <1>3, <1>5
<1>8. r = Tail(s)
  <2>1. /\ Tail(s) \in Seq(Chars) /\ Len(Tail(s)) = n - 1
        /\ \A i \in 1 .. n - 1 : Tail(s)[i] = s[i + 1]
    BY <1>2, <1>5
  <2>2. \A i \in 1 .. n - 1 : r[i] = Tail(s)[i]
    BY <1>2, <1>4, <1>5, <1>6, <2>1
  <2>. QED
    BY <1>6, <2>1, <2>2
<1>. QED
  BY <1>7, <1>8 DEF s, r, t2

-----------------------------------------------------------------------------
(* Refinement.                                                             *)

\* The empty buffer is the empty queue.
LEMMA InitRefines == Init => Abs!Init
<1> SUFFICES ASSUME Init PROVE Abs!Init
  OBVIOUS
<1>1. IInv
  BY InitIInv
<1>2. Contents = << >>
  BY <1>1, Shape DEF Init, initIQueue, Contents, IInv, TypeOK
<1>3. Taken = [r \in Threads |-> Nul]
  BY DEF Init, Taken
<1>. QED
  BY <1>2, <1>3 DEF Abs!Init

\* The step that advances tail is the reader's Get; every other step of a
\* thread leaves the abstract queue alone.
LEMMA ThreadStepRefines ==
  ASSUME NEW t \in Threads, IInv, sys_getc(t) \/ InGetc(t)
  PROVE  Abs!Get(t) \/ UNCHANGED <<Contents, Taken>>
<1> USE DEF IInv, Runs, Goto
<1>1. CASE sys_getc(t) \/ spinLock(t) \/ iqueueGetcTest(t) \/ iqueueGetcYield(t)
           \/ cpuHLT(t) \/ iqueueGetcLoad(t) \/ inputUnlock(t)
  BY <1>1 DEF TypeOK, Contents, Taken, sys_getc, spinLock, iqueueGetcTest,
     iqueueGetcYield, cpuHLT, iqueueGetcLoad, inputUnlock
<1>2. CASE iqueueGetcLoadLast(t)
  BY <1>2 DEF TypeOK, Contents, Taken, iqueueGetcLoadLast
<1>3. CASE iqueueGetcAdvance(t)
  <2>1. head # tail /\ c[t] = buf[tail]
    BY <1>3 DEF HolderInv, iqueueGetcAdvance
  <2>2. /\ Contents # << >> /\ Head(Contents) = buf[tail]
        /\ Contents' = Tail(Contents)
    BY <1>3, <2>1, GetShape DEF TypeOK, Contents, iqueueGetcAdvance
  <2>3. Taken' = [Taken EXCEPT ![t] = buf[tail]]
    BY <1>3, <2>1, ZenonT(100) DEF TypeOK, Taken, iqueueGetcAdvance
  <2>. QED
    BY <2>2, <2>3, ZenonT(100) DEF Abs!Get
<1>4. CASE iqueueGetcAdvanceFirst(t)
  <2>1. head # tail
    BY <1>4 DEF HolderInv, iqueueGetcAdvanceFirst
  <2>2. /\ Contents # << >> /\ Head(Contents) = buf[tail]
        /\ Contents' = Tail(Contents)
    BY <1>4, <2>1, GetShape DEF TypeOK, Contents, iqueueGetcAdvanceFirst
  <2>3. Taken' = [Taken EXCEPT ![t] = buf[tail]]
    BY <1>4, ZenonT(100) DEF TypeOK, Taken, iqueueGetcAdvanceFirst
  <2>. QED
    BY <2>2, <2>3, ZenonT(100) DEF Abs!Get
<1>. QED
  BY <1>1, <1>2, <1>3, <1>4 DEF InGetc

\* A key is a Put, or is dropped.
LEMMA KeyboardRefines ==
  ASSUME NEW ch \in Chars, IInv, irqKeyboardHandler(ch)
  PROVE  Abs!Put(ch) \/ UNCHANGED <<Contents, Taken>>
<1> USE DEF IInv, irqKeyboardHandler
<1>1. \A u \in Threads : (pc'[u] = "load") <=> (pc[u] = "load")
  BY DEF Woken
<1>2. CASE iqueueFull
  BY <1>1, <1>2 DEF Contents, Taken
<1>3. CASE ~iqueueFull
  <2>1. /\ next(head) # tail /\ buf' = [buf EXCEPT ![head] = ch]
        /\ head' = next(head) /\ tail' = tail
    BY <1>3 DEF iqueuePutc, iqueueFull
  <2>2. /\ CountOf(head, tail) < N - 1 /\ Len(Contents) = CountOf(head, tail)
        /\ Contents' = Append(Contents, ch)
    <3>1. buf \in [Slots -> Chars] /\ head \in Slots /\ tail \in Slots
      BY DEF TypeOK
    <3>2. Len(Contents) = CountOf(head, tail)
      BY <3>1, Shape DEF Contents
    <3>3. /\ CountOf(head, tail) < N - 1
          /\ ContentsOf([buf EXCEPT ![head] = ch], next(head), tail)
             = Append(ContentsOf(buf, head, tail), ch)
      BY <2>1, <3>1, PutShape, ZenonT(100)
    <3>. QED
      BY <2>1, <3>2, <3>3, ZenonT(100) DEF Contents
  <2>3. Taken' = Taken
    <3>1. \A u \in Threads : pc[u] = "load" => idx[u] # head
      BY <2>1 DEF HolderInv
    <3>. QED
      BY <1>1, <2>1, <3>1 DEF TypeOK, Taken
  <2>. QED
    BY <2>2, <2>3 DEF Abs!Put, N
<1>. QED
  BY <1>2, <1>3

\* Every step of the detailed specification is a step of the FIFO, or leaves
\* it unchanged.
LEMMA StepRefines == IInv /\ [Next]_vars => [Abs!Next]_(Abs!vars)
<1> SUFFICES ASSUME IInv, [Next]_vars
             PROVE  Abs!Next \/ UNCHANGED <<Contents, Taken>>
  BY DEF Abs!vars
<1>1. CASE UNCHANGED vars
  BY <1>1 DEF vars, Contents, Taken
<1>2. ASSUME NEW t \in Threads, irqThreadTimerHandler(t)
      PROVE  UNCHANGED <<Contents, Taken>>
  BY <1>2 DEF irqThreadTimerHandler, Contents, Taken, Woken
<1>. QED
  BY <1>1, <1>2, ThreadStepRefines, KeyboardRefines DEF Next, Abs!Next

\* The ring buffer, written by an interrupt that takes no lock and read by
\* preemptible threads, implements the bounded FIFO queue.
THEOREM RingImplementsFifo == Spec => ImplementsFifo
BY InitRefines, StepRefines, Invariance, PTL DEF Spec, ImplementsFifo, Abs!Spec

-----------------------------------------------------------------------------
(* The keyboard.                                                           *)

Out == {Plain[code] : code \in DOMAIN Plain} \union {Shifted[code] : code \in DOMAIN Shifted}
       \union (UNION {{b[1][code] : code \in 1 .. 127} : b \in Beyond})
       \union (UNION {{b[2][code] : code \in 1 .. 127} : b \in Beyond})
       \union {"BS", "LF", "clear", "nul", "up", "left", "right", "down"}

KbdType ==
  /\ events \in Seq((DOMAIN Keys) \X BOOLEAN)
  /\ put \in Seq(Out)
  /\ behind \in Beyond
  /\ shift_pressed \in BOOLEAN /\ ctrl_pressed \in BOOLEAN

\* The last byte that an event sends.
Byte(e) == IF e[2] THEN Kbd!Code(e[1]) ELSE Kbd!Code(e[1]) + 128

\* The presses to arrive among the first m events.
TypedTo(m) == {n \in Kbd!Typed : n <= m}

\* The flags and the characters put are those after m events.
FlagsAt(m) ==
  /\ shift_pressed <=> Kbd!On("shift", m + 1)
  /\ ctrl_pressed <=> Kbd!On("control", m + 1)

\* The same after the prefix of the next one.
PrefixedAt(m) ==
  /\ shift_pressed <=> Kbd!On("shift", m + 1) /\ Kbd!PrefixSign # "shift"
  /\ ctrl_pressed <=> Kbd!On("control", m + 1) /\ Kbd!PrefixSign # "control"
PutAt(m) ==
  /\ Len(put) = Cardinality(TypedTo(m))
  /\ \A n \in TypedTo(m) : put[Cardinality(TypedTo(n))] = Kbd!Meaning(n)

\* Between the bytes of an event the characters are those before it, and prev_scan
\* and the flags tell whether its prefix has come.
KbdInv ==
  /\ KbdType
  /\ \/ wire = <<>> /\ FlagsAt(Len(events)) /\ PutAt(Len(events)) /\ prev_scan # 224
     \/ /\ Len(events) > 0 /\ PutAt(Len(events) - 1)
        /\ LET e == events[Len(events)]
           IN  \/ wire = <<Byte(e)>> /\ prev_scan # 224 /\ ~Kbd!Prefixed(e[1]) /\ FlagsAt(Len(events) - 1)
               \/ wire = <<Byte(e)>> /\ prev_scan = 224 /\ Kbd!Prefixed(e[1]) /\ PrefixedAt(Len(events) - 1)
               \/ wire = <<224, Byte(e)>> /\ Kbd!Prefixed(e[1]) /\ FlagsAt(Len(events) - 1)

\* The codes of a key.
LEMMA KeyCodes ==
  ASSUME Kbd!Layout, NEW key \in DOMAIN Keys
  PROVE  /\ Kbd!Code(key) \in 1 .. 127 \ {96}
         /\ \/ Keys[key] = <<Kbd!Code(key)>> /\ ~Kbd!Prefixed(key)
            \/ /\ Keys[key] = <<224, Kbd!Code(key)>> /\ Kbd!Prefixed(key)
               /\ IF Kbd!Code(key) \in DOMAIN Kbd!Arrows THEN key = Kbd!Arrows[Kbd!Code(key)]
                  ELSE key \notin {"up", "left", "right", "down"}
PROOF
  <1>1. PICK code \in 1 .. 127 \ {96} :
          \/ Keys[key] = <<code>>
          \/ /\ Keys[key] = <<224, code>>
             /\ IF code \in DOMAIN Kbd!Arrows THEN key = Kbd!Arrows[code]
                ELSE key \notin {"up", "left", "right", "down"}
    <2>1. Kbd!Prefix = 224 /\ Kbd!Prefix % Kbd!Release = 96
      BY DEF Kbd!Prefix, Kbd!Release
    <2> QED
      BY <2>1 DEF Kbd!Layout
  <1>2. CASE Keys[key] = <<code>>
    <2>1. Len(Keys[key]) = 1 /\ Keys[key][1] = code
      BY <1>2
    <2>2. Kbd!Code(key) = code /\ ~Kbd!Prefixed(key)
      BY <2>1 DEF Kbd!Code, Kbd!Prefixed
    <2> QED
      BY <1>1, <1>2, <2>2
  <1>3. CASE Keys[key] = <<224, code>>
    <2>1. Len(Keys[key]) = 2 /\ Keys[key][2] = code /\ Keys[key] # <<code>>
      BY <1>3
    <2>2. Kbd!Code(key) = code /\ Kbd!Prefixed(key)
      BY <2>1 DEF Kbd!Code, Kbd!Prefixed
    <2> QED
      BY <1>1, <1>3, <2>1, <2>2
  <1> QED
    BY <1>1, <1>2, <1>3

\* The tables and what lies behind them stay as they are.
LEMMA SignsKept ==
  ASSUME behind' = behind
  PROVE  /\ \A k : Kbd!Sign(k)' = Kbd!Sign(k) /\ Kbd!Prefixed(k)' = Kbd!Prefixed(k)
         /\ \A code : Kbd!scan_code_1_shift(code)' = Kbd!scan_code_1_shift(code)
         /\ Kbd!PrefixSign' = Kbd!PrefixSign
PROOF
  BY ZenonT(100) DEF Kbd!Sign, Kbd!PrefixSign, Kbd!Prefixed, Kbd!scan_code_1, Kbd!scan_code_1_shift, Kbd!Code

\* What a later event leaves as it is.
LEMMA HistoryKept ==
  ASSUME KbdType, NEW e, events' = Append(events, e), behind' = behind
  PROVE  /\ \A n \in 1 .. Len(events) + 1 : \A name : Kbd!On(name, n)' <=> Kbd!On(name, n)
         /\ \A n \in 1 .. Len(events) : Kbd!Meaning(n)' = Kbd!Meaning(n)
         /\ \A m \in 0 .. Len(events) : TypedTo(m)' = TypedTo(m)
PROOF
  <1>0. /\ \A k : Kbd!Sign(k)' = Kbd!Sign(k) /\ Kbd!Prefixed(k)' = Kbd!Prefixed(k)
        /\ \A code : Kbd!scan_code_1_shift(code)' = Kbd!scan_code_1_shift(code)
        /\ Kbd!PrefixSign' = Kbd!PrefixSign
    BY SignsKept
  <1>1. /\ Len(events) \in Nat /\ DOMAIN events = 1 .. Len(events)
        /\ \A j \in 1 .. Len(events) : events'[j] = events[j]
        /\ DOMAIN events' = 1 .. Len(events) + 1
    BY DEF KbdType
  <1>2. ASSUME NEW n \in 1 .. Len(events) + 1, NEW name
        PROVE  Kbd!On(name, n)' <=> Kbd!On(name, n)
    <2>1. \A j \in 1 .. n - 1 : j \in 1 .. Len(events)
      BY <1>1
    <2>2. Kbd!Of(name, n)' = Kbd!Of(name, n)
      BY <1>0, <1>1, <2>1, ZenonT(100) DEF Kbd!Of
    <2>3. \A j \in Kbd!Of(name, n) : events'[j] = events[j]
      BY <1>1, <2>1 DEF Kbd!Of
    <2> QED
      BY <1>0, <2>2, <2>3, ZenonT(100) DEF Kbd!On
  <1>3. ASSUME NEW n \in 1 .. Len(events)
        PROVE  Kbd!Meaning(n)' = Kbd!Meaning(n)
    <2>1. events'[n] = events[n] /\ n \in 1 .. Len(events) + 1
      BY <1>1
    <2>2. /\ Kbd!On("control", n)' <=> Kbd!On("control", n)
          /\ Kbd!On("shift", n)' <=> Kbd!On("shift", n)
      BY <1>2, <2>1
    <2> QED
      BY <1>0, <2>1, <2>2, ZenonT(100) DEF Kbd!Meaning, Kbd!Code
  <1>4. ASSUME NEW m \in 0 .. Len(events)
        PROVE  TypedTo(m)' = TypedTo(m)
    <2>1. \A n \in 1 .. Len(events) + 1 : n <= m => n \in 1 .. Len(events)
      BY <1>1
    <2> DEFINE Is(e0) == e0[2] /\ Kbd!Sign(e0[1]) \notin Kbd!Modifiers
    <2>2. /\ TypedTo(m) = {n \in 1 .. Len(events) : Is(events[n]) /\ n <= m}
          /\ TypedTo(m)' = {n \in 1 .. Len(events) + 1 : Is(events'[n]) /\ n <= m}
      BY <1>0, <1>1, ZenonT(100) DEF TypedTo, Kbd!Typed
    <2> HIDE DEF Is
    <2>3. \A n \in 1 .. Len(events) : n \in 1 .. Len(events) + 1 /\ events'[n] = events[n]
      BY <1>1
    <2> QED
      BY <2>1, <2>2, <2>3
  <1> QED
    BY <1>2, <1>3, <1>4

\* The presses among the first m events are finitely many, and one more with the
\* press of event m + 1.
LEMMA TypedCount ==
  ASSUME KbdType, NEW m \in 0 .. Len(events)
  PROVE  /\ IsFiniteSet(TypedTo(m)) /\ Cardinality(TypedTo(m)) \in Nat
         /\ \A n \in TypedTo(m) : Cardinality(TypedTo(n)) \in 1 .. Cardinality(TypedTo(m))
         /\ m + 1 \in Kbd!Typed => TypedTo(m + 1) = TypedTo(m) \union {m + 1}
                                   /\ Cardinality(TypedTo(m + 1)) = Cardinality(TypedTo(m)) + 1
         /\ m + 1 \notin Kbd!Typed => TypedTo(m + 1) = TypedTo(m)
PROOF
  <1>1. Len(events) \in Nat /\ Kbd!Typed \subseteq 1 .. Len(events)
    BY DEF KbdType, Kbd!Typed
  <1>2. \A T \in SUBSET Kbd!Typed : IsFiniteSet(T) /\ Cardinality(T) \in Nat
    <2>1. IsFiniteSet(1 .. Len(events))
      BY <1>1, FS_Interval
    <2> SUFFICES ASSUME NEW T \in SUBSET Kbd!Typed PROVE IsFiniteSet(T) /\ Cardinality(T) \in Nat
      OBVIOUS
    <2>2. IsFiniteSet(T)
      BY <1>1, <2>1, FS_Subset, ZenonT(100)
    <2> QED
      BY <2>2, FS_CardinalityType
  <1>3. IsFiniteSet(TypedTo(m)) /\ Cardinality(TypedTo(m)) \in Nat
    BY <1>2 DEF TypedTo
  <1>4. ASSUME NEW n \in TypedTo(m)
        PROVE  Cardinality(TypedTo(n)) \in 1 .. Cardinality(TypedTo(m))
    <2>1. n \in Nat /\ n <= m /\ n \in TypedTo(n) /\ m \in Nat
      BY <1>1 DEF TypedTo
    <2>2. \A j \in Kbd!Typed : j <= n => j <= m
      BY <1>1, <2>1
    <2>3. TypedTo(n) \in SUBSET TypedTo(m) /\ TypedTo(n) \in SUBSET Kbd!Typed
      BY <2>2 DEF TypedTo
    <2>4. Cardinality(TypedTo(n)) <= Cardinality(TypedTo(m))
      BY <1>3, <2>3, FS_Subset
    <2>5. IsFiniteSet(TypedTo(n)) /\ Cardinality(TypedTo(n)) \in Nat
      BY <1>2, <2>3
    <2>6. Cardinality(TypedTo(n)) # 0
      BY <2>1, <2>5, FS_EmptySet
    <2> QED
      BY <1>3, <2>4, <2>5, <2>6
  <1>5. \A n \in Kbd!Typed : n <= m + 1 <=> n <= m \/ n = m + 1
    BY <1>1
  <1>6. m + 1 \notin TypedTo(m)
    BY DEF TypedTo
  <1>7. m + 1 \in Kbd!Typed => TypedTo(m + 1) = TypedTo(m) \union {m + 1}
    BY <1>5 DEF TypedTo
  <1>8. m + 1 \notin Kbd!Typed => TypedTo(m + 1) = TypedTo(m)
    BY <1>5 DEF TypedTo
  <1>9. Cardinality(TypedTo(m) \union {m + 1}) = Cardinality(TypedTo(m)) + 1
    BY <1>3, <1>6, FS_AddElement
  <1> QED
    BY <1>3, <1>4, <1>7, <1>8, <1>9, ZenonT(100)

\* A modifier after the last event.
LEMMA LastEvent ==
  ASSUME KbdType, Len(events) > 0, NEW name
  PROVE  LET e == events[Len(events)]
             reset == Kbd!Prefixed(e[1]) /\ Kbd!PrefixSign = name
         IN  Kbd!On(name, Len(events) + 1) <=>
               IF Kbd!Sign(e[1]) = name THEN e[2] ELSE Kbd!On(name, Len(events)) /\ ~reset
PROOF
  <1> DEFINE n == Len(events)
             e == events[n]
             mine == Kbd!Sign(e[1]) = name
             reset == Kbd!Prefixed(e[1]) /\ Kbd!PrefixSign = name
  <1>1. n \in Nat /\ n > 0 /\ e[2] \in BOOLEAN /\ n \in 1 .. n
    BY DEF KbdType
  <1>2. \A j : j \in 1 .. (n + 1) - 1 <=> j \in 1 .. n - 1 \/ j = n
    BY <1>1
  <1>3. n \notin 1 .. n - 1 /\ \A j \in 1 .. n - 1 : j <= n
    BY <1>1
  <1>4. CASE mine \/ reset
    <2>1. Kbd!Of(name, n + 1) = Kbd!Of(name, n) \union {n}
      <3> HIDE DEF n
      <3> QED
        BY <1>2, <1>4 DEF Kbd!Of, e
    <2>2. \A j \in Kbd!Of(name, n + 1) : j <= n
      BY <1>1, <1>3, <2>1 DEF Kbd!Of
    <2>3. \A j \in Kbd!Of(name, n) : ~ (n <= j)
      BY <1>1 DEF Kbd!Of
    <2>4. Kbd!On(name, n + 1) <=> e[2] /\ mine
      <3> HIDE DEF n
      <3> QED
        BY <2>1, <2>2, <2>3 DEF Kbd!On, e
    <2> QED
      BY <1>1, <1>4, <2>4
  <1>5. CASE ~mine /\ ~reset
    <2>1. Kbd!Of(name, n + 1) = Kbd!Of(name, n)
      <3> HIDE DEF n
      <3> QED
        BY <1>2, <1>5 DEF Kbd!Of, e
    <2> QED
      BY <1>5, <2>1 DEF Kbd!On
  <1> QED
    BY <1>4, <1>5

\* KbdInv holds before the first key.
LEMMA KbdInit == Kbd!Init => KbdInv
PROOF
  <1> SUFFICES ASSUME Kbd!Init PROVE KbdInv
    OBVIOUS
  <1>1. events = <<>> /\ put = <<>> /\ wire = <<>> /\ ~shift_pressed /\ ~ctrl_pressed
        /\ prev_scan = 0 /\ behind \in Beyond /\ shift_pressed \in BOOLEAN /\ ctrl_pressed \in BOOLEAN
    BY ZenonT(100) DEF Kbd!Init
  <1>2. Len(events) = 0 /\ KbdType
    BY <1>1 DEF KbdType
  <1>3. \A name : Kbd!Of(name, 0 + 1) = {}
    BY DEF Kbd!Of
  <1>4. FlagsAt(0)
    BY <1>1, <1>3 DEF FlagsAt, Kbd!On
  <1>5. TypedTo(0) = {}
    BY <1>1 DEF TypedTo, Kbd!Typed
  <1>6. PutAt(0)
    BY <1>1, <1>5, FS_EmptySet DEF PutAt
  <1> QED
    BY <1>1, <1>2, <1>4, <1>6 DEF KbdInv

\* The bytes of a press or a release.
LEMMA EventBytes ==
  ASSUME Kbd!Layout, NEW key \in DOMAIN Keys, NEW p \in BOOLEAN
  PROVE  LET w == [n \in DOMAIN Keys[key] |-> IF p \/ Keys[key][n] >= Kbd!Release THEN Keys[key][n]
                                              ELSE Keys[key][n] + Kbd!Release]
         IN  \/ w = <<Byte(<<key, p>>)>> /\ ~Kbd!Prefixed(key)
             \/ w = <<224, Byte(<<key, p>>)>> /\ Kbd!Prefixed(key)
PROOF
  <1> DEFINE code == Kbd!Code(key)
             b == IF p THEN code ELSE code + 128
             f(x) == IF p \/ x >= 128 THEN x ELSE x + 128
             w == [n \in DOMAIN Keys[key] |-> f(Keys[key][n])]
  <1>1. code \in 1 .. 127 \ {96}
    BY KeyCodes
  <1>2. Byte(<<key, p>>) = b /\ Kbd!Release = 128
    BY DEF Byte, Kbd!Release
  <1>3. f(code) = b /\ f(224) = 224
    BY <1>1
  <1> HIDE DEF code, b, f
  <1>4. CASE Keys[key] = <<code>> /\ ~Kbd!Prefixed(key)
    <2>1. w = <<b>>
      BY <1>3, <1>4
    <2> QED
      BY <1>2, <1>4, <2>1 DEF f
  <1>5. CASE Keys[key] = <<224, code>> /\ Kbd!Prefixed(key)
    <2>1. w = <<224, b>>
      BY <1>3, <1>5
    <2> QED
      BY <1>2, <1>5, <2>1 DEF f
  <1> QED
    BY <1>4, <1>5, KeyCodes DEF code

\* A press or a release preserves KbdInv.
LEMMA KbdEvent ==
  ASSUME Kbd!Layout, KbdInv, NEW key \in DOMAIN Keys, NEW p \in BOOLEAN, Kbd!Event(key, p)
  PROVE  KbdInv'
PROOF
  <1> DEFINE e == <<key, p>>
  <1>1. /\ wire = <<>> /\ events' = Append(events, e)
        /\ UNCHANGED <<shift_pressed, ctrl_pressed, alt_pressed, prev_scan, behind, put>>
    BY DEF Kbd!Event
  <1>2. KbdType /\ FlagsAt(Len(events)) /\ PutAt(Len(events)) /\ prev_scan # 224
    BY <1>1 DEF KbdInv
  <1>3. PICK n \in Nat : n = Len(events)
    BY <1>2 DEF KbdType
  <1>4. KbdType' /\ Len(events') = n + 1 /\ events'[n + 1] = e
    BY <1>1, <1>2, <1>3 DEF KbdType
  <1>5. /\ \A name : Kbd!On(name, n + 1)' <=> Kbd!On(name, n + 1)
        /\ \A j \in 1 .. n : Kbd!Meaning(j)' = Kbd!Meaning(j)
        /\ \A m \in 0 .. n : TypedTo(m)' = TypedTo(m)
    <2>1. /\ \A j \in 1 .. Len(events) + 1 : \A name : Kbd!On(name, j)' <=> Kbd!On(name, j)
          /\ \A j \in 1 .. Len(events) : Kbd!Meaning(j)' = Kbd!Meaning(j)
          /\ \A m \in 0 .. Len(events) : TypedTo(m)' = TypedTo(m)
      <3> HIDE DEF e
      <3> QED
        BY <1>1, <1>2, HistoryKept
    <2>2. n + 1 \in 1 .. n + 1
      BY <1>3
    <2> QED
      BY <1>3, <2>1, <2>2
  <1>6. FlagsAt(n)'
    BY <1>1, <1>2, <1>3, <1>5 DEF FlagsAt
  <1>7. \A j \in TypedTo(n) : j \in 1 .. n /\ j \in 0 .. n
    BY <1>2, <1>3 DEF TypedTo, Kbd!Typed, KbdType
  <1>8. PutAt(n)'
    <2>1. TypedTo(n)' = TypedTo(n) /\ put' = put
      BY <1>1, <1>3, <1>5
    <2>2. \A j \in TypedTo(n) : TypedTo(j)' = TypedTo(j) /\ Kbd!Meaning(j)' = Kbd!Meaning(j)
      BY <1>5, <1>7
    <2> QED
      BY <1>2, <1>3, <2>1, <2>2 DEF PutAt
  <1>9. \/ wire' = <<Byte(e)>> /\ ~Kbd!Prefixed(key)
        \/ wire' = <<224, Byte(e)>> /\ Kbd!Prefixed(key)
    BY EventBytes DEF Kbd!Event
  <1>10. e[1] = key
    OBVIOUS
  <1>11. LET e0 == events'[Len(events')]
         IN  \/ wire' = <<Byte(e0)>> /\ prev_scan' # 224 /\ ~Kbd!Prefixed(e0[1])
             \/ wire' = <<224, Byte(e0)>> /\ Kbd!Prefixed(e0[1])
    <2> HIDE DEF e
    <2> QED
      BY <1>1, <1>2, <1>4, <1>9, <1>10
  <1>12. Len(events') > 0 /\ Len(events') - 1 = n
    BY <1>3, <1>4
  <1>13. FlagsAt(Len(events) - 1)' /\ PutAt(Len(events) - 1)'
    BY <1>6, <1>8, <1>12 DEF FlagsAt, PutAt
  <1> QED
    BY <1>4, <1>11, <1>12, <1>13 DEF KbdInv, Byte, Kbd!Prefixed, Kbd!Code

\* What the events mean depends on them alone.
LEMMA HistorySame ==
  ASSUME UNCHANGED <<events, behind>>
  PROVE  /\ \A name, n : Kbd!On(name, n)' <=> Kbd!On(name, n)
         /\ \A n : Kbd!Meaning(n)' = Kbd!Meaning(n)
         /\ \A m : TypedTo(m)' = TypedTo(m)
PROOF
  <1>0. /\ \A k : Kbd!Sign(k)' = Kbd!Sign(k) /\ Kbd!Prefixed(k)' = Kbd!Prefixed(k)
        /\ \A code : Kbd!scan_code_1_shift(code)' = Kbd!scan_code_1_shift(code)
        /\ Kbd!PrefixSign' = Kbd!PrefixSign
    BY SignsKept
  <1>1. \A name, n : Kbd!On(name, n)' <=> Kbd!On(name, n)
    <2>1. \A name, n : Kbd!Of(name, n)' = Kbd!Of(name, n)
      BY <1>0, ZenonT(100) DEF Kbd!Of
    <2> QED
      BY <1>0, <2>1, ZenonT(100) DEF Kbd!On
  <1>2. \A n : Kbd!Meaning(n)' = Kbd!Meaning(n)
    BY <1>0, <1>1, ZenonT(100) DEF Kbd!Meaning, Kbd!Code
  <1>3. \A m : TypedTo(m)' = TypedTo(m)
    BY <1>0, ZenonT(100) DEF TypedTo, Kbd!Typed
  <1> QED
    BY <1>1, <1>2, <1>3

\* The prefix puts no character: it is a release of what the tables have for it.
LEMMA KbdPrefix ==
  ASSUME Kbd!Layout, KbdInv, Kbd!irqKeyboardHandler, Len(wire) = 2
  PROVE  KbdInv'
PROOF
  <1> DEFINE e == events[Len(events)]
  <1>1. /\ KbdType /\ Len(events) > 0 /\ FlagsAt(Len(events) - 1) /\ PutAt(Len(events) - 1)
        /\ wire = <<224, Byte(e)>> /\ Kbd!Prefixed(e[1])
    <2>1. wire # <<>> /\ wire # <<Byte(e)>>
      OBVIOUS
    <2> HIDE DEF e
    <2> QED
      BY <2>1 DEF KbdInv, e
  <1>2. Head(wire) = 224 /\ Tail(wire) = <<Byte(e)>> /\ 224 >= 128 /\ 224 % 128 = 96
    BY <1>1
  <1>3. Kbd!scan_code_1(96) = Kbd!PrefixSign
    BY <1>2 DEF Kbd!PrefixSign, Kbd!Prefix, Kbd!Release
  <1>4. /\ wire' = <<Byte(e)>> /\ prev_scan' = 224 /\ UNCHANGED <<put, behind, events>>
        /\ shift_pressed' \in BOOLEAN /\ (shift_pressed' <=> shift_pressed /\ Kbd!PrefixSign # "shift")
        /\ ctrl_pressed' \in BOOLEAN /\ (ctrl_pressed' <=> ctrl_pressed /\ Kbd!PrefixSign # "control")
    <2> DEFINE up == ~ (Head(wire) >= 128)
    <2>1. up \in BOOLEAN
      BY ZenonT(100)
    <2>2. ~up
      BY <1>2
    <2>3. /\ wire' = Tail(wire) /\ prev_scan' = Head(wire) /\ behind' = behind /\ events' = events
          /\ Head(wire) >= 128 => put' = put
          /\ shift_pressed' = IF Kbd!scan_code_1(Head(wire) % 128) = "shift" THEN up ELSE shift_pressed
          /\ ctrl_pressed' = IF Kbd!scan_code_1(Head(wire) % 128) = "control" THEN up ELSE ctrl_pressed
      BY ZenonT(100) DEF Kbd!irqKeyboardHandler, Kbd!Release
    <2> HIDE DEF up
    <2>4. /\ shift_pressed' = IF Kbd!PrefixSign = "shift" THEN up ELSE shift_pressed
          /\ ctrl_pressed' = IF Kbd!PrefixSign = "control" THEN up ELSE ctrl_pressed
      BY <1>2, <1>3, <2>3
    <2>5. shift_pressed \in BOOLEAN /\ ctrl_pressed \in BOOLEAN
      BY <1>1 DEF KbdType
    <2>6. /\ shift_pressed' \in BOOLEAN /\ (shift_pressed' <=> shift_pressed /\ Kbd!PrefixSign # "shift")
          /\ ctrl_pressed' \in BOOLEAN /\ (ctrl_pressed' <=> ctrl_pressed /\ Kbd!PrefixSign # "control")
      BY ONLY <2>1, <2>2, <2>4, <2>5, ZenonT(100)
    <2> QED
      BY <1>2, <2>3, <2>6
  <1>5. KbdType'
    BY <1>1, <1>4 DEF KbdType
  <1>6. PrefixedAt(Len(events) - 1)'
    <2>1. /\ \A name, n : Kbd!On(name, n)' <=> Kbd!On(name, n)
          /\ Kbd!PrefixSign' = Kbd!PrefixSign
      BY <1>4, HistorySame, SignsKept
    <2> QED
      BY <1>1, <1>4, <2>1 DEF FlagsAt, PrefixedAt
  <1>7. PutAt(Len(events) - 1)'
    BY <1>1, <1>4, HistorySame DEF PutAt
  <1> QED
    BY <1>1, <1>4, <1>5, <1>6, <1>7 DEF KbdInv, Byte, Kbd!Prefixed, Kbd!Code

\* The last byte of an event, taken apart.
LEMMA LastByte ==
  ASSUME Kbd!Layout, KbdType, NEW e \in (DOMAIN Keys) \X BOOLEAN
  PROVE  LET code == Kbd!Code(e[1])
         IN  /\ code \in 1 .. 127 /\ Byte(e) % 128 = code /\ Byte(e) # 224
             /\ Byte(e) >= 128 <=> ~e[2]
             /\ e[2] => Byte(e) = code
PROOF
  <1> DEFINE code == Kbd!Code(e[1])
  <1>1. e[1] \in DOMAIN Keys /\ e[2] \in BOOLEAN
    OBVIOUS
  <1>2. code \in 1 .. 127 \ {96}
    BY <1>1, KeyCodes
  <1>3. Byte(e) = IF e[2] THEN code ELSE code + 128
    BY DEF Byte
  <1> HIDE DEF code
  <1>4. /\ code % 128 = code /\ (code + 128) % 128 = code /\ ~ (code >= 128) /\ code + 128 >= 128
        /\ code + 128 # 224 /\ code # 224
    BY <1>2
  <1> QED
    BY <1>1, <1>2, <1>3, <1>4 DEF code

\* The handler's character is the meaning of the press, and one of Out.
LEMMA CharacterMeans ==
  ASSUME Kbd!Layout, KbdType, Len(events) > 0,
         Kbd!Prefixed(events[Len(events)][1]) \/ FlagsAt(Len(events) - 1),
         prev_scan = 224 <=> Kbd!Prefixed(events[Len(events)][1])
  PROVE  /\ Kbd!Character(Kbd!Code(events[Len(events)][1])) = Kbd!Meaning(Len(events))
         /\ Kbd!Meaning(Len(events)) \in Out
PROOF
  <1> DEFINE n == Len(events)
             key == events[n][1]
             code == Kbd!Code(key)
             t == Kbd!scan_code_1(code)
  <1>1. n \in Nat /\ (n - 1) + 1 = n /\ key \in DOMAIN Keys
    BY DEF KbdType
  <1>2. ~Kbd!Prefixed(key) =>
          (shift_pressed <=> Kbd!On("shift", n)) /\ (ctrl_pressed <=> Kbd!On("control", n))
    BY <1>1 DEF FlagsAt
  <1>3. t = Kbd!Sign(key) /\ code \in 1 .. 127
    BY <1>1, KeyCodes DEF Kbd!Sign
  <1>4. /\ t = IF code \in DOMAIN Plain THEN Plain[code] ELSE behind[1][code]
        /\ Kbd!scan_code_1_shift(code) = IF code \in DOMAIN Shifted THEN Shifted[code] ELSE behind[2][code]
    BY DEF Kbd!scan_code_1, Kbd!scan_code_1_shift
  <1>5. /\ t \in Out /\ Kbd!scan_code_1_shift(code) \in Out
        /\ {"BS", "LF", "clear", "nul", "up", "left", "right", "down"} \subseteq Out
    <2>1. behind \in Beyond
      BY DEF KbdType
    <2> HIDE DEF n, key, code, t
    <2>2. behind[1][code] \in Out /\ behind[2][code] \in Out
      <3>1. /\ behind[1][code] \in {behind[1][x] : x \in 1 .. 127}
            /\ behind[2][code] \in {behind[2][x] : x \in 1 .. 127}
        BY ONLY <1>3, ZenonT(100)
      <3>2. /\ behind[1][code] \in UNION {{b[1][x] : x \in 1 .. 127} : b \in Beyond}
            /\ behind[2][code] \in UNION {{b[2][x] : x \in 1 .. 127} : b \in Beyond}
        BY ONLY <2>1, <3>1, ZenonT(100)
      <3> QED
        BY ONLY <3>2, ZenonT(100) DEF Out
    <2>3. /\ \A x \in DOMAIN Plain : Plain[x] \in Out
          /\ \A x \in DOMAIN Shifted : Shifted[x] \in Out
      BY ONLY ZenonT(100) DEF Out
    <2>4. {"BS", "LF", "clear", "nul", "up", "left", "right", "down"} \subseteq Out
      BY ONLY ZenonT(100) DEF Out
    <2> QED
      BY ONLY <1>4, <2>2, <2>3, <2>4, ZenonT(100)
  <1>6. Kbd!Prefixed(key) =>
          IF code \in DOMAIN Kbd!Arrows THEN key = Kbd!Arrows[code] /\ key \in {"up", "left", "right", "down"}
          ELSE key \notin {"up", "left", "right", "down"}
    BY <1>1, KeyCodes DEF Kbd!Arrows
  <1>7. Kbd!Meaning(n) = IF t = "enter" THEN "LF" ELSE IF t = "backspace" THEN "BS"
          ELSE IF Kbd!Prefixed(key) THEN IF key \in {"up", "left", "right", "down"} THEN key ELSE "nul"
          ELSE IF ctrl_pressed /\ t = "l" THEN "clear"
          ELSE IF shift_pressed THEN Kbd!scan_code_1_shift(code) ELSE t
    BY <1>2, <1>3, ZenonT(100) DEF Kbd!Meaning, Kbd!NUL
  <1>8. Kbd!Character(code) = IF t = "enter" THEN "LF" ELSE IF t = "backspace" THEN "BS"
          ELSE IF prev_scan # 224 THEN
            IF ctrl_pressed /\ t = "l" THEN "clear"
            ELSE IF shift_pressed THEN Kbd!scan_code_1_shift(code) ELSE t
          ELSE IF code \in DOMAIN Kbd!Arrows THEN Kbd!Arrows[code] ELSE "nul"
    BY DEF Kbd!Character, Kbd!NUL, Kbd!Prefix
  <1> HIDE DEF n, key, code, t
  <1>9. prev_scan = 224 <=> Kbd!Prefixed(key)
    BY DEF key, n
  <1>10. Kbd!Character(code) = Kbd!Meaning(n)
    <2>1. CASE Kbd!Prefixed(key)
      <3>1. PICK x : x = IF code \in DOMAIN Kbd!Arrows THEN Kbd!Arrows[code] ELSE "nul"
        OBVIOUS
      <3>2. x = IF key \in {"up", "left", "right", "down"} THEN key ELSE "nul"
        BY <1>6, <2>1, <3>1, ZenonT(100)
      <3>3. prev_scan = 224
        BY <1>9, <2>1
      <3>4. Kbd!Meaning(n) = IF t = "enter" THEN "LF" ELSE IF t = "backspace" THEN "BS" ELSE x
        BY <1>7, <2>1, <3>2, ZenonT(100)
      <3>5. Kbd!Character(code) = IF t = "enter" THEN "LF" ELSE IF t = "backspace" THEN "BS" ELSE x
        BY <1>8, <3>1, <3>3, ZenonT(100)
      <3> QED
        BY <3>4, <3>5, ZenonT(100)
    <2>2. CASE ~Kbd!Prefixed(key)
      <3>1. prev_scan # 224
        BY <1>9, <2>2
      <3> QED
        BY <1>7, <1>8, <2>2, <3>1, ZenonT(100)
    <2> QED
      BY <2>1, <2>2
  <1>11. Kbd!Meaning(n) \in Out
    BY <1>5, <1>7
  <1> QED
    BY <1>10, <1>11 DEF n, key, code

\* The last byte of an event ends it.
LEMMA KbdLast ==
  ASSUME Kbd!Layout, KbdInv, Kbd!irqKeyboardHandler, Len(wire) # 2
  PROVE  KbdInv'
PROOF
  <1>1. /\ KbdType /\ Len(events) > 0 /\ PutAt(Len(events) - 1)
        /\ wire = <<Byte(events[Len(events)])>>
        /\ \/ prev_scan # 224 /\ ~Kbd!Prefixed(events[Len(events)][1]) /\ FlagsAt(Len(events) - 1)
           \/ prev_scan = 224 /\ Kbd!Prefixed(events[Len(events)][1]) /\ PrefixedAt(Len(events) - 1)
    <2>1. \A x : Len(<<224, x>>) = 2
      OBVIOUS
    <2>2. wire # <<>>
      BY DEF Kbd!irqKeyboardHandler
    <2> QED
      BY <2>1, <2>2 DEF KbdInv
  <1>2. PICK n \in Nat : n = Len(events) /\ n > 0
    BY <1>1 DEF KbdType
  <1>3. PICK e \in (DOMAIN Keys) \X BOOLEAN : e = events[n]
    BY <1>1, <1>2 DEF KbdType
  <1>4. PICK code : code = Kbd!Code(e[1])
    OBVIOUS
  <1>5. /\ code \in 1 .. 127 /\ Byte(e) % 128 = code /\ Byte(e) # 224
        /\ Byte(e) >= 128 <=> ~e[2]
        /\ e[2] => Byte(e) = code
    BY <1>1, <1>4, LastByte
  <1>6. /\ n - 1 \in 0 .. n /\ (n - 1) + 1 = n /\ n \in 1 .. n /\ e[2] \in BOOLEAN
        /\ DOMAIN events = 1 .. n
    BY <1>1, <1>2, <1>3 DEF KbdType
  <1>7. /\ wire' = <<>> /\ prev_scan' = Byte(e) /\ UNCHANGED <<behind, events>>
        /\ shift_pressed' = IF Kbd!scan_code_1(code) = "shift" THEN e[2] ELSE shift_pressed
        /\ ctrl_pressed' = IF Kbd!scan_code_1(code) = "control" THEN e[2] ELSE ctrl_pressed
        /\ put' = IF ~e[2] \/ Kbd!scan_code_1(code) \in Kbd!Modifiers THEN put
                  ELSE Append(put, Kbd!Character(Byte(e)))
    <2>1. Head(wire) = Byte(e) /\ Tail(wire) = <<>>
      BY <1>1, <1>2, <1>3
    <2> QED
      BY <1>5, <1>6, <2>1 DEF Kbd!irqKeyboardHandler, Kbd!Release
  <1>8. FlagsAt(n)'
    <2>1. ASSUME NEW name
          PROVE  Kbd!On(name, n + 1)' <=>
                   IF Kbd!scan_code_1(code) = name THEN e[2]
                   ELSE Kbd!On(name, n) /\ ~ (Kbd!Prefixed(e[1]) /\ Kbd!PrefixSign = name)
      <3>1. Kbd!Sign(e[1]) = Kbd!scan_code_1(code)
        BY <1>4 DEF Kbd!Sign
      <3>2. Kbd!On(name, n + 1)' <=> Kbd!On(name, n + 1)
        BY <1>7, HistorySame
      <3>3. Kbd!On(name, n + 1) <=>
              IF Kbd!Sign(e[1]) = name THEN e[2]
              ELSE Kbd!On(name, n) /\ ~ (Kbd!Prefixed(e[1]) /\ Kbd!PrefixSign = name)
        BY <1>1, <1>2, <1>3, LastEvent
      <3> QED
        BY <3>1, <3>2, <3>3
    <2>2. /\ shift_pressed <=> Kbd!On("shift", n) /\ ~ (Kbd!Prefixed(e[1]) /\ Kbd!PrefixSign = "shift")
          /\ ctrl_pressed <=> Kbd!On("control", n) /\ ~ (Kbd!Prefixed(e[1]) /\ Kbd!PrefixSign = "control")
      BY <1>1, <1>2, <1>3, <1>6 DEF FlagsAt, PrefixedAt
    <2>3. shift_pressed' <=> Kbd!On("shift", n + 1)'
      BY <1>7, <2>1, <2>2
    <2>4. ctrl_pressed' <=> Kbd!On("control", n + 1)'
      BY <1>7, <2>1, <2>2
    <2> QED
      BY <2>3, <2>4 DEF FlagsAt
  <1>9. n \in Kbd!Typed <=> e[2] /\ Kbd!scan_code_1(code) \notin Kbd!Modifiers
    BY <1>3, <1>4, <1>6 DEF Kbd!Typed, Kbd!Sign
  <1>10. /\ IsFiniteSet(TypedTo(n - 1)) /\ Cardinality(TypedTo(n - 1)) \in Nat
         /\ \A j \in TypedTo(n - 1) : Cardinality(TypedTo(j)) \in 1 .. Cardinality(TypedTo(n - 1))
         /\ n \in Kbd!Typed => TypedTo(n) = TypedTo(n - 1) \union {n}
                               /\ Cardinality(TypedTo(n)) = Cardinality(TypedTo(n - 1)) + 1
         /\ n \notin Kbd!Typed => TypedTo(n) = TypedTo(n - 1)
    <2>1. n - 1 \in 0 .. Len(events)
      BY <1>2, <1>6
    <2> QED
      BY <1>1, <1>6, <2>1, TypedCount
  <1>11. /\ Len(put) = Cardinality(TypedTo(n - 1))
         /\ \A j \in TypedTo(n - 1) : put[Cardinality(TypedTo(j))] = Kbd!Meaning(j)
    BY <1>1, <1>2 DEF PutAt
  <1>12. /\ put' \in Seq(Out) /\ Len(put') = Cardinality(TypedTo(n))
         /\ \A j \in TypedTo(n) : put'[Cardinality(TypedTo(j))] = Kbd!Meaning(j)
    <2>1. CASE n \notin Kbd!Typed
      BY <1>1, <1>7, <1>9, <1>10, <1>11, <2>1 DEF KbdType
    <2>2. CASE n \in Kbd!Typed
      <3>1. Kbd!Character(Byte(e)) = Kbd!Meaning(n) /\ Kbd!Meaning(n) \in Out
        <4>1. Byte(e) = code
          BY <1>5, <1>9, <2>2
        <4>2. /\ Kbd!Character(Kbd!Code(events[Len(events)][1])) = Kbd!Meaning(Len(events))
              /\ Kbd!Meaning(Len(events)) \in Out
          BY <1>1, CharacterMeans
        <4> QED
          BY <1>2, <1>3, <1>4, <4>1, <4>2
      <3>2. put' = Append(put, Kbd!Meaning(n)) /\ put \in Seq(Out)
        BY <1>1, <1>7, <1>9, <2>2, <3>1 DEF KbdType
      <3>3. /\ put' \in Seq(Out) /\ Len(put') = Len(put) + 1 /\ put'[Len(put) + 1] = Kbd!Meaning(n)
            /\ \A i \in 1 .. Len(put) : put'[i] = put[i]
        BY <3>1, <3>2
      <3>4. \A j \in TypedTo(n - 1) : put'[Cardinality(TypedTo(j))] = Kbd!Meaning(j)
        BY <1>10, <1>11, <3>3
      <3>5. put'[Cardinality(TypedTo(n))] = Kbd!Meaning(n)
        BY <1>10, <1>11, <2>2, <3>3
      <3> QED
        BY <1>10, <1>11, <2>2, <3>3, <3>4, <3>5
    <2> QED
      BY <2>1, <2>2
  <1>13. PutAt(n)'
    <2>1. /\ \A j : Kbd!Meaning(j)' = Kbd!Meaning(j)
          /\ \A j : TypedTo(j)' = TypedTo(j)
      BY <1>7, HistorySame
    <2> QED
      BY <1>12, <2>1 DEF PutAt
  <1>14. KbdType'
    <2>1. shift_pressed' \in BOOLEAN /\ ctrl_pressed' \in BOOLEAN
      BY <1>1, <1>6, <1>7 DEF KbdType
    <2> QED
      BY <1>1, <1>7, <1>12, <2>1 DEF KbdType
  <1>15. n = Len(events')
    BY <1>2, <1>7
  <1>16. FlagsAt(Len(events))' /\ PutAt(Len(events))'
    BY <1>8, <1>13, <1>15 DEF FlagsAt, PutAt
  <1>17. prev_scan' # 224
    BY <1>5, <1>7
  <1> QED
    BY <1>7, <1>14, <1>16, <1>17 DEF KbdInv

\* KbdInv is inductive.
LEMMA KbdNext ==
  ASSUME Kbd!Layout, KbdInv, [Kbd!Next]_(Kbd!vars)
  PROVE  KbdInv'
PROOF
  <1>1. ASSUME NEW key \in DOMAIN Keys, NEW p \in BOOLEAN, Kbd!Event(key, p)
        PROVE  KbdInv'
    BY <1>1, KbdEvent
  <1>2. CASE Kbd!irqKeyboardHandler
    BY <1>2, KbdPrefix, KbdLast
  <1>3. CASE UNCHANGED Kbd!vars
    <2>1. UNCHANGED <<wire, shift_pressed, ctrl_pressed, prev_scan, behind, put, events>>
      BY <1>3 DEF Kbd!vars
    <2>2. KbdType'
      BY <2>1 DEF KbdInv, KbdType
    <2>3. /\ FlagsAt(Len(events))' <=> FlagsAt(Len(events))
          /\ FlagsAt(Len(events) - 1)' <=> FlagsAt(Len(events) - 1)
          /\ PrefixedAt(Len(events) - 1)' <=> PrefixedAt(Len(events) - 1)
      <3>1. /\ \A name, n : Kbd!On(name, n)' <=> Kbd!On(name, n)
            /\ Kbd!PrefixSign' = Kbd!PrefixSign
        BY <2>1, HistorySame, SignsKept
      <3> QED
        BY <2>1, <3>1 DEF FlagsAt, PrefixedAt
    <2>4. /\ PutAt(Len(events))' <=> PutAt(Len(events))
          /\ PutAt(Len(events) - 1)' <=> PutAt(Len(events) - 1)
      BY <2>1, HistorySame DEF PutAt
    <2> QED
      BY <2>1, <2>2, <2>3, <2>4 DEF KbdInv, Byte, Kbd!Prefixed, Kbd!Code
  <1> QED
    BY <1>1, <1>2, <1>3 DEF Kbd!Next

\* Every press of a key that is no modifier arrives once and in order, with the
\* meaning that the modifiers gave it when it was pressed (irqKeyboardHandler,
\* keyboard.c), whatever the tables say, whatever lies behind them, modifiers
\* included, and for any number of events: a shift held by one key and let go by
\* the other, a prefix between two keys and a key held down included.  Layout leaves
\* out the keys that send more than one code behind a prefix.
THEOREM KeysAllArrive == ASSUME Kbd!Layout PROVE Kbd!Spec => []Kbd!KeysArrive
PROOF
  <1>1. KbdInv => Kbd!KeysArrive
    <2> SUFFICES ASSUME KbdInv, wire = <<>> PROVE Kbd!KeysArrive
      BY DEF Kbd!KeysArrive
    <2>1. KbdType /\ PutAt(Len(events))
      <3>1. \A x, y : <<x>> # <<>> /\ <<x, y>> # <<>>
        OBVIOUS
      <3> QED
        BY <3>1 DEF KbdInv
    <2>2. TypedTo(Len(events)) = Kbd!Typed
      BY <2>1 DEF TypedTo, Kbd!Typed, KbdType
    <2>3. /\ Len(put) = Cardinality(Kbd!Typed)
          /\ \A i \in Kbd!Typed : put[Cardinality(TypedTo(i))] = Kbd!Meaning(i)
      BY <2>1, <2>2 DEF PutAt
    <2>4. ASSUME NEW i \in Kbd!Typed
          PROVE  put[Cardinality({j \in Kbd!Typed : j <= i})] = Kbd!Meaning(i)
      <3>1. TypedTo(i) = {j \in Kbd!Typed : j <= i}
        BY DEF TypedTo
      <3> QED
        BY <2>3, <3>1, ZenonT(100)
    <2>5. \A S : Kbd!Cardinality(S) = Cardinality(S)
      BY ZenonT(100) DEF Cardinality, Kbd!Cardinality
    <2> QED
      BY <2>3, <2>4, <2>5 DEF Kbd!KeysArrive
  <1> QED
    BY <1>1, KbdInit, KbdNext, PTL DEF Kbd!Spec
=============================================================================
