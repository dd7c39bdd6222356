--------------------------- MODULE ConsoleProofs ---------------------------
(***************************************************************************)
(* Theorems about the console lock, for any set of threads, any set of     *)
(* strings and any number of calls.                                        *)
(***************************************************************************)
EXTENDS Console, SequenceTheorems, TLAPS

\* A leaf that names no prover is SMT's, and Zenon's if SMT gives up.
USE SMTT(100), ZenonT(100)

\* Any sequences of anything may be printed.
Chars == (UNION {Range(s) : s \in Strings}) \union {"\n"}

Printable == \A s \in Strings : \E C : s \in Seq(C)

Entry == [call : Threads \X Nat, kprintf : BOOLEAN, char : Chars]

TypeInv ==
  /\ spin \in {0, 1}
  /\ pc \in [Threads -> {"out", "next", "held", "putc"}]
  /\ todo \in [Threads -> Seq(Seq(Chars))]
  /\ calls \in [Threads -> Nat]
  /\ write_cnt \in Nat
  /\ loaded \in [Threads -> Nat]
  /\ kprintf \in [Threads -> BOOLEAN]
  /\ written \in Seq(Entry)

Holds(t) == pc[t] \in {"held", "putc"}

\* The lock is taken when a thread is inside, and one thread is inside at most.
MutexInv ==
  \A t \in Threads :
    Holds(t) => spin = 1 /\ \A u \in Threads : Holds(u) => u = t

\* What a thread read for write_cnt++ is still there when it writes.
CountInv ==
  /\ write_cnt = Len(written)
  /\ \A t \in Threads :
       /\ Holds(t) => todo[t] # <<>>
       /\ pc[t] = "putc" => loaded[t] = write_cnt /\ Head(todo[t]) # <<>>

\* The characters of call c: all of them follow each other up to the end.
AtEnd(c) ==
  \A i \in DOMAIN written :
    written[i].call = c => \A k \in i .. Len(written) : written[k].call = c

Unheard(c) == \A i \in DOMAIN written : written[i].call # c

\* A call other than kprintf holds the lock once: before that nothing of it is
\* printed, and while it holds the lock nothing else is.
CallInv ==
  \A t \in Threads :
    /\ \A i \in DOMAIN written, n \in Nat :
         written[i].call = <<t, n>> =>
           /\ n <= calls[t]
           /\ n = calls[t] => written[i].kprintf = kprintf[t]
    /\ ~kprintf[t] =>
         /\ Len(todo[t]) <= 1
         /\ pc[t] = "next" /\ todo[t] # <<>> => Unheard(<<t, calls[t]>>)
         /\ Holds(t) => AtEnd(<<t, calls[t]>>)

IInv == TypeInv /\ MutexInv /\ CountInv /\ CallInv /\ OutputTogether

-----------------------------------------------------------------------------
(* The pieces of a call.                                                   *)

\* Every printing call prints pieces of known characters, and every one but
\* kprintf a single piece.
LEMMA Pieces ==
  ASSUME Printable, NEW s \in Strings
  PROVE  /\ consolePuts(s) \in Seq(Seq(Chars)) /\ Len(consolePuts(s)) = 1
         /\ consolePutbuf(s) \in Seq(Seq(Chars)) /\ Len(consolePutbuf(s)) = 1
         /\ s # <<>> => consolePutchar(s) \in Seq(Seq(Chars)) /\ Len(consolePutchar(s)) = 1
         /\ vkprintf(s) \in Seq(Seq(Chars))
PROOF
  <1>1. PICK C : s \in Seq(C)
    BY DEF Printable
  <1>2. \A i \in 1 .. Len(s) : s[i] \in Chars
    <2>1. DOMAIN s = 1 .. Len(s)
      BY <1>1
    <2>2. \A i \in 1 .. Len(s) : s[i] \in Range(s)
      BY <2>1 DEF Range
    <2>3. Range(s) \subseteq Chars
      BY ZenonT(100) DEF Chars
    <2> QED
      BY <2>2, <2>3
  <1>3. s \in Seq(Chars) /\ Len(s) \in Nat
    BY <1>1, <1>2
  <1>4. <<"\n">> \in Seq(Chars)
    <2>1. "\n" \in Chars
      BY DEF Chars
    <2> QED
      BY <2>1
  <1>5. s \o <<"\n">> \in Seq(Chars)
    BY <1>3, <1>4
  <1>6. vkprintf(s) \in Seq(Seq(Chars))
    <2>1. \A i \in 1 .. Len(s) : <<s[i]>> \in Seq(Chars)
      BY <1>2
    <2> QED
      BY <1>3, <2>1 DEF vkprintf
  <1>7. s # <<>> => <<s[1]>> \in Seq(Chars)
    BY <1>2, <1>3
  <1> QED
    BY <1>3, <1>5, <1>6, <1>7 DEF consolePuts, consolePutbuf, consolePutchar

-----------------------------------------------------------------------------
(* The steps.                                                              *)

\* A new call: its number is new, so nothing of it is printed yet.
LEMMA CallIInv ==
  ASSUME Printable, IInv, NEW t \in Threads, Call(t)
  PROVE  IInv'
PROOF
  <1> USE DEF Call
  <1>1. PICK pieces \in Seq(Seq(Chars)) : todo' = [todo EXCEPT ![t] = pieces]
                                     /\ (~kprintf'[t] => Len(pieces) = 1)
    BY Pieces DEF IInv, TypeInv
  <1>2. PICK b \in BOOLEAN : kprintf' = [kprintf EXCEPT ![t] = b]
    BY ZenonT(100)
  <1>3. TypeInv'
    BY <1>1, <1>2 DEF IInv, TypeInv
  <1>4. MutexInv'
    BY DEF IInv, TypeInv, MutexInv, Holds
  <1>5. CountInv'
    BY <1>1 DEF IInv, TypeInv, CountInv, Holds
  <1>6. \A i \in DOMAIN written, n \in Nat : written[i].call = <<t, n>> => n < calls'[t]
    <2>1. calls[t] \in Nat /\ calls'[t] = calls[t] + 1
      BY DEF IInv, TypeInv
    <2>2. \A i \in DOMAIN written, n \in Nat : written[i].call = <<t, n>> => n <= calls[t]
      BY ZenonT(100) DEF IInv, CallInv
    <2> HIDE DEF Call
    <2> QED
      BY <2>1, <2>2
  <1>7. Unheard(<<t, calls'[t]>>)
    <2>1. calls'[t] \in Nat
      BY DEF IInv, TypeInv
    <2> HIDE DEF Call
    <2> QED
      BY <1>6, <2>1 DEF Unheard
  <1>8. ASSUME NEW u \in Threads, u # t
        PROVE  /\ calls'[u] = calls[u] /\ kprintf'[u] = kprintf[u]
               /\ todo'[u] = todo[u] /\ pc'[u] = pc[u]
    BY <1>1, <1>2, <1>8 DEF IInv, TypeInv
  <1>9. CallInv'
    <2> SUFFICES ASSUME NEW u \in Threads
                 PROVE  /\ \A i \in DOMAIN written, n \in Nat :
                             written[i].call = <<u, n>> =>
                               /\ n <= calls'[u]
                               /\ n = calls'[u] => written[i].kprintf = kprintf'[u]
                        /\ ~kprintf'[u] =>
                             /\ Len(todo'[u]) <= 1
                             /\ pc'[u] = "next" /\ todo'[u] # <<>> => Unheard(<<u, calls'[u]>>)
                             /\ Holds(u)' => AtEnd(<<u, calls'[u]>>)
      BY DEF CallInv, AtEnd, Unheard
    <2>1. CASE u = t
      <3>1. /\ todo'[t] = pieces /\ pc'[t] = "next"
            /\ ~kprintf'[t] => Len(pieces) = 1
            /\ calls'[t] \in Nat
        BY <1>1 DEF IInv, TypeInv
      <3> HIDE DEF Call
      <3>2. \A i \in DOMAIN written, n \in Nat :
              written[i].call = <<t, n>> =>
                /\ n <= calls'[t]
                /\ n = calls'[t] => written[i].kprintf = kprintf'[t]
        BY <1>6, <3>1
      <3>3. ~kprintf'[t] => Len(todo'[t]) <= 1
        <4>1. Len(todo'[t]) = 1 => Len(todo'[t]) <= 1
          OBVIOUS
        <4> QED
          BY <3>1, <4>1, ZenonT(100)
      <3>4. ~Holds(u)'
        BY <2>1, <3>1 DEF Holds
      <3>5. Unheard(<<u, calls'[u]>>)
        BY <1>7, <2>1
      <3> QED
        BY <2>1, <3>2, <3>3, <3>4, <3>5
    <2>2. CASE u # t
      BY <1>8, <2>2 DEF IInv, CallInv, Holds
    <2> QED
      BY <2>1, <2>2, ZenonT(100)
  <1>10. OutputTogether'
    BY DEF IInv, OutputTogether
  <1> QED
    BY <1>3, <1>4, <1>5, <1>9, <1>10 DEF IInv

\* Taking the lock: the characters of the call are still to come.
LEMMA LockIInv ==
  ASSUME IInv, NEW t \in Threads, consoleLock(t)
  PROVE  IInv'
PROOF
  <1> USE DEF consoleLock
  <1>1. TypeInv'
    BY DEF IInv, TypeInv
  <1>2. MutexInv'
    BY DEF IInv, TypeInv, MutexInv, Holds
  <1>3. CountInv'
    BY DEF IInv, TypeInv, CountInv, Holds
  <1>4. CallInv'
    BY ZenonT(100) DEF IInv, TypeInv, CallInv, Holds, AtEnd, Unheard
  <1>5. OutputTogether'
    BY DEF IInv, OutputTogether
  <1> QED
    BY <1>1, <1>2, <1>3, <1>4, <1>5 DEF IInv

\* Reading write_cnt changes nothing but the thread's own copy.
LEMMA LoadIInv ==
  ASSUME IInv, NEW t \in Threads, Load(t)
  PROVE  IInv'
PROOF
  <1> USE DEF Load
  <1>1. TypeInv'
    BY DEF IInv, TypeInv
  <1>2. MutexInv'
    BY DEF IInv, TypeInv, MutexInv, Holds
  <1>3. CountInv'
    BY DEF IInv, TypeInv, CountInv, Holds
  <1>4. CallInv'
    BY ZenonT(100) DEF IInv, TypeInv, CallInv, Holds, AtEnd, Unheard
  <1>5. OutputTogether'
    BY DEF IInv, OutputTogether
  <1> QED
    BY <1>1, <1>2, <1>3, <1>4, <1>5 DEF IInv

\* Releasing the lock: a call other than kprintf has nothing left to print.
LEMMA UnlockIInv ==
  ASSUME IInv, NEW t \in Threads, consoleUnlock(t)
  PROVE  IInv'
PROOF
  <1> USE DEF consoleUnlock
  <1>1. todo[t] \in Seq(Seq(Chars)) /\ todo[t] # <<>>
    BY DEF IInv, TypeInv, CountInv, Holds
  <1>2. Tail(todo[t]) \in Seq(Seq(Chars)) /\ Len(Tail(todo[t])) = Len(todo[t]) - 1
    BY <1>1
  <1>3. TypeInv'
    BY <1>2 DEF IInv, TypeInv
  <1>4. MutexInv'
    BY DEF IInv, TypeInv, MutexInv, Holds
  <1>5. CountInv'
    BY DEF IInv, TypeInv, CountInv, Holds, MutexInv
  <1>6. CallInv'
    <2> SUFFICES ASSUME NEW u \in Threads, ~kprintf[u]
                 PROVE  /\ Len(todo'[u]) <= 1
                        /\ pc'[u] = "next" /\ todo'[u] # <<>> => Unheard(<<u, calls[u]>>)
                        /\ Holds(u)' => AtEnd(<<u, calls[u]>>)
      BY DEF IInv, CallInv, AtEnd, Unheard
    <2>1. /\ Len(todo[u]) <= 1
          /\ pc[u] = "next" /\ todo[u] # <<>> => Unheard(<<u, calls[u]>>)
          /\ Holds(u) => AtEnd(<<u, calls[u]>>)
      BY DEF IInv, CallInv
    <2>2. CASE u = t
      <3>1. todo'[u] = Tail(todo[t]) /\ pc'[u] = "next"
        BY <2>2 DEF IInv, TypeInv
      <3>2. Tail(todo[t]) = <<>>
        BY <1>1, <1>2, <2>1, <2>2
      <3>3. Len(todo'[u]) <= 1
        BY <1>1, <1>2, <2>1, <2>2, <3>1
      <3>4. ~Holds(u)'
        BY <3>1 DEF Holds
      <3> QED
        BY <3>1, <3>2, <3>3, <3>4, ZenonT(100)
    <2>3. CASE u # t
      BY <2>1, <2>3 DEF IInv, TypeInv, Holds
    <2> QED
      BY <2>2, <2>3
  <1>7. OutputTogether'
    BY DEF IInv, OutputTogether
  <1> QED
    BY <1>3, <1>4, <1>5, <1>6, <1>7 DEF IInv

\* A call that returns leaves everything else alone.
LEMMA ReturnIInv ==
  ASSUME IInv, NEW t \in Threads, Return(t)
  PROVE  IInv'
PROOF
  <1> USE DEF Return
  <1>1. TypeInv'
    BY DEF IInv, TypeInv
  <1>2. MutexInv'
    BY DEF IInv, TypeInv, MutexInv, Holds
  <1>3. CountInv'
    BY DEF IInv, TypeInv, CountInv, Holds
  <1>4. CallInv'
    BY ZenonT(100) DEF IInv, TypeInv, CallInv, Holds, AtEnd, Unheard
  <1>5. OutputTogether'
    BY DEF IInv, OutputTogether
  <1> QED
    BY <1>1, <1>2, <1>3, <1>4, <1>5 DEF IInv

\* What the running piece prints next: the other entries stay.
LEMMA PutcFacts ==
  ASSUME IInv, NEW t \in Threads, textPutc(t)
  PROVE  \E e \in Entry :
           /\ e.call = <<t, calls[t]>> /\ e.kprintf = kprintf[t]
           /\ written' = Append(written, e)
PROOF
  <1> DEFINE e == [call |-> <<t, calls[t]>>, kprintf |-> kprintf[t],
                   char |-> Head(Head(todo[t]))]
  <1>1. /\ todo[t] \in Seq(Seq(Chars)) /\ todo[t] # <<>> /\ Head(todo[t]) # <<>>
    BY DEF textPutc, IInv, TypeInv, CountInv, Holds
  <1>2. Head(todo[t]) \in Seq(Chars)
    BY <1>1
  <1>3. Head(Head(todo[t])) \in Chars
    BY <1>1, <1>2
  <1>4. <<t, calls[t]>> \in Threads \X Nat /\ kprintf[t] \in BOOLEAN
    BY DEF IInv, TypeInv
  <1>5. e \in Entry
    BY <1>3, <1>4 DEF Entry
  <1>6. written' = Append(written, e)
    BY DEF textPutc
  <1> QED
    BY <1>5, <1>6

\* Printing a character: the lock keeps every other call out.
LEMMA PutcIInv ==
  ASSUME IInv, NEW t \in Threads, textPutc(t)
  PROVE  IInv'
PROOF
  <1>1. PICK e \in Entry : /\ e.call = <<t, calls[t]>> /\ e.kprintf = kprintf[t]
                           /\ written' = Append(written, e)
    BY PutcFacts
  <1>2. /\ written \in Seq(Entry) /\ written' \in Seq(Entry)
        /\ Len(written') = Len(written) + 1 /\ Len(written) \in Nat
        /\ DOMAIN written = 1 .. Len(written) /\ DOMAIN written' = 1 .. Len(written) + 1
        /\ \A i \in DOMAIN written : written'[i] = written[i]
        /\ written'[Len(written) + 1] = e
    BY <1>1 DEF IInv, TypeInv
  <1>3. /\ todo[t] \in Seq(Seq(Chars)) /\ todo[t] # <<>>
        /\ Head(todo[t]) \in Seq(Chars) /\ Head(todo[t]) # <<>>
    BY DEF textPutc, IInv, TypeInv, CountInv, Holds
  <1>4. PICK rest \in Seq(Seq(Chars)) : /\ todo' = [todo EXCEPT ![t] = rest]
                                        /\ Len(rest) = Len(todo[t]) /\ rest # <<>>
    <2> DEFINE rest == [todo[t] EXCEPT ![1] = Tail(todo[t][1])]
    <2>1. 1 \in 1 .. Len(todo[t]) /\ Tail(todo[t][1]) \in Seq(Chars)
      BY <1>3
    <2>2. rest \in Seq(Seq(Chars)) /\ Len(rest) = Len(todo[t]) /\ rest # <<>>
      BY <1>3, <2>1
    <2>3. todo' = [todo EXCEPT ![t] = rest]
      BY DEF textPutc
    <2> QED
      BY <2>2, <2>3, ZenonT(100)
  <1>5. /\ UNCHANGED <<spin, calls, loaded, kprintf>>
        /\ pc[t] = "putc" /\ pc' = [pc EXCEPT ![t] = "held"]
        /\ write_cnt' = loaded[t] + 1 /\ loaded[t] = write_cnt
    BY DEF textPutc, IInv, CountInv
  <1>6. TypeInv'
    BY <1>2, <1>4, <1>5 DEF IInv, TypeInv
  <1>7. MutexInv'
    BY <1>5 DEF IInv, TypeInv, MutexInv, Holds
  <1>8. \A u \in Threads : Holds(u) => u = t
    BY <1>5 DEF IInv, MutexInv, Holds
  <1>9. CountInv'
    BY <1>2, <1>4, <1>5, <1>8 DEF IInv, TypeInv, CountInv, Holds
  <1>10. CallInv'
    <2> SUFFICES ASSUME NEW u \in Threads
                 PROVE  /\ \A i \in DOMAIN written', n \in Nat :
                             written'[i].call = <<u, n>> =>
                               /\ n <= calls[u]
                               /\ n = calls[u] => written'[i].kprintf = kprintf[u]
                        /\ ~kprintf[u] =>
                             /\ Len(todo'[u]) <= 1
                             /\ pc'[u] = "next" /\ todo'[u] # <<>> => Unheard(<<u, calls[u]>>)'
                             /\ Holds(u)' => AtEnd(<<u, calls[u]>>)'
      BY <1>5 DEF CallInv, AtEnd, Unheard
    <2>1. \A i \in DOMAIN written', n \in Nat :
             written'[i].call = <<u, n>> =>
               /\ n <= calls[u]
               /\ n = calls[u] => written'[i].kprintf = kprintf[u]
      <3> SUFFICES ASSUME NEW i \in DOMAIN written', NEW n \in Nat,
                          written'[i].call = <<u, n>>
                   PROVE  n <= calls[u] /\ (n = calls[u] => written'[i].kprintf = kprintf[u])
        OBVIOUS
      <3>1. CASE i \in DOMAIN written
        BY <1>2, <3>1, ZenonT(100) DEF IInv, CallInv
      <3>2. CASE i = Len(written) + 1
        <4>1. written'[i].call = <<t, calls[t]>> /\ written'[i].kprintf = kprintf[t]
          BY <1>1, <1>2, <3>2
        <4>2. u = t /\ n = calls[u] /\ calls[u] \in Nat
          BY <4>1 DEF IInv, TypeInv
        <4> QED
          BY <4>1, <4>2
      <3> QED
        BY <1>2, <3>1, <3>2
    <2>2. ASSUME ~kprintf[u]
          PROVE  Len(todo'[u]) <= 1
      BY <1>4, <2>2, ZenonT(100) DEF IInv, TypeInv, CallInv
    <2>3. ASSUME ~kprintf[u], pc'[u] = "next", todo'[u] # <<>>
          PROVE  Unheard(<<u, calls[u]>>)'
      <3>1. u # t /\ pc[u] = "next" /\ todo[u] # <<>>
        BY <1>4, <1>5, <2>3 DEF IInv, TypeInv
      <3>2. \A i \in DOMAIN written : written[i].call # <<u, calls[u]>>
        BY <2>3, <3>1, ZenonT(100) DEF IInv, CallInv, Unheard
      <3>3. e.call # <<u, calls[u]>>
        BY <1>1, <3>1
      <3>4. \A i \in DOMAIN written' : written'[i].call # <<u, calls[u]>>
        BY <1>2, <3>2, <3>3
      <3> QED
        BY <1>5, <3>4 DEF Unheard
    <2>4. ASSUME ~kprintf[u], Holds(u)'
          PROVE  AtEnd(<<u, calls[u]>>)'
      <3>1. u = t
        BY <1>5, <1>8, <2>4 DEF Holds, IInv, TypeInv
      <3>2. \A i \in DOMAIN written :
              written[i].call = <<t, calls[t]>> =>
                \A k \in i .. Len(written) : written[k].call = <<t, calls[t]>>
        BY <1>5, <2>4, <3>1, ZenonT(100) DEF IInv, CallInv, Holds, AtEnd
      <3>3. \A i \in DOMAIN written' :
              written'[i].call = <<t, calls[t]>> =>
                \A k \in i .. Len(written') : written'[k].call = <<t, calls[t]>>
        BY <1>1, <1>2, <3>2
      <3> QED
        BY <1>5, <3>1, <3>3, ZenonT(100) DEF AtEnd
    <2> QED
      BY <2>1, <2>2, <2>3, <2>4
  <1>11. OutputTogether'
    <2> SUFFICES ASSUME NEW i \in DOMAIN written', NEW j \in DOMAIN written', i < j,
                        written'[i].call = written'[j].call, ~written'[i].kprintf,
                        NEW k \in i .. j
                 PROVE  written'[k].call = written'[i].call
      BY DEF OutputTogether
    <2>1. i \in DOMAIN written /\ written'[i] = written[i]
      BY <1>2
    <2>2. CASE j \in DOMAIN written
      <3>1. k \in DOMAIN written /\ written'[k] = written[k] /\ written'[j] = written[j]
        BY <1>2, <2>1, <2>2
      <3> QED
        BY <2>1, <2>2, <3>1 DEF IInv, OutputTogether
    <2>3. CASE j = Len(written) + 1
      <3>1. written[i].call = <<t, calls[t]>> /\ ~written[i].kprintf
        BY <1>1, <1>2, <2>1, <2>3
      <3>2. calls[t] \in Nat
        BY DEF IInv, TypeInv
      <3>3. ~kprintf[t]
        BY <2>1, <3>1, <3>2, ZenonT(100) DEF IInv, CallInv
      <3>4. \A m \in i .. Len(written) : written[m].call = <<t, calls[t]>>
        BY <1>5, <2>1, <3>1, <3>3, ZenonT(100) DEF IInv, CallInv, Holds, AtEnd
      <3>5. CASE k = Len(written) + 1
        BY <1>1, <1>2, <2>1, <3>1, <3>5
      <3>6. CASE k \in i .. Len(written)
        <4>1. k \in DOMAIN written /\ written[k].call = <<t, calls[t]>>
          BY <1>2, <2>1, <3>4, <3>6
        <4> QED
          BY <1>2, <2>1, <3>1, <4>1, ZenonT(100)
      <3> QED
        BY <1>2, <2>1, <2>3, <3>5, <3>6
    <2> QED
      BY <1>2, <2>2, <2>3
  <1> QED
    BY <1>6, <1>7, <1>9, <1>10, <1>11 DEF IInv

-----------------------------------------------------------------------------
(* The theorems.                                                           *)

\* The invariant holds before anything is printed.
LEMMA InitIInv == Init => IInv
PROOF
  <1> SUFFICES ASSUME Init PROVE IInv
    OBVIOUS
  <1> USE DEF Init
  <1>1. TypeInv
    BY DEF TypeInv
  <1>2. MutexInv /\ CountInv
    BY DEF MutexInv, CountInv, Holds
  <1>3. CallInv
    BY DEF CallInv, Holds, AtEnd, Unheard
  <1>4. OutputTogether
    BY DEF OutputTogether
  <1> QED
    BY <1>1, <1>2, <1>3, <1>4 DEF IInv

\* The inductive invariant holds in every reachable state.
THEOREM Invariance ==
  ASSUME Printable
  PROVE  Spec => []IInv
PROOF
  <1>1. IInv /\ [Next]_vars => IInv'
    <2> SUFFICES ASSUME IInv, [Next]_vars PROVE IInv'
      OBVIOUS
    <2>1. CASE UNCHANGED vars
      <3> USE <2>1 DEF vars
      <3>1. TypeInv'
        BY DEF IInv, TypeInv
      <3>2. MutexInv' /\ CountInv'
        BY DEF IInv, MutexInv, CountInv, Holds
      <3>3. CallInv'
        BY DEF IInv, CallInv, Holds, AtEnd, Unheard
      <3>4. OutputTogether'
        BY DEF IInv, OutputTogether
      <3> QED
        BY <3>1, <3>2, <3>3, <3>4 DEF IInv
    <2>2. ASSUME NEW t \in Threads, Call(t) \/ Step(t)
          PROVE  IInv'
      BY <2>2, CallIInv, LockIInv, LoadIInv, PutcIInv, UnlockIInv, ReturnIInv DEF Step
    <2> QED
      BY <2>1, <2>2 DEF Next
  <1> QED
    BY <1>1, InitIInv, PTL DEF Spec

\* What one consolePuts or consolePutbuf prints stays together, for any number
\* of threads, calls and strings.
THEOREM StaysTogether ==
  ASSUME Printable
  PROVE  Spec => []OutputTogether
PROOF
  <1>1. IInv => OutputTogether
    BY DEF IInv
  <1> QED
    BY <1>1, Invariance, PTL

\* No increment of write_cnt is lost, for any number of threads and calls.
THEOREM AllCounted ==
  ASSUME Printable
  PROVE  Spec => []EveryCharacterCounted
PROOF
  <1>1. IInv => EveryCharacterCounted
    BY DEF IInv, CountInv, EveryCharacterCounted
  <1> QED
    BY <1>1, Invariance, PTL
=============================================================================
