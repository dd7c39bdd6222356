------------------------------ MODULE Console ------------------------------
(***************************************************************************)
(* The console, libc/kernel/console.c, written to by several threads.  A   *)
(* thread prints from a system call with interrupts enabled and may be     *)
(* preempted with the console lock held; the others then spin.             *)
(*                                                                         *)
(* What a call prints is a sequence of pieces, each printed under one hold *)
(* of the lock.  textPutc is module Text; here it leaves a trace.          *)
(***************************************************************************)
EXTENDS Integers, Sequences, SequencesExt, Functions

CONSTANTS
  Threads,
  Strings,    \* what is printed: sequences of characters
  MaxCalls    \* bound: the calls of all threads

VARIABLES
  spin,       \* the lock
  pc,         \* where each thread is
  todo,       \* the pieces it has still to print
  calls,      \* the calls it has made
  write_cnt,
  loaded,     \* what each thread has read for write_cnt++
  kprintf,    \* ghost: whether the call is a kprintf
  written     \* ghost: the characters with their calls, in the order printed

vars == <<spin, pc, todo, calls, write_cnt, loaded, kprintf, written>>

Init ==
  /\ spin = 0 /\ write_cnt = 0 /\ written = <<>>
  /\ pc = [t \in Threads |-> "out"] /\ todo = [t \in Threads |-> <<>>]
  /\ calls = [t \in Threads |-> 0] /\ loaded = [t \in Threads |-> 0]
  /\ kprintf = [t \in Threads |-> FALSE]

-----------------------------------------------------------------------------
(* The calls.                                                              *)

\* Mutant: the newline is printed by a call of its own.
consolePutsTwo(s) == <<s, <<"\n">>>>

consolePuts(s) == <<s \o <<"\n">>>>
consolePutbuf(s) == <<s>>
consolePutchar(s) == <<<<s[1]>>>>

\* kprintf: vkprintf_helper takes the lock for every character.
vkprintf(s) == [i \in 1 .. Len(s) |-> <<s[i]>>]

Call(t) ==
  /\ pc[t] = "out" /\ SumFunction(calls) < MaxCalls
  /\ calls' = [calls EXCEPT ![t] = @ + 1]
  /\ \E s \in Strings :
       \/ /\ kprintf' = [kprintf EXCEPT ![t] = FALSE]
          /\ \/ todo' = [todo EXCEPT ![t] = consolePuts(s)]
             \/ todo' = [todo EXCEPT ![t] = consolePutbuf(s)]
             \/ s # <<>> /\ todo' = [todo EXCEPT ![t] = consolePutchar(s)]
       \/ /\ kprintf' = [kprintf EXCEPT ![t] = TRUE]
          /\ todo' = [todo EXCEPT ![t] = vkprintf(s)]
  /\ pc' = [pc EXCEPT ![t] = "next"]
  /\ UNCHANGED <<spin, write_cnt, loaded, written>>

\* Mutant: the lock is tested and then taken.
consoleLockTest(t) ==
  \/ /\ pc[t] = "next" /\ todo[t] # <<>> /\ spin = 0
     /\ pc' = [pc EXCEPT ![t] = "take"]
     /\ UNCHANGED <<spin, todo, calls, write_cnt, loaded, written, kprintf>>
  \/ /\ pc[t] = "take"
     /\ spin' = 1 /\ pc' = [pc EXCEPT ![t] = "held"]
     /\ UNCHANGED <<todo, calls, write_cnt, loaded, written, kprintf>>

\* spinLock: xchg gets the lock when it was free.
consoleLock(t) ==
  /\ pc[t] = "next" /\ todo[t] # <<>> /\ spin = 0
  /\ spin' = 1
  /\ pc' = [pc EXCEPT ![t] = "held"]
  /\ UNCHANGED <<todo, calls, write_cnt, loaded, written, kprintf>>

\* consolePutcharLocked in two steps, write_cnt++ and textPutc.
Load(t) ==
  /\ pc[t] = "held" /\ Head(todo[t]) # <<>>
  /\ loaded' = [loaded EXCEPT ![t] = write_cnt]
  /\ pc' = [pc EXCEPT ![t] = "putc"]
  /\ UNCHANGED <<spin, todo, calls, write_cnt, written, kprintf>>

textPutc(t) ==
  /\ pc[t] = "putc"
  /\ write_cnt' = loaded[t] + 1
  /\ written' = Append(written, [call |-> <<t, calls[t]>>, kprintf |-> kprintf[t],
                                  char |-> Head(Head(todo[t]))])
  /\ todo' = [todo EXCEPT ![t][1] = Tail(@)]
  /\ pc' = [pc EXCEPT ![t] = "held"]
  /\ UNCHANGED <<spin, calls, loaded, kprintf>>

\* Mutant: an empty piece returns with the lock held.
consoleUnlockSome(t) ==
  /\ pc[t] = "held" /\ Head(todo[t]) = <<>>
  /\ spin' = IF written # <<>> /\ Last(written).call = <<t, calls[t]>> THEN 0 ELSE spin
  /\ todo' = [todo EXCEPT ![t] = Tail(@)]
  /\ pc' = [pc EXCEPT ![t] = "next"]
  /\ UNCHANGED <<calls, write_cnt, loaded, written, kprintf>>

consoleUnlock(t) ==
  /\ pc[t] = "held" /\ Head(todo[t]) = <<>>
  /\ spin' = 0
  /\ todo' = [todo EXCEPT ![t] = Tail(@)]
  /\ pc' = [pc EXCEPT ![t] = "next"]
  /\ UNCHANGED <<calls, write_cnt, loaded, written, kprintf>>

Return(t) ==
  /\ pc[t] = "next" /\ todo[t] = <<>>
  /\ pc' = [pc EXCEPT ![t] = "out"]
  /\ UNCHANGED <<spin, todo, calls, write_cnt, loaded, written, kprintf>>

Step(t) == consoleLock(t) \/ Load(t) \/ textPutc(t) \/ consoleUnlock(t) \/ Return(t)

Next == \E t \in Threads : Call(t) \/ Step(t)

\* Every thread that is in a call gets the processor again (MCSchedulerFair).
Spec == Init /\ [][Next]_vars /\ \A t \in Threads : WF_vars(Step(t))

-----------------------------------------------------------------------------
(* Properties.                                                             *)

\* What one consolePuts, newline included, or one consolePutbuf (sys_print)
\* prints stays together: no character of another call comes between.
OutputTogether ==
  \A i, j \in DOMAIN written :
    i < j /\ written[i].call = written[j].call /\ ~written[i].kprintf =>
      \A k \in i .. j : written[k].call = written[i].call

\* No increment of write_cnt is lost: consolePrintStats prints the number of
\* characters that were output.
EveryCharacterCounted == spin = 0 => write_cnt = Len(written)

\* Every call returns, although its thread may find the lock taken each time
\* it looks and may be preempted while it holds it.
CallsReturn == \A t \in Threads : pc[t] # "out" ~> pc[t] = "out"
=============================================================================
