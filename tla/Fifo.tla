-------------------------------- MODULE Fifo --------------------------------
(***************************************************************************)
(* What the keyboard input queue promises its readers: a bounded           *)
(* first-in first-out queue.  A key is put at the back while there is      *)
(* room, and each reader's get removes the front item and returns it.      *)
(***************************************************************************)
EXTENDS Naturals, Sequences

CONSTANTS Readers,   \* the callers of get
          Items,     \* what can be queued
          Capacity,  \* how many items fit
          Initial    \* what a reader holds before its first get

VARIABLES q,         \* the queued items, oldest first
          last       \* the item each reader's latest get returned

vars == <<q, last>>

Init == /\ q = << >>
        /\ last = [r \in Readers |-> Initial]

Put(c) == /\ Len(q) < Capacity
          /\ q' = Append(q, c)
          /\ UNCHANGED last

Get(r) == /\ q # << >>
          /\ q' = Tail(q)
          /\ last' = [last EXCEPT ![r] = Head(q)]

Next == \/ \E c \in Items : Put(c)
        \/ \E r \in Readers : Get(r)

Spec == Init /\ [][Next]_vars
=============================================================================
