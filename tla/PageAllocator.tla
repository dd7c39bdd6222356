---------------------------- MODULE PageAllocator ----------------------------
(***************************************************************************)
(* What a physical page allocator promises its callers: the pages it hands *)
(* out are a run of free pages, they stay out of its hands until they are  *)
(* freed, and a single page is refused only when none is left.             *)
(***************************************************************************)
EXTENDS Naturals

CONSTANTS Usable,   \* the pages the firmware declares usable
          MaxRun,   \* no run is longer
          NULL      \* what a refused request returns

VARIABLES up,       \* the allocator is set up
          avail,    \* the free pages
          ret       \* the first page of the latest grant, or NULL

vars == <<up, avail, ret>>

Run(p, n) == p .. p + n - 1

Init == up = FALSE /\ avail = {} /\ ret = NULL

\* The allocator is set up, once, with all usable pages.
Boot ==
  /\ ~up
  /\ up' = TRUE
  /\ avail' = Usable
  /\ UNCHANGED ret

Grant(n) ==
  /\ up
  /\ \E p \in avail :
       /\ Run(p, n) \subseteq avail
       /\ avail' = avail \ Run(p, n)
       /\ ret' = p
  /\ UNCHANGED up

Refuse(n) ==
  /\ up
  /\ n # 1 \/ avail = {}
  /\ ret' = NULL
  /\ UNCHANGED <<up, avail>>

\* The caller gives pages back that it was granted.
Release(p, n) ==
  /\ up
  /\ Run(p, n) \subseteq Usable \ avail
  /\ avail' = avail \union Run(p, n)
  /\ UNCHANGED <<up, ret>>

Next ==
  \/ Boot
  \/ \E n \in 1 .. MaxRun : Grant(n)
  \/ \E n \in 0 .. MaxRun + 1 : Refuse(n)
  \/ \E p \in Usable, n \in 1 .. MaxRun : Release(p, n)

Spec == Init /\ [][Next]_vars
=============================================================================
