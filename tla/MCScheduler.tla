---------------------------- MODULE MCScheduler ----------------------------
(* Three threads, an even tick, and runtimes of few bits.                  *)
EXTENDS Scheduler, TLC

Symmetry == Permutations(Threads)
=============================================================================
