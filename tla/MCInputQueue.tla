---------------------------- MODULE MCInputQueue ----------------------------
(* Small instances of InputQueue: three readers for safety, two for        *)
(* liveness, a ring of a few slots so that it wraps and fills.             *)
EXTENDS InputQueue, TLC

Symmetry == Permutations(Threads)
=============================================================================
