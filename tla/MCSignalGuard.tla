---------------------------- MODULE MCSignalGuard ----------------------------
(* TLC instances of SignalGuard. *)
EXTENDS SignalGuard, TLC

Symmetry == Permutations(Threads)
=============================================================================
