--------------------------- MODULE MCHostVariable ---------------------------
(* TLC instances of HostVariable. *)
EXTENDS HostVariable, TLC

Symmetry ==
  Permutations(Writers) \cup Permutations(Readers) \cup Permutations(Words)
=============================================================================
