------------------------- MODULE MCHostVariableLink -------------------------
(* TLC instances of HostVariableLink. *)
EXTENDS HostVariableLink, TLC
=============================================================================
