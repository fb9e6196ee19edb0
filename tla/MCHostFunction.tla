--------------------------- MODULE MCHostFunction ---------------------------
(* TLC instances of HostFunction. *)
EXTENDS HostFunction

CONSTANTS c1, c2, move, stop

\* Each caller has a function of its own.
OwnFunctions == c1 :> move @@ c2 :> stop
\* Both callers are linked to the same name.
SameFunction == c1 :> move @@ c2 :> move
\* There is one caller.
OneFunction == c1 :> move
=============================================================================
