-------------------------- MODULE MCPythonFunction --------------------------
(* TLC instances of PythonFunction. *)
EXTENDS PythonFunction

CONSTANTS c1, c2, d1, move, stop

OwnFunctions == c1 :> move @@ c2 :> stop
\* Both callers are threads of one interpreter, the dispatcher has another.
TwoInterpreters == c1 :> 1 @@ c2 :> 1 @@ d1 :> 2
=============================================================================
