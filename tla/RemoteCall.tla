----------------------------- MODULE RemoteCall -----------------------------
(***************************************************************************)
(* What host functions promise, however many callers and dispatchers share *)
(* a function and whichever of them are killed: a call runs at most once,  *)
(* as the function it was made of; a response is that of a call which has  *)
(* run, and is taken at most once.  Calls and responses may get lost.      *)
(***************************************************************************)
EXTENDS Sequences

CONSTANTS
  Callers, Functions,
  Requests,     \* calls: a caller and a number each
  Target,       \* the function each caller is linked to
  None          \* no answer yet

VARIABLES
  made,         \* the calls that were ever made
  waiting,      \* those that may still run
  executed,     \* for each function, the calls that have run, in order
  ready,        \* calls that have run and whose response may still be taken
  answer        \* the call whose response each caller took last

vars == <<made, waiting, executed, ready, answer>>

Of(r) == Target[r[1]]

Init ==
  /\ made = {} /\ waiting = {} /\ ready = {}
  /\ executed = [f \in Functions |-> <<>>]
  /\ answer = [c \in Callers |-> None]

Make(r) ==
  /\ r \notin made
  /\ made' = made \cup {r}
  /\ waiting' = waiting \cup {r}
  /\ UNCHANGED <<executed, ready, answer>>

\* A function that returns nothing has no response.
Run(r) ==
  /\ r \in waiting
  /\ waiting' = waiting \ {r}
  /\ executed' = [executed EXCEPT ![Of(r)] = Append(@, r)]
  /\ ready' \in {ready, ready \cup {r}}
  /\ UNCHANGED <<made, answer>>

Take(c, r) ==
  /\ r \in ready /\ Of(r) = Target[c]
  /\ ready' = ready \ {r}
  /\ answer' = [answer EXCEPT ![c] = r]
  /\ UNCHANGED <<made, waiting, executed>>

Lose ==
  /\ waiting' \subseteq waiting /\ ready' \subseteq ready
  /\ UNCHANGED <<made, executed, answer>>

Next ==
  \/ \E r \in Requests : Make(r) \/ Run(r)
  \/ \E c \in Callers, r \in Requests : Take(c, r)
  \/ Lose

Spec == Init /\ [][Next]_vars
=============================================================================
