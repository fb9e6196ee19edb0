----------------------------- MODULE SignalGuard -----------------------------
(***************************************************************************)
(* The interrupt guard of debug builds (#ifndef NDEBUG in                  *)
(* src/src/host_variable.c): link_host_variable wraps the handler of       *)
(* SIGINT, and reads and writes raise a flag that makes the wrapper drop   *)
(* interrupts, so that no process dies with a buffer locked.  Flag and     *)
(* saved handler belong to the process; its threads share them.            *)
(***************************************************************************)
EXTENDS Naturals, FiniteSets

CONSTANTS
  Threads,     \* threads of the process
  MaxLinks     \* bound: calls of link_host_variable

ASSUME SignalGuardAssumption == Threads # {} /\ MaxLinks \in Nat

VARIABLES
  own,         \* the application's handler when the library is first used
  handler,     \* disposition of SIGINT
  nextHandler, \* _host_variable_next_handler
  shouldWait,  \* _host_variable_should_wait
  links,       \* calls of link_host_variable so far
  pc,          \* where each thread is in its call
  ret,         \* how its last call ended
  fate         \* what became of the last interrupt

vars == <<own, handler, nextHandler, shouldWait, links, pc, ret, fate>>

-----------------------------------------------------------------------------
OwnHandlers == {"SIG_DFL", "SIG_IGN", "custom"}
Alive == fate \notin {"killed", "recursion"}
InCall(t) == pc[t] \notin {"idle", "linking"}

At(t, label) == Alive /\ pc[t] = label
Goto(t, label) == pc' = [pc EXCEPT ![t] = label]
Return(t, code) == Goto(t, "idle") /\ ret' = [ret EXCEPT ![t] = code]

Init ==
  /\ own \in OwnHandlers
  /\ handler = own
  /\ nextHandler = "SIG_DFL"
  /\ shouldWait = 0
  /\ links = 0
  /\ pc = [t \in Threads |-> "idle"]
  /\ ret = [t \in Threads |-> "none"]
  /\ fate = "none"

-----------------------------------------------------------------------------
\* Slip: the saved handler is not taken from the system.
SaveHandlerUnread(t) ==
  /\ At(t, "idle")
  /\ links < MaxLinks
  /\ links' = links + 1
  /\ Goto(t, "linking")
  /\ UNCHANGED <<own, handler, nextHandler, shouldWait, ret, fate>>

\* _set_handler_wrap: save the present handler ...
SaveHandler(t) ==
  /\ At(t, "idle")
  /\ links < MaxLinks
  /\ links' = links + 1
  /\ nextHandler' = handler
  /\ Goto(t, "linking")
  /\ UNCHANGED <<own, handler, shouldWait, ret, fate>>

\* ... and put the wrapper in its place.
InstallWrapper(t) ==
  /\ At(t, "linking")
  /\ handler' = "wrapper"
  /\ Goto(t, "idle")
  /\ UNCHANGED <<own, nextHandler, shouldWait, links, ret, fate>>

-----------------------------------------------------------------------------
(* read_host_variable and write_host_variable, as far as the guard matters *)

Untouched == UNCHANGED <<own, handler, nextHandler, links, fate>>

\* Slip: the flag is a counter, and yet it is put back to 0.
RaiseGuardCounting(t, n, label) ==
  /\ At(t, "idle")
  /\ handler = "wrapper"
  /\ shouldWait' = shouldWait + 1
  /\ ret' = [ret EXCEPT ![t] = "none"]
  /\ Goto(t, label)
  /\ Untouched

\* The handle comes from a link that has returned: the wrapper is in place.
RaiseGuard(t, n, label) ==
  /\ At(t, "idle")
  /\ handler = "wrapper"
  /\ shouldWait' = n
  /\ ret' = [ret EXCEPT ![t] = "none"]
  /\ Goto(t, label)
  /\ Untouched

\* Slip: a read does not raise the guard.
ReadBeginUnguarded(t) == RaiseGuard(t, 0, "r_acquire")

ReadBegin(t)  == RaiseGuard(t, 1, "r_acquire")
WriteBegin(t) == RaiseGuard(t, 2, "w_acquire")

\* From here on the thread holds a lock in the shared flags.
Acquire(t) ==
  /\ \/ At(t, "r_acquire") /\ Goto(t, "r_copy")
     \/ At(t, "w_acquire") /\ Goto(t, "w_copy")
  /\ UNCHANGED <<shouldWait, ret>>
  /\ Untouched

\* The early returns leave the guard up: no buffer, or a full count ...
Refused(t) ==
  /\ At(t, "r_acquire") \/ At(t, "w_acquire")
  /\ Return(t, "refused")
  /\ UNCHANGED shouldWait
  /\ Untouched

\* ... or a later value has been published; the lock is given back.
Superseded(t) ==
  /\ At(t, "w_copy")
  /\ Return(t, "superseded")
  /\ UNCHANGED shouldWait
  /\ Untouched

\* The guard comes down before the lock is released.
ReadLowerGuard(t) ==
  /\ At(t, "r_copy")
  /\ shouldWait' = 0
  /\ Goto(t, "r_release")
  /\ UNCHANGED ret
  /\ Untouched

ReadRelease(t) ==
  /\ At(t, "r_release")
  /\ Return(t, "ok")
  /\ UNCHANGED shouldWait
  /\ Untouched

Publish(t) ==
  /\ At(t, "w_copy")
  /\ Goto(t, "w_done")
  /\ UNCHANGED <<shouldWait, ret>>
  /\ Untouched

\* Slip: the guard is left up.
WriteKeepsGuard(t) ==
  /\ At(t, "w_done")
  /\ Return(t, "ok")
  /\ UNCHANGED shouldWait
  /\ Untouched

WriteLowerGuard(t) ==
  /\ At(t, "w_done")
  /\ shouldWait' = 0
  /\ Return(t, "ok")
  /\ Untouched

-----------------------------------------------------------------------------
\* What a handler other than the wrapper makes of an interrupt; the wrapper
\* exits where the system would have killed.
Effect(h) == CASE h = "SIG_DFL" -> "killed" [] h = "SIG_IGN" -> "ignored" [] h = "custom" -> "custom"

\* An interrupt arrives, at any moment.  A wrapper that has saved itself calls
\* itself without end: the process hangs or runs out of stack.
Interrupt ==
  /\ Alive
  /\ fate' = IF handler # "wrapper" THEN Effect(handler)
             ELSE IF shouldWait # 0 THEN "dropped"
             ELSE IF nextHandler = "wrapper" THEN "recursion"
             ELSE Effect(nextHandler)
  /\ UNCHANGED <<own, handler, nextHandler, shouldWait, links, pc, ret>>

CallStep(t) ==
  \/ ReadBegin(t) \/ WriteBegin(t) \/ Acquire(t) \/ Refused(t) \/ Superseded(t)
  \/ ReadLowerGuard(t) \/ ReadRelease(t) \/ Publish(t) \/ WriteLowerGuard(t)

Next ==
  \/ \E t \in Threads : SaveHandler(t) \/ InstallWrapper(t) \/ CallStep(t)
  \/ Interrupt

Spec == Init /\ [][Next]_vars

-----------------------------------------------------------------------------
(* Properties *)

\* Every variable has its type.
TypeOK ==
  /\ own \in OwnHandlers
  /\ handler \in OwnHandlers \cup {"wrapper"} /\ nextHandler \in OwnHandlers \cup {"wrapper"}
  /\ shouldWait \in 0..2
  /\ links \in 0..MaxLinks
  /\ pc \in [Threads -> {"idle", "linking", "r_acquire", "r_copy", "r_release",
                         "w_acquire", "w_copy", "w_done"}]
  /\ ret \in [Threads -> {"none", "ok", "refused", "superseded"}]
  /\ fate \in {"none", "dropped", "killed", "ignored", "custom", "recursion"}

\* "the ctrl-C signal is disabled before locking and enabled after releasing the
\* lock": nobody is killed with a buffer locked.
NotKilledLocked ==
  ~Alive => \A t \in Threads : pc[t] \notin {"r_copy", "r_release", "w_copy"}

\* What the guard does give: a thread is killed in the middle of a copy only if
\* another thread of the process has lowered the flag they share; a process
\* with one thread never is.
GuardLoweredByOther ==
  ~Alive => \A t \in Threads : pc[t] \in {"r_copy", "w_copy"} =>
    \E u \in Threads \ {t} : pc[u] = "r_release" \/ ret[u] = "ok"

\* A process that is outside all calls hears interrupts, unless the last call
\* of one of its threads was refused or superseded.
DeafOnlyAfterFailure ==
  (\A t \in Threads : ~InCall(t)) /\ shouldWait # 0 =>
    \E t \in Threads : ret[t] \in {"refused", "superseded"}

\* With one link, the application's own handler decides what becomes of an
\* interrupt that is not dropped; only a second link can bring the process down.
OwnHandlerDecides ==
  /\ fate \in {"killed", "ignored", "custom"} => fate = Effect(own)
  /\ fate = "recursion" => links > 1
=============================================================================
