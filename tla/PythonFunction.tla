--------------------------- MODULE PythonFunction ---------------------------
(***************************************************************************)
(* Host functions used from Python: src/src/python_bindings.cpp and        *)
(* src/src/robot_ipc/robot_ipc.py over the C functions of HostFunction.     *)
(*                                                                         *)
(* No binding gives the interpreter lock (GIL) up: a C call has it from its *)
(* first to its last step, also while it waits in a FIFO.  The thread of a *)
(* dispatcher is not a Python thread and takes the lock for each callback. *)
(***************************************************************************)
EXTENDS HostFunction

CONSTANT Home     \* the interpreter that each caller and dispatcher lives in

ASSUME PythonFunctionAssumption == DOMAIN Home = Callers \cup Dispatchers

-----------------------------------------------------------------------------
\* Between two C calls the interpreter passes the lock around; inside one it
\* stays with the caller, or with the owner of a dispatcher that is deleted.
GilHeld(i) ==
  \/ \E c \in Callers : Home[c] = i /\ cpc[c] \in {"calling", "getting"}
  \/ \E d \in Dispatchers : Home[d] = i /\ main[d] = "deleting"

WithGil(x, Action) == Action /\ ~GilHeld(Home[x])

\* PyHostFunctionCaller, and the class around it in robot_ipc.py.  Arguments
\* that do not fit raise before the C function is called.  The handle goes when
\* the instance is collected, whatever it is owed.
PyLink(c)      == WithGil(c, Link(c))
PyUnlink(c)    == WithGil(c, Unlink(c))
PyBeginCall(c) == WithGil(c, BeginCall(c))
PyBeginGet(c)  == WithGil(c, BeginGet(c))
PyReturn(c)    == CallerStep(c)

\* PyHostFunctionDispatcher; its destructor runs when the instance is collected.
PyCreate(d)    == WithGil(d, Create(d) \/ CreateFails(d))
PyAttach(d, f) == WithGil(d, Attach(d, f))
PyDelete(d)    == WithGil(d, Delete(d))
PyDeleted(d)   == Free(d)

\* Slip: the result of the call before is still in the buffer, and returned.
PyCallbackStale(d) == WithGil(d, ExecuteStale(d))

\* dispatcher_callback: gil_scoped_acquire, the Python function, and its result.
PyCallback(d) == WithGil(d, Execute(d))

\* The function raises, or returns None or a result that does not fit: the
\* exception is printed and nullptr returned, though a response may be owed.
PyCallbackRaises(d) == WithGil(d, ExecuteUnanswered(d))

\* The rest of the thread's loop is C and needs no lock.
PyThreadStep(d) ==
  \/ PyCallback(d)
  \/ PyCallbackRaises(d)
  \/ EpollWait(d) \/ BatchDone(d) \/ ReadControl(d) \/ Acknowledge(d)
  \/ ReadRequest(d) \/ UseFreed(d) \/ Respond(d)

PyNext ==
  \/ \E c \in Callers :
       PyLink(c) \/ PyUnlink(c) \/ PyBeginCall(c) \/ PyBeginGet(c) \/ PyReturn(c)
  \/ \E d \in Dispatchers :
       \/ PyCreate(d) \/ PyDelete(d) \/ PyDeleted(d) \/ PyThreadStep(d)
       \/ \E f \in Functions : PyAttach(d, f)

PySpec == Init /\ [][PyNext]_vars

\* As in HostFunction: threads run, and responses that are owed are fetched.
PyFairSpec ==
  /\ PySpec
  /\ \A c \in Callers : WF_vars(PyReturn(c) \/ PyBeginGet(c))
  /\ \A d \in Dispatchers : WF_vars(PyThreadStep(d)) /\ WF_vars(PyDeleted(d))

-----------------------------------------------------------------------------
(* Properties *)

\* The lock of i is with somebody who waits: for a response, for room for a call,
\* or for the thread of a dispatcher to acknowledge its end.
LockWaits(i) ==
  \/ \E c \in Callers :
       Home[c] = i /\ (Blocked(c) \/ (cpc[c] = "getting" /\ res[Target[c]] = <<>>))
  \/ \E d \in Dispatchers : Home[d] = i /\ main[d] = "deleting" /\ ~fromDaemon[d]

\* d writes a response that nobody can fetch: a caller that would has no lock.
PyClogged(d) ==
  LET users == {c \in Callers : Target[c] = Head(batch[d])}
  IN  /\ dpc[d] = "respond"
      /\ Len(res[Head(batch[d])]) = Capacity
      /\ \A c \in users : owed[c] = <<>> \/ Blocked(c) \/ LockWaits(Home[c])
      /\ \E c \in users : LockWaits(Home[c])

\* d is stuck, alone or because the lock that it or a caller needs is with
\* somebody who waits.
PyStuck(d) ==
  Clogged(d) \/ PyClogged(d) \/ Starved(d) \/ (dpc[d] = "execute" /\ LockWaits(Home[d]))

\* The caller that holds the lock of i and waits for a response; there is one at most.
Fetching(i) == {c \in Callers : Home[c] = i /\ cpc[c] = "getting"}

\* ".get_response(): Wait for the response and return it": it does, and the
\* interpreter goes on, while a dispatcher serves the function, unless all that could
\* come were lost, or the dispatcher waits for the lock, or for a caller that does.
PyResponseComes ==
  \A i \in {Home[c] : c \in Callers}, d \in Dispatchers :
    Fetching(i) # {} ~>
      \A c \in Fetching(i) : Forsaken(c) \/ (Serves(d, Target[c]) => PyStuck(d))

\* The destructor of a dispatcher returns, unless the thread it waits for is stuck:
\* among others, when that waits for the interpreter lock the destructor holds.
DeleteEndsOrDeadlocks ==
  \A d \in Dispatchers :
    main[d] = "deleting" ~> main[d] = "freed" \/ (main[d] = "deleting" /\ PyStuck(d))
=============================================================================
