------------------------- MODULE PythonFunctionProofs -------------------------
(***************************************************************************)
(* Host functions used from Python do what those of C may do, at fewer     *)
(* moments: whatever holds of HostFunction in every state and every step   *)
(* holds here.  What the interpreter lock takes away is progress, which    *)
(* only the runs are about.                                                *)
(***************************************************************************)
EXTENDS PythonFunction, HostFunctionResponses

LEMMA CallerOfPython ==
  ASSUME NEW c \in Callers,
         PyLink(c) \/ PyUnlink(c) \/ PyBeginCall(c) \/ PyBeginGet(c) \/ PyReturn(c)
  PROVE  Next
BY DEF PyLink, PyUnlink, PyBeginCall, PyBeginGet, PyReturn, WithGil, Next

LEMMA OwnerOfPython ==
  ASSUME NEW d \in Dispatchers,
         PyCreate(d) \/ PyDelete(d) \/ PyDeleted(d) \/ \E f \in Functions : PyAttach(d, f)
  PROVE  Next
<1>1. OwnerStep(d)
  BY DEF PyCreate, PyDelete, PyDeleted, PyAttach, WithGil, OwnerStep
<1>2. QED
  BY <1>1 DEF Next

LEMMA ThreadOfPython ==
  ASSUME NEW d \in Dispatchers, PyThreadStep(d)
  PROVE  Next
<1>1. ThreadStep(d)
  BY DEF PyThreadStep, PyCallback, PyCallbackRaises, WithGil, ThreadStep
<1>2. QED
  BY <1>1 DEF Next

\* The interpreter lock lets fewer steps happen, and no other ones: the bindings use
\* the C functions, and the callback answers or does not, as a C function may.
THEOREM PythonIsHostFunction == PySpec => Spec
<1>1. [PyNext]_vars => [Next]_vars
  <2> SUFFICES ASSUME PyNext PROVE Next
    OBVIOUS
  <2>1. CASE \E c \in Callers :
               PyLink(c) \/ PyUnlink(c) \/ PyBeginCall(c) \/ PyBeginGet(c) \/ PyReturn(c)
    BY <2>1, CallerOfPython
  <2>2. CASE \E d \in Dispatchers :
               \/ PyCreate(d) \/ PyDelete(d) \/ PyDeleted(d) \/ PyThreadStep(d)
               \/ \E f \in Functions : PyAttach(d, f)
    BY <2>2, OwnerOfPython, ThreadOfPython
  <2>3. QED
    BY <2>1, <2>2 DEF PyNext
<1>2. QED
  BY <1>1, PTL DEF PySpec, Spec

\* The responses that a Python caller takes are off by the calls lost and the calls
\* abandoned, and by nothing else: by one for each callback that raises, and for each
\* response that was due when an instance was collected.
THEOREM PyResponsesDrift ==
  ASSUME OneCaller PROVE PySpec /\ []Exclusive => []ResponseDrift
BY PythonIsHostFunction, ResponsesDrift, PTL

\* A request runs the function at most once, also when the callback raises, and
\* nobody takes a response that another has taken.
THEOREM PyImplementsRemoteCall == PySpec => AtMostOnce
BY PythonIsHostFunction, ImplementsRemoteCall, PTL
=============================================================================
