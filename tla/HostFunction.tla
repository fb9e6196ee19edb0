---------------------------- MODULE HostFunction ----------------------------
(***************************************************************************)
(* Host functions: src/src/host_function_caller.c and                      *)
(* src/src/host_function_receiver.c.  A function is known by a name, and   *)
(* the name by two FIFOs: callers write requests to one and read responses *)
(* from the other.  A dispatcher is a thread that waits with epoll for     *)
(* requests of the functions attached to it and runs them one at a time.   *)
(*                                                                         *)
(* A record is at most PIPE_BUF bytes, and caller and dispatcher agree on  *)
(* its size, so a FIFO moves whole records.  One action per system call,   *)
(* enabled when the call would not block.                                  *)
(***************************************************************************)
EXTENDS Naturals, FiniteSets, FiniteSetsExt, SequencesExt

CONSTANTS
  Callers,           \* host_function_caller handles, one thread each
  Dispatchers,       \* host_function_dispatcher handles
  Functions,         \* names of host functions
  Target,            \* the function each caller is linked to
  Silent,            \* functions that always return NULL or have sz_ret = 0
  Mortal,            \* bound: callers and dispatchers whose process may be killed
  Faulty,            \* dispatchers whose creation may run out of memory
  Capacity,          \* records a FIFO holds before a write blocks
  MAX_EPOLL_EVENTS,  \* 16 in config.h
  MaxCalls,          \* bound: calls each caller makes
  Control,           \* the event of the control pipe, id (uint64_t)(-1)
  None

ASSUME HostFunctionAssumption ==
  /\ IsFiniteSet(Functions) /\ Control \notin Functions
  /\ Callers \cap Dispatchers = {}
  /\ Target \in [Callers -> Functions]
  /\ Capacity \in Nat \ {0} /\ MAX_EPOLL_EVENTS \in Nat \ {0}
  /\ MaxCalls \in Nat
  /\ None \notin Callers \X Nat
  /\ None \notin (Callers \X Nat) \X (Callers \X Nat)

VARIABLES
  req, res,      \* content of the request and the response FIFO of a function
  cpc,           \* what a caller is doing
  calls,         \* calls a caller has begun
  owed,          \* calls a caller has had no response for, oldest first
  answer,        \* the call that the last response was taken for, and the
                 \*   call it was the response of
  main,          \* what the owner of a dispatcher has done with it
  attached,      \* functions attached to a dispatcher
  toDaemon,      \* a command is in the control pipe
  fromDaemon,    \* the acknowledgement is in its pipe
  dpc,           \* what a dispatcher thread is doing
  batch,         \* events of the last epoll_wait not handled yet
  hand,          \* the request being executed
  shouldExit,
  executed,      \* history: requests each function has run, in order
  lost,          \* history: calls that no response can come of any more
  abandoned,     \* history: calls whose caller gave up the handle it made them
                 \*   with before it took a response for them
  crashed        \* history: callers and dispatchers that were killed before

pipes == <<req, res>>
caller == <<cpc, calls, owed, answer>>
fates == <<lost, abandoned, crashed>>
owner == <<main, attached>>
control == <<toDaemon, fromDaemon>>
thread == <<dpc, batch, hand, shouldExit, executed>>
vars == <<pipes, caller, owner, control, thread, fates>>

-----------------------------------------------------------------------------
Requests == Callers \X (1..MaxCalls)

\* Every handle opens its FIFOs O_RDWR: nobody ever sees end-of-file.
Holders(f) ==
  {c \in Callers : cpc[c] # "unlinked" /\ Target[c] = f} \cup
  {d \in Dispatchers : main[d] \in {"running", "deleting"} /\ f \in attached[d]}

\* What x is the last to hold open is discarded when x closes the FIFOs of F.
LastOpen(x, F) == {f \in F : Holders(f) \subseteq {x}}
Discarded(x, F) == UNION {Range(req[f]) \cup Range(res[f]) : f \in LastOpen(x, F)}

Close(x, F) ==
  LET kept(q) == [f \in Functions |-> IF f \in LastOpen(x, F) THEN <<>> ELSE q[f]]
  IN  req' = kept(req) /\ res' = kept(res)

Init ==
  /\ req = [f \in Functions |-> <<>>]
  /\ res = [f \in Functions |-> <<>>]
  /\ cpc = [c \in Callers |-> "unlinked"]
  /\ calls = [c \in Callers |-> 0]
  /\ owed = [c \in Callers |-> <<>>]
  /\ answer = [c \in Callers |-> None]
  /\ main = [d \in Dispatchers |-> "none"]
  /\ attached = [d \in Dispatchers |-> {}]
  /\ toDaemon = [d \in Dispatchers |-> FALSE]
  /\ fromDaemon = [d \in Dispatchers |-> FALSE]
  /\ dpc = [d \in Dispatchers |-> "none"]
  /\ batch = [d \in Dispatchers |-> <<>>]
  /\ hand = [d \in Dispatchers |-> None]
  /\ shouldExit = [d \in Dispatchers |-> FALSE]
  /\ executed = [f \in Functions |-> <<>>]
  /\ lost = {} /\ abandoned = {} /\ crashed = {}

-----------------------------------------------------------------------------
(* host_function_caller.c *)

CallerGoto(c, label) == cpc' = [cpc EXCEPT ![c] = label]

\* link_host_function, when nothing fails.
Link(c) ==
  /\ cpc[c] = "unlinked"
  /\ CallerGoto(c, "idle")
  /\ UNCHANGED <<pipes, calls, owed, answer, owner, control, thread, fates>>

\* The call c has begun but not written.
Unsent(c) == IF cpc[c] = "calling" THEN {<<c, calls[c]>>} ELSE {}

\* A handle goes, whatever it is owed.
LetGo(c) ==
  /\ CallerGoto(c, "unlinked")
  /\ owed' = [owed EXCEPT ![c] = <<>>]
  /\ Close(c, {Target[c]})
  /\ lost' = lost \cup Discarded(c, {Target[c]}) \cup Unsent(c)
  /\ abandoned' = abandoned \cup {<<c, n>> : n \in Range(owed[c])} \cup Unsent(c)
  /\ UNCHANGED <<calls, answer, owner, control, thread>>

\* unlink_host_function.  It closes both FIFOs and asks for nothing first.
Unlink(c) ==
  /\ cpc[c] = "idle"
  /\ LetGo(c)
  /\ UNCHANGED crashed

\* Slip: the call has no number of its own.
BeginCallUncounted(c) ==
  /\ cpc[c] = "idle"
  /\ CallerGoto(c, "calling")
  /\ UNCHANGED <<pipes, calls, owed, answer, owner, control, thread, fates>>

\* call_host_function, up to the write.
BeginCall(c) ==
  /\ cpc[c] = "idle"
  /\ calls[c] < MaxCalls
  /\ calls' = [calls EXCEPT ![c] = @ + 1]
  /\ CallerGoto(c, "calling")
  /\ UNCHANGED <<pipes, owed, answer, owner, control, thread, fates>>

\* Slip: a complete write is taken for a short one and done again.
EndCallAgain(c) ==
  LET f == Target[c]
  IN  /\ cpc[c] = "calling"
      /\ Len(req[f]) < Capacity
      /\ req' = [req EXCEPT ![f] = Append(@, <<c, calls[c]>>)]
      /\ UNCHANGED <<res, cpc, calls, owed, answer, owner, control, thread, fates>>

\* The write of the request; it blocks while the FIFO is full.
EndCall(c) ==
  LET f == Target[c]
  IN  /\ cpc[c] = "calling"
      /\ Len(req[f]) < Capacity
      /\ req' = [req EXCEPT ![f] = Append(@, <<c, calls[c]>>)]
      /\ owed' = [owed EXCEPT ![c] = IF f \in Silent THEN @ ELSE Append(@, calls[c])]
      /\ CallerGoto(c, "idle")
      /\ UNCHANGED <<res, calls, answer, owner, control, thread, fates>>

\* get_response_host_function, up to the read; asked for once per call.
BeginGet(c) ==
  /\ cpc[c] = "idle"
  /\ owed[c] # <<>>
  /\ CallerGoto(c, "getting")
  /\ UNCHANGED <<pipes, calls, owed, answer, owner, control, thread, fates>>

\* Slip: the response FIFO is opened O_NONBLOCK, and an early get gives up.
EndGetNonblocking(c) ==
  LET f == Target[c]
  IN  /\ cpc[c] = "getting"
      /\ IF res[f] = <<>>
         THEN UNCHANGED <<answer, res>>
         ELSE /\ answer' = [answer EXCEPT ![c] = <<<<c, Head(owed[c])>>, Head(res[f])>>]
              /\ res' = [res EXCEPT ![f] = Tail(@)]
      /\ owed' = [owed EXCEPT ![c] = Tail(@)]
      /\ CallerGoto(c, "idle")
      /\ UNCHANGED <<req, calls, owner, control, thread, fates>>

\* The read takes the first response in the FIFO, whoever's it is.
EndGet(c) ==
  LET f == Target[c]
  IN  /\ cpc[c] = "getting"
      /\ res[f] # <<>>
      /\ answer' = [answer EXCEPT ![c] = <<<<c, Head(owed[c])>>, Head(res[f])>>]
      /\ res' = [res EXCEPT ![f] = Tail(@)]
      /\ owed' = [owed EXCEPT ![c] = Tail(@)]
      /\ CallerGoto(c, "idle")
      /\ UNCHANGED <<req, calls, owner, control, thread, fates>>

-----------------------------------------------------------------------------
(* host_function_receiver.c, the owner of a dispatcher *)

\* No thread uses d: there is none, or it has ended.
Over(d) == dpc[d] \in {"none", "exited", "faulted"}

\* A dispatcher may be created once the one that had the name d is gone.
Renew(d) ==
  /\ main[d] \in {"none", "freed"}
  /\ Over(d)
  /\ attached' = [attached EXCEPT ![d] = {}]
  /\ dpc' = [dpc EXCEPT ![d] = "wait"]
  /\ batch' = [batch EXCEPT ![d] = <<>>]
  /\ shouldExit' = [shouldExit EXCEPT ![d] = FALSE]
  /\ UNCHANGED <<pipes, caller, control, hand, executed, fates>>

\* create_host_function_dispatcher, when nothing fails.  The thread runs from
\* here on; start_host_function_dispatcher only detaches it, so that nobody
\* has to join it, and changes nothing that is modelled.
Create(d) ==
  /\ Renew(d)
  /\ main' = [main EXCEPT ![d] = "running"]

\* FAILED_MALLOC: p is freed, and nobody stops the thread that has p.
CreateFails(d) ==
  /\ d \in Faulty
  /\ Renew(d)
  /\ main' = [main EXCEPT ![d] = "freed"]

\* attach_host_function_ex, before or after start.  One that fails undoes what
\* it did and leaves no trace.
Attach(d, f) ==
  /\ main[d] = "running"
  /\ f \notin attached[d]
  /\ attached' = [attached EXCEPT ![d] = @ \cup {f}]
  /\ UNCHANGED <<pipes, caller, main, control, thread, fates>>

\* delete_host_function_dispatcher writes _DISPATCHER_EXIT ...
Delete(d) ==
  /\ main[d] = "running"
  /\ main' = [main EXCEPT ![d] = "deleting"]
  /\ toDaemon' = [toDaemon EXCEPT ![d] = TRUE]
  /\ UNCHANGED <<pipes, caller, attached, fromDaemon, thread, fates>>

\* ... reads the answer, closes every descriptor and frees p.
Free(d) ==
  /\ main[d] = "deleting"
  /\ fromDaemon[d]
  /\ fromDaemon' = [fromDaemon EXCEPT ![d] = FALSE]
  /\ main' = [main EXCEPT ![d] = "freed"]
  /\ Close(d, attached[d])
  /\ lost' = lost \cup Discarded(d, attached[d])
  /\ UNCHANGED <<caller, attached, toDaemon, thread, abandoned, crashed>>

-----------------------------------------------------------------------------
(* __host_function_dispatcher, the thread *)

ThreadGoto(d, label) == dpc' = [dpc EXCEPT ![d] = label]
DropEvent(d) == batch' = [batch EXCEPT ![d] = Tail(@)]

\* Level-triggered: a FIFO that still holds a request is ready again.
Ready(d) ==
  {f \in attached[d] : req[f] # <<>>} \cup (IF toDaemon[d] THEN {Control} ELSE {})

\* epoll_wait blocks until something is ready and reports it in any order.
EpollWait(d) ==
  /\ dpc[d] = "wait"
  /\ main[d] # "freed"
  /\ Ready(d) # {}
  /\ \E S \in kSubset(Min({MAX_EPOLL_EVENTS, Cardinality(Ready(d))}), Ready(d)) :
       \E events \in SetToSeqs(S) : batch' = [batch EXCEPT ![d] = events]
  /\ ThreadGoto(d, "next")
  /\ UNCHANGED <<pipes, caller, owner, control, hand, shouldExit, executed, fates>>

\* Slip: should_exit is forgotten, and the thread waits again.
BatchDoneWaits(d) ==
  /\ dpc[d] = "next"
  /\ batch[d] = <<>>
  /\ ThreadGoto(d, "wait")
  /\ UNCHANGED <<pipes, caller, owner, control, batch, hand, shouldExit, executed, fates>>

\* Slip: the condition of the loop is the wrong way round.
BatchDoneExits(d) ==
  /\ dpc[d] = "next"
  /\ batch[d] = <<>>
  /\ ThreadGoto(d, "exited")
  /\ UNCHANGED <<pipes, caller, owner, control, batch, hand, shouldExit, executed, fates>>

\* The end of the batch: the only place where should_exit is looked at.
BatchDone(d) ==
  /\ dpc[d] = "next"
  /\ batch[d] = <<>>
  /\ ThreadGoto(d, IF shouldExit[d] THEN "exited" ELSE "wait")
  /\ UNCHANGED <<pipes, caller, owner, control, batch, hand, shouldExit, executed, fates>>

\* Slip: the exit command leaves the switch before it is answered.
ReadControlUnanswered(d) ==
  /\ dpc[d] = "next"
  /\ batch[d] # <<>> /\ Head(batch[d]) = Control
  /\ toDaemon' = [toDaemon EXCEPT ![d] = FALSE]
  /\ shouldExit' = [shouldExit EXCEPT ![d] = TRUE]
  /\ DropEvent(d)
  /\ UNCHANGED <<pipes, caller, owner, fromDaemon, dpc, hand, executed, fates>>

\* The control pipe: should_exit is set, the batch goes on after the answer.
ReadControl(d) ==
  /\ dpc[d] = "next"
  /\ batch[d] # <<>> /\ Head(batch[d]) = Control
  /\ toDaemon' = [toDaemon EXCEPT ![d] = FALSE]
  /\ shouldExit' = [shouldExit EXCEPT ![d] = TRUE]
  /\ ThreadGoto(d, "acknowledge")
  /\ UNCHANGED <<pipes, caller, owner, fromDaemon, batch, hand, executed, fates>>

Acknowledge(d) ==
  /\ dpc[d] = "acknowledge"
  /\ fromDaemon' = [fromDaemon EXCEPT ![d] = TRUE]
  /\ DropEvent(d)
  /\ ThreadGoto(d, "next")
  /\ UNCHANGED <<pipes, caller, owner, toDaemon, hand, shouldExit, executed, fates>>

AtRequest(d) ==
  /\ dpc[d] = "next"
  /\ batch[d] # <<>> /\ Head(batch[d]) # Control

\* The read of the request; it blocks if another dispatcher took the record.  It
\* may succeed after Free: a read that waits outlives the close, and the number
\* of a closed descriptor goes to the next FIFO that is opened.
ReadRequest(d) ==
  LET f == Head(batch[d])
  IN  /\ AtRequest(d)
      /\ req[f] # <<>>
      /\ hand' = [hand EXCEPT ![d] = Head(req[f])]
      /\ req' = [req EXCEPT ![f] = Tail(@)]
      /\ ThreadGoto(d, "execute")
      /\ UNCHANGED <<res, caller, owner, control, batch, shouldExit, executed, fates>>

\* The steps of the thread that go through p.
Uses(d) == AtRequest(d) \/ dpc[d] \in {"wait", "execute", "respond"}

\* The request in the hand of d, if there is one.
InHandOf(d) == {hand[d]} \ {None}

\* p is gone.  If its memory still holds what it held, the thread goes on as
\* before; otherwise the access faults and takes the process down, or a call
\* on a closed descriptor fails: epoll_wait again, or the event skipped.
UseFreed(d) ==
  /\ main[d] = "freed"
  /\ Uses(d)
  /\ \/ ThreadGoto(d, "faulted") /\ UNCHANGED batch
     \/ dpc[d] # "wait" /\ DropEvent(d) /\ ThreadGoto(d, "next")
  /\ hand' = [hand EXCEPT ![d] = None]
  /\ lost' = lost \cup InHandOf(d)
  /\ UNCHANGED <<pipes, caller, owner, control, shouldExit, executed, abandoned, crashed>>

\* Slip: the function is not called.
ExecuteNothing(d) ==
  /\ dpc[d] = "execute"
  /\ ThreadGoto(d, "respond")
  /\ UNCHANGED <<pipes, caller, owner, control, batch, hand, shouldExit, executed, fates>>

\* The call of p->foo[id], which returns a result.
Execute(d) ==
  LET f == Head(batch[d])
  IN  /\ dpc[d] = "execute"
      /\ f \notin Silent
      /\ executed' = [executed EXCEPT ![f] = Append(@, hand[d])]
      /\ ThreadGoto(d, "respond")
      /\ UNCHANGED <<pipes, caller, owner, control, batch, hand, shouldExit, fates>>

\* Slip: the result of the call before is still in the buffer, and returned.
ExecuteStale(d) ==
  /\ dpc[d] = "execute"
  /\ executed' = [executed EXCEPT ![Head(batch[d])] = Append(@, hand[d])]
  /\ lost' = lost \cup {hand[d]}
  /\ ThreadGoto(d, "respond")
  /\ UNCHANGED <<pipes, caller, owner, control, batch, hand, shouldExit, abandoned, crashed>>

\* The call returns NULL, or sz_ret is 0, and nothing is written.  Only to the
\* caller of a function that answers is that a loss.
ExecuteUnanswered(d) ==
  LET f == Head(batch[d])
  IN  /\ dpc[d] = "execute"
      /\ executed' = [executed EXCEPT ![f] = Append(@, hand[d])]
      /\ hand' = [hand EXCEPT ![d] = None]
      /\ lost' = IF f \in Silent THEN lost ELSE lost \cup {hand[d]}
      /\ DropEvent(d)
      /\ ThreadGoto(d, "next")
      /\ UNCHANGED <<pipes, caller, owner, control, shouldExit, abandoned, crashed>>

\* Slip: the response FIFO is opened O_NONBLOCK, and a response is dropped
\* when it is full: "some error may ocurr, but I don't know what to do".
RespondNonblocking(d) ==
  LET f == Head(batch[d])
  IN  /\ dpc[d] = "respond"
      /\ res' = [res EXCEPT ![f] = IF Len(@) < Capacity THEN Append(@, hand[d]) ELSE @]
      /\ hand' = [hand EXCEPT ![d] = None]
      /\ DropEvent(d)
      /\ ThreadGoto(d, "next")
      /\ UNCHANGED <<req, caller, owner, control, shouldExit, executed, fates>>

\* Slip: a complete write of a response is tried again.
RespondAgain(d) ==
  LET f == Head(batch[d])
  IN  /\ dpc[d] = "respond"
      /\ Len(res[f]) < Capacity
      /\ res' = [res EXCEPT ![f] = Append(@, hand[d])]
      /\ UNCHANGED <<req, caller, owner, control, thread, fates>>

\* The write of the response; it blocks while the FIFO is full.
Respond(d) ==
  LET f == Head(batch[d])
  IN  /\ dpc[d] = "respond"
      /\ Len(res[f]) < Capacity
      /\ res' = [res EXCEPT ![f] = Append(@, hand[d])]
      /\ hand' = [hand EXCEPT ![d] = None]
      /\ DropEvent(d)
      /\ ThreadGoto(d, "next")
      /\ UNCHANGED <<req, caller, owner, control, shouldExit, executed, fates>>

-----------------------------------------------------------------------------
(* Processes are killed, at any moment, and started again.  Requests and    *)
(* responses stay in the FIFOs that somebody else has open.                 *)

CallerCrash(c) ==
  /\ c \in Mortal \ crashed
  /\ cpc[c] # "unlinked"
  /\ LetGo(c)
  /\ crashed' = crashed \cup {c}

DispatcherCrash(d) ==
  /\ d \in Mortal \ crashed
  /\ main[d] # "none"
  /\ main' = [main EXCEPT ![d] = "none"]
  /\ attached' = [attached EXCEPT ![d] = {}]
  /\ toDaemon' = [toDaemon EXCEPT ![d] = FALSE]
  /\ fromDaemon' = [fromDaemon EXCEPT ![d] = FALSE]
  /\ ThreadGoto(d, "none")
  /\ batch' = [batch EXCEPT ![d] = <<>>]
  /\ hand' = [hand EXCEPT ![d] = None]
  /\ shouldExit' = [shouldExit EXCEPT ![d] = FALSE]
  /\ LET F == IF main[d] = "freed" THEN {} ELSE attached[d]
     IN  Close(d, F) /\ lost' = lost \cup Discarded(d, F) \cup InHandOf(d)
  /\ crashed' = crashed \cup {d}
  /\ UNCHANGED <<caller, executed, abandoned>>

-----------------------------------------------------------------------------
CallerStep(c) == EndCall(c) \/ EndGet(c)

ThreadStep(d) ==
  \/ EpollWait(d) \/ BatchDone(d) \/ ReadControl(d) \/ Acknowledge(d)
  \/ ReadRequest(d) \/ UseFreed(d) \/ Execute(d) \/ ExecuteUnanswered(d) \/ Respond(d)

OwnerStep(d) ==
  \/ Create(d) \/ CreateFails(d) \/ Delete(d) \/ Free(d)
  \/ \E f \in Functions : Attach(d, f)

Next ==
  \/ \E c \in Callers :
       Link(c) \/ Unlink(c) \/ BeginCall(c) \/ BeginGet(c) \/ CallerStep(c) \/ CallerCrash(c)
  \/ \E d \in Dispatchers : OwnerStep(d) \/ ThreadStep(d) \/ DispatcherCrash(d)

Spec == Init /\ [][Next]_vars

\* Threads keep being scheduled, and a caller fetches the responses it is owed
\* ("remember to get_response() or the tunnel stuck after the buffer is full").
\* Nobody has to link, call, create, start or delete.
FairSpec ==
  /\ Spec
  /\ \A c \in Callers : WF_vars(CallerStep(c) \/ BeginGet(c))
  /\ \A d \in Dispatchers : WF_vars(ThreadStep(d)) /\ WF_vars(Free(d))

-----------------------------------------------------------------------------
(* Properties *)

\* Every variable has its type.
TypeOK ==
  /\ req \in [Functions -> Seq(Requests)] /\ res \in [Functions -> Seq(Requests)]
  /\ cpc \in [Callers -> {"unlinked", "idle", "calling", "getting"}]
  /\ calls \in [Callers -> 0..MaxCalls]
  /\ owed \in [Callers -> Seq(1..MaxCalls)]
  /\ answer \in [Callers -> (Requests \X Requests) \cup {None}]
  /\ main \in [Dispatchers -> {"none", "running", "deleting", "freed"}]
  /\ attached \in [Dispatchers -> SUBSET Functions]
  /\ toDaemon \in [Dispatchers -> BOOLEAN] /\ fromDaemon \in [Dispatchers -> BOOLEAN]
  /\ dpc \in [Dispatchers -> {"none", "wait", "next", "acknowledge", "execute", "respond",
                              "exited", "faulted"}]
  /\ batch \in [Dispatchers -> Seq(Functions \cup {Control})]
  /\ hand \in [Dispatchers -> Requests \cup {None}]
  /\ shouldExit \in [Dispatchers -> BOOLEAN]
  /\ executed \in [Functions -> Seq(Requests)]
  /\ lost \in SUBSET Requests /\ abandoned \in SUBSET Requests
  /\ crashed \in SUBSET (Callers \cup Dispatchers)

Of(S, c) == {r \in S : r[1] = c}

\* get_response "Retrieves the response from a previous call_host_function":
\* the response a caller takes for its oldest unanswered call is of that call,
\* as long as none of its calls was lost and it gave none up.
ResponseMatches ==
  \A c \in Callers : answer[c] # None /\ Of(lost \cup abandoned, c) = {} =>
    answer[c][1] = answer[c][2]

\* How many of the first n calls of c are not in S.
Rank(S, c, n) == Cardinality({k \in 1..n : <<c, k>> \notin S})

\* A lost response shifts all later ones one way, an abandoned one the other, and
\* nothing else does: the i-th response that a caller takes is that of the i-th call
\* it has not lost, and it takes it for the i-th call it has not abandoned, however
\* often it is killed or unlinked, and a dispatcher killed, deleted or replaced.
ResponseDrift ==
  \A c \in Callers : answer[c] # None =>
    LET for == answer[c][1]
        of  == answer[c][2]
    IN  of[1] = c /\ Rank(lost, c, of[2]) = Rank(abandoned, c, for[2])

\* Whoever is killed, the responses a caller takes are those of its calls, in
\* the order of the calls, and none comes twice.
ResponsesInOrder ==
  [][\A c \in Callers : answer'[c] # answer[c] =>
       /\ answer'[c][2][1] = c
       /\ answer[c] # None => answer[c][2][2] < answer'[c][2][2]]_vars

\* The calls of one caller run in the order it made them, each at most once.
ExecutedInOrder ==
  \A f \in Functions : \A i, j \in DOMAIN executed[f] :
    i < j /\ executed[f][i][1] = executed[f][j][1] => executed[f][i][2] < executed[f][j][2]

\* "wait for the sub process to exit": once the dispatcher is deleted, or its
\* creation has failed, its thread no longer goes near what was freed.
NoUseAfterFree == \A d \in Dispatchers : main[d] = "freed" => ~Uses(d)

\* What the users of host functions can tell of them.
Made == {r \in Requests : r[2] <= calls[r[1]]}
Waiting ==
  (UNION {Range(req[f]) : f \in Functions})
  \cup {<<c, calls[c]>> : c \in {c \in Callers : cpc[c] = "calling"}}
  \cup {hand[d] : d \in {d \in Dispatchers : dpc[d] = "execute"}}
Answerable ==
  (UNION {Range(res[f]) : f \in Functions})
  \cup {hand[d] : d \in {d \in Dispatchers : dpc[d] = "respond"}}
Taken == [c \in Callers |-> IF answer[c] = None THEN None ELSE answer[c][2]]

RC == INSTANCE RemoteCall WITH
  made <- Made, waiting <- Waiting, ready <- Answerable, answer <- Taken

\* Callers, FIFOs and threads together call remotely, each call at most once:
\* a request is in one place at a time, runs the function it was made for, and
\* what a caller takes is the response of a call that has run and that nobody
\* took before, whoever else uses the function and whoever is killed.
AtMostOnce == RC!Spec

\* Once a dispatcher is freed its thread is in its last batch: it does not wait
\* for events again, and goes near what was freed for fewer events than one
\* epoll_wait reports, the exit command being one of them.  Only the thread of a
\* dispatcher that could not be created waits, and for nothing.
OnlyLastBatch ==
  \A d \in Dispatchers : main[d] = "freed" /\ Uses(d) =>
    \/ dpc[d] # "wait" /\ shouldExit[d] /\ Len(batch[d]) < MAX_EPOLL_EVENTS
    \/ dpc[d] = "wait" /\ d \in Faulty /\ batch[d] = <<>> /\ ~toDaemon[d] /\ ~shouldExit[d]

\* "remember to get_response() or the tunnel stuck after the buffer is full": it
\* does not get stuck before.  While the responses that a caller with a function of
\* its own is owed or has abandoned are no more than the FIFO holds and those that
\* were lost, there is room for the one that is written, and while they are fewer,
\* there is room for its call.
StuckOnlyWhenFull ==
  \A c \in Callers : Target[c] \notin Silent =>
    LET f == Target[c]
        due == Len(owed[c]) + Cardinality(Of(abandoned, c))
        limit == Capacity + Cardinality(Of(lost, c))
    IN  /\ due <= limit =>
             \A d \in Dispatchers : dpc[d] = "respond" /\ Head(batch[d]) = f => Len(res[f]) < Capacity
        /\ due < limit /\ cpc[c] = "calling" => Len(req[f]) < Capacity

\* c has lost so many calls that it is owed nothing that is still to come.
Forsaken(c) ==
  Len(owed[c]) + Cardinality(Of(abandoned, c)) <= Cardinality(Of(lost, c))

Serves(d, f) == main[d] = "running" /\ f \in attached[d]

\* c is in call_host_function, and the FIFO is full.
Blocked(c) == cpc[c] = "calling" /\ Len(req[Target[c]]) = Capacity

\* d writes a response nobody is going to fetch: the FIFO is full, and each caller
\* of the function waits in a call itself or is owed nothing, what there is
\* having been abandoned.
Clogged(d) ==
  LET users == {c \in Callers : Target[c] = Head(batch[d])}
  IN  /\ dpc[d] = "respond"
      /\ Len(res[Head(batch[d])]) = Capacity
      /\ \A c \in users : owed[c] = <<>> \/ Blocked(c)
      /\ \E c \in users : Of(abandoned, c) # {} \/ Blocked(c)

\* d reads a request that another dispatcher of the function has taken, and
\* waits for the next one.
Starved(d) == AtRequest(d) /\ req[Head(batch[d])] = <<>>

\* d does not serve f, or is stuck with that or another function.
NoHelp(d, f) == Serves(d, f) => Clogged(d) \/ Starved(d)

\* While a dispatcher serves the function, a call returns, unless that dispatcher
\* waits for somebody to fetch a response: the caller has then left so many that
\* both FIFOs are full, and caller and dispatcher wait for each other.
CallReturns ==
  \A c \in Callers, d \in Dispatchers :
    cpc[c] = "calling" ~> cpc[c] # "calling" \/ NoHelp(d, Target[c])

\* While a dispatcher serves the function, a response that is waited for comes,
\* unless all that could come were lost.
ResponseComes ==
  \A c \in Callers, d \in Dispatchers :
    cpc[c] = "getting" ~> cpc[c] # "getting" \/ Forsaken(c) \/ NoHelp(d, Target[c])

\* "exactly call the function": while a dispatcher serves the function a request is
\* run, whoever competes for it, unless it was lost in the last batch of one that
\* was deleted.
RequestsRun ==
  \A r \in Requests, d \in Dispatchers :
    LET f == Target[r[1]]
    IN  r \in Range(req[f]) ~> r \in Range(executed[f]) \/ r \in lost \/ NoHelp(d, f)

\* No request is run twice, by whichever dispatchers.
RunOnce ==
  \A f \in Functions : \A i, j \in DOMAIN executed[f] :
    executed[f][i] = executed[f][j] => i = j

\* Deleting a dispatcher ends, whatever its thread was doing, unless that is stuck.
DeleteReturns ==
  \A d \in Dispatchers :
    main[d] = "deleting" ~> main[d] # "deleting" \/ Clogged(d) \/ Starved(d)
=============================================================================
