-------------------------- MODULE SignalGuardProofs --------------------------
(***************************************************************************)
(* What the interrupt guard guarantees for any number of threads, links    *)
(* and interrupts.                                                         *)
(***************************************************************************)
EXTENDS SignalGuard, TLAPS

\* Between raising the guard and lowering it.
Guarded(t) == pc[t] \in {"r_acquire", "r_copy", "w_acquire", "w_copy", "w_done"}

\* The flag is down under a guarded thread only once another has lowered it.
LoweredByOther ==
  shouldWait = 0 => \A t \in Threads : Guarded(t) =>
    \E u \in Threads \ {t} : pc[u] = "r_release" \/ ret[u] = "ok"

\* The flag is up because somebody is guarded, or left the call early.
RaisedForReason ==
  shouldWait # 0 => \E t \in Threads : Guarded(t) \/ ret[t] \in {"refused", "superseded"}

\* Calls come after links; links save the application's handler first.
Wrapped ==
  /\ handler \in {own, "wrapper"}
  /\ \A t \in Threads : InCall(t) => handler = "wrapper"
  /\ handler = "wrapper" => nextHandler \in {own, "wrapper"} /\ links > 0
  /\ \A t \in Threads : pc[t] = "linking" => nextHandler \in {own, "wrapper"} /\ links > 0
  /\ nextHandler = "wrapper" => links > 1

\* An interrupt is fatal only where no guard stands in its way.
Fatal == ~Alive => shouldWait = 0 \/ handler # "wrapper"

\* A call in progress has no result yet.
Pending == \A t \in Threads : InCall(t) => ret[t] = "none"

IInv ==
  TypeOK /\ Pending /\ LoweredByOther /\ RaisedForReason /\ Wrapped /\ Fatal /\ OwnHandlerDecides

-----------------------------------------------------------------------------
LEMMA InitInvariant == Init => IInv
<1> SUFFICES ASSUME Init PROVE IInv
  OBVIOUS
<1>1. TypeOK
  BY SignalGuardAssumption DEF Init, TypeOK, OwnHandlers
<1>2. Pending /\ LoweredByOther /\ RaisedForReason /\ Wrapped /\ Fatal /\ OwnHandlerDecides
  BY DEF Init, Pending, LoweredByOther, RaisedForReason, Wrapped, Fatal, OwnHandlerDecides, Guarded, InCall,
     Alive, OwnHandlers
<1>3. QED
  BY <1>1, <1>2 DEF IInv

LEMMA LinkInvariant ==
  ASSUME IInv, NEW t \in Threads, SaveHandler(t) \/ InstallWrapper(t)
  PROVE  IInv'
<1>1. /\ own' = own /\ shouldWait' = shouldWait /\ ret' = ret /\ fate' = fate /\ Alive
      /\ pc[t] \in {"idle", "linking"} /\ pc'[t] \in {"idle", "linking"}
      /\ \A u \in Threads \ {t} : pc'[u] = pc[u]
  BY DEF SaveHandler, InstallWrapper, At, Goto, IInv, TypeOK
<1>2. TypeOK'
  BY SignalGuardAssumption DEF SaveHandler, InstallWrapper, At, Goto, IInv, TypeOK
<1>3. LoweredByOther' /\ Pending'
  BY <1>1 DEF IInv, LoweredByOther, Guarded, Pending, InCall
<1>4. RaisedForReason'
  BY <1>1 DEF IInv, RaisedForReason, Guarded
<1>5. Wrapped'
  <2>1. CASE SaveHandler(t)
    <3>1. /\ links \in Nat /\ links' = links + 1 /\ nextHandler' = handler /\ handler' = handler
          /\ pc'[t] = "linking"
      BY <2>1, SignalGuardAssumption DEF SaveHandler, Goto, IInv, TypeOK
    <3>2. QED
      BY <1>1, <3>1 DEF IInv, TypeOK, OwnHandlers, Wrapped, InCall
  <2>2. CASE InstallWrapper(t)
    BY <1>1, <2>2 DEF InstallWrapper, At, IInv, Wrapped, InCall
  <2>3. QED
    BY <2>1, <2>2
<1>6. Fatal'
  BY <1>1 DEF Fatal, Alive
<1>7. OwnHandlerDecides'
  BY <1>1 DEF OwnHandlerDecides, Effect, Alive, IInv
<1>8. QED
  BY <1>2, <1>3, <1>4, <1>5, <1>6, <1>7 DEF IInv

\* What one step of a call does to the guard and to where the call is.
LEMMA CallStepEffect ==
  ASSUME IInv, NEW t \in Threads, CallStep(t)
  PROVE  /\ own' = own /\ handler' = handler /\ nextHandler' = nextHandler /\ links' = links
         /\ fate' = fate /\ Alive
         /\ \A u \in Threads \ {t} : pc'[u] = pc[u] /\ ret'[u] = ret[u]
         /\ \/ shouldWait' \in 1..2 /\ pc[t] = "idle" /\ Guarded(t)' /\ handler = "wrapper"
               /\ ret'[t] = "none"
            \/ shouldWait' = shouldWait /\ Guarded(t) /\ Guarded(t)' /\ ret'[t] = ret[t]
            \/ shouldWait' = shouldWait /\ Guarded(t) /\ pc'[t] = "idle"
               /\ ret'[t] \in {"refused", "superseded"}
            \/ shouldWait' = 0 /\ Guarded(t) /\ pc'[t] = "r_release" /\ ret'[t] = ret[t]
            \/ shouldWait' = 0 /\ Guarded(t) /\ pc'[t] = "idle" /\ ret'[t] = "ok"
            \/ shouldWait' = shouldWait /\ pc[t] = "r_release" /\ pc'[t] = "idle" /\ ret'[t] = "ok"
         /\ pc'[t] \in {"idle", "r_acquire", "r_copy", "r_release", "w_acquire", "w_copy", "w_done"}
<1>1. CASE ReadBegin(t) \/ WriteBegin(t)
  BY <1>1 DEF ReadBegin, WriteBegin, RaiseGuard, At, Goto, Untouched, Guarded, IInv, TypeOK
<1>2. CASE Acquire(t) \/ Publish(t)
  BY <1>2 DEF Acquire, Publish, At, Goto, Untouched, Guarded, IInv, TypeOK
<1>3. CASE Refused(t) \/ Superseded(t)
  BY <1>3 DEF Refused, Superseded, At, Goto, Return, Untouched, Guarded, IInv, TypeOK
<1>4. CASE ReadLowerGuard(t)
  BY <1>4 DEF ReadLowerGuard, At, Goto, Untouched, Guarded, IInv, TypeOK
<1>5. CASE WriteLowerGuard(t) \/ ReadRelease(t)
  BY <1>5 DEF WriteLowerGuard, ReadRelease, At, Goto, Return, Untouched, Guarded, IInv, TypeOK
<1>6. QED
  BY <1>1, <1>2, <1>3, <1>4, <1>5 DEF CallStep

LEMMA CallInvariant ==
  ASSUME IInv, NEW t \in Threads, CallStep(t)
  PROVE  IInv'
<1>1. TypeOK'
  <2>1. pc' \in [Threads -> {"idle", "linking", "r_acquire", "r_copy", "r_release",
                             "w_acquire", "w_copy", "w_done"}]
    BY DEF CallStep, ReadBegin, WriteBegin, RaiseGuard, Acquire, Publish, Refused, Superseded,
       ReadLowerGuard, WriteLowerGuard, ReadRelease, Goto, Return, IInv, TypeOK
  <2>2. ret' \in [Threads -> {"none", "ok", "refused", "superseded"}]
    BY DEF CallStep, ReadBegin, WriteBegin, RaiseGuard, Acquire, Publish, Refused, Superseded,
       ReadLowerGuard, WriteLowerGuard, ReadRelease, Goto, Return, IInv, TypeOK
  <2>3. QED
    BY <2>1, <2>2, CallStepEffect DEF IInv, TypeOK
<1>2. LoweredByOther'
  <2>1. SUFFICES ASSUME shouldWait' = 0, NEW v \in Threads, Guarded(v)'
                 PROVE  \E u \in Threads \ {v} : pc'[u] = "r_release" \/ ret'[u] = "ok"
    BY DEF LoweredByOther
  <2>2. CASE v = t
    <3>1. shouldWait = 0 /\ Guarded(t)
      BY <2>1, <2>2, CallStepEffect DEF Guarded
    <3>2. PICK u \in Threads \ {t} : pc[u] = "r_release" \/ ret[u] = "ok"
      BY <3>1 DEF IInv, LoweredByOther
    <3>3. QED
      BY <2>2, <3>2, CallStepEffect
  <2>3. CASE v # t /\ shouldWait = 0
    <3>1. PICK u \in Threads \ {v} : pc[u] = "r_release" \/ ret[u] = "ok"
      BY <2>1, <2>3, CallStepEffect DEF IInv, LoweredByOther, Guarded
    <3>2. CASE u = t
      BY <2>1, <2>3, <3>1, <3>2, CallStepEffect DEF Guarded, IInv, Pending, InCall
    <3>3. CASE u # t
      BY <3>1, <3>3, CallStepEffect
    <3>4. QED
      BY <3>2, <3>3
  <2>4. CASE v # t /\ shouldWait # 0
    BY <2>1, <2>4, CallStepEffect
  <2>5. QED
    BY <2>2, <2>3, <2>4
<1>3. RaisedForReason'
  <2>1. SUFFICES ASSUME shouldWait' # 0
                 PROVE  \E v \in Threads : Guarded(v)' \/ ret'[v] \in {"refused", "superseded"}
    BY DEF RaisedForReason
  <2>2. CASE Guarded(t)' \/ ret'[t] \in {"refused", "superseded"}
    BY <2>2
  <2>3. CASE ~(Guarded(t)' \/ ret'[t] \in {"refused", "superseded"})
    <3>1. shouldWait = shouldWait' /\ pc[t] = "r_release"
      BY <2>1, <2>3, CallStepEffect
    <3>2. PICK v \in Threads : Guarded(v) \/ ret[v] \in {"refused", "superseded"}
      BY <2>1, <3>1 DEF IInv, RaisedForReason
    <3>3. QED
      BY <2>3, <3>1, <3>2, CallStepEffect DEF Guarded, IInv, Pending, InCall
  <2>4. QED
    BY <2>2, <2>3
<1>4. Wrapped'
  BY CallStepEffect DEF IInv, Wrapped, InCall, Guarded
<1>5. Fatal' /\ OwnHandlerDecides' /\ Pending'
  BY CallStepEffect DEF IInv, Fatal, OwnHandlerDecides, Effect, Alive, Pending, InCall, Guarded
<1>6. QED
  BY <1>1, <1>2, <1>3, <1>4, <1>5 DEF IInv

\* An interrupt changes nothing but the fate of the process.
LEMMA InterruptInvariant ==
  ASSUME IInv, Interrupt
  PROVE  IInv'
<1>1. /\ own' = own /\ handler' = handler /\ nextHandler' = nextHandler /\ links' = links
      /\ shouldWait' = shouldWait /\ pc' = pc /\ ret' = ret
  BY DEF Interrupt
<1>2. \/ handler # "wrapper" /\ fate' = Effect(own)
      \/ handler = "wrapper" /\ shouldWait # 0 /\ fate' = "dropped"
      \/ handler = "wrapper" /\ shouldWait = 0 /\ nextHandler = "wrapper" /\ fate' = "recursion"
      \/ handler = "wrapper" /\ shouldWait = 0 /\ fate' = Effect(own)
  BY DEF Interrupt, IInv, Wrapped
<1>3. Effect(own) \in {"killed", "ignored", "custom"}
  BY DEF Effect, IInv, TypeOK, OwnHandlers
<1>4. TypeOK'
  BY <1>1, <1>2, <1>3 DEF IInv, TypeOK
<1>5. Pending' /\ LoweredByOther' /\ RaisedForReason' /\ Wrapped'
  BY <1>1 DEF IInv, Pending, LoweredByOther, RaisedForReason, Wrapped, InCall, Guarded
<1>6. Fatal'
  BY <1>1, <1>2 DEF Fatal, Alive
<1>7. OwnHandlerDecides'
  BY <1>1, <1>2, <1>3 DEF IInv, Wrapped, OwnHandlerDecides, Effect
<1>8. QED
  BY <1>4, <1>5, <1>6, <1>7 DEF IInv

LEMMA Invariant == Spec => []IInv
<1>1. IInv /\ [Next]_vars => IInv'
  <2>1. IInv /\ UNCHANGED vars => IInv'
    <3> SUFFICES ASSUME IInv, UNCHANGED vars PROVE IInv'
      OBVIOUS
    <3>1. TypeOK' /\ Fatal' /\ OwnHandlerDecides'
      BY DEF vars, IInv, TypeOK, Fatal, OwnHandlerDecides, Effect, Alive
    <3>2. Pending' /\ LoweredByOther' /\ RaisedForReason' /\ Wrapped'
      BY DEF vars, IInv, Pending, LoweredByOther, RaisedForReason, Wrapped, InCall, Guarded
    <3>3. QED
      BY <3>1, <3>2 DEF IInv
  <2>2. QED
    BY <2>1, LinkInvariant, CallInvariant, InterruptInvariant DEF Next
<1>2. QED
  BY <1>1, InitInvariant, PTL DEF Spec

-----------------------------------------------------------------------------
\* Every variable keeps its type, however many threads share the flag.
THEOREM GuardTypeCorrect == Spec => []TypeOK
<1>1. IInv => TypeOK
  BY DEF IInv
<1>2. QED
  BY <1>1, Invariant, PTL

\* An interrupt kills a thread in the middle of a copy only after another
\* thread of its process has lowered the flag that both rely on.
THEOREM OnlyOthersLowerTheGuard == Spec => []GuardLoweredByOther
<1>1. IInv => GuardLoweredByOther
  BY DEF IInv, Fatal, Wrapped, LoweredByOther, GuardLoweredByOther, Guarded, InCall
<1>2. QED
  BY <1>1, Invariant, PTL

\* So a process with one thread is never killed while it copies.
THEOREM OneThreadIsSafe ==
  ASSUME \A t, u \in Threads : t = u
  PROVE  Spec => [](~Alive => \A t \in Threads : pc[t] \notin {"r_copy", "w_copy"})
<1>1. GuardLoweredByOther => (~Alive => \A t \in Threads : pc[t] \notin {"r_copy", "w_copy"})
  BY DEF GuardLoweredByOther
<1>2. QED
  BY <1>1, OnlyOthersLowerTheGuard, PTL

\* A process outside all calls is deaf to interrupts only after a call of one
\* of its threads that was refused or superseded.
THEOREM DeafnessHasACause == Spec => []DeafOnlyAfterFailure
<1>1. IInv => DeafOnlyAfterFailure
  BY DEF IInv, RaisedForReason, DeafOnlyAfterFailure, Guarded, InCall
<1>2. QED
  BY <1>1, Invariant, PTL

\* Whatever the application did with SIGINT before its first link still
\* happens; only a second link can make the wrapper call itself.
THEOREM ApplicationDecides == Spec => []OwnHandlerDecides
<1>1. IInv => OwnHandlerDecides
  BY DEF IInv
<1>2. QED
  BY <1>1, Invariant, PTL
=============================================================================
