------------------------- MODULE HostFunctionProofs -------------------------
(***************************************************************************)
(* What host functions guarantee for any number of callers, functions and  *)
(* calls, any capacity of the FIFOs, and processes killed at any moment.   *)
(***************************************************************************)
EXTENDS HostFunction, FiniteSetTheorems, TLAPS

\* A dispatcher that runs a function, and no other, has a request in hand, and its
\* event; there is no thread before there is a dispatcher.
Busy(d) == dpc[d] \in {"execute", "respond"}

HandsFull ==
  \A d \in Dispatchers :
    /\ Busy(d) => hand[d] \in Requests /\ batch[d] # <<>> /\ Head(batch[d]) \in Functions
    /\ ~Busy(d) => hand[d] = None
    /\ dpc[d] = "acknowledge" => batch[d] # <<>>
    /\ main[d] = "none" => dpc[d] = "none"

\* A call in progress has a number, and a response that is waited for is owed.
Numbered ==
  \A c \in Callers : /\ cpc[c] = "calling" => calls[c] \in 1..MaxCalls
                     /\ cpc[c] = "getting" => owed[c] # <<>>

TypeInv == TypeOK /\ HandsFull /\ Numbered

-----------------------------------------------------------------------------
(* Sequences *)

LEMMA TailOf ==
  ASSUME NEW S, NEW q \in Seq(S), q # <<>>
  PROVE  /\ Tail(q) \in Seq(S) /\ Head(q) \in S /\ Head(q) = q[1]
         /\ Len(q) \in Nat /\ Len(q) > 0 /\ Len(Tail(q)) = Len(q) - 1
         /\ \A i \in 1 .. Len(Tail(q)) : Tail(q)[i] = q[i + 1]
OBVIOUS

LEMMA AppendOf ==
  ASSUME NEW S, NEW q \in Seq(S), NEW x \in S
  PROVE  /\ Append(q, x) \in Seq(S) /\ Append(q, x) # <<>>
         /\ Len(q) \in Nat /\ Len(Append(q, x)) = Len(q) + 1
         /\ \A i \in 1 .. Len(q) : Append(q, x)[i] = q[i]
         /\ Append(q, x)[Len(q) + 1] = x
OBVIOUS

\* Sequences as sets: where a record that is taken or added goes.
Distinct(q) == \A i, j \in DOMAIN q : q[i] = q[j] => i = j

LEMMA TailRange ==
  ASSUME NEW S, NEW q \in Seq(S), q # <<>>
  PROVE  /\ Range(q) \in SUBSET S /\ Range(Tail(q)) \subseteq Range(q) /\ Head(q) \in Range(q)
         /\ Range(q) = Range(Tail(q)) \cup {Head(q)}
         /\ Distinct(q) => Distinct(Tail(q)) /\ Head(q) \notin Range(Tail(q))
<1>1. /\ Len(q) \in Nat /\ Len(q) > 0 /\ DOMAIN q = 1 .. Len(q) /\ DOMAIN Tail(q) = 1 .. Len(q) - 1
      /\ Head(q) = q[1] /\ \A i \in 1 .. Len(q) - 1 : Tail(q)[i] = q[i + 1]
  BY TailOf
<1>2. \A i \in 1 .. Len(q) - 1 : i + 1 \in 1 .. Len(q) /\ i + 1 # 1
  BY <1>1
<1>3. \A i \in 1 .. Len(q) : i = 1 \/ \E j \in 1 .. Len(q) - 1 : i = j + 1
  <2>1. ASSUME NEW i \in 1 .. Len(q), i # 1 PROVE i - 1 \in 1 .. Len(q) - 1 /\ i = (i - 1) + 1
    BY <1>1, <2>1
  <2>2. QED
    BY <2>1
<1>4. Range(q) = Range(Tail(q)) \cup {Head(q)}
  <2>1. 1 \in 1 .. Len(q)
    BY <1>1
  <2>2. Range(Tail(q)) \cup {Head(q)} \subseteq Range(q)
    BY <1>1, <1>2, <2>1 DEF Range
  <2>3. ASSUME NEW i \in 1 .. Len(q) PROVE q[i] \in Range(Tail(q)) \cup {Head(q)}
    <3>1. CASE i = 1
      BY <1>1, <3>1
    <3>2. ASSUME NEW j \in 1 .. Len(q) - 1, i = j + 1 PROVE q[i] \in Range(Tail(q))
      <4>1. q[i] = Tail(q)[j] /\ j \in DOMAIN Tail(q)
        BY <1>1, <3>2
      <4>2. QED
        BY <4>1 DEF Range
    <3>3. i = 1 \/ \E j \in 1 .. Len(q) - 1 : i = j + 1
      BY <1>3
    <3>4. QED
      BY <3>3, <3>1, <3>2
  <2>4. QED
    BY <1>1, <2>2, <2>3 DEF Range
<1>5. ASSUME Distinct(q) PROVE Distinct(Tail(q)) /\ Head(q) \notin Range(Tail(q))
  <2>1. Distinct(Tail(q))
    <3>1. ASSUME NEW i \in 1 .. Len(q) - 1, NEW j \in 1 .. Len(q) - 1, Tail(q)[i] = Tail(q)[j]
          PROVE  i = j
      <4>1. i + 1 = j + 1
        BY <1>1, <1>2, <1>5, <3>1 DEF Distinct
      <4>2. QED
        BY <1>1, <4>1
    <3>2. QED
      BY <1>1, <3>1 DEF Distinct
  <2>2. Head(q) \notin Range(Tail(q))
    <3>1. 1 \in 1 .. Len(q)
      BY <1>1
    <3>2. QED
      BY <1>1, <1>2, <1>5, <3>1 DEF Distinct, Range
  <2>3. QED
    BY <2>1, <2>2
<1>6. Range(q) \in SUBSET S
  BY <1>1 DEF Range
<1>7. QED
  BY <1>4, <1>5, <1>6

LEMMA AppendRange ==
  ASSUME NEW S, NEW q \in Seq(S), NEW x \in S
  PROVE  /\ Range(Append(q, x)) = Range(q) \cup {x}
         /\ Distinct(q) /\ x \notin Range(q) => Distinct(Append(q, x))
<1> DEFINE p == Append(q, x)
<1>1. /\ Len(q) \in Nat /\ DOMAIN q = 1 .. Len(q) /\ DOMAIN p = 1 .. Len(q) + 1
      /\ p[Len(q) + 1] = x /\ \A i \in 1 .. Len(q) : p[i] = q[i]
  BY AppendOf
<1> HIDE DEF p
<1>2. /\ 1 .. Len(q) + 1 = (1 .. Len(q)) \cup {Len(q) + 1}
      /\ Len(q) + 1 \notin 1 .. Len(q)
  BY <1>1
<1>3. Range(p) = Range(q) \cup {x}
  BY <1>1, <1>2 DEF Range
<1>4. Distinct(q) /\ x \notin Range(q) => Distinct(p)
  BY <1>1, <1>2 DEF Distinct, Range
<1>5. QED
  BY <1>3, <1>4 DEF p

LEMMA RangeOf == ASSUME NEW S, NEW q \in Seq(S) PROVE Range(q) \subseteq S
BY DEF Range

LEMMA SeqOfMore == ASSUME NEW S, NEW T, S \subseteq T, NEW q \in Seq(S) PROVE q \in Seq(T)
OBVIOUS

\* Closing empties some FIFOs and leaves the others alone.
LEMMA CloseEffect ==
  ASSUME TypeOK, NEW x, NEW F, Close(x, F)
  PROVE  /\ req' \in [Functions -> Seq(Requests)] /\ res' \in [Functions -> Seq(Requests)]
         /\ \A f \in Functions : /\ req'[f] \in {req[f], <<>>}
                                 /\ res'[f] \in {res[f], <<>>}
                                 /\ f \notin F => req'[f] = req[f] /\ res'[f] = res[f]
                                 /\ ~(Holders(f) \subseteq {x}) => req'[f] = req[f] /\ res'[f] = res[f]
BY DEF Close, LastOpen, TypeOK

\* What is discarded or given up are requests.
LEMMA RequestsOf ==
  ASSUME TypeInv
  PROVE  /\ \A x : \A F \in SUBSET Functions : Discarded(x, F) \subseteq Requests
         /\ \A d \in Dispatchers : InHandOf(d) \subseteq Requests
         /\ \A c \in Callers : /\ Unsent(c) \subseteq Requests
                                /\ {<<c, n>> : n \in Range(owed[c])} \subseteq Requests
<1>1. ASSUME NEW x, NEW F \in SUBSET Functions PROVE Discarded(x, F) \subseteq Requests
  <2>1. \A f \in Functions : Range(req[f]) \subseteq Requests /\ Range(res[f]) \subseteq Requests
    BY DEF TypeInv, TypeOK, Range
  <2>2. QED
    BY <2>1 DEF Discarded, LastOpen
<1>2. \A d \in Dispatchers : InHandOf(d) \subseteq Requests
  BY DEF InHandOf, TypeInv, TypeOK
<1>3. ASSUME NEW c \in Callers
      PROVE  Unsent(c) \subseteq Requests /\ {<<c, n>> : n \in Range(owed[c])} \subseteq Requests
  <2>1. Range(owed[c]) \subseteq 1 .. MaxCalls
    BY RangeOf DEF TypeInv, TypeOK
  <2>2. cpc[c] = "calling" => calls[c] \in 1 .. MaxCalls
    BY DEF TypeInv, Numbered
  <2>3. QED
    BY <2>1, <2>2 DEF Unsent, Requests
<1>4. QED
  BY <1>1, <1>2, <1>3

\* epoll_wait reports attached functions, and perhaps the control pipe.
LEMMA EventsOf ==
  ASSUME NEW F \in SUBSET Functions, NEW S \in SUBSET (F \cup {Control}),
         NEW events \in SetToSeqs(S)
  PROVE  events \in Seq(F \cup {Control})
<1>1. IsFiniteSet(F \cup {Control})
  BY FS_AddElement, FS_Subset, HostFunctionAssumption
<1>2. Cardinality(S) \in Nat
  BY <1>1, FS_Subset, FS_CardinalityType
<1>3. events \in [1 .. Cardinality(S) -> S]
  BY DEF SetToSeqs
<1>4. QED
  BY <1>2, <1>3

-----------------------------------------------------------------------------
(* Every variable has its type *)

LEMMA InitType == ASSUME Init PROVE TypeInv
BY HostFunctionAssumption DEF Init, TypeInv, TypeOK, HandsFull, Numbered, Busy

LEMMA StepType == ASSUME TypeInv, [Next]_vars PROVE TypeInv'
<1> USE HostFunctionAssumption DEF TypeInv, HandsFull, Numbered, Busy
<1>1. ASSUME NEW c \in Callers, Link(c) PROVE TypeInv'
  BY <1>1 DEF Link, TypeOK, fates, CallerGoto, pipes, owner, control, thread
<1>2. ASSUME NEW c \in Callers, LetGo(c), crashed' \in SUBSET (Callers \cup Dispatchers)
      PROVE  TypeInv'
  <2>1. lost' \in SUBSET Requests /\ abandoned' \in SUBSET Requests
    <3>1. {Target[c]} \in SUBSET Functions
      OBVIOUS
    <3>2. QED
      BY <1>2, <3>1, RequestsOf DEF LetGo, TypeOK
  <2>2. req' \in [Functions -> Seq(Requests)] /\ res' \in [Functions -> Seq(Requests)]
    BY <1>2, CloseEffect DEF LetGo
  <2>3. /\ cpc' = [cpc EXCEPT ![c] = "unlinked"] /\ owed' = [owed EXCEPT ![c] = <<>>]
        /\ UNCHANGED <<calls, answer, main, attached, toDaemon, fromDaemon>>
        /\ UNCHANGED <<dpc, batch, hand, shouldExit, executed>>
    BY <1>2 DEF LetGo, CallerGoto, owner, control, thread
  <2>4. TypeOK'
    BY <1>2, <2>1, <2>2, <2>3 DEF TypeOK
  <2>5. HandsFull' /\ Numbered'
    BY <2>3 DEF TypeOK
  <2>6. QED
    BY <2>4, <2>5
<1>3. ASSUME NEW c \in Callers, BeginCall(c) PROVE TypeInv'
  <2>1. calls' \in [Callers -> 0 .. MaxCalls] /\ calls'[c] \in 1 .. MaxCalls
    BY <1>3 DEF BeginCall, TypeOK
  <2>2. \A k \in Callers : cpc'[k] = IF k = c THEN "calling" ELSE cpc[k]
    BY <1>3 DEF BeginCall, TypeOK, CallerGoto
  <2>3. Numbered'
    BY <1>3, <2>1, <2>2 DEF BeginCall, TypeOK
  <2>4. TypeOK' /\ HandsFull'
    BY <1>3, <2>1 DEF BeginCall, TypeOK, fates, CallerGoto, pipes, owner, control, thread
  <2>5. QED
    BY <2>3, <2>4
<1>4. ASSUME NEW c \in Callers, BeginGet(c) PROVE TypeInv'
  BY <1>4, SMTT(30) DEF BeginGet, TypeOK, fates, CallerGoto, pipes, owner, control, thread
<1>5. ASSUME NEW c \in Callers, EndCall(c) PROVE TypeInv'
  <2>1. calls[c] \in 1 .. MaxCalls /\ <<c, calls[c]>> \in Requests
    BY <1>5 DEF EndCall, Requests
  <2>2. req' \in [Functions -> Seq(Requests)]
    BY <1>5, <2>1 DEF EndCall, TypeOK
  <2>3. owed' \in [Callers -> Seq(1 .. MaxCalls)]
    <3>1. owed[c] \in Seq(1 .. MaxCalls) /\ Append(owed[c], calls[c]) \in Seq(1 .. MaxCalls)
      BY <2>1, AppendOf DEF TypeOK
    <3>2. CASE Target[c] \in Silent
      BY <1>5, <3>1, <3>2 DEF EndCall, TypeOK
    <3>3. CASE Target[c] \notin Silent
      BY <1>5, <3>1, <3>3 DEF EndCall, TypeOK
    <3>4. QED
      BY <3>2, <3>3
  <2>4. Numbered'
    <3>1. \A k \in Callers : cpc'[k] = IF k = c THEN "idle" ELSE cpc[k]
      BY <1>5 DEF EndCall, TypeOK, CallerGoto
    <3>2. \A k \in Callers \ {c} : owed'[k] = owed[k]
      BY <1>5 DEF EndCall, TypeOK
    <3>3. QED
      BY <1>5, <3>1, <3>2 DEF EndCall
  <2>5. QED
    BY <1>5, <2>2, <2>3, <2>4 DEF EndCall, TypeOK, fates, CallerGoto, owner, control, thread
<1>6. ASSUME NEW c \in Callers, EndGet(c) PROVE TypeInv'
  <2>1. Head(owed[c]) \in 1 .. MaxCalls /\ Tail(owed[c]) \in Seq(1 .. MaxCalls)
    BY <1>6, TailOf DEF EndGet, TypeOK
  <2>2. Head(res[Target[c]]) \in Requests /\ Tail(res[Target[c]]) \in Seq(Requests)
    BY <1>6, TailOf DEF EndGet, TypeOK
  <2>3. <<<<c, Head(owed[c])>>, Head(res[Target[c]])>> \in Requests \X Requests
    BY <2>1, <2>2 DEF Requests
  <2>4. /\ res' \in [Functions -> Seq(Requests)] /\ owed' \in [Callers -> Seq(1 .. MaxCalls)]
        /\ answer' \in [Callers -> (Requests \X Requests) \cup {None}]
        /\ cpc' \in [Callers -> {"unlinked", "idle", "calling", "getting"}]
    BY <1>6, <2>1, <2>2, <2>3, HostFunctionAssumption DEF EndGet, TypeOK, CallerGoto
  <2>5. TypeOK'
    BY <1>6, <2>4 DEF EndGet, TypeOK, fates, owner, control, thread
  <2>6. Numbered'
    <3>1. \A k \in Callers : cpc'[k] = IF k = c THEN "idle" ELSE cpc[k]
      BY <1>6 DEF EndGet, TypeOK, CallerGoto
    <3>2. \A k \in Callers \ {c} : owed'[k] = owed[k]
      BY <1>6 DEF EndGet, TypeOK
    <3>3. calls' = calls
      BY <1>6 DEF EndGet
    <3>4. QED
      BY <3>1, <3>2, <3>3
  <2>7. UNCHANGED <<main, dpc, batch, hand>>
    BY <1>6 DEF EndGet, owner, thread
  <2>8. HandsFull'
    BY <2>7 DEF Busy
  <2>9. QED
    BY ONLY <2>5, <2>6, <2>8 DEF TypeInv
<1>7. ASSUME NEW c \in Callers, Unlink(c) \/ CallerCrash(c) PROVE TypeInv'
  <2>1. LetGo(c) /\ (crashed' = crashed \/ crashed' = crashed \cup {c})
    BY <1>7 DEF Unlink, CallerCrash
  <2>2. crashed' \in SUBSET (Callers \cup Dispatchers)
    BY <2>1 DEF TypeOK
  <2>3. QED
    BY ONLY <1>2, <2>1, <2>2, c \in Callers
<1>8. ASSUME NEW d \in Dispatchers, OwnerStep(d) PROVE TypeInv'
  <2>1. CASE Create(d) \/ CreateFails(d)
    <3>1. /\ main' \in [Dispatchers -> {"none", "running", "deleting", "freed"}]
          /\ main'[d] # "none" /\ \A e \in Dispatchers \ {d} : main'[e] = main[e]
      BY <2>1 DEF Create, CreateFails, TypeOK
    <3>2. /\ Over(d)
          /\ attached' = [attached EXCEPT ![d] = {}] /\ dpc' = [dpc EXCEPT ![d] = "wait"]
          /\ batch' = [batch EXCEPT ![d] = <<>>] /\ shouldExit' = [shouldExit EXCEPT ![d] = FALSE]
          /\ UNCHANGED <<pipes, caller, control, hand, executed, fates>>
      BY <2>1 DEF Create, CreateFails, Renew
    <3>3. TypeOK'
      BY <3>1, <3>2 DEF TypeOK, pipes, caller, control, fates
    <3>4. HandsFull' /\ Numbered'
      BY <3>1, <3>2 DEF TypeOK, Over, caller
    <3>5. QED
      BY <3>3, <3>4
  <2>2. CASE Delete(d)
    BY <2>2 DEF Delete, TypeOK, fates, pipes, caller, thread
  <2>3. CASE Free(d)
    <3>1. lost' \in SUBSET Requests
      <4>1. attached[d] \in SUBSET Functions
        BY DEF TypeOK
      <4>2. QED
        BY <2>3, <4>1, RequestsOf DEF Free, TypeOK
    <3>2. QED
      BY <2>3, <3>1, CloseEffect DEF Free, TypeOK, caller, thread
  <2>4. ASSUME NEW f \in Functions, Attach(d, f) PROVE TypeInv'
    BY <2>4 DEF Attach, TypeOK, fates, pipes, caller, control, thread
  <2>5. QED
    BY <1>8, <2>1, <2>2, <2>3, <2>4 DEF OwnerStep
<1>9. ASSUME NEW d \in Dispatchers, ThreadStep(d) PROVE TypeInv'
  <2>0. batch[d] # <<>> => /\ Head(batch[d]) \in Functions \cup {Control}
                           /\ Tail(batch[d]) \in Seq(Functions \cup {Control})
    BY TailOf DEF TypeOK
  <2>1. CASE EpollWait(d)
    <3>1. PICK S \in kSubset(Min({MAX_EPOLL_EVENTS, Cardinality(Ready(d))}), Ready(d)) :
            \E events \in SetToSeqs(S) : batch' = [batch EXCEPT ![d] = events]
      BY <2>1 DEF EpollWait
    <3>2. S \in SUBSET (Functions \cup {Control})
      BY DEF kSubset, Ready, TypeOK
    <3>3. PICK events \in Seq(Functions \cup {Control}) : batch' = [batch EXCEPT ![d] = events]
      BY <3>1, <3>2, EventsOf
    <3>4. QED
      BY <2>1, <3>3 DEF EpollWait, ThreadGoto, TypeOK, fates, pipes, caller, owner, control
  <2>2. CASE BatchDone(d) \/ ReadControl(d) \/ Acknowledge(d)
    <3>1. CASE BatchDone(d)
      BY <3>1 DEF BatchDone, ThreadGoto, TypeOK, fates, pipes, caller, owner, control
    <3>2. CASE ReadControl(d)
      BY <3>2 DEF ReadControl, ThreadGoto, TypeOK, fates, pipes, caller, owner
    <3>3. CASE Acknowledge(d)
      BY <2>0, <3>3 DEF Acknowledge, ThreadGoto, DropEvent, TypeOK, fates, pipes, caller, owner
    <3>4. QED
      BY <2>2, <3>1, <3>2, <3>3
  <2>3. CASE ReadRequest(d)
    <3>1. Head(batch[d]) \in Functions
      BY <2>0, <2>3 DEF ReadRequest, AtRequest
    <3>2. /\ Head(req[Head(batch[d])]) \in Requests
          /\ Tail(req[Head(batch[d])]) \in Seq(Requests)
      BY <2>3, <3>1, TailOf DEF ReadRequest, TypeOK
    <3>3. QED
      BY <2>3, <3>1, <3>2 DEF ReadRequest, AtRequest, ThreadGoto, TypeOK, fates, caller, owner, control
  <2>4. CASE UseFreed(d)
    <3>1. /\ hand' = [hand EXCEPT ![d] = None] /\ lost' \in SUBSET Requests
          /\ dpc'[d] \in {"faulted", "next"}
      BY <2>4, RequestsOf DEF UseFreed, ThreadGoto, TypeOK
    <3>2. CASE ThreadGoto(d, "faulted") /\ UNCHANGED batch
      BY <2>4, <3>1, <3>2 DEF UseFreed, ThreadGoto, TypeOK, pipes, caller, owner, control
    <3>3. CASE dpc[d] # "wait" /\ DropEvent(d) /\ ThreadGoto(d, "next")
      <4>1. batch[d] # <<>>
        BY <2>4, <3>3 DEF UseFreed, Uses, AtRequest
      <4>2. QED
        BY <2>0, <2>4, <3>1, <3>3, <4>1 DEF UseFreed, ThreadGoto, DropEvent, TypeOK, pipes,
                                             caller, owner, control
    <3>4. QED
      BY <2>4, <3>2, <3>3 DEF UseFreed
  <2>5. CASE Execute(d) \/ ExecuteUnanswered(d)
    <3>1. hand[d] \in Requests /\ batch[d] # <<>> /\ Head(batch[d]) \in Functions
      BY <2>5 DEF Execute, ExecuteUnanswered
    <3>2. executed' \in [Functions -> Seq(Requests)]
      <4>1. executed' = [executed EXCEPT ![Head(batch[d])] = Append(@, hand[d])]
        BY <2>5 DEF Execute, ExecuteUnanswered
      <4>2. QED
        BY <3>1, <4>1 DEF TypeOK
    <3>3. CASE Execute(d)
      <4>1. /\ dpc' = [dpc EXCEPT ![d] = "respond"] /\ hand' = hand /\ batch' = batch
            /\ main' = main /\ dpc[d] = "execute"
        BY <3>3 DEF Execute, ThreadGoto, owner
      <4>2. TypeOK'
        BY <3>2, <3>3, <4>1 DEF Execute, TypeOK, pipes, caller, owner, control, fates
      <4>3. HandsFull' /\ Numbered'
        BY <3>1, <3>3, <4>1 DEF Execute, TypeOK, caller
      <4>4. QED
        BY <4>2, <4>3
    <3>4. CASE ExecuteUnanswered(d)
      <4>1. /\ dpc' = [dpc EXCEPT ![d] = "next"] /\ hand' = [hand EXCEPT ![d] = None]
            /\ batch' = [batch EXCEPT ![d] = Tail(@)] /\ main' = main /\ dpc[d] = "execute"
        BY <3>4 DEF ExecuteUnanswered, ThreadGoto, DropEvent, owner
      <4>2. batch' \in [Dispatchers -> Seq(Functions \cup {Control})] /\ lost' \in SUBSET Requests
        BY <2>0, <3>1, <3>4, <4>1 DEF ExecuteUnanswered, TypeOK
      <4>3. TypeOK'
        BY <3>2, <3>4, <4>1, <4>2 DEF ExecuteUnanswered, TypeOK, pipes, caller, owner, control
      <4>4. HandsFull' /\ Numbered'
        BY <3>4, <4>1 DEF ExecuteUnanswered, TypeOK, caller
      <4>5. QED
        BY <4>3, <4>4
    <3>5. QED
      BY <2>5, <3>3, <3>4
  <2>6. CASE Respond(d)
    <3>1. hand[d] \in Requests /\ batch[d] # <<>> /\ Head(batch[d]) \in Functions
      BY <2>6 DEF Respond
    <3>2. res' \in [Functions -> Seq(Requests)]
      BY <2>6, <3>1 DEF Respond, TypeOK
    <3>3. QED
      BY <2>0, <2>6, <3>1, <3>2 DEF Respond, ThreadGoto, DropEvent, TypeOK, fates, caller, owner, control
  <2>7. QED
    BY <1>9, <2>1, <2>2, <2>3, <2>4, <2>5, <2>6 DEF ThreadStep
<1>10. ASSUME NEW d \in Dispatchers, DispatcherCrash(d) PROVE TypeInv'
  <2>1. req' \in [Functions -> Seq(Requests)] /\ res' \in [Functions -> Seq(Requests)]
    BY <1>10, CloseEffect DEF DispatcherCrash
  <2>2. lost' \in SUBSET Requests
    <3>1. PICK F \in SUBSET Functions : lost' = lost \cup Discarded(d, F) \cup InHandOf(d)
      BY <1>10 DEF DispatcherCrash, TypeOK
    <3>2. QED
      BY <3>1, RequestsOf DEF TypeOK
  <2>3. QED
    BY <1>10, <2>1, <2>2 DEF DispatcherCrash, ThreadGoto, TypeOK, caller
<1>11. CASE UNCHANGED vars
  BY <1>11 DEF vars, pipes, caller, owner, control, thread, fates, TypeOK
<1>12. QED
  BY <1>1, <1>3, <1>4, <1>5, <1>6, <1>7, <1>8, <1>9, <1>10, <1>11 DEF Next, CallerStep

\* Every variable keeps its type, whoever is killed and whatever is attached.
THEOREM FunctionTypeCorrect == Spec => []TypeOK
<1>1. Init => TypeInv
  BY InitType
<1>2. TypeInv /\ [Next]_vars => TypeInv'
  BY StepType
<1>3. TypeInv => TypeOK
  BY DEF TypeInv
<1>4. QED
  BY <1>1, <1>2, <1>3, PTL DEF Spec

-----------------------------------------------------------------------------
(* What a step does with requests and responses *)

InHand(d, f) == Busy(d) /\ Head(batch[d]) = f

\* What is in the sequences of a function.
LEMMA InLine ==
  ASSUME TypeInv, NEW f \in Functions
  PROVE  /\ req[f] \in Seq(Requests) /\ \A i \in DOMAIN req[f] : req[f][i] \in Requests
         /\ res[f] \in Seq(Requests) /\ \A i \in DOMAIN res[f] : res[f][i] \in Requests
         /\ executed[f] \in Seq(Requests)
         /\ \A i \in DOMAIN executed[f] : executed[f][i] \in Requests
         /\ Range(req[f]) \cup Range(res[f]) \cup Range(executed[f]) \subseteq Requests
BY DEF TypeInv, TypeOK, Range

\* The next call of the caller of x will have a greater number.
Past(x) == /\ x[2] <= calls[x[1]]
           /\ cpc[x[1]] = "calling" => x[2] < calls[x[1]]

\* A step that moves no request: FIFOs may be emptied, requests in hand dropped.
Quiet ==
  /\ \A f \in Functions : /\ req'[f] \in {req[f], <<>>} /\ res'[f] \in {res[f], <<>>}
                          /\ executed'[f] = executed[f]
  /\ \A c \in Callers : /\ calls'[c] = calls[c] /\ answer'[c] = answer[c]
                        /\ cpc'[c] = "calling" => cpc[c] = "calling"
  /\ \A d \in Dispatchers : Busy(d)' =>
       dpc'[d] = dpc[d] /\ hand'[d] = hand[d] /\ batch'[d] = batch[d]

\* What running the request in hand changes, whether or not a response follows.
Executes(d) ==
  /\ dpc[d] = "execute" /\ dpc'[d] # "execute"
  /\ executed' = [executed EXCEPT ![Head(batch[d])] = Append(@, hand[d])]
  /\ Busy(d)' => hand'[d] = hand[d] /\ batch'[d] = batch[d]
  /\ \A e \in Dispatchers \ {d} : hand'[e] = hand[e] /\ dpc'[e] = dpc[e] /\ batch'[e] = batch[e]
  /\ UNCHANGED <<pipes, caller, owner>>

\* The steps that move requests and responses.
Moves ==
  \/ \E c \in Callers : BeginCall(c) \/ EndCall(c) \/ EndGet(c)
  \/ \E d \in Dispatchers : ReadRequest(d) \/ Executes(d) \/ Respond(d)

LEMMA ExecuteEffect ==
  ASSUME TypeInv, NEW d \in Dispatchers, Execute(d) \/ ExecuteUnanswered(d) PROVE Executes(d)
<1>1. CASE Execute(d)
  BY <1>1 DEF Execute, Executes, Busy, ThreadGoto, TypeInv, TypeOK
<1>2. CASE ExecuteUnanswered(d)
  BY <1>2 DEF ExecuteUnanswered, Executes, Busy, ThreadGoto, DropEvent, TypeInv, TypeOK
<1>3. QED
  BY <1>1, <1>2

LEMMA QuietOrMoves == ASSUME TypeInv, [Next]_vars PROVE Quiet \/ Moves
<1> USE DEF TypeInv, Busy
<1>1. ASSUME NEW c \in Callers, Link(c) \/ BeginGet(c) PROVE Quiet
  BY <1>1 DEF Link, BeginGet, Quiet, TypeOK, CallerGoto, pipes, owner, control, thread
<1>2. ASSUME NEW c \in Callers, LetGo(c) PROVE Quiet
  BY <1>2, CloseEffect DEF LetGo, Quiet, TypeOK, CallerGoto, owner, control, thread
<1>3. ASSUME NEW c \in Callers, Unlink(c) \/ CallerCrash(c) PROVE Quiet
  BY <1>2, <1>3 DEF Unlink, CallerCrash
<1>4. ASSUME NEW d \in Dispatchers, OwnerStep(d) PROVE Quiet
  <2>1. CASE Create(d) \/ CreateFails(d)
    BY <2>1 DEF Create, CreateFails, Renew, Quiet, TypeOK, pipes, caller, control
  <2>2. CASE Delete(d) \/ \E f \in Functions : Attach(d, f)
    BY <2>2 DEF Delete, Attach, Quiet, TypeOK, pipes, caller, control, thread
  <2>3. CASE Free(d)
    BY <2>3, CloseEffect DEF Free, Quiet, TypeOK, caller, thread
  <2>4. QED
    BY <1>4, <2>1, <2>2, <2>3 DEF OwnerStep
<1>5. ASSUME NEW d \in Dispatchers, EpollWait(d) PROVE Quiet
  <2>1. PICK new : batch' = [batch EXCEPT ![d] = new]
    BY <1>5 DEF EpollWait
  <2>2. QED
    BY <1>5, <2>1 DEF EpollWait, Quiet, TypeOK, ThreadGoto, pipes, caller, owner, control
<1>6. ASSUME NEW d \in Dispatchers, BatchDone(d) \/ ReadControl(d) \/ Acknowledge(d) PROVE Quiet
  BY <1>6 DEF BatchDone, ReadControl, Acknowledge, Quiet, TypeOK, ThreadGoto, DropEvent, pipes,
              caller, owner, control
<1>7. ASSUME NEW d \in Dispatchers, UseFreed(d) PROVE Quiet
  BY <1>7 DEF UseFreed, Uses, AtRequest, Quiet, TypeOK, ThreadGoto, DropEvent, pipes, caller,
              owner, control
<1>8. ASSUME NEW d \in Dispatchers, DispatcherCrash(d) PROVE Quiet
  <2>1. \A f \in Functions : req'[f] \in {req[f], <<>>} /\ res'[f] \in {res[f], <<>>}
    BY <1>8, CloseEffect DEF DispatcherCrash
  <2>2. QED
    BY <1>8, <2>1 DEF DispatcherCrash, Quiet, TypeOK, ThreadGoto, caller
<1>9. CASE UNCHANGED vars
  BY <1>9 DEF vars, pipes, caller, owner, control, thread, Quiet
<1>10. QED
  BY <1>1, <1>2, <1>3, <1>4, <1>5, <1>6, <1>7, <1>8, <1>9, ExecuteEffect
     DEF Next, CallerStep, ThreadStep, Moves

LEMMA PastKept ==
  ASSUME NEW x \in Requests, Past(x),
         \A c \in Callers : calls'[c] = calls[c] /\ (cpc'[c] = "calling" => cpc[c] = "calling")
  PROVE  Past(x)'
BY DEF Past, Requests

LEMMA PastBeginCall ==
  ASSUME TypeInv, NEW c \in Callers, BeginCall(c), NEW x \in Requests, Past(x) PROVE Past(x)'
<1>1. calls[c] \in Nat /\ calls' = [calls EXCEPT ![c] = @ + 1]
  BY DEF BeginCall, TypeInv, TypeOK
<1>2. \A k \in Callers \ {c} : calls'[k] = calls[k] /\ cpc'[k] = cpc[k]
  BY DEF BeginCall, CallerGoto, TypeInv, TypeOK
<1>3. x[1] \in Callers /\ x[2] \in 1 .. MaxCalls
  BY DEF Requests
<1>4. CASE x[1] = c
  <2>1. x[2] <= calls[c] /\ calls'[c] = calls[c] + 1
    BY <1>1, <1>4 DEF Past, TypeInv, TypeOK
  <2>2. QED
    BY <1>1, <1>3, <1>4, <2>1, HostFunctionAssumption DEF Past
<1>5. CASE x[1] # c
  BY <1>2, <1>3, <1>5 DEF Past
<1>6. QED
  BY <1>4, <1>5

LEMMA PastStep ==
  ASSUME TypeInv, Quiet \/ Moves, NEW x \in Requests, Past(x) PROVE Past(x)'
<1>1. CASE Quiet
  BY <1>1, PastKept DEF Quiet
<1>2. CASE \E c \in Callers : BeginCall(c)
  BY <1>2, PastBeginCall
<1>3. CASE \E c \in Callers : EndCall(c) \/ EndGet(c)
  BY <1>3, PastKept DEF EndCall, EndGet, CallerGoto, TypeInv, TypeOK
<1>4. CASE \E d \in Dispatchers : ReadRequest(d) \/ Executes(d) \/ Respond(d)
  BY <1>4, PastKept DEF ReadRequest, Executes, Respond, caller
<1>5. QED
  BY <1>1, <1>2, <1>3, <1>4 DEF Moves

-----------------------------------------------------------------------------
(* One place.  A record is in one place at a time, whatever competes for it *)

\* The records of a function wait in its FIFO or in a hand, have run, and may then
\* be in a hand or in the response FIFO; none is in two places or there twice.
Placed(f) ==
  /\ \A x \in Range(req[f]) \cup Range(res[f]) \cup Range(executed[f]) : Past(x) /\ Target[x[1]] = f
  /\ Distinct(req[f]) /\ Distinct(res[f]) /\ Distinct(executed[f])
  /\ Range(req[f]) \cap Range(executed[f]) = {}
  /\ Range(res[f]) \subseteq Range(executed[f])
  /\ \A d \in Dispatchers : InHand(d, f) =>
       /\ Past(hand[d]) /\ Target[hand[d][1]] = f
       /\ hand[d] \notin Range(req[f]) \cup Range(res[f])
       /\ dpc[d] = "execute" <=> hand[d] \notin Range(executed[f])
       /\ \A e \in Dispatchers : InHand(e, f) /\ hand[e] = hand[d] => e = d

PlaceInv == TypeInv /\ \A f \in Functions : Placed(f)

\* A function whose records stay where they are, or are lost.
LEMMA PlaceKept ==
  ASSUME TypeInv, NEW f \in Functions, Placed(f),
         req'[f] \in {req[f], <<>>}, res'[f] \in {res[f], <<>>}, executed'[f] = executed[f],
         \A x \in Requests : Past(x) => Past(x)',
         \A d \in Dispatchers : InHand(d, f)' =>
           dpc'[d] = dpc[d] /\ hand'[d] = hand[d] /\ batch'[d] = batch[d]
  PROVE  Placed(f)'
<1>1. /\ Range(req[f]) \subseteq Requests /\ Range(res[f]) \subseteq Requests
      /\ Range(executed[f]) \subseteq Requests
  BY DEF TypeInv, TypeOK, Range
<1>2. /\ Range(req'[f]) \subseteq Range(req[f]) /\ Range(res'[f]) \subseteq Range(res[f])
      /\ Range(executed'[f]) = Range(executed[f])
  BY DEF Range
<1>3. Distinct(req'[f]) /\ Distinct(res'[f]) /\ Distinct(executed'[f])
  BY DEF Placed, Distinct
<1>4. \A x \in Range(req'[f]) \cup Range(res'[f]) \cup Range(executed'[f]) :
        Past(x)' /\ Target[x[1]] = f
  BY <1>1, <1>2 DEF Placed
<1>5. \A d \in Dispatchers : InHand(d, f)' =>
        InHand(d, f) /\ hand[d] \in Requests /\ Past(hand[d])' /\ dpc'[d] = dpc[d] /\ hand'[d] = hand[d]
  BY DEF InHand, Busy, TypeInv, HandsFull, Placed
<1>6. ASSUME NEW d \in Dispatchers, InHand(d, f)'
      PROVE  /\ Past(hand[d])' /\ Target[hand'[d][1]] = f
             /\ hand'[d] \notin Range(req'[f]) \cup Range(res'[f])
             /\ dpc'[d] = "execute" <=> hand'[d] \notin Range(executed'[f])
             /\ \A e \in Dispatchers : InHand(e, f)' /\ hand'[e] = hand'[d] => e = d
  BY <1>2, <1>5, <1>6 DEF Placed, Past
<1>7. QED
  BY <1>2, <1>3, <1>4, <1>6 DEF Placed

LEMMA PlaceEndCall ==
  ASSUME TypeInv, NEW f \in Functions, Placed(f), NEW c \in Callers, EndCall(c)
  PROVE  Placed(f)'
<1>1. PICK x \in Requests : x = <<c, calls[c]>>
  BY DEF EndCall, TypeInv, Numbered, Requests
<1>2. /\ res' = res /\ executed' = executed /\ hand' = hand /\ dpc' = dpc /\ batch' = batch
  BY DEF EndCall, thread
<1>3. ASSUME NEW y \in Requests, Past(y) PROVE Past(y)' /\ y # x
  BY <1>1, <1>3, PastKept DEF EndCall, CallerGoto, Past, TypeInv, TypeOK
<1>4. Past(x)'
  BY <1>1 DEF EndCall, CallerGoto, Past, TypeInv, TypeOK
<1>5. CASE f # Target[c]
  BY <1>2, <1>3, <1>5, PlaceKept DEF EndCall, TypeInv, TypeOK, InHand, Busy
<1>6. CASE f = Target[c]
  <2>1. req'[f] = Append(req[f], x) /\ Target[x[1]] = f
    BY <1>1, <1>6 DEF EndCall, TypeInv, TypeOK
  <2>2. \A y \in Range(req[f]) \cup Range(res[f]) \cup Range(executed[f]) :
          y \in Requests /\ Past(y)' /\ y # x /\ Target[y[1]] = f
    BY <1>3, InLine DEF Placed
  <2>3. Range(req'[f]) = Range(req[f]) \cup {x} /\ Distinct(req'[f])
    BY <2>1, <2>2, InLine, AppendRange DEF Placed
  <2>4. ASSUME NEW d \in Dispatchers, InHand(d, f)
        PROVE  Past(hand[d])' /\ hand[d] # x
    <3>1. hand[d] \in Requests /\ Past(hand[d])
      BY <2>4 DEF InHand, Busy, TypeInv, HandsFull, Placed
    <3>2. PICK y \in Requests : y = hand[d]
      BY <3>1
    <3>3. Past(y)' /\ y # x
      BY <1>3, <3>1, <3>2
    <3>4. QED
      BY <1>2, <3>2, <3>3 DEF Past
  <2>5. \A d \in Dispatchers : InHand(d, f)' <=> InHand(d, f)
    BY <1>2 DEF InHand, Busy
  <2>6. QED
    BY <1>2, <1>4, <2>1, <2>2, <2>3, <2>4, <2>5 DEF Placed
<1>7. QED
  BY <1>5, <1>6

LEMMA PlaceEndGet ==
  ASSUME TypeInv, NEW f \in Functions, Placed(f), NEW c \in Callers, EndGet(c)
  PROVE  Placed(f)'
<1>1. /\ req' = req /\ executed' = executed /\ hand' = hand /\ dpc' = dpc /\ batch' = batch
      /\ \A k \in Callers : calls'[k] = calls[k] /\ (cpc'[k] = "calling" => cpc[k] = "calling")
  BY DEF EndGet, CallerGoto, TypeInv, TypeOK, thread
<1>2. \A x \in Requests : Past(x) => Past(x)'
  BY <1>1, PastKept
<1>3. CASE f # Target[c]
  BY <1>1, <1>2, <1>3, PlaceKept DEF EndGet, TypeInv, TypeOK, InHand, Busy
<1>4. CASE f = Target[c]
  <2>1. res[f] # <<>> /\ res'[f] = Tail(res[f])
    BY <1>4 DEF EndGet, TypeInv, TypeOK
  <2>2. Range(res'[f]) \subseteq Range(res[f]) /\ Distinct(res'[f])
    BY <2>1, InLine, TailRange DEF Placed
  <2>3. \A x \in Range(req[f]) \cup Range(res[f]) \cup Range(executed[f]) :
          Past(x)' /\ Target[x[1]] = f
    BY <1>2, InLine DEF Placed
  <2>4. \A d \in Dispatchers : /\ InHand(d, f)' <=> InHand(d, f)
                               /\ InHand(d, f) => Past(hand[d])'
    <3>1. \A d \in Dispatchers : InHand(d, f) => hand[d] \in Requests /\ Past(hand[d])
      BY DEF InHand, Busy, TypeInv, HandsFull, Placed
    <3>2. QED
      BY <1>1, <1>2, <3>1 DEF InHand, Busy, Past
  <2>5. QED
    BY <1>1, <2>2, <2>3, <2>4 DEF Placed
<1>5. QED
  BY <1>3, <1>4

LEMMA PlaceReadRequest ==
  ASSUME TypeInv, NEW f \in Functions, Placed(f), NEW d \in Dispatchers, ReadRequest(d)
  PROVE  Placed(f)'
<1>1. /\ res' = res /\ executed' = executed /\ batch' = batch /\ calls' = calls /\ cpc' = cpc
      /\ \A e \in Dispatchers \ {d} : hand'[e] = hand[e] /\ dpc'[e] = dpc[e]
      /\ dpc[d] = "next" /\ dpc'[d] = "execute"
  BY DEF ReadRequest, AtRequest, ThreadGoto, TypeInv, TypeOK, caller
<1>2. \A x : Past(x) <=> Past(x)'
  BY <1>1 DEF Past
<1>3. CASE f # Head(batch[d])
  BY <1>1, <1>2, <1>3, PlaceKept DEF ReadRequest, TypeInv, TypeOK, InHand
<1>4. CASE f = Head(batch[d])
  <2>1. PICK x : x = Head(req[f])
    OBVIOUS
  <2>2. req[f] # <<>> /\ req'[f] = Tail(req[f]) /\ hand'[d] = x
    BY <1>4, <2>1 DEF ReadRequest, TypeInv, TypeOK
  <2>3. /\ Range(req[f]) = Range(req'[f]) \cup {x} /\ x \notin Range(req'[f])
        /\ Distinct(req'[f])
    BY <2>1, <2>2, InLine, TailRange DEF Placed
  <2>4. \A e \in Dispatchers \ {d} : InHand(e, f)' <=> InHand(e, f)
    BY <1>1 DEF InHand, Busy
  <2>5. \A e \in Dispatchers \ {d} : InHand(e, f) => hand[e] # x
    BY <2>3 DEF Placed
  <2>6. x \notin Range(executed[f]) /\ x \notin Range(res[f]) /\ Past(x)' /\ Target[x[1]] = f
    BY <1>2, <2>3 DEF Placed
  <2>7. ASSUME NEW e \in Dispatchers, InHand(e, f)'
        PROVE  /\ Past(hand[e])' /\ Target[hand'[e][1]] = f
               /\ hand'[e] \notin Range(req'[f]) \cup Range(res[f])
               /\ dpc'[e] = "execute" <=> hand'[e] \notin Range(executed[f])
               /\ \A g \in Dispatchers : InHand(g, f)' /\ hand'[g] = hand'[e] => g = e
    <3>1. CASE e = d
      BY <1>1, <2>2, <2>3, <2>4, <2>5, <2>6, <3>1 DEF Past
    <3>2. CASE e # d
      BY <1>1, <1>2, <2>2, <2>3, <2>4, <2>5, <2>7, <3>2 DEF Placed, Past
    <3>3. QED
      BY <3>1, <3>2
  <2>8. QED
    BY <1>1, <1>2, <2>3, <2>7 DEF Placed
<1>5. QED
  BY <1>3, <1>4

LEMMA PlaceExecute ==
  ASSUME TypeInv, NEW f \in Functions, Placed(f), NEW d \in Dispatchers, Executes(d)
  PROVE  Placed(f)'
<1>1. /\ req' = req /\ res' = res /\ calls' = calls /\ cpc' = cpc
      /\ \A e \in Dispatchers \ {d} : hand'[e] = hand[e] /\ dpc'[e] = dpc[e] /\ batch'[e] = batch[e]
      /\ dpc[d] = "execute" /\ hand[d] \in Requests /\ dpc'[d] # "execute"
      /\ (Busy(d)' => hand'[d] = hand[d] /\ batch'[d] = batch[d])
  BY DEF Executes, TypeInv, TypeOK, HandsFull, Busy, pipes, caller
<1>2. \A x : Past(x) <=> Past(x)'
  BY <1>1 DEF Past
<1>3. CASE f # Head(batch[d])
  <2>1. executed'[f] = executed[f]
    BY <1>3 DEF Executes, TypeInv, TypeOK
  <2>2. \A e \in Dispatchers : InHand(e, f)' => e # d
    BY <1>1, <1>3 DEF InHand
  <2>3. QED
    BY <1>1, <1>2, <2>1, <2>2, PlaceKept
<1>4. CASE f = Head(batch[d])
  <2>1. PICK x \in Requests : x = hand[d]
    BY <1>1
  <2>2. executed'[f] = Append(executed[f], x) /\ InHand(d, f)
    BY <1>1, <1>4, <2>1 DEF Executes, TypeInv, TypeOK, InHand, Busy
  <2>3. /\ x \notin Range(executed[f]) /\ x \notin Range(req[f]) \cup Range(res[f])
        /\ Past(x)' /\ Target[x[1]] = f
        /\ \A e \in Dispatchers \ {d} : InHand(e, f) => hand[e] # x
    BY <1>1, <1>2, <2>1, <2>2 DEF Placed
  <2>4. Range(executed'[f]) = Range(executed[f]) \cup {x} /\ Distinct(executed'[f])
    BY <2>2, <2>3, InLine, AppendRange DEF Placed
  <2>5. \A e \in Dispatchers \ {d} : InHand(e, f)' <=> InHand(e, f)
    BY <1>1 DEF InHand, Busy
  <2>6. ASSUME NEW e \in Dispatchers, InHand(e, f)'
        PROVE  /\ Past(hand[e])' /\ Target[hand'[e][1]] = f
               /\ hand'[e] \notin Range(req[f]) \cup Range(res[f])
               /\ dpc'[e] = "execute" <=> hand'[e] \notin Range(executed'[f])
               /\ \A g \in Dispatchers : InHand(g, f)' /\ hand'[g] = hand'[e] => g = e
    <3>1. \A g \in Dispatchers : InHand(g, f)' => InHand(g, f) /\ hand'[g] = hand[g]
      BY <1>1, <2>2, <2>5 DEF InHand
    <3>2. CASE e = d
      BY <1>1, <2>1, <2>3, <2>4, <2>6, <3>1, <3>2 DEF Past
    <3>3. CASE e # d
      BY <1>1, <1>2, <2>3, <2>4, <2>6, <3>1, <3>3 DEF Placed, Past
    <3>4. QED
      BY <3>2, <3>3
  <2>7. QED
    BY <1>1, <1>2, <2>3, <2>4, <2>6 DEF Placed
<1>5. QED
  BY <1>3, <1>4

LEMMA PlaceRespond ==
  ASSUME TypeInv, NEW f \in Functions, Placed(f), NEW d \in Dispatchers, Respond(d)
  PROVE  Placed(f)'
<1>1. /\ req' = req /\ executed' = executed /\ calls' = calls /\ cpc' = cpc
      /\ \A e \in Dispatchers \ {d} : hand'[e] = hand[e] /\ dpc'[e] = dpc[e] /\ batch'[e] = batch[e]
      /\ dpc[d] = "respond" /\ hand[d] \in Requests /\ dpc'[d] = "next"
  BY DEF Respond, ThreadGoto, DropEvent, TypeInv, TypeOK, HandsFull, Busy, caller
<1>2. \A x : Past(x) <=> Past(x)'
  BY <1>1 DEF Past
<1>3. \A e \in Dispatchers : InHand(e, f)' <=> e # d /\ InHand(e, f)
  BY <1>1 DEF InHand, Busy
<1>4. CASE f # Head(batch[d])
  <2>1. res'[f] = res[f]
    BY <1>4 DEF Respond, TypeInv, TypeOK
  <2>2. QED
    BY <1>1, <1>2, <1>3, <2>1, PlaceKept
<1>5. CASE f = Head(batch[d])
  <2>1. PICK x \in Requests : x = hand[d]
    BY <1>1
  <2>2. res'[f] = Append(res[f], x) /\ InHand(d, f)
    BY <1>1, <1>5, <2>1 DEF Respond, TypeInv, TypeOK, InHand, Busy
  <2>3. /\ x \in Range(executed[f]) /\ x \notin Range(res[f])
        /\ \A e \in Dispatchers \ {d} : InHand(e, f) => hand[e] # x
    BY <1>1, <2>1, <2>2 DEF Placed
  <2>4. Range(res'[f]) = Range(res[f]) \cup {x} /\ Distinct(res'[f])
    BY <2>2, <2>3, InLine, AppendRange DEF Placed
  <2>5. ASSUME NEW e \in Dispatchers, InHand(e, f)'
        PROVE  /\ Past(hand[e])' /\ Target[hand'[e][1]] = f
               /\ hand'[e] \notin Range(req[f]) \cup Range(res'[f])
               /\ dpc'[e] = "execute" <=> hand'[e] \notin Range(executed[f])
               /\ \A g \in Dispatchers : InHand(g, f)' /\ hand'[g] = hand'[e] => g = e
    BY <1>1, <1>2, <1>3, <2>3, <2>4, <2>5 DEF Placed, Past
  <2>6. QED
    BY <1>1, <1>2, <2>3, <2>4, <2>5 DEF Placed
<1>6. QED
  BY <1>4, <1>5

LEMMA PlaceStep ==
  ASSUME TypeInv, Quiet \/ Moves, NEW f \in Functions, Placed(f) PROVE Placed(f)'
<1>1. CASE Quiet
  BY <1>1, PastKept, PlaceKept DEF Quiet, InHand
<1>2. ASSUME NEW c \in Callers, BeginCall(c) PROVE Placed(f)'
  BY <1>2, PastBeginCall, PlaceKept DEF BeginCall, pipes, thread, InHand, Busy
<1>3. QED
  BY <1>1, <1>2, PlaceEndCall, PlaceEndGet, PlaceReadRequest, PlaceExecute, PlaceRespond DEF Moves

LEMMA InitPlace == ASSUME Init PROVE PlaceInv
<1>1. TypeInv
  BY InitType
<1>2. QED
  BY <1>1 DEF Init, PlaceInv, Placed, Distinct, Range, InHand, Busy

LEMMA Places == Spec => []PlaceInv
<1>1. Init => PlaceInv
  BY InitPlace
<1>2. PlaceInv /\ [Next]_vars => PlaceInv'
  BY StepType, QuietOrMoves, PlaceStep DEF PlaceInv
<1>3. QED
  BY <1>1, <1>2, PTL DEF Spec

\* No request is run twice, however many dispatchers are told of it and whichever
\* of them are killed, and whatever callers do.
THEOREM RunsOnce == Spec => []RunOnce
<1>1. PlaceInv => RunOnce
  BY DEF PlaceInv, Placed, Distinct, RunOnce
<1>2. QED
  BY <1>1, Places, PTL

-----------------------------------------------------------------------------
(* HostFunction implements RemoteCall                                      *)

LEMMA WaitingIs ==
  /\ \A r : r \in Waiting <=>
       \/ \E f \in Functions : r \in Range(req[f])
       \/ \E c \in Callers : cpc[c] = "calling" /\ r = <<c, calls[c]>>
       \/ \E d \in Dispatchers : dpc[d] = "execute" /\ r = hand[d]
  /\ \A r : r \in Waiting' <=>
       \/ \E f \in Functions : r \in Range(req'[f])
       \/ \E c \in Callers : cpc'[c] = "calling" /\ r = <<c, calls'[c]>>
       \/ \E d \in Dispatchers : dpc'[d] = "execute" /\ r = hand'[d]
BY DEF Waiting

LEMMA AnswerableIs ==
  /\ \A r : r \in Answerable <=>
       \/ \E f \in Functions : r \in Range(res[f])
       \/ \E d \in Dispatchers : dpc[d] = "respond" /\ r = hand[d]
  /\ \A r : r \in Answerable' <=>
       \/ \E f \in Functions : r \in Range(res'[f])
       \/ \E d \in Dispatchers : dpc'[d] = "respond" /\ r = hand'[d]
BY DEF Answerable

LEMMA MadeKept == ASSUME \A c \in Callers : calls'[c] = calls[c] PROVE Made' = Made
BY DEF Made, Requests

LEMMA TakenKept == ASSUME \A c \in Callers : answer'[c] = answer[c] PROVE Taken' = Taken
BY DEF Taken

LEMMA InitRemote == ASSUME Init PROVE RC!Init
<1>1. Made = {}
  BY DEF Init, Made, Requests
<1>2. Waiting = {}
  <2>1. \A f \in Functions : Range(req[f]) = {}
    BY DEF Init, Range
  <2>2. \A r : r \notin Waiting
    BY <2>1, WaitingIs DEF Init
  <2>3. QED
    BY <2>2
<1>3. Answerable = {}
  <2>1. \A f \in Functions : Range(res[f]) = {}
    BY DEF Init, Range
  <2>2. \A r : r \notin Answerable
    BY <2>1, AnswerableIs DEF Init
  <2>3. QED
    BY <2>2
<1>4. Taken = [c \in Callers |-> None]
  BY DEF Init, Taken
<1>5. QED
  BY <1>1, <1>2, <1>3, <1>4 DEF RC!Init, Init

LEMMA QuietLoses == ASSUME TypeInv, TypeInv', Quiet PROVE RC!Lose
<1>1. \A f \in Functions : Range(req'[f]) \subseteq Range(req[f]) /\ Range(res'[f]) \subseteq Range(res[f])
  BY DEF Quiet, Range
<1>2. \A d \in Dispatchers : dpc'[d] \in {"execute", "respond"} => dpc'[d] = dpc[d] /\ hand'[d] = hand[d]
  BY DEF Quiet, Busy
<1>3. Waiting' \subseteq Waiting
  <2>1. ASSUME NEW r, r \in Waiting' PROVE r \in Waiting
    <3>1. CASE \E f \in Functions : r \in Range(req'[f])
      BY <1>1, <3>1, WaitingIs
    <3>2. CASE \E c \in Callers : cpc'[c] = "calling" /\ r = <<c, calls'[c]>>
      BY <3>2, WaitingIs DEF Quiet
    <3>3. CASE \E d \in Dispatchers : dpc'[d] = "execute" /\ r = hand'[d]
      BY <1>2, <3>3, WaitingIs
    <3>4. QED
      BY <2>1, <3>1, <3>2, <3>3, WaitingIs
  <2>2. QED
    BY <2>1
<1>4. Answerable' \subseteq Answerable
  <2>1. ASSUME NEW r \in Answerable' PROVE r \in Answerable
    BY <1>1, <1>2, <2>1, AnswerableIs
  <2>2. QED
    BY <2>1
<1>5. executed' = executed
  BY DEF Quiet, TypeInv, TypeOK
<1>6. Made' = Made /\ Taken' = Taken
  BY MadeKept, TakenKept DEF Quiet
<1>7. QED
  BY <1>3, <1>4, <1>5, <1>6 DEF RC!Lose

LEMMA BeginCallMakes ==
  ASSUME TypeInv, NEW c \in Callers, BeginCall(c) PROVE \E r \in Requests : RC!Make(r)
<1>1. calls[c] \in Nat /\ calls[c] < MaxCalls /\ MaxCalls \in Nat
  BY HostFunctionAssumption DEF BeginCall, TypeInv, TypeOK
<1>2. PICK n \in 1 .. MaxCalls : n = calls[c] + 1
  BY <1>1
<1>3. PICK r \in Requests : r = <<c, n>>
  BY DEF Requests
<1>4. /\ calls'[c] = n /\ cpc'[c] = "calling" /\ cpc[c] = "idle"
      /\ \A b \in Callers \ {c} : calls'[b] = calls[b] /\ cpc'[b] = cpc[b]
      /\ req' = req /\ res' = res /\ hand' = hand /\ dpc' = dpc /\ executed' = executed
      /\ answer' = answer
  BY <1>2 DEF BeginCall, CallerGoto, TypeInv, TypeOK, pipes, thread
<1>5. r \notin Made
  BY <1>1, <1>2, <1>3 DEF Made
<1>6. Made' = Made \cup {r}
  <2>1. \A x \in Requests : x[1] \in Callers /\ x[2] \in 1 .. MaxCalls /\ x = <<x[1], x[2]>>
    BY DEF Requests
  <2>2. ASSUME NEW x \in Requests
        PROVE  x[2] <= calls'[x[1]] <=> x[2] <= calls[x[1]] \/ x = r
    <3>1. CASE x[1] # c
      BY <1>3, <1>4, <2>1, <3>1
    <3>2. CASE x[1] = c
      <4>1. x[2] \in Nat /\ (x[2] <= n <=> x[2] <= calls[c] \/ x[2] = n)
        BY <1>1, <1>2, <2>1
      <4>2. x = r <=> x[2] = n
        BY <1>3, <2>1, <3>2
      <4>3. QED
        BY <1>4, <3>2, <4>1, <4>2
    <3>3. QED
      BY <3>1, <3>2
  <2>3. \A x : x \in Made' <=> x \in Made \/ x = r
    BY <1>2, <2>2 DEF Made
  <2>4. QED
    BY <2>3
<1>7. Waiting' = Waiting \cup {r}
  <2>1. ASSUME NEW x PROVE x \in Waiting' <=> x \in Waiting \/ x = r
    BY <1>3, <1>4, WaitingIs
  <2>2. QED
    BY <2>1
<1>8. Answerable' = Answerable
  BY <1>4 DEF Answerable
<1>9. Taken' = Taken
  BY <1>4, TakenKept
<1>10. QED
  BY <1>4, <1>5, <1>6, <1>7, <1>8, <1>9 DEF RC!Make

\* The request goes from the hand of its caller into the FIFO.
LEMMA EndCallStutters ==
  ASSUME TypeInv, NEW c \in Callers, EndCall(c) PROVE UNCHANGED RC!vars
<1>1. Target[c] \in Functions
  BY HostFunctionAssumption
<1>2. PICK x \in Requests : x = <<c, calls[c]>>
  BY DEF EndCall, TypeInv, Numbered, Requests
<1>3. /\ calls' = calls /\ cpc'[c] = "idle" /\ cpc[c] = "calling"
      /\ \A b \in Callers \ {c} : cpc'[b] = cpc[b]
      /\ res' = res /\ hand' = hand /\ dpc' = dpc /\ executed' = executed /\ answer' = answer
      /\ req'[Target[c]] = Append(req[Target[c]], x)
      /\ \A f \in Functions \ {Target[c]} : req'[f] = req[f]
  BY <1>1, <1>2 DEF EndCall, CallerGoto, TypeInv, TypeOK, thread
<1>4. Range(req'[Target[c]]) = Range(req[Target[c]]) \cup {x}
  BY <1>1, <1>3, InLine, AppendRange
<1>5. Waiting' = Waiting
  <2>1. ASSUME NEW r PROVE r \in Waiting' <=> r \in Waiting
    <3>1. (\E f \in Functions : r \in Range(req'[f])) <=> (\E f \in Functions : r \in Range(req[f])) \/ r = x
      BY <1>1, <1>3, <1>4
    <3>2. (\E b \in Callers : cpc[b] = "calling" /\ r = <<b, calls[b]>>) <=>
            (\E b \in Callers : cpc'[b] = "calling" /\ r = <<b, calls'[b]>>) \/ r = x
      BY <1>2, <1>3
    <3>3. QED
      BY <1>3, <3>1, <3>2, WaitingIs
  <2>2. QED
    BY <2>1
<1>6. Answerable' = Answerable /\ Made' = Made /\ Taken' = Taken
  BY <1>3, AnswerableIs, MadeKept, TakenKept
<1>7. QED
  BY <1>3, <1>5, <1>6 DEF RC!vars

\* The request goes from the FIFO into the hand of a dispatcher.
LEMMA ReadRequestStutters ==
  ASSUME TypeInv, NEW d \in Dispatchers, ReadRequest(d) PROVE UNCHANGED RC!vars
<1> DEFINE f == Head(batch[d])
<1>1. f \in Functions /\ dpc[d] = "next"
  <2>1. Head(batch[d]) \in Functions \cup {Control}
    BY TailOf DEF ReadRequest, AtRequest, TypeInv, TypeOK
  <2>2. QED
    BY <2>1 DEF ReadRequest, AtRequest
<1>2. PICK x : x = Head(req[f])
  OBVIOUS
<1>3. /\ calls' = calls /\ cpc' = cpc /\ dpc'[d] = "execute" /\ hand'[d] = x
      /\ \A e \in Dispatchers \ {d} : hand'[e] = hand[e] /\ dpc'[e] = dpc[e]
      /\ res' = res /\ executed' = executed /\ answer' = answer
      /\ req[f] # <<>> /\ req'[f] = Tail(req[f])
      /\ \A g \in Functions \ {f} : req'[g] = req[g]
  BY <1>1, <1>2 DEF ReadRequest, ThreadGoto, TypeInv, TypeOK, caller
<1>4. Range(req[f]) = Range(req'[f]) \cup {x}
  BY <1>1, <1>2, <1>3, InLine, TailRange
<1> HIDE DEF f
<1>5. Waiting' = Waiting
  <2>1. ASSUME NEW r PROVE r \in Waiting' <=> r \in Waiting
    <3>1. (\E g \in Functions : r \in Range(req[g])) <=> (\E g \in Functions : r \in Range(req'[g])) \/ r = x
      BY <1>1, <1>3, <1>4
    <3>2. (\E e \in Dispatchers : dpc'[e] = "execute" /\ r = hand'[e]) <=>
            (\E e \in Dispatchers : dpc[e] = "execute" /\ r = hand[e]) \/ r = x
      BY <1>1, <1>3
    <3>3. QED
      BY <1>3, <3>1, <3>2, WaitingIs
  <2>2. QED
    BY <2>1
<1>6. Answerable' = Answerable
  <2>1. \A e \in Dispatchers : \A r :
          dpc'[e] = "respond" /\ r = hand'[e] <=> dpc[e] = "respond" /\ r = hand[e]
    BY <1>1, <1>3
  <2>2. ASSUME NEW r PROVE r \in Answerable' <=> r \in Answerable
    BY <1>3, <2>1, AnswerableIs
  <2>3. QED
    BY <2>2
<1>7. Made' = Made /\ Taken' = Taken
  BY <1>3, MadeKept, TakenKept
<1>8. QED
  BY <1>3, <1>5, <1>6, <1>7 DEF RC!vars

\* The response goes from the hand of the dispatcher into the FIFO.
LEMMA RespondStutters ==
  ASSUME TypeInv, NEW d \in Dispatchers, Respond(d) PROVE UNCHANGED RC!vars
<1> DEFINE f == Head(batch[d])
<1>1. f \in Functions /\ hand[d] \in Requests /\ dpc[d] = "respond"
  BY DEF Respond, TypeInv, HandsFull, Busy
<1>2. PICK x \in Requests : x = hand[d]
  BY <1>1
<1>3. /\ calls' = calls /\ cpc' = cpc /\ dpc'[d] = "next"
      /\ \A e \in Dispatchers \ {d} : hand'[e] = hand[e] /\ dpc'[e] = dpc[e]
      /\ req' = req /\ executed' = executed /\ answer' = answer
      /\ res'[f] = Append(res[f], x)
      /\ \A g \in Functions \ {f} : res'[g] = res[g]
  BY <1>1, <1>2 DEF Respond, ThreadGoto, TypeInv, TypeOK, caller
<1>4. Range(res'[f]) = Range(res[f]) \cup {x}
  BY <1>1, <1>3, InLine, AppendRange
<1> HIDE DEF f
<1>5. Answerable' = Answerable
  <2>1. ASSUME NEW r PROVE r \in Answerable' <=> r \in Answerable
    <3>1. (\E g \in Functions : r \in Range(res'[g])) <=> (\E g \in Functions : r \in Range(res[g])) \/ r = x
      BY <1>1, <1>3, <1>4
    <3>2. (\E e \in Dispatchers : dpc[e] = "respond" /\ r = hand[e]) <=>
            (\E e \in Dispatchers : dpc'[e] = "respond" /\ r = hand'[e]) \/ r = x
      BY <1>1, <1>2, <1>3
    <3>3. QED
      BY <1>3, <3>1, <3>2, AnswerableIs
  <2>2. QED
    BY <2>1
<1>6. Waiting' = Waiting
  <2>1. \A e \in Dispatchers : \A r :
          dpc'[e] = "execute" /\ r = hand'[e] <=> dpc[e] = "execute" /\ r = hand[e]
    BY <1>1, <1>3
  <2>2. ASSUME NEW r PROVE r \in Waiting' <=> r \in Waiting
    <3>1. (\E e \in Dispatchers : dpc'[e] = "execute" /\ r = hand'[e]) <=>
            \E e \in Dispatchers : dpc[e] = "execute" /\ r = hand[e]
      BY <2>1
    <3>2. QED
      BY <1>3, <3>1, WaitingIs
  <2>3. QED
    BY <2>2
<1>7. Made' = Made /\ Taken' = Taken
  BY <1>3, MadeKept, TakenKept
<1>8. QED
  BY <1>3, <1>5, <1>6, <1>7 DEF RC!vars

LEMMA ExecuteRuns ==
  ASSUME PlaceInv, NEW d \in Dispatchers, Executes(d) PROVE \E r \in Requests : RC!Run(r)
<1> DEFINE f == Head(batch[d])
<1> USE DEF PlaceInv
<1>1. f \in Functions /\ hand[d] \in Requests /\ dpc[d] = "execute" /\ InHand(d, f)
  BY DEF Executes, TypeInv, HandsFull, InHand, Busy
<1>2. PICK x \in Requests : x = hand[d]
  BY <1>1
<1>3. /\ calls' = calls /\ cpc' = cpc /\ req' = req /\ res' = res /\ answer' = answer
      /\ \A e \in Dispatchers \ {d} : hand'[e] = hand[e] /\ dpc'[e] = dpc[e]
      /\ dpc'[d] # "execute" /\ (dpc'[d] = "respond" => hand'[d] = x)
  BY <1>2 DEF Executes, Busy, pipes, caller
<1>4. Placed(f) /\ Past(x) /\ Target[x[1]] = f
  BY <1>1, <1>2 DEF Placed
<1>5. executed' = [executed EXCEPT ![RC!Of(x)] = Append(@, x)]
  BY <1>2, <1>4 DEF RC!Of, Executes
<1>6. x \in Waiting
  BY <1>1, <1>2, WaitingIs
<1>7. \A g \in Functions : x \notin Range(req[g])
  BY <1>1, <1>2, <1>4 DEF Placed
<1>8. ASSUME NEW c \in Callers, cpc[c] = "calling" PROVE x # <<c, calls[c]>>
  <2>1. calls[c] \in Nat
    BY HostFunctionAssumption DEF TypeInv, TypeOK
  <2>2. QED
    BY <1>4, <1>8, <2>1 DEF Past
<1>9. ASSUME NEW e \in Dispatchers \ {d}, dpc[e] = "execute" PROVE x # hand[e]
  <2>1. Head(batch[e]) \in Functions /\ InHand(e, Head(batch[e]))
    BY <1>9 DEF TypeInv, HandsFull, InHand, Busy
  <2>2. Target[hand[e][1]] = Head(batch[e])
    BY <2>1 DEF Placed
  <2>3. QED
    BY <1>1, <1>2, <1>4, <2>1, <2>2 DEF Placed
<1>10. Waiting' = Waiting \ {x}
  <2>1. ASSUME NEW r PROVE r \in Waiting' <=> r \in Waiting /\ r # x
    <3>1. (\E e \in Dispatchers : dpc'[e] = "execute" /\ r = hand'[e]) <=>
            (\E e \in Dispatchers : dpc[e] = "execute" /\ r = hand[e]) /\ r # x
      BY <1>1, <1>2, <1>3, <1>9
    <3>2. QED
      BY <1>3, <1>7, <1>8, <3>1, WaitingIs
  <2>2. QED
    BY <2>1
<1>11. Answerable' \in {Answerable, Answerable \cup {x}}
  <2>1. CASE dpc'[d] = "respond"
    <3>1. ASSUME NEW r PROVE r \in Answerable' <=> r \in Answerable \/ r = x
      BY <1>1, <1>3, <2>1, AnswerableIs
    <3>2. QED
      BY <3>1
  <2>2. CASE dpc'[d] # "respond"
    <3>1. ASSUME NEW r PROVE r \in Answerable' <=> r \in Answerable
      BY <1>1, <1>3, <2>2, AnswerableIs
    <3>2. QED
      BY <3>1
  <2>3. QED
    BY <2>1, <2>2
<1>12. Made' = Made /\ Taken' = Taken
  BY <1>3, MadeKept, TakenKept
<1>13. QED
  BY <1>5, <1>6, <1>10, <1>11, <1>12 DEF RC!Run

LEMMA EndGetTakes ==
  ASSUME PlaceInv, NEW c \in Callers, EndGet(c) PROVE \E r \in Requests : RC!Take(c, r)
<1> DEFINE f == Target[c]
<1> USE DEF PlaceInv
<1>1. f \in Functions /\ res[f] # <<>>
  BY HostFunctionAssumption DEF EndGet
<1>2. PICK x \in Requests : x = Head(res[f])
  BY <1>1, InLine, TailOf
<1>3. /\ calls' = calls /\ req' = req /\ hand' = hand /\ dpc' = dpc /\ executed' = executed
      /\ cpc[c] = "getting" /\ cpc'[c] = "idle" /\ \A b \in Callers \ {c} : cpc'[b] = cpc[b]
      /\ answer'[c] = <<<<c, Head(owed[c])>>, x>>
      /\ \A b \in Callers \ {c} : answer'[b] = answer[b]
      /\ res'[f] = Tail(res[f]) /\ \A g \in Functions \ {f} : res'[g] = res[g]
  BY <1>1, <1>2 DEF EndGet, CallerGoto, TypeInv, TypeOK, thread
<1>4. /\ Range(res[f]) = Range(res'[f]) \cup {x} /\ x \notin Range(res'[f])
  BY <1>1, <1>2, <1>3, InLine, TailRange DEF Placed
<1>5. Target[x[1]] = f
  BY <1>1, <1>4 DEF Placed
<1>6. \A g \in Functions \ {f} : x \notin Range(res[g])
  BY <1>5 DEF Placed
<1>7. ASSUME NEW d \in Dispatchers, dpc[d] = "respond" PROVE x # hand[d]
  <2>1. Head(batch[d]) \in Functions /\ InHand(d, Head(batch[d]))
    BY <1>7 DEF TypeInv, HandsFull, InHand, Busy
  <2>2. Target[hand[d][1]] = Head(batch[d]) /\ hand[d] \notin Range(res[Head(batch[d])])
    BY <2>1 DEF Placed
  <2>3. QED
    BY <1>4, <1>5, <2>2
<1>8. x \in Answerable
  BY <1>1, <1>4, AnswerableIs
<1>9. Answerable' = Answerable \ {x}
  <2>1. ASSUME NEW r PROVE r \in Answerable' <=> r \in Answerable /\ r # x
    <3>1. (\E g \in Functions : r \in Range(res'[g])) <=>
            (\E g \in Functions : r \in Range(res[g])) /\ r # x
      BY <1>1, <1>3, <1>4, <1>6
    <3>2. QED
      BY <1>3, <1>7, <3>1, AnswerableIs
  <2>2. QED
    BY <2>1
<1>10. Waiting' = Waiting
  <2>1. ASSUME NEW r PROVE r \in Waiting' <=> r \in Waiting
    <3>1. (\E b \in Callers : cpc'[b] = "calling" /\ r = <<b, calls'[b]>>) <=>
            \E b \in Callers : cpc[b] = "calling" /\ r = <<b, calls[b]>>
      BY <1>3
    <3>2. QED
      BY <1>3, <3>1, WaitingIs
  <2>2. QED
    BY <2>1
<1>11. answer'[c] # None
  <2>1. Head(owed[c]) \in Nat
    <3>1. owed[c] \in Seq(1 .. MaxCalls) /\ owed[c] # <<>>
      BY <1>3 DEF TypeInv, Numbered, TypeOK
    <3>2. Head(owed[c]) \in 1 .. MaxCalls
      BY <3>1, TailOf
    <3>3. QED
      BY <3>2
  <2>2. <<c, Head(owed[c])>> \in Callers \X Nat /\ x \in Callers \X Nat
    BY <2>1 DEF Requests
  <2>3. QED
    BY <1>3, <2>2, HostFunctionAssumption
<1>12. Taken' = [Taken EXCEPT ![c] = x]
  <2>1. answer'[c][2] = x
    BY <1>3
  <2>2. \A b \in Callers : Taken'[b] = [Taken EXCEPT ![c] = x][b]
    BY <1>3, <1>11, <2>1 DEF Taken
  <2>3. QED
    BY <2>2 DEF Taken
<1>13. Made' = Made
  BY <1>3, MadeKept
<1>14. QED
  BY <1>3, <1>5, <1>8, <1>9, <1>10, <1>12, <1>13 DEF RC!Take, RC!Of

LEMMA RemoteStep ==
  ASSUME PlaceInv, TypeInv', Quiet \/ Moves PROVE [RC!Next]_(RC!vars)
<1> USE DEF PlaceInv
<1>1. CASE Quiet
  BY <1>1, QuietLoses DEF RC!Next
<1>2. CASE \E c \in Callers : BeginCall(c)
  BY <1>2, BeginCallMakes DEF RC!Next
<1>3. CASE \E c \in Callers : EndGet(c)
  BY <1>3, EndGetTakes DEF RC!Next
<1>4. CASE \E d \in Dispatchers : Executes(d)
  BY <1>4, ExecuteRuns DEF RC!Next
<1>5. CASE \/ \E c \in Callers : EndCall(c)
           \/ \E d \in Dispatchers : ReadRequest(d) \/ Respond(d)
  BY <1>5, EndCallStutters, ReadRequestStutters, RespondStutters
<1>6. QED
  BY <1>1, <1>2, <1>3, <1>4, <1>5 DEF Moves

\* Callers, FIFOs and threads together call remotely, each call at most once,
\* whoever shares a function and whoever is killed.
THEOREM ImplementsRemoteCall == Spec => AtMostOnce
<1>1. Init => RC!Init
  BY InitRemote
<1>2. PlaceInv /\ PlaceInv' /\ [Next]_vars => [RC!Next]_(RC!vars)
  BY QuietOrMoves, RemoteStep DEF PlaceInv
<1>3. QED
  BY <1>1, <1>2, Places, PTL DEF Spec, AtMostOnce, RC!Spec

-----------------------------------------------------------------------------
(* The exit command.  What its thread has left to do when a dispatcher is freed *)

\* There is no command, and no sign of one.
NotAsked(d) ==
  /\ ~toDaemon[d] /\ ~fromDaemon[d] /\ ~shouldExit[d]
  /\ dpc[d] \notin {"acknowledge", "exited"} /\ Control \notin Range(batch[d])

\* The thread has answered, and handles what epoll reported beside the command.
LastBatch(d) ==
  /\ ~toDaemon[d] /\ shouldExit[d]
  /\ dpc[d] \notin {"wait", "acknowledge"}
  /\ Control \notin Range(batch[d]) /\ Len(batch[d]) < MAX_EPOLL_EVENTS

\* The phases of the handshake of delete_host_function_dispatcher.
Handshake(d) ==
  \/ main[d] \in {"none", "running"} /\ NotAsked(d)
  \/ main[d] = "deleting" /\ toDaemon[d] /\ ~fromDaemon[d] /\ ~shouldExit[d]
       /\ dpc[d] \notin {"acknowledge", "exited"}
  \/ main[d] = "deleting" /\ ~toDaemon[d] /\ ~fromDaemon[d] /\ shouldExit[d]
       /\ dpc[d] = "acknowledge" /\ Head(batch[d]) = Control
  \/ main[d] = "deleting" /\ fromDaemon[d] /\ LastBatch(d)
  \/ main[d] = "freed" /\ ~fromDaemon[d] /\ LastBatch(d)
  \/ main[d] = "freed" /\ d \in Faulty /\ NotAsked(d) /\ dpc[d] \in {"wait", "faulted"}

\* epoll reports everything once, and at most MAX_EPOLL_EVENTS of it.
Reported(d) ==
  /\ Distinct(batch[d]) /\ Len(batch[d]) <= MAX_EPOLL_EVENTS
  /\ dpc[d] \in {"none", "wait"} => batch[d] = <<>>

DeleteInv == TypeInv /\ \A d \in Dispatchers : Handshake(d) /\ Reported(d)

\* A dispatcher of which nothing here changes.
LEMMA HandshakeKept ==
  ASSUME NEW d \in Dispatchers, Handshake(d), Reported(d),
         main'[d] = main[d], toDaemon'[d] = toDaemon[d], fromDaemon'[d] = fromDaemon[d],
         shouldExit'[d] = shouldExit[d], dpc'[d] = dpc[d], batch'[d] = batch[d]
  PROVE  Handshake(d)' /\ Reported(d)'
BY DEF Handshake, NotAsked, LastBatch, Reported, Distinct, Range

\* A thread that goes from one step to another within its batch.
LEMMA HandshakeWithin ==
  ASSUME NEW d \in Dispatchers, Handshake(d), Reported(d),
         main'[d] = main[d], toDaemon'[d] = toDaemon[d], fromDaemon'[d] = fromDaemon[d],
         shouldExit'[d] = shouldExit[d], batch'[d] = batch[d],
         dpc[d] \notin {"none", "wait", "acknowledge", "exited"},
         dpc'[d] \in {"next", "execute", "respond", "faulted"},
         main[d] = "freed" => dpc[d] # "faulted"
  PROVE  Handshake(d)' /\ Reported(d)'
BY DEF Handshake, NotAsked, LastBatch, Reported, Distinct, Range

\* A thread that is done with an event that is not the command.
LEMMA HandshakeDrop ==
  ASSUME TypeInv, NEW d \in Dispatchers, Handshake(d), Reported(d), batch[d] # <<>>,
         main'[d] = main[d], toDaemon'[d] = toDaemon[d], fromDaemon'[d] = fromDaemon[d],
         shouldExit'[d] = shouldExit[d], batch'[d] = Tail(batch[d]),
         dpc[d] \in {"next", "execute", "respond"}, dpc'[d] = "next"
  PROVE  Handshake(d)' /\ Reported(d)'
<1>1. /\ Range(Tail(batch[d])) \subseteq Range(batch[d])
      /\ Distinct(batch[d]) => Distinct(Tail(batch[d]))
      /\ Len(batch[d]) \in Nat /\ Len(Tail(batch[d])) = Len(batch[d]) - 1
  BY TailOf, TailRange DEF TypeInv, TypeOK
<1>2. Reported(d)'
  BY <1>1, HostFunctionAssumption DEF Reported, Distinct
<1>3. Len(batch[d]) < MAX_EPOLL_EVENTS => Len(Tail(batch[d])) < MAX_EPOLL_EVENTS
  BY <1>1, HostFunctionAssumption
<1>4. Control \notin Range(batch[d]) => Control \notin Range(batch'[d])
  BY <1>1
<1>5. Handshake(d)'
  BY <1>1, <1>3, <1>4 DEF Handshake, NotAsked, LastBatch, Range
<1>6. QED
  BY <1>2, <1>5

\* What epoll_wait reports.
LEMMA ReportOf ==
  ASSUME TypeInv, NEW d \in Dispatchers, EpollWait(d)
  PROVE  /\ Distinct(batch'[d]) /\ Len(batch'[d]) <= MAX_EPOLL_EVENTS
         /\ Control \in Range(batch'[d]) => toDaemon[d]
<1>1. PICK S \in kSubset(Min({MAX_EPOLL_EVENTS, Cardinality(Ready(d))}), Ready(d)) :
        \E events \in SetToSeqs(S) : batch' = [batch EXCEPT ![d] = events]
  BY DEF EpollWait
<1>2. PICK events \in SetToSeqs(S) : batch'[d] = events
  BY <1>1 DEF TypeInv, TypeOK
<1>3. IsFiniteSet(Ready(d)) /\ Cardinality(Ready(d)) \in Nat
  <2>1. Ready(d) \subseteq Functions \cup {Control}
    BY DEF Ready, TypeInv, TypeOK
  <2>2. QED
    BY <2>1, FS_AddElement, FS_Subset, FS_CardinalityType, HostFunctionAssumption
<1>4. PICK n \in Nat : n = Cardinality(Ready(d))
  BY <1>3
<1>5. PICK k \in Nat : k = Min({MAX_EPOLL_EVENTS, n}) /\ k <= MAX_EPOLL_EVENTS
  <2>1. \E k \in {MAX_EPOLL_EVENTS, n} : \A y \in {MAX_EPOLL_EVENTS, n} : k <= y
    BY HostFunctionAssumption
  <2>2. QED
    BY <2>1, HostFunctionAssumption DEF Min
<1>6. S \subseteq Ready(d) /\ Cardinality(S) = k
  BY <1>4, <1>5 DEF kSubset
<1>7. /\ events \in [1 .. k -> S]
      /\ \A i, j \in 1 .. k : i # j => events[i] # events[j]
  BY <1>6 DEF SetToSeqs
<1>8. Len(events) = k
  BY <1>7
<1>9. Control \in Range(events) => toDaemon[d]
  BY <1>6, <1>7, HostFunctionAssumption DEF Range, Ready, TypeInv, TypeOK
<1>10. QED
  BY <1>2, <1>5, <1>7, <1>8, <1>9 DEF Distinct

LEMMA HandshakeOwner ==
  ASSUME TypeInv, NEW d \in Dispatchers, Handshake(d), Reported(d),
         OwnerStep(d) \/ DispatcherCrash(d)
  PROVE  Handshake(d)' /\ Reported(d)'
<1> USE DEF TypeInv, TypeOK
<1>1. ASSUME Renew(d)
      PROVE  /\ ~toDaemon'[d] /\ ~fromDaemon'[d] /\ ~shouldExit'[d]
             /\ dpc'[d] = "wait" /\ batch'[d] = <<>>
  BY <1>1 DEF Renew, control, Handshake, NotAsked, LastBatch
<1>2. CASE Create(d) \/ CreateFails(d)
  <2>1. main'[d] = "running" \/ (main'[d] = "freed" /\ d \in Faulty)
    BY <1>2 DEF Create, CreateFails
  <2>2. QED
    BY <1>1, <1>2, <2>1, HostFunctionAssumption
       DEF Create, CreateFails, Handshake, NotAsked, Reported, Distinct, Range
<1>3. CASE \E f \in Functions : Attach(d, f)
  BY <1>3, HandshakeKept DEF Attach, control, thread
<1>4. CASE Delete(d)
  BY <1>4 DEF Delete, thread, Handshake, NotAsked, LastBatch, Reported, Distinct, Range
<1>5. CASE Free(d)
  BY <1>5 DEF Free, thread, Handshake, NotAsked, LastBatch, Reported, Distinct, Range
<1>6. CASE DispatcherCrash(d)
  <2>1. /\ main'[d] = "none" /\ toDaemon'[d] = FALSE /\ fromDaemon'[d] = FALSE
        /\ shouldExit'[d] = FALSE /\ dpc'[d] = "none" /\ batch'[d] = <<>>
    BY <1>6 DEF DispatcherCrash, ThreadGoto
  <2>2. QED
    BY <2>1, HostFunctionAssumption DEF Handshake, NotAsked, Reported, Distinct, Range
<1>7. QED
  BY <1>2, <1>3, <1>4, <1>5, <1>6 DEF OwnerStep

LEMMA HandshakeThread ==
  ASSUME TypeInv, NEW d \in Dispatchers, Handshake(d), Reported(d), ThreadStep(d)
  PROVE  Handshake(d)' /\ Reported(d)'
<1> USE DEF TypeInv, TypeOK
<1>1. CASE EpollWait(d)
  <2>1. /\ dpc[d] = "wait" /\ dpc'[d] = "next" /\ main[d] # "freed" /\ main'[d] = main[d]
        /\ toDaemon'[d] = toDaemon[d] /\ fromDaemon'[d] = fromDaemon[d]
        /\ shouldExit'[d] = shouldExit[d]
    BY <1>1 DEF EpollWait, ThreadGoto, owner, control
  <2>2. Reported(d)'
    BY <1>1, <2>1, ReportOf DEF Reported, Distinct
  <2>3. Control \in Range(batch'[d]) => toDaemon[d]
    BY <1>1, ReportOf
  <2>4. Handshake(d)'
    BY <2>1, <2>3 DEF Handshake, NotAsked, LastBatch, Range
  <2>5. QED
    BY <2>2, <2>4
<1>2. CASE BatchDone(d)
  BY <1>2, HostFunctionAssumption
     DEF BatchDone, ThreadGoto, owner, control, Handshake, NotAsked, LastBatch, Reported, Distinct, Range
<1>3. CASE ReadControl(d)
  <2>1. /\ dpc[d] = "next" /\ dpc'[d] = "acknowledge" /\ main'[d] = main[d]
        /\ toDaemon'[d] = FALSE /\ fromDaemon'[d] = fromDaemon[d] /\ shouldExit'[d] = TRUE
        /\ batch'[d] = batch[d] /\ Head(batch[d]) = Control
    BY <1>3 DEF ReadControl, ThreadGoto, owner
  <2>2. Control \in Range(batch[d])
    BY <1>3, <2>1, TailRange DEF ReadControl
  <2>3. QED
    BY <2>1, <2>2 DEF Handshake, NotAsked, LastBatch, Reported, Distinct, Range
<1>4. CASE Acknowledge(d)
  <2>1. /\ dpc[d] = "acknowledge" /\ dpc'[d] = "next" /\ main'[d] = main[d]
        /\ toDaemon'[d] = toDaemon[d] /\ fromDaemon'[d] = TRUE /\ shouldExit'[d] = shouldExit[d]
        /\ batch'[d] = Tail(batch[d]) /\ batch[d] # <<>>
    BY <1>4 DEF Acknowledge, ThreadGoto, DropEvent, owner, HandsFull
  <2>2. /\ Len(batch[d]) \in Nat /\ Len(Tail(batch[d])) = Len(batch[d]) - 1
        /\ Distinct(batch[d]) => Distinct(Tail(batch[d])) /\ Head(batch[d]) \notin Range(Tail(batch[d]))
    BY <2>1, TailOf, TailRange
  <2>3. Reported(d)' /\ Len(batch'[d]) < MAX_EPOLL_EVENTS
    BY <2>1, <2>2, HostFunctionAssumption DEF Reported, Distinct
  <2>4. Handshake(d)'
    BY <2>1, <2>2, <2>3 DEF Handshake, NotAsked, LastBatch, Reported
  <2>5. QED
    BY <2>3, <2>4
<1>5. CASE ReadRequest(d)
  BY <1>5, HandshakeWithin DEF ReadRequest, AtRequest, ThreadGoto, owner, control
<1>6. CASE Execute(d) \/ ExecuteUnanswered(d)
  <2>1. CASE Execute(d)
    BY <2>1, HandshakeWithin DEF Execute, ThreadGoto, owner, control
  <2>2. CASE ExecuteUnanswered(d)
    BY <2>2, HandshakeDrop DEF ExecuteUnanswered, ThreadGoto, DropEvent, owner, control, HandsFull, Busy
  <2>3. QED
    BY <1>6, <2>1, <2>2
<1>7. CASE Respond(d)
  BY <1>7, HandshakeDrop DEF Respond, ThreadGoto, DropEvent, owner, control, HandsFull, Busy
<1>8. CASE UseFreed(d)
  <2>1. /\ main[d] = "freed" /\ main' = main /\ toDaemon' = toDaemon /\ fromDaemon' = fromDaemon
        /\ shouldExit' = shouldExit /\ Uses(d)
    BY <1>8 DEF UseFreed, owner, control
  <2>2. CASE ThreadGoto(d, "faulted") /\ UNCHANGED batch
    BY <2>1, <2>2 DEF ThreadGoto, Uses, AtRequest, Handshake, NotAsked, LastBatch, Reported,
                      Distinct, Range
  <2>3. CASE dpc[d] # "wait" /\ DropEvent(d) /\ ThreadGoto(d, "next")
    BY <2>1, <2>3, HandshakeDrop DEF ThreadGoto, DropEvent, Uses, AtRequest, HandsFull, Busy
  <2>4. QED
    BY <1>8, <2>2, <2>3 DEF UseFreed
<1>9. QED
  BY <1>1, <1>2, <1>3, <1>4, <1>5, <1>6, <1>7, <1>8 DEF ThreadStep

\* Owner and thread of one dispatcher leave all others alone.
LEMMA HandshakeElsewhere ==
  ASSUME TypeInv, NEW d \in Dispatchers, OwnerStep(d) \/ ThreadStep(d) \/ DispatcherCrash(d),
         NEW e \in Dispatchers \ {d}, Handshake(e), Reported(e)
  PROVE  Handshake(e)' /\ Reported(e)'
<1> USE DEF TypeInv, TypeOK
<1>1. /\ main'[e] = main[e] /\ toDaemon'[e] = toDaemon[e] /\ fromDaemon'[e] = fromDaemon[e]
      /\ shouldExit'[e] = shouldExit[e] /\ dpc'[e] = dpc[e]
  BY DEF OwnerStep, Create, CreateFails, Renew, Delete, Free, Attach, ThreadStep, EpollWait, BatchDone,
         ReadControl, Acknowledge, ReadRequest, UseFreed, Execute, ExecuteUnanswered, Respond,
         DispatcherCrash, ThreadGoto, owner, control, thread
<1>2. batch'[e] = batch[e]
  BY DEF OwnerStep, Create, CreateFails, Renew, Delete, Free, Attach, ThreadStep, EpollWait, BatchDone,
         ReadControl, Acknowledge, ReadRequest, UseFreed, Execute, ExecuteUnanswered, Respond,
         DispatcherCrash, DropEvent, thread
<1>3. QED
  BY <1>1, <1>2, HandshakeKept

LEMMA InitDelete == ASSUME Init PROVE DeleteInv
<1>1. TypeInv
  BY InitType
<1>2. ASSUME NEW d \in Dispatchers PROVE Handshake(d) /\ Reported(d)
  BY HostFunctionAssumption DEF Init, Handshake, NotAsked, Reported, Distinct, Range
<1>3. QED
  BY <1>1, <1>2 DEF DeleteInv

LEMMA StepDelete == ASSUME DeleteInv, [Next]_vars PROVE DeleteInv'
<1> USE DEF DeleteInv
<1>1. TypeInv'
  BY StepType
<1>2. ASSUME NEW d \in Dispatchers, OwnerStep(d) \/ ThreadStep(d) \/ DispatcherCrash(d),
             NEW e \in Dispatchers
      PROVE  Handshake(e)' /\ Reported(e)'
  BY <1>2, HandshakeOwner, HandshakeThread, HandshakeElsewhere
<1>3. ASSUME UNCHANGED <<owner, control, thread>>, NEW e \in Dispatchers
      PROVE  Handshake(e)' /\ Reported(e)'
  BY <1>3, HandshakeKept DEF owner, control, thread
<1>4. ASSUME NEW c \in Callers,
             \/ Link(c) \/ Unlink(c) \/ BeginCall(c) \/ BeginGet(c)
             \/ CallerStep(c) \/ CallerCrash(c)
      PROVE  UNCHANGED <<owner, control, thread>>
  BY <1>4 DEF Link, Unlink, BeginCall, BeginGet, CallerStep, EndCall, EndGet, CallerCrash, LetGo
<1>5. \A e \in Dispatchers : Handshake(e)' /\ Reported(e)'
  BY <1>2, <1>3, <1>4 DEF Next, vars
<1>6. QED
  BY <1>1, <1>5

LEMMA Deletes == Spec => []DeleteInv
BY InitDelete, StepDelete, PTL DEF Spec

\* Once a dispatcher is freed its thread is in its last batch, and has fewer events
\* of it left than one epoll_wait reports, whoever is killed and whichever
\* dispatchers are deleted and replaced; only one that could not be created waits.
THEOREM FreedInLastBatch == Spec => []OnlyLastBatch
<1>1. DeleteInv => OnlyLastBatch
  BY DEF DeleteInv, Handshake, NotAsked, LastBatch, Reported, OnlyLastBatch, Uses, AtRequest
<1>2. QED
  BY <1>1, Deletes, PTL

-----------------------------------------------------------------------------
(* Order.  No function is attached to two dispatchers that both run: with two, *)
(* the one that took the earlier request may run it later.                    *)

Exclusive ==
  \A d, e \in Dispatchers :
    ~Over(d) /\ ~Over(e) /\ attached[d] \cap attached[e] # {} => d = e

\* What epoll reported is attached; nothing is ever detached from a dispatcher.
Events == \A d \in Dispatchers : batch[d] \in Seq(attached[d] \cup {Control})

Before(x, y) == x[1] = y[1] => x[2] < y[2]
Ahead(p, q) == \A i \in DOMAIN p, j \in DOMAIN q : Before(p[i], q[j])
Ordered(q) == \A i, j \in DOMAIN q : i < j => Before(q[i], q[j])

AllPast(q) == \A i \in DOMAIN q : Past(q[i])

\* Along the way of the requests of a function, from the end: what it has run
\* and its responses, then the request in hand, then those in the FIFO.
Line(f) ==
  /\ AllPast(req[f]) /\ AllPast(res[f]) /\ AllPast(executed[f])
  /\ Ordered(req[f]) /\ Ordered(res[f]) /\ Ordered(executed[f])
  /\ Ahead(res[f], req[f]) /\ Ahead(executed[f], req[f])
  /\ \A d \in Dispatchers : InHand(d, f) =>
       /\ Past(hand[d])
       /\ \A i \in DOMAIN req[f] : Before(hand[d], req[f][i])
       /\ \A i \in DOMAIN res[f] : Before(res[f][i], hand[d])
       /\ dpc[d] = "execute" => \A i \in DOMAIN executed[f] : Before(executed[f][i], hand[d])

OrderInv == TypeInv /\ Events /\ \A f \in Functions : Line(f)

LEMMA EventsStep == ASSUME TypeInv, Events, [Next]_vars PROVE Events'
<1> USE HostFunctionAssumption DEF TypeInv
<1>1. CASE batch' = batch /\ attached' = attached
  BY <1>1 DEF Events
<1>2. ASSUME NEW d \in Dispatchers, DropEvent(d), batch[d] # <<>>, attached' = attached
      PROVE  Events'
  <2>1. Tail(batch[d]) \in Seq(attached[d] \cup {Control})
    BY <1>2, TailOf DEF Events
  <2>2. QED
    BY <1>2, <2>1 DEF Events, DropEvent, TypeOK
<1>3. ASSUME NEW d \in Dispatchers, NEW f \in Functions, Attach(d, f) PROVE Events'
  <2>1. batch' = batch /\ \A e \in Dispatchers : attached[e] \subseteq attached'[e]
    BY <1>3 DEF Attach, TypeOK, thread
  <2>2. ASSUME NEW e \in Dispatchers PROVE batch[e] \in Seq(attached'[e] \cup {Control})
    <3>1. attached[e] \cup {Control} \subseteq attached'[e] \cup {Control}
      BY <2>1
    <3>2. batch[e] \in Seq(attached[e] \cup {Control})
      BY DEF Events
    <3>3. QED
      BY <3>1, <3>2, SeqOfMore
  <2>3. QED
    BY <2>1, <2>2 DEF Events
<1>4. ASSUME NEW d \in Dispatchers, EpollWait(d) PROVE Events'
  <2>1. PICK S \in kSubset(Min({MAX_EPOLL_EVENTS, Cardinality(Ready(d))}), Ready(d)) :
          \E events \in SetToSeqs(S) : batch' = [batch EXCEPT ![d] = events]
    BY <1>4 DEF EpollWait
  <2>2. S \in SUBSET (attached[d] \cup {Control})
    BY DEF kSubset, Ready, TypeOK
  <2>3. PICK events \in Seq(attached[d] \cup {Control}) : batch' = [batch EXCEPT ![d] = events]
    BY <2>1, <2>2, EventsOf DEF TypeOK
  <2>4. QED
    BY <1>4, <2>3 DEF EpollWait, Events, TypeOK, owner
<1>5. ASSUME NEW d \in Dispatchers, DispatcherCrash(d) PROVE Events'
  BY <1>5 DEF DispatcherCrash, Events, TypeOK
<1>6. ASSUME NEW d \in Dispatchers, ThreadStep(d) PROVE Events'
  <2>1. CASE EpollWait(d)
    BY <1>4, <2>1
  <2>2. CASE BatchDone(d) \/ ReadControl(d) \/ ReadRequest(d)
    BY <1>1, <2>2 DEF BatchDone, ReadControl, ReadRequest, owner
  <2>3. CASE Acknowledge(d)
    BY <1>2, <2>3 DEF Acknowledge, owner, HandsFull
  <2>4. CASE UseFreed(d)
    BY <1>1, <1>2, <2>4 DEF UseFreed, Uses, AtRequest, owner, HandsFull, Busy
  <2>5. CASE Execute(d) \/ ExecuteUnanswered(d)
    BY <1>1, <1>2, <2>5 DEF Execute, ExecuteUnanswered, owner, HandsFull, Busy
  <2>6. CASE Respond(d)
    BY <1>2, <2>6 DEF Respond, owner, HandsFull, Busy
  <2>7. QED
    BY <1>6, <2>1, <2>2, <2>3, <2>4, <2>5, <2>6 DEF ThreadStep
<1>7. ASSUME NEW d \in Dispatchers, OwnerStep(d) PROVE Events'
  <2>1. CASE Create(d) \/ CreateFails(d)
    <3>1. batch'[d] = <<>> /\ \A e \in Dispatchers \ {d} : batch'[e] = batch[e] /\ attached'[e] = attached[e]
      BY <2>1 DEF Create, CreateFails, Renew, TypeOK
    <3>2. <<>> \in Seq(attached'[d] \cup {Control})
      OBVIOUS
    <3>3. QED
      BY <3>1, <3>2 DEF Events
  <2>2. QED
    BY <1>1, <1>3, <1>7, <2>1 DEF OwnerStep, Delete, Free, thread
<1>8. ASSUME NEW c \in Callers,
             \/ Link(c) \/ Unlink(c) \/ BeginCall(c) \/ BeginGet(c)
             \/ CallerStep(c) \/ CallerCrash(c)
      PROVE  Events'
  BY <1>1, <1>8 DEF Link, Unlink, BeginCall, BeginGet, CallerStep, EndCall, EndGet, CallerCrash,
                    LetGo, owner, thread
<1>9. CASE UNCHANGED vars
  BY <1>1, <1>9 DEF vars, owner, thread
<1>10. QED
  BY <1>5, <1>6, <1>7, <1>8, <1>9 DEF Next

\* A function whose requests stay where they are, or go.
LEMMA LineKept ==
  ASSUME TypeInv, NEW f \in Functions, Line(f),
         req'[f] \in {req[f], <<>>}, res'[f] \in {res[f], <<>>}, executed'[f] = executed[f],
         \A x \in Requests : Past(x) => Past(x)',
         \A d \in Dispatchers : InHand(d, f)' =>
           dpc'[d] = dpc[d] /\ hand'[d] = hand[d] /\ batch'[d] = batch[d]
  PROVE  Line(f)'
<1>1. /\ \A i \in DOMAIN req'[f] : i \in DOMAIN req[f] /\ req'[f][i] = req[f][i]
      /\ \A i \in DOMAIN res'[f] : i \in DOMAIN res[f] /\ res'[f][i] = res[f][i]
  OBVIOUS
<1>2. /\ \A i \in DOMAIN req[f] : req[f][i] \in Requests
      /\ \A i \in DOMAIN res[f] : res[f][i] \in Requests
      /\ \A i \in DOMAIN executed[f] : executed[f][i] \in Requests
  BY DEF TypeInv, TypeOK
<1>3. AllPast(req[f])' /\ AllPast(res[f])' /\ AllPast(executed[f])'
  BY <1>1, <1>2 DEF Line, AllPast
<1>4. Ordered(req[f])' /\ Ordered(res[f])' /\ Ordered(executed[f])'
  BY <1>1 DEF Line, Ordered
<1>5. Ahead(res[f], req[f])' /\ Ahead(executed[f], req[f])'
  BY <1>1 DEF Line, Ahead
<1>6. ASSUME NEW d \in Dispatchers, InHand(d, f)'
      PROVE  /\ Past(hand[d])'
             /\ \A i \in DOMAIN req'[f] : Before(hand'[d], req'[f][i])
             /\ \A i \in DOMAIN res'[f] : Before(res'[f][i], hand'[d])
             /\ dpc'[d] = "execute" => \A i \in DOMAIN executed'[f] : Before(executed'[f][i], hand'[d])
  <2>1. InHand(d, f) /\ hand[d] \in Requests
    BY <1>6 DEF InHand, Busy, TypeInv, HandsFull
  <2>2. dpc'[d] = dpc[d] /\ hand'[d] = hand[d]
    BY <1>6
  <2>3. Past(hand[d])'
    BY <2>1, <2>2 DEF Line, Past
  <2>4. QED
    BY <1>1, <2>1, <2>2, <2>3 DEF Line
<1>7. QED
  BY <1>3, <1>4, <1>5, <1>6 DEF Line, Before

\* The function of the event being handled is attached.
LEMMA HeadAttached ==
  ASSUME Events, NEW f \in Functions, NEW d \in Dispatchers, batch[d] # <<>>, Head(batch[d]) = f
  PROVE  f \in attached[d]
<1>1. Head(batch[d]) \in attached[d] \cup {Control}
  BY TailOf DEF Events
<1>2. QED
  BY <1>1, HostFunctionAssumption

\* Only one dispatcher has a request of a function in hand.
LEMMA OneHand ==
  ASSUME TypeInv, Events, Exclusive, NEW f \in Functions,
         NEW d \in Dispatchers, NEW e \in Dispatchers, batch[d] # <<>>, Head(batch[d]) = f,
         ~Over(d), InHand(e, f)
  PROVE  d = e
<1>1. f \in attached[d]
  BY HeadAttached
<1>2. batch[e] # <<>> /\ Head(batch[e]) = f
  BY DEF InHand, TypeInv, HandsFull
<1>3. f \in attached[e]
  BY <1>2, HeadAttached
<1>4. ~Over(e)
  BY DEF InHand, Busy, Over
<1>5. QED
  BY <1>1, <1>3, <1>4 DEF Exclusive

LEMMA LineBeginCall ==
  ASSUME TypeInv, NEW f \in Functions, Line(f), NEW c \in Callers, BeginCall(c)
  PROVE  Line(f)'
BY PastBeginCall, LineKept DEF BeginCall, pipes, control, thread, InHand, Busy

LEMMA LineEndCall ==
  ASSUME TypeInv, NEW f \in Functions, Line(f), NEW c \in Callers, EndCall(c)
  PROVE  Line(f)'
<1>0. PICK x \in Requests : x = <<c, calls[c]>>
  BY DEF EndCall, TypeInv, Numbered, Requests
<1>1. x[1] = c /\ x[2] = calls[c] /\ cpc[c] = "calling"
  BY <1>0 DEF EndCall
<1>2. ASSUME NEW y \in Requests, Past(y) PROVE Past(y)' /\ Before(y, x)
  <2>1. Past(y)'
    BY <1>2, PastKept DEF EndCall, CallerGoto, TypeInv, TypeOK
  <2>2. QED
    BY <1>1, <1>2, <2>1 DEF Past, Before
<1>3. CASE f # Target[c]
  <2>1. req'[f] = req[f]
    BY <1>3 DEF EndCall, TypeInv, TypeOK
  <2>2. QED
    BY <1>2, <2>1, LineKept DEF EndCall, control, thread, InHand, Busy
<1>4. CASE f = Target[c]
  <2>1. req'[f] = Append(req[f], x) /\ res' = res /\ executed' = executed
    BY <1>0, <1>4 DEF EndCall, TypeInv, TypeOK, thread
  <2>2. hand' = hand /\ dpc' = dpc /\ batch' = batch
    BY DEF EndCall, thread
  <2>3. /\ \A i \in DOMAIN req[f] : req[f][i] \in Requests
        /\ \A i \in DOMAIN res[f] : res[f][i] \in Requests
        /\ \A i \in DOMAIN executed[f] : executed[f][i] \in Requests
    BY DEF TypeInv, TypeOK
  <2>4. /\ Len(req[f]) \in Nat /\ DOMAIN req[f] = 1 .. Len(req[f])
        /\ DOMAIN req'[f] = 1 .. Len(req[f]) + 1 /\ req'[f][Len(req[f]) + 1] = x
        /\ \A i \in DOMAIN req[f] : req'[f][i] = req[f][i]
    BY <1>1, <2>1, AppendOf DEF TypeInv, TypeOK
  <2>5. Past(x)'
    <3>1. cpc'[c] = "idle" /\ calls'[c] = calls[c] /\ calls[c] \in Nat
      BY DEF EndCall, CallerGoto, TypeInv, TypeOK
    <3>2. QED
      BY <1>1, <3>1 DEF Past
  <2>6. AllPast(req[f])' /\ AllPast(res[f])' /\ AllPast(executed[f])'
    <3>1. AllPast(req[f])'
      BY <1>2, <2>3, <2>4, <2>5 DEF Line, AllPast
    <3>2. QED
      BY <1>2, <2>1, <2>3, <3>1 DEF Line, AllPast
  <2>7. Ordered(req[f])'
    <3>1. ASSUME NEW i \in DOMAIN req'[f], NEW j \in DOMAIN req'[f], i < j
          PROVE  Before(req'[f][i], req'[f][j])
      <4>1. CASE j = Len(req[f]) + 1
        BY <1>2, <2>3, <2>4, <3>1, <4>1 DEF Line, AllPast
      <4>2. CASE j # Len(req[f]) + 1
        BY <2>4, <3>1, <4>2 DEF Line, Ordered
      <4>3. QED
        BY <4>1, <4>2
    <3>2. QED
      BY <3>1 DEF Ordered, Before
  <2>8. Ordered(res[f])' /\ Ordered(executed[f])'
    BY <2>1 DEF Line, Ordered, Before
  <2>9. Ahead(res[f], req[f])' /\ Ahead(executed[f], req[f])'
    <3>1. ASSUME NEW y \in Requests, Past(y), \A j \in DOMAIN req[f] : Before(y, req[f][j])
          PROVE  \A j \in DOMAIN req'[f] : Before(y, req'[f][j])
      BY <1>2, <2>4, <3>1
    <3>2. \A i \in DOMAIN res[f] : \A j \in DOMAIN req'[f] : Before(res[f][i], req'[f][j])
      BY <2>3, <3>1 DEF Line, AllPast, Ahead
    <3>3. \A i \in DOMAIN executed[f] : \A j \in DOMAIN req'[f] : Before(executed[f][i], req'[f][j])
      BY <2>3, <3>1 DEF Line, AllPast, Ahead
    <3>4. QED
      BY <2>1, <3>2, <3>3 DEF Ahead, Before
  <2>10. ASSUME NEW d \in Dispatchers, InHand(d, f)'
         PROVE  /\ Past(hand[d])'
                /\ \A i \in DOMAIN req'[f] : Before(hand[d], req'[f][i])
                /\ \A i \in DOMAIN res[f] : Before(res[f][i], hand[d])
                /\ dpc[d] = "execute" => \A i \in DOMAIN executed[f] : Before(executed[f][i], hand[d])
    <3>1. InHand(d, f) /\ hand[d] \in Requests
      BY <2>2, <2>10 DEF InHand, Busy, TypeInv, HandsFull
    <3>2. Past(hand[d])
      BY <3>1 DEF Line
    <3>3. Past(hand[d])'
      BY <1>2, <2>2, <3>1, <3>2 DEF Past
    <3>4. QED
      BY <1>2, <2>4, <3>1, <3>2, <3>3 DEF Line
  <2>11. QED
    BY <2>1, <2>2, <2>6, <2>7, <2>8, <2>9, <2>10 DEF Line, Before
<1>5. QED
  BY <1>3, <1>4

LEMMA TailOrder ==
  ASSUME NEW q \in Seq(Requests), q # <<>>
  PROVE  /\ \A j \in DOMAIN Tail(q) : j + 1 \in DOMAIN q /\ Tail(q)[j] = q[j + 1]
         /\ Ordered(q) => /\ Ordered(Tail(q))
                          /\ \A j \in DOMAIN Tail(q) : Before(Head(q), Tail(q)[j])
<1>1. /\ Len(q) \in Nat /\ DOMAIN q = 1 .. Len(q) /\ DOMAIN Tail(q) = 1 .. Len(q) - 1
      /\ Head(q) = q[1] /\ \A j \in DOMAIN Tail(q) : Tail(q)[j] = q[j + 1]
  BY TailOf
<1>2. \A j \in DOMAIN Tail(q) : j + 1 \in DOMAIN q
  BY <1>1
<1>3. ASSUME Ordered(q)
      PROVE  Ordered(Tail(q)) /\ \A j \in DOMAIN Tail(q) : Before(Head(q), Tail(q)[j])
  <2>1. ASSUME NEW i \in DOMAIN Tail(q), NEW j \in DOMAIN Tail(q), i < j
        PROVE  Before(Tail(q)[i], Tail(q)[j])
    <3>1. i + 1 \in DOMAIN q /\ j + 1 \in DOMAIN q /\ i + 1 < j + 1
      BY <1>1, <2>1
    <3>2. QED
      BY <1>1, <1>3, <3>1 DEF Ordered
  <2>2. ASSUME NEW j \in DOMAIN Tail(q) PROVE Before(Head(q), Tail(q)[j])
    <3>1. 1 \in DOMAIN q /\ j + 1 \in DOMAIN q /\ 1 < j + 1
      BY <1>1
    <3>2. QED
      BY <1>1, <1>3, <3>1 DEF Ordered
  <2>3. QED
    BY <2>1, <2>2 DEF Ordered
<1>4. QED
  BY <1>1, <1>2, <1>3

LEMMA AppendOrder ==
  ASSUME NEW q \in Seq(Requests), NEW x \in Requests
  PROVE  /\ \A i \in DOMAIN Append(q, x) : \/ i \in DOMAIN q /\ Append(q, x)[i] = q[i]
                                           \/ Append(q, x)[i] = x
         /\ Ordered(q) /\ (\A i \in DOMAIN q : Before(q[i], x)) => Ordered(Append(q, x))
<1> DEFINE p == Append(q, x)
<1>1. /\ Len(q) \in Nat /\ DOMAIN q = 1 .. Len(q) /\ DOMAIN p = 1 .. Len(q) + 1
      /\ p[Len(q) + 1] = x /\ \A i \in DOMAIN q : p[i] = q[i]
  BY AppendOf
<1> HIDE DEF p
<1>2. \A i \in DOMAIN p : (i \in DOMAIN q /\ p[i] = q[i]) \/ p[i] = x
  BY <1>1
<1>3. ASSUME Ordered(q), \A i \in DOMAIN q : Before(q[i], x),
             NEW i \in DOMAIN p, NEW j \in DOMAIN p, i < j
      PROVE  Before(p[i], p[j])
  <2>1. i \in DOMAIN q /\ p[i] = q[i]
    BY <1>1, <1>3
  <2>2. CASE j \in DOMAIN q
    BY <1>1, <1>3, <2>1, <2>2 DEF Ordered
  <2>3. CASE j \notin DOMAIN q
    BY <1>1, <1>2, <1>3, <2>1, <2>3
  <2>4. QED
    BY <2>2, <2>3
<1>4. Ordered(q) /\ (\A i \in DOMAIN q : Before(q[i], x)) => Ordered(p)
  BY <1>3 DEF Ordered
<1>5. QED
  BY <1>2, <1>4 DEF p

LEMMA LineEndGet ==
  ASSUME TypeInv, NEW f \in Functions, Line(f), NEW c \in Callers, EndGet(c)
  PROVE  Line(f)'
<1>1. /\ req' = req /\ executed' = executed /\ hand' = hand /\ dpc' = dpc /\ batch' = batch
      /\ \A k \in Callers : calls'[k] = calls[k] /\ (cpc'[k] = "calling" => cpc[k] = "calling")
  BY DEF EndGet, CallerGoto, TypeInv, TypeOK, thread
<1>2. \A x \in Requests : Past(x) => Past(x)'
  BY <1>1, PastKept
<1>3. CASE f # Target[c]
  <2>1. res'[f] = res[f]
    BY <1>3 DEF EndGet, TypeInv, TypeOK
  <2>2. QED
    BY <1>1, <1>2, <2>1, LineKept
<1>4. CASE f = Target[c]
  <2>1. res[f] # <<>> /\ res'[f] = Tail(res[f])
    BY <1>4 DEF EndGet, TypeInv, TypeOK
  <2>2. \A i \in DOMAIN res'[f] : i + 1 \in DOMAIN res[f] /\ res'[f][i] = res[f][i + 1]
    BY <2>1, InLine, TailOrder
  <2>3. AllPast(req[f])' /\ AllPast(res[f])' /\ AllPast(executed[f])'
    BY <1>1, <1>2, <2>2, InLine DEF Line, AllPast
  <2>4. Ordered(req[f])' /\ Ordered(executed[f])'
    BY <1>1 DEF Line, Ordered, Before
  <2>5. Ordered(res[f])'
    <3>1. Ordered(Tail(res[f]))
      BY <2>1, InLine, TailOrder DEF Line
    <3>2. QED
      BY <2>1, <3>1 DEF Ordered, Before
  <2>6. Ahead(res[f], req[f])' /\ Ahead(executed[f], req[f])'
    BY <1>1, <2>2 DEF Line, Ahead, Before
  <2>7. ASSUME NEW d \in Dispatchers, InHand(d, f)
        PROVE  /\ Past(hand[d])'
               /\ \A i \in DOMAIN res'[f] : Before(res'[f][i], hand[d])
    <3>1. hand[d] \in Requests
      BY <2>7 DEF InHand, Busy, TypeInv, HandsFull
    <3>2. QED
      BY <1>1, <1>2, <2>2, <2>7, <3>1 DEF Line, Past
  <2>8. QED
    BY <1>1, <2>3, <2>4, <2>5, <2>6, <2>7 DEF Line, Before, InHand, Busy
<1>5. QED
  BY <1>3, <1>4

LEMMA LineReadRequest ==
  ASSUME OrderInv, Exclusive, NEW f \in Functions, NEW d \in Dispatchers, ReadRequest(d)
  PROVE  Line(f)'
<1> USE DEF OrderInv
<1>1. /\ res' = res /\ executed' = executed /\ batch' = batch /\ calls' = calls /\ cpc' = cpc
      /\ \A e \in Dispatchers \ {d} : hand'[e] = hand[e] /\ dpc'[e] = dpc[e]
      /\ dpc[d] = "next" /\ batch[d] # <<>>
  BY DEF ReadRequest, AtRequest, ThreadGoto, TypeInv, TypeOK, caller
<1>2. \A x \in Requests : Past(x) => Past(x)'
  BY <1>1 DEF Past
<1>3. CASE f # Head(batch[d])
  <2>1. req'[f] = req[f]
    BY <1>3 DEF ReadRequest, TypeInv, TypeOK
  <2>2. \A e \in Dispatchers : InHand(e, f)' => e # d
    BY <1>1, <1>3 DEF InHand
  <2>3. QED
    BY <1>1, <1>2, <2>1, <2>2, LineKept
<1>4. CASE f = Head(batch[d])
  <2>1. /\ req[f] # <<>> /\ req'[f] = Tail(req[f]) /\ hand'[d] = Head(req[f])
        /\ Head(req[f]) = req[f][1] /\ 1 \in DOMAIN req[f]
    BY <1>4, InLine, TailOf DEF ReadRequest, TypeInv, TypeOK
  <2>2. /\ \A i \in DOMAIN req'[f] : i + 1 \in DOMAIN req[f] /\ req'[f][i] = req[f][i + 1]
        /\ Ordered(Tail(req[f]))
        /\ \A i \in DOMAIN req'[f] : Before(hand'[d], req'[f][i])
    BY <2>1, InLine, TailOrder DEF Line
  <2>3. \A e \in Dispatchers : InHand(e, f)' => e = d
    BY <1>1, <1>4, OneHand DEF InHand, Busy, Over
  <2>4. AllPast(req[f])' /\ AllPast(res[f])' /\ AllPast(executed[f])'
    BY <1>1, <1>2, <2>2, InLine DEF Line, AllPast
  <2>5. Ordered(req[f])' /\ Ordered(res[f])' /\ Ordered(executed[f])'
    BY <1>1, <2>1, <2>2, ZenonT(40) DEF Line, Ordered, Before
  <2>6. Ahead(res[f], req[f])' /\ Ahead(executed[f], req[f])'
    BY <1>1, <2>2 DEF Line, Ahead, Before
  <2>7. /\ Past(hand[d])'
        /\ \A i \in DOMAIN res[f] : Before(res[f][i], hand'[d])
        /\ \A i \in DOMAIN executed[f] : Before(executed[f][i], hand'[d])
    BY <1>1, <2>1 DEF Line, AllPast, Past, Ahead
  <2>8. QED
    BY <1>1, <2>2, <2>3, <2>4, <2>5, <2>6, <2>7 DEF Line, Before
<1>5. QED
  BY <1>3, <1>4

LEMMA LineExecute ==
  ASSUME OrderInv, Exclusive, NEW f \in Functions, NEW d \in Dispatchers, Executes(d)
  PROVE  Line(f)'
<1> USE DEF OrderInv
<1>1. /\ req' = req /\ res' = res /\ calls' = calls /\ cpc' = cpc
      /\ \A e \in Dispatchers \ {d} : hand'[e] = hand[e] /\ dpc'[e] = dpc[e] /\ batch'[e] = batch[e]
      /\ dpc[d] = "execute" /\ hand[d] \in Requests /\ batch[d] # <<>>
      /\ dpc'[d] # "execute" /\ (Busy(d)' => hand'[d] = hand[d] /\ batch'[d] = batch[d])
  BY DEF Executes, TypeInv, TypeOK, HandsFull, Busy, pipes, caller
<1>2. \A x \in Requests : Past(x) => Past(x)'
  BY <1>1 DEF Past
<1>3. CASE f # Head(batch[d])
  <2>1. executed'[f] = executed[f]
    BY <1>3 DEF Executes, TypeInv, TypeOK
  <2>2. \A e \in Dispatchers : InHand(e, f)' => e # d
    BY <1>1, <1>3 DEF InHand
  <2>3. QED
    BY <1>1, <1>2, <2>1, <2>2, LineKept
<1>4. CASE f = Head(batch[d])
  <2>1. PICK x \in Requests : x = hand[d]
    BY <1>1
  <2>2. /\ executed'[f] = Append(executed[f], x)
        /\ InHand(d, f)
    BY <1>1, <1>4, <2>1 DEF Executes, TypeInv, TypeOK, InHand, Busy
  <2>3. \A i \in DOMAIN executed'[f] : \/ i \in DOMAIN executed[f] /\ executed'[f][i] = executed[f][i]
                                       \/ executed'[f][i] = x
    BY <2>2, InLine, AppendOrder
  <2>4. \A e \in Dispatchers : InHand(e, f)' => e = d
    <3>1. ASSUME NEW e \in Dispatchers, InHand(e, f)', e # d PROVE FALSE
      <4>1. InHand(e, f)
        BY <1>1, <3>1 DEF InHand, Busy
      <4>2. QED
        BY <1>1, <1>4, <3>1, <4>1, OneHand DEF Over
    <3>2. QED
      BY <3>1
  <2>5. Past(x) /\ Past(x)'
    BY <1>2, <2>1, <2>2 DEF Line
  <2>6. AllPast(req[f])' /\ AllPast(res[f])' /\ AllPast(executed[f])'
    BY <1>1, <1>2, <2>3, <2>5, InLine DEF Line, AllPast
  <2>7. Ordered(req[f])' /\ Ordered(res[f])' /\ Ordered(executed[f])'
    <3>1. Ordered(Append(executed[f], x))
      BY <1>1, <2>1, <2>2, InLine, AppendOrder DEF Line
    <3>2. QED
      BY <1>1, <2>2, <3>1 DEF Line, Ordered, Before
  <2>8. Ahead(res[f], req[f])' /\ Ahead(executed[f], req[f])'
    <3>1. \A j \in DOMAIN req[f] : Before(x, req[f][j])
      BY <2>1, <2>2 DEF Line
    <3>2. QED
      BY <1>1, <2>3, <3>1 DEF Line, Ahead, Before
  <2>9. Busy(d)' => /\ Past(hand[d])'
                    /\ \A i \in DOMAIN req[f] : Before(hand'[d], req[f][i])
                    /\ \A i \in DOMAIN res[f] : Before(res[f][i], hand'[d])
    BY <1>1, <2>1, <2>2, <2>5 DEF Line, Past
  <2>10. QED
    BY <1>1, <2>4, <2>6, <2>7, <2>8, <2>9 DEF Line, Before, InHand
<1>5. QED
  BY <1>3, <1>4

LEMMA LineRespond ==
  ASSUME OrderInv, Exclusive, NEW f \in Functions, NEW d \in Dispatchers, Respond(d)
  PROVE  Line(f)'
<1> USE DEF OrderInv
<1>1. /\ req' = req /\ executed' = executed /\ calls' = calls /\ cpc' = cpc
      /\ \A e \in Dispatchers \ {d} : hand'[e] = hand[e] /\ dpc'[e] = dpc[e] /\ batch'[e] = batch[e]
      /\ dpc[d] = "respond" /\ hand[d] \in Requests /\ batch[d] # <<>> /\ dpc'[d] = "next"
  BY DEF Respond, ThreadGoto, DropEvent, TypeInv, TypeOK, HandsFull, Busy, caller
<1>2. \A x \in Requests : Past(x) => Past(x)'
  BY <1>1 DEF Past
<1>3. CASE f # Head(batch[d])
  <2>1. res'[f] = res[f]
    BY <1>3 DEF Respond, TypeInv, TypeOK
  <2>2. \A e \in Dispatchers : InHand(e, f)' => e # d
    BY <1>1 DEF InHand, Busy
  <2>3. QED
    BY <1>1, <1>2, <2>1, <2>2, LineKept
<1>4. CASE f = Head(batch[d])
  <2>1. PICK x \in Requests : x = hand[d]
    BY <1>1
  <2>2. /\ res'[f] = Append(res[f], x)
        /\ InHand(d, f)
    BY <1>1, <1>4, <2>1 DEF Respond, TypeInv, TypeOK, InHand, Busy
  <2>3. \A i \in DOMAIN res'[f] : \/ i \in DOMAIN res[f] /\ res'[f][i] = res[f][i]
                                  \/ res'[f][i] = x
    BY <2>2, InLine, AppendOrder
  <2>4. \A e \in Dispatchers : ~InHand(e, f)'
    <3>1. ASSUME NEW e \in Dispatchers, InHand(e, f)' PROVE FALSE
      <4>1. e # d /\ InHand(e, f)
        BY <1>1, <3>1 DEF InHand, Busy
      <4>2. QED
        BY <1>1, <1>4, <4>1, OneHand DEF Over
    <3>2. QED
      BY <3>1
  <2>5. Past(x)'
    BY <1>2, <2>1, <2>2 DEF Line
  <2>6. AllPast(req[f])' /\ AllPast(res[f])' /\ AllPast(executed[f])'
    BY <1>1, <1>2, <2>3, <2>5, InLine DEF Line, AllPast
  <2>7. Ordered(req[f])' /\ Ordered(res[f])' /\ Ordered(executed[f])'
    <3>1. Ordered(Append(res[f], x))
      BY <2>1, <2>2, InLine, AppendOrder DEF Line
    <3>2. QED
      BY <1>1, <2>2, <3>1 DEF Line, Ordered, Before
  <2>8. Ahead(res[f], req[f])' /\ Ahead(executed[f], req[f])'
    <3>1. \A j \in DOMAIN req[f] : Before(x, req[f][j])
      BY <2>1, <2>2 DEF Line
    <3>2. QED
      BY <1>1, <2>3, <3>1 DEF Line, Ahead, Before
  <2>9. QED
    BY <2>4, <2>6, <2>7, <2>8 DEF Line
<1>5. QED
  BY <1>3, <1>4

LEMMA InitOrder == ASSUME Init PROVE OrderInv
<1>1. TypeInv
  BY InitType
<1>2. QED
  BY <1>1 DEF Init, OrderInv, Events, Line, AllPast, Ordered, Ahead, InHand, Busy

LEMMA LineStep ==
  ASSUME OrderInv, Exclusive, Quiet \/ Moves, NEW f \in Functions PROVE Line(f)'
<1>1. CASE Quiet
  <2>1. \A x \in Requests : Past(x) => Past(x)'
    BY <1>1, PastKept DEF Quiet
  <2>2. QED
    BY <1>1, <2>1, LineKept DEF Quiet, OrderInv, InHand
<1>2. CASE Moves
  BY <1>2, LineBeginCall, LineEndCall, LineEndGet, LineReadRequest, LineExecute, LineRespond
     DEF Moves, OrderInv
<1>3. QED
  BY <1>1, <1>2

LEMMA StepOrder == ASSUME OrderInv, Exclusive, [Next]_vars PROVE OrderInv'
<1>1. TypeInv' /\ Events'
  BY StepType, EventsStep DEF OrderInv
<1>2. \A f \in Functions : Line(f)'
  BY LineStep, QuietOrMoves DEF OrderInv
<1>3. QED
  BY <1>1, <1>2 DEF OrderInv

\* The calls of one caller run in the order it made them, each at most once, while
\* no function is attached to two dispatchers that both run, whoever is killed and
\* whichever dispatcher is replaced by another once its thread has ended.
THEOREM CallsRunInOrder == Spec /\ []Exclusive => []ExecutedInOrder
<1>1. Init => OrderInv
  BY InitOrder
<1>2. OrderInv /\ Exclusive /\ [Next]_vars => OrderInv'
  BY StepOrder
<1>3. OrderInv => ExecutedInOrder
  BY DEF OrderInv, Line, Ordered, Before, ExecutedInOrder
<1>4. QED
  BY <1>1, <1>2, <1>3, PTL DEF Spec
=============================================================================
