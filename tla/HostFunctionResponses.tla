------------------------ MODULE HostFunctionResponses ------------------------
(***************************************************************************)
(* What the responses of host functions are worth, when every function has *)
(* one caller: a response carries no name, and a caller takes whatever is  *)
(* first in the FIFO, whatever call it has it for.                         *)
(***************************************************************************)
EXTENDS HostFunctionProofs

OneCaller == \A b, c \in Callers : Target[b] = Target[c] => b = c

-----------------------------------------------------------------------------
(* On the way: what is in the FIFOs of a function or in a hand *)

OnWay(f) ==
  Range(req[f]) \cup Range(res[f]) \cup {hand[d] : d \in {e \in Dispatchers : InHand(e, f)}}

\* Nothing joins what is on its way, and what leaves it is lost.
Falls(f) ==
  /\ OnWay(f)' \subseteq OnWay(f)
  /\ f \notin Silent => \A r \in Requests : Target[r[1]] = f =>
       (r \in lost' <=> r \in lost \/ r \in OnWay(f) \ OnWay(f)')

\* A step that does nothing with the calls of c but to lose some.
Elsewhere(c) ==
  /\ Falls(Target[c])
  /\ \A n \in 1 .. MaxCalls : Past(<<c, n>>)' <=> Past(<<c, n>>)
  /\ owed'[c] = owed[c] /\ answer'[c] = answer[c]
  /\ \A n \in 1 .. MaxCalls : <<c, n>> \in abandoned' <=> <<c, n>> \in abandoned

LEMMA OnWayIs ==
  ASSUME NEW f
  PROVE  /\ \A r : r \in OnWay(f) <=> \/ r \in Range(req[f]) \cup Range(res[f])
                                      \/ \E d \in Dispatchers : InHand(d, f) /\ r = hand[d]
         /\ \A r : r \in OnWay(f)' <=> \/ r \in Range(req'[f]) \cup Range(res'[f])
                                       \/ \E d \in Dispatchers : InHand(d, f)' /\ r = hand'[d]
BY DEF OnWay

LEMMA OnWayOf ==
  ASSUME PlaceInv, NEW f \in Functions
  PROVE  \A r \in OnWay(f) : r \in Requests /\ Past(r) /\ Target[r[1]] = f
<1>1. Range(req[f]) \cup Range(res[f]) \subseteq Requests
  BY InLine DEF PlaceInv
<1>2. \A d \in Dispatchers : InHand(d, f) => hand[d] \in Requests
  BY DEF InHand, PlaceInv, TypeInv, HandsFull
<1>3. QED
  BY <1>1, <1>2, OnWayIs DEF PlaceInv, Placed

\* What a dispatcher has in hand is of the function of its event.
LEMMA HandOf ==
  ASSUME PlaceInv, NEW f \in Functions, NEW d \in Dispatchers, NEW r, Target[r[1]] = f
  PROVE  r \in InHandOf(d) <=> InHand(d, f) /\ r = hand[d]
<1> USE DEF PlaceInv, TypeInv
<1>1. hand[d] \in Requests => hand[d] # None
  BY HostFunctionAssumption DEF Requests
<1>2. CASE ~Busy(d)
  BY <1>2 DEF HandsFull, InHandOf, InHand
<1>3. CASE Busy(d)
  <2>1. hand[d] \in Requests /\ Head(batch[d]) \in Functions /\ InHand(d, Head(batch[d]))
    BY <1>3 DEF HandsFull, InHand
  <2>2. Target[hand[d][1]] = Head(batch[d])
    BY <2>1 DEF Placed
  <2>3. QED
    BY <1>1, <1>3, <2>1, <2>2 DEF InHandOf, InHand
<1>4. QED
  BY <1>2, <1>3

\* What closing discards is what was in the FIFOs and no longer is.
LEMMA ClosedWay ==
  ASSUME PlaceInv, NEW f \in Functions, NEW x, NEW F \in SUBSET Functions, Close(x, F)
  PROVE  /\ Range(req'[f]) \subseteq Range(req[f]) /\ Range(res'[f]) \subseteq Range(res[f])
         /\ \A r : Target[r[1]] = f =>
              (r \in Discarded(x, F) <=> /\ r \in Range(req[f]) \cup Range(res[f])
                                         /\ r \notin Range(req'[f]) \cup Range(res'[f]))
<1>1. /\ req'[f] = IF f \in LastOpen(x, F) THEN <<>> ELSE req[f]
      /\ res'[f] = IF f \in LastOpen(x, F) THEN <<>> ELSE res[f]
  BY DEF Close
<1>2. ASSUME NEW r, Target[r[1]] = f
      PROVE  r \in Discarded(x, F) <=> f \in LastOpen(x, F) /\ r \in Range(req[f]) \cup Range(res[f])
  <2>1. \A g \in F : r \in Range(req[g]) \cup Range(res[g]) => g = f
    BY <1>2 DEF PlaceInv, Placed
  <2>2. QED
    BY <2>1 DEF Discarded, LastOpen
<1>3. Range(<<>>) = {}
  BY DEF Range
<1>4. QED
  BY <1>1, <1>2, <1>3

\* The dispatchers of D drop what they have in hand, and the FIFOs lose X.
LEMMA WayShrinks ==
  ASSUME PlaceInv, NEW f \in Functions, NEW X, NEW D,
         Range(req'[f]) \subseteq Range(req[f]), Range(res'[f]) \subseteq Range(res[f]),
         \A r : Target[r[1]] = f => (r \in X <=> /\ r \in Range(req[f]) \cup Range(res[f])
                                                  /\ r \notin Range(req'[f]) \cup Range(res'[f])),
         \A e \in Dispatchers : InHand(e, f)' <=> InHand(e, f) /\ e \notin D,
         \A e \in Dispatchers : InHand(e, f)' => hand'[e] = hand[e]
  PROVE  /\ OnWay(f)' \subseteq OnWay(f)
         /\ \A r : Target[r[1]] = f =>
              (r \in OnWay(f) \ OnWay(f)' <=> r \in X \/ \E e \in D \cap Dispatchers : InHand(e, f) /\ r = hand[e])
<1>1. OnWay(f)' \subseteq OnWay(f)
  BY OnWayIs
<1>2. \A e, g \in Dispatchers : InHand(e, f) =>
        /\ hand[e] \notin Range(req[f]) \cup Range(res[f])
        /\ InHand(g, f) /\ hand[g] = hand[e] => g = e
  BY DEF PlaceInv, Placed
<1>3. ASSUME NEW r, Target[r[1]] = f, r \in X PROVE r \in OnWay(f) \ OnWay(f)'
  BY <1>2, <1>3, OnWayIs
<1>4. ASSUME NEW e \in D \cap Dispatchers, InHand(e, f) PROVE hand[e] \in OnWay(f) \ OnWay(f)'
  BY <1>2, <1>4, OnWayIs
<1>5. ASSUME NEW r, Target[r[1]] = f, r \in OnWay(f), r \notin OnWay(f)'
      PROVE  r \in X \/ \E e \in D \cap Dispatchers : InHand(e, f) /\ r = hand[e]
  BY <1>5, OnWayIs
<1>6. QED
  BY <1>1, <1>3, <1>4, <1>5

\* Nobody drops what is in hand.
LEMMA WayClosed ==
  ASSUME PlaceInv, NEW f \in Functions, NEW x, NEW F \in SUBSET Functions, Close(x, F),
         \A e \in Dispatchers : (InHand(e, f)' <=> InHand(e, f)) /\ hand'[e] = hand[e]
  PROVE  /\ OnWay(f)' \subseteq OnWay(f)
         /\ \A r : Target[r[1]] = f => (r \in OnWay(f) \ OnWay(f)' <=> r \in Discarded(x, F))
<1>1. PICK D : D = {}
  OBVIOUS
<1>2. \A e \in Dispatchers : InHand(e, f)' <=> InHand(e, f) /\ e \notin D
  BY <1>1
<1>3. PICK X : X = Discarded(x, F)
  OBVIOUS
<1>4. /\ Range(req'[f]) \subseteq Range(req[f]) /\ Range(res'[f]) \subseteq Range(res[f])
      /\ \A r : Target[r[1]] = f => (r \in X <=> /\ r \in Range(req[f]) \cup Range(res[f])
                                                /\ r \notin Range(req'[f]) \cup Range(res'[f]))
  BY <1>3, ClosedWay
<1>5. /\ OnWay(f)' \subseteq OnWay(f)
      /\ \A r : Target[r[1]] = f =>
           (r \in OnWay(f) \ OnWay(f)' <=>
              r \in X \/ \E e \in D \cap Dispatchers : InHand(e, f) /\ r = hand[e])
  BY <1>2, <1>4, WayShrinks
<1>6. QED
  BY <1>1, <1>3, <1>5

LEMMA WaySame ==
  ASSUME NEW f \in Functions, lost' = lost, req'[f] = req[f], res'[f] = res[f],
         \A e \in Dispatchers : InHand(e, f)' <=> InHand(e, f),
         \A e \in Dispatchers : InHand(e, f) => hand'[e] = hand[e]
  PROVE  Falls(f)
<1>1. ASSUME NEW r PROVE r \in OnWay(f)' <=> r \in OnWay(f)
  BY OnWayIs
<1>2. OnWay(f)' = OnWay(f)
  BY <1>1
<1>3. QED
  BY <1>2 DEF Falls

LEMMA WayReadRequest ==
  ASSUME PlaceInv, NEW f \in Functions, NEW d \in Dispatchers, ReadRequest(d) PROVE Falls(f)
<1> USE DEF PlaceInv, TypeInv
<1>1. /\ res' = res /\ batch' = batch /\ lost' = lost /\ dpc[d] = "next" /\ dpc'[d] = "execute"
      /\ \A e \in Dispatchers \ {d} : hand'[e] = hand[e] /\ dpc'[e] = dpc[e]
  BY DEF ReadRequest, AtRequest, ThreadGoto, TypeOK, fates
<1>2. \A e \in Dispatchers \ {d} : InHand(e, f)' <=> InHand(e, f)
  BY <1>1 DEF InHand, Busy
<1>3. ~InHand(d, f) /\ (InHand(d, f)' <=> f = Head(batch[d]))
  BY <1>1 DEF InHand, Busy
<1>4. CASE f # Head(batch[d])
  <2>1. req'[f] = req[f]
    BY <1>4 DEF ReadRequest, TypeOK
  <2>2. QED
    BY <1>1, <1>2, <1>3, <1>4, <2>1, WaySame
<1>5. CASE f = Head(batch[d])
  <2>1. req[f] # <<>> /\ req'[f] = Tail(req[f]) /\ hand'[d] = Head(req[f])
    BY <1>5 DEF ReadRequest, TypeOK
  <2>2. Range(req[f]) = Range(req'[f]) \cup {hand'[d]}
    BY <2>1, InLine, TailRange
  <2>3. OnWay(f)' = OnWay(f)
    <3>1. ASSUME NEW r PROVE r \in OnWay(f)' <=> r \in OnWay(f)
      BY <1>1, <1>2, <1>3, <1>5, <2>2, OnWayIs
    <3>2. QED
      BY <3>1
  <2>4. QED
    BY <1>1, <2>3 DEF Falls
<1>6. QED
  BY <1>4, <1>5

LEMMA WayRespond ==
  ASSUME PlaceInv, NEW f \in Functions, NEW d \in Dispatchers, Respond(d) PROVE Falls(f)
<1> USE DEF PlaceInv, TypeInv
<1>1. /\ req' = req /\ lost' = lost /\ hand[d] \in Requests /\ dpc[d] = "respond" /\ dpc'[d] = "next"
      /\ \A e \in Dispatchers \ {d} : hand'[e] = hand[e] /\ dpc'[e] = dpc[e] /\ batch'[e] = batch[e]
  BY DEF Respond, ThreadGoto, DropEvent, TypeOK, HandsFull, Busy, fates
<1>2. \A e \in Dispatchers \ {d} : InHand(e, f)' <=> InHand(e, f)
  BY <1>1 DEF InHand, Busy
<1>3. ~InHand(d, f)' /\ (InHand(d, f) <=> f = Head(batch[d]))
  BY <1>1 DEF InHand, Busy
<1>4. CASE f # Head(batch[d])
  <2>1. res'[f] = res[f]
    BY <1>4 DEF Respond, TypeOK
  <2>2. QED
    BY <1>1, <1>2, <1>3, <1>4, <2>1, WaySame
<1>5. CASE f = Head(batch[d])
  <2>1. res'[f] = Append(res[f], hand[d])
    BY <1>5 DEF Respond, TypeOK
  <2>2. Range(res'[f]) = Range(res[f]) \cup {hand[d]}
    BY <1>1, <2>1, InLine, AppendRange
  <2>3. OnWay(f)' = OnWay(f)
    <3>1. ASSUME NEW r PROVE r \in OnWay(f)' <=> r \in OnWay(f)
      BY <1>1, <1>2, <1>3, <1>5, <2>2, OnWayIs
    <3>2. QED
      BY <3>1
  <2>4. QED
    BY <1>1, <2>3 DEF Falls
<1>6. QED
  BY <1>4, <1>5

\* The other steps of a thread: a request in hand is kept, or is lost.
LEMMA WayThread ==
  ASSUME PlaceInv, NEW f \in Functions, NEW d \in Dispatchers, ThreadStep(d) PROVE Falls(f)
<1> USE DEF PlaceInv, TypeInv
<1>1. CASE EpollWait(d) \/ BatchDone(d) \/ ReadControl(d) \/ Acknowledge(d) \/ Execute(d)
  <2>1. req' = req /\ res' = res /\ hand' = hand /\ lost' = lost
    BY <1>1 DEF EpollWait, BatchDone, ReadControl, Acknowledge, Execute, pipes, fates
  <2>2. \A e \in Dispatchers \ {d} : dpc'[e] = dpc[e] /\ batch'[e] = batch[e]
    <3>1. CASE EpollWait(d)
      <4>1. PICK new : batch' = [batch EXCEPT ![d] = new]
        BY <3>1 DEF EpollWait
      <4>2. QED
        BY <3>1, <4>1 DEF EpollWait, ThreadGoto, TypeOK
    <3>2. CASE ~EpollWait(d)
      BY <1>1, <3>2 DEF BatchDone, ReadControl, Acknowledge, Execute, ThreadGoto, DropEvent, TypeOK
    <3>3. QED
      BY <3>1, <3>2
  <2>3. InHand(d, f)' <=> InHand(d, f)
    BY <1>1 DEF EpollWait, BatchDone, ReadControl, Acknowledge, Execute, ThreadGoto, TypeOK, InHand, Busy
  <2>4. QED
    BY <2>1, <2>2, <2>3, WaySame DEF InHand, Busy
<1>2. CASE UseFreed(d) \/ ExecuteUnanswered(d)
  <2>1. /\ req' = req /\ res' = res /\ dpc'[d] \in {"faulted", "next"}
        /\ \A e \in Dispatchers \ {d} : dpc'[e] = dpc[e] /\ batch'[e] = batch[e] /\ hand'[e] = hand[e]
    BY <1>2 DEF UseFreed, ExecuteUnanswered, ThreadGoto, DropEvent, TypeOK, pipes
  <2>2. \A e \in Dispatchers : /\ InHand(e, f)' <=> InHand(e, f) /\ e \notin {d}
                               /\ InHand(e, f)' => hand'[e] = hand[e]
    BY <2>1 DEF InHand, Busy
  <2>3. /\ OnWay(f)' \subseteq OnWay(f)
        /\ \A r : Target[r[1]] = f =>
             (r \in OnWay(f) \ OnWay(f)' <=> \E e \in {d} \cap Dispatchers : InHand(e, f) /\ r = hand[e])
    <3>1. PICK X : X = {}
      OBVIOUS
    <3>2. \A r : r \in X <=> /\ r \in Range(req[f]) \cup Range(res[f])
                            /\ r \notin Range(req'[f]) \cup Range(res'[f])
      BY <2>1, <3>1
    <3>3. /\ OnWay(f)' \subseteq OnWay(f)
          /\ \A r : Target[r[1]] = f =>
               (r \in OnWay(f) \ OnWay(f)' <=>
                  r \in X \/ \E e \in {d} \cap Dispatchers : InHand(e, f) /\ r = hand[e])
      BY <2>1, <2>2, <3>2, WayShrinks
    <3>4. QED
      BY <3>1, <3>3
  <2>4. ASSUME f \notin Silent, NEW r \in Requests, Target[r[1]] = f
        PROVE  r \in lost' <=> r \in lost \/ (InHand(d, f) /\ r = hand[d])
    <3>1. CASE UseFreed(d)
      BY <2>4, <3>1, HandOf DEF UseFreed
    <3>2. CASE ExecuteUnanswered(d)
      <4>1. r \in {hand[d]} <=> r \in InHandOf(d)
        BY HostFunctionAssumption DEF InHandOf, Requests
      <4>2. InHand(d, f) <=> f = Head(batch[d])
        BY <3>2 DEF ExecuteUnanswered, InHand, Busy
      <4>3. QED
        BY <2>4, <3>2, <4>1, <4>2, HandOf DEF ExecuteUnanswered
    <3>3. QED
      BY <1>2, <3>1, <3>2
  <2>5. QED
    BY <2>3, <2>4 DEF Falls
<1>3. QED
  BY <1>1, <1>2, WayReadRequest, WayRespond DEF ThreadStep

LEMMA WayOwner ==
  ASSUME PlaceInv, NEW f \in Functions, NEW d \in Dispatchers, OwnerStep(d) \/ DispatcherCrash(d)
  PROVE  Falls(f)
<1> USE DEF PlaceInv, TypeInv
<1>1. CASE Create(d) \/ CreateFails(d)
  <2>1. /\ req' = req /\ res' = res /\ hand' = hand /\ lost' = lost /\ ~Busy(d) /\ ~Busy(d)'
        /\ \A e \in Dispatchers \ {d} : dpc'[e] = dpc[e] /\ batch'[e] = batch[e]
    BY <1>1 DEF Create, CreateFails, Renew, Over, TypeOK, Busy, pipes, fates
  <2>2. QED
    BY <2>1, WaySame DEF InHand, Busy
<1>2. CASE Delete(d) \/ \E g \in Functions : Attach(d, g)
  BY <1>2, WaySame DEF Delete, Attach, pipes, thread, fates, InHand, Busy
<1>3. CASE Free(d)
  <2>1. attached[d] \in SUBSET Functions /\ Close(d, attached[d]) /\ dpc' = dpc /\ batch' = batch
        /\ hand' = hand /\ lost' = lost \cup Discarded(d, attached[d])
    BY <1>3 DEF Free, thread, TypeOK
  <2>2. \A e \in Dispatchers : (InHand(e, f)' <=> InHand(e, f)) /\ hand'[e] = hand[e]
    BY <2>1 DEF InHand, Busy
  <2>3. /\ OnWay(f)' \subseteq OnWay(f)
        /\ \A r : Target[r[1]] = f => (r \in OnWay(f) \ OnWay(f)' <=> r \in Discarded(d, attached[d]))
    BY <2>1, <2>2, WayClosed
  <2>4. QED
    BY <2>1, <2>3 DEF Falls
<1>4. CASE DispatcherCrash(d)
  <2>1. PICK F \in SUBSET Functions :
          Close(d, F) /\ lost' = lost \cup Discarded(d, F) \cup InHandOf(d)
    BY <1>4 DEF DispatcherCrash, TypeOK
  <2>2. /\ dpc'[d] = "none"
        /\ \A e \in Dispatchers \ {d} : dpc'[e] = dpc[e] /\ batch'[e] = batch[e] /\ hand'[e] = hand[e]
    BY <1>4 DEF DispatcherCrash, ThreadGoto, TypeOK
  <2>3. \A e \in Dispatchers : /\ InHand(e, f)' <=> InHand(e, f) /\ e \notin {d}
                               /\ InHand(e, f)' => hand'[e] = hand[e]
    BY <2>2 DEF InHand, Busy
  <2>4. PICK X, D : X = Discarded(d, F) /\ D = {d}
    OBVIOUS
  <2>5. /\ Range(req'[f]) \subseteq Range(req[f]) /\ Range(res'[f]) \subseteq Range(res[f])
        /\ \A r : Target[r[1]] = f => (r \in X <=> /\ r \in Range(req[f]) \cup Range(res[f])
                                                 /\ r \notin Range(req'[f]) \cup Range(res'[f]))
    BY <2>1, <2>4, ClosedWay
  <2>6. \A e \in Dispatchers : InHand(e, f)' <=> InHand(e, f) /\ e \notin D
    BY <2>3, <2>4
  <2>7. /\ OnWay(f)' \subseteq OnWay(f)
        /\ \A r : Target[r[1]] = f =>
             (r \in OnWay(f) \ OnWay(f)' <=>
                r \in X \/ \E e \in D \cap Dispatchers : InHand(e, f) /\ r = hand[e])
    BY <2>3, <2>5, <2>6, WayShrinks
  <2>8. QED
    BY <2>1, <2>4, <2>7, HandOf DEF Falls
<1>5. QED
  BY <1>1, <1>2, <1>3, <1>4 DEF OwnerStep

\* What callers do to functions that are not theirs, or without a FIFO.
LEMMA WayCaller ==
  ASSUME PlaceInv, NEW f \in Functions, NEW b \in Callers,
         \/ Link(b) \/ BeginCall(b) \/ BeginGet(b)
         \/ Target[b] # f /\ (CallerStep(b) \/ LetGo(b))
  PROVE  Falls(f)
<1> USE DEF PlaceInv, TypeInv
<1>1. CASE ~LetGo(b)
  <2>1. /\ dpc' = dpc /\ batch' = batch /\ hand' = hand /\ lost' = lost
        /\ req'[f] = req[f] /\ res'[f] = res[f]
    BY <1>1 DEF Link, BeginCall, BeginGet, CallerStep, EndCall, EndGet, TypeOK, pipes, thread, fates
  <2>2. QED
    BY <2>1, WaySame DEF InHand, Busy
<1>2. CASE LetGo(b) /\ Target[b] # f
  <2>1. /\ {Target[b]} \in SUBSET Functions /\ Close(b, {Target[b]})
        /\ dpc' = dpc /\ batch' = batch /\ hand' = hand
        /\ lost' = lost \cup Discarded(b, {Target[b]}) \cup Unsent(b)
    BY <1>2, HostFunctionAssumption DEF LetGo, thread
  <2>2. \A e \in Dispatchers : (InHand(e, f)' <=> InHand(e, f)) /\ hand'[e] = hand[e]
    BY <2>1 DEF InHand, Busy
  <2>3. /\ OnWay(f)' \subseteq OnWay(f)
        /\ \A r : Target[r[1]] = f => (r \in OnWay(f) \ OnWay(f)' <=> r \in Discarded(b, {Target[b]}))
    BY <2>1, <2>2, WayClosed
  <2>4. \A r \in Unsent(b) : Target[r[1]] # f
    BY <1>2 DEF Unsent
  <2>5. QED
    BY <2>1, <2>3, <2>4 DEF Falls
<1>3. QED
  BY <1>1, <1>2 DEF LetGo, Link, BeginCall, BeginGet, CallerGoto, TypeOK

-----------------------------------------------------------------------------
(* The steps that matter to one caller *)

LEMMA PastSame ==
  ASSUME TypeInv, NEW c \in Callers,
         \/ /\ calls'[c] = calls[c] /\ cpc[c] # "calling" /\ cpc'[c] # "calling"
         \/ /\ calls'[c] = calls[c] /\ cpc'[c] = cpc[c]
         \/ /\ calls'[c] = calls[c] + 1 /\ cpc[c] # "calling" /\ cpc'[c] = "calling"
  PROVE  \A n \in 1 .. MaxCalls : Past(<<c, n>>)' <=> Past(<<c, n>>)
<1>1. calls[c] \in Nat
  BY HostFunctionAssumption DEF TypeInv, TypeOK
<1>2. QED
  BY <1>1 DEF Past

\* A caller begins to wait for one call more, takes a response, lets go of what it
\* has, or has no part in the step.
LEMMA StepOf ==
  ASSUME OneCaller, PlaceInv, [Next]_vars, NEW c \in Callers
  PROVE  Elsewhere(c) \/ EndCall(c) \/ EndGet(c) \/ LetGo(c)
<1> DEFINE f == Target[c]
<1> USE DEF PlaceInv, TypeInv
<1>0. f \in Functions
  BY HostFunctionAssumption
<1>1. ASSUME NEW b \in Callers, Link(b) \/ BeginGet(b) \/ BeginCall(b) PROVE Elsewhere(c)
  <2>1. /\ owed'[c] = owed[c] /\ answer'[c] = answer[c] /\ abandoned' = abandoned
    BY <1>1 DEF Link, BeginGet, BeginCall, fates
  <2>2. \A n \in 1 .. MaxCalls : Past(<<c, n>>)' <=> Past(<<c, n>>)
    BY <1>1, PastSame DEF Link, BeginGet, BeginCall, CallerGoto, TypeOK
  <2>3. Falls(f)
    BY <1>0, <1>1, WayCaller
  <2>4. QED
    BY <2>1, <2>2, <2>3 DEF Elsewhere
<1>2. ASSUME NEW b \in Callers, b # c, CallerStep(b) \/ LetGo(b) PROVE Elsewhere(c)
  <2>1. Target[b] # f
    BY <1>2 DEF OneCaller
  <2>2. /\ owed'[c] = owed[c] /\ answer'[c] = answer[c] /\ cpc'[c] = cpc[c] /\ calls'[c] = calls[c]
    BY <1>2 DEF CallerStep, EndCall, EndGet, LetGo, CallerGoto, TypeOK
  <2>3. \A n \in 1 .. MaxCalls : <<c, n>> \in abandoned' <=> <<c, n>> \in abandoned
    <3>1. CASE CallerStep(b)
      BY <3>1 DEF CallerStep, EndCall, EndGet, fates
    <3>2. CASE LetGo(b)
      BY <1>2, <3>2 DEF LetGo, Unsent
    <3>3. QED
      BY <1>2, <3>1, <3>2
  <2>4. Falls(f)
    BY <1>0, <1>2, <2>1, WayCaller
  <2>5. QED
    BY <2>2, <2>3, <2>4, PastSame DEF Elsewhere
<1>3. ASSUME NEW d \in Dispatchers, OwnerStep(d) \/ ThreadStep(d) \/ DispatcherCrash(d)
      PROVE  Elsewhere(c)
  <2>1. UNCHANGED caller /\ abandoned' = abandoned
    BY <1>3 DEF OwnerStep, Create, CreateFails, Renew, Delete, Free, Attach, ThreadStep, EpollWait,
                BatchDone, ReadControl, Acknowledge, ReadRequest, UseFreed, Execute,
                ExecuteUnanswered, Respond, DispatcherCrash, fates
  <2>2. Falls(f)
    BY <1>0, <1>3, WayOwner, WayThread
  <2>3. QED
    BY <2>1, <2>2, PastSame DEF Elsewhere, caller
<1>4. CASE UNCHANGED vars
  <2>1. UNCHANGED <<pipes, caller, thread, fates>>
    BY <1>4 DEF vars
  <2>2. Falls(f)
    BY <1>0, <2>1, WaySame DEF pipes, thread, fates, InHand, Busy
  <2>3. QED
    BY <2>1, <2>2, PastSame DEF Elsewhere, caller, fates
<1>5. QED
  BY <1>1, <1>2, <1>3, <1>4 DEF Next, CallerStep, Unlink, CallerCrash

LEMMA WayEndCall ==
  ASSUME PlaceInv, NEW c \in Callers, EndCall(c)
  PROVE  LET f == Target[c]
             x == <<c, calls[c]>>
         IN  /\ OnWay(f)' = OnWay(f) \cup {x} /\ lost' = lost /\ abandoned' = abandoned
             /\ answer' = answer /\ x \in Requests /\ calls[c] \in 1 .. MaxCalls /\ ~Past(x)
             /\ \A n \in 1 .. MaxCalls : Past(<<c, n>>)' <=> Past(<<c, n>>) \/ n = calls[c]
             /\ f \notin Silent => owed'[c] = Append(owed[c], calls[c])
<1> DEFINE f == Target[c]
<1> USE DEF PlaceInv, TypeInv
<1>1. PICK m \in 1 .. MaxCalls : m = calls[c]
  BY DEF EndCall, Numbered
<1>2. f \in Functions /\ <<c, m>> \in Requests
  BY HostFunctionAssumption DEF Requests
<1>3. /\ res' = res /\ dpc' = dpc /\ batch' = batch /\ hand' = hand /\ lost' = lost
      /\ abandoned' = abandoned /\ answer' = answer
      /\ calls' = calls /\ cpc[c] = "calling" /\ cpc'[c] = "idle"
      /\ req'[f] = Append(req[f], <<c, m>>)
  BY <1>1, <1>2 DEF EndCall, CallerGoto, TypeOK, thread, fates
<1>4. Range(req'[f]) = Range(req[f]) \cup {<<c, m>>}
  BY <1>2, <1>3, InLine, AppendRange
<1>5. OnWay(f)' = OnWay(f) \cup {<<c, m>>}
  <2>1. \A d \in Dispatchers : (InHand(d, f)' <=> InHand(d, f)) /\ hand'[d] = hand[d]
    BY <1>3 DEF InHand, Busy
  <2>2. PICK x : x = <<c, m>>
    OBVIOUS
  <2>3. Range(req'[f]) = Range(req[f]) \cup {x} /\ Range(res'[f]) = Range(res[f])
    BY <1>3, <1>4, <2>2
  <2>4. ASSUME NEW r PROVE r \in OnWay(f)' <=> r \in OnWay(f) \/ r = x
    BY <2>1, <2>3, OnWayIs
  <2>5. OnWay(f)' = OnWay(f) \cup {x}
    BY <2>4
  <2>6. QED
    BY <2>2, <2>5
<1>6. ~Past(<<c, m>>) /\ \A n \in 1 .. MaxCalls : Past(<<c, n>>)' <=> Past(<<c, n>>) \/ n = m
  BY <1>1, <1>3 DEF Past
<1>7. f \notin Silent => owed'[c] = Append(owed[c], m)
  BY <1>1 DEF EndCall, TypeOK
<1>8. QED
  BY <1>1, <1>2, <1>3, <1>5, <1>6, <1>7

LEMMA WayEndGet ==
  ASSUME OneCaller, PlaceInv, NEW c \in Callers, EndGet(c)
  PROVE  LET f == Target[c]
             x == Head(res[f])
         IN  /\ x \in OnWay(f) /\ x \in Range(res[f]) /\ x \in Requests /\ x[1] = c
             /\ OnWay(f)' = OnWay(f) \ {x} /\ lost' = lost /\ abandoned' = abandoned
             /\ answer'[c] = <<<<c, Head(owed[c])>>, x>>
             /\ owed[c] \in Seq(1 .. MaxCalls) /\ owed[c] # <<>> /\ owed'[c] = Tail(owed[c])
             /\ \A n \in 1 .. MaxCalls : Past(<<c, n>>)' <=> Past(<<c, n>>)
<1> DEFINE f == Target[c]
<1> USE DEF PlaceInv, TypeInv
<1>1. f \in Functions /\ res[f] # <<>>
  BY HostFunctionAssumption DEF EndGet
<1>2. PICK x \in Requests : x = Head(res[f])
  BY <1>1, InLine, TailOf
<1>3. /\ req' = req /\ dpc' = dpc /\ batch' = batch /\ hand' = hand /\ lost' = lost
      /\ abandoned' = abandoned /\ answer'[c] = <<<<c, Head(owed[c])>>, x>>
      /\ owed[c] \in Seq(1 .. MaxCalls) /\ owed[c] # <<>> /\ owed'[c] = Tail(owed[c])
      /\ calls'[c] = calls[c] /\ cpc[c] = "getting" /\ cpc'[c] = "idle" /\ res'[f] = Tail(res[f])
  BY <1>1, <1>2 DEF EndGet, CallerGoto, TypeOK, Numbered, thread, fates
<1>4. Range(res[f]) = Range(res'[f]) \cup {x} /\ x \notin Range(res'[f])
  BY <1>1, <1>2, <1>3, InLine, TailRange DEF Placed
<1>5. x \notin Range(req[f]) /\ \A d \in Dispatchers : InHand(d, f) => hand[d] # x
  BY <1>1, <1>4 DEF Placed
<1>6. x \in OnWay(f) /\ OnWay(f)' = OnWay(f) \ {x}
  <2>1. ASSUME NEW r PROVE r \in OnWay(f)' <=> r \in OnWay(f) /\ r # x
    BY <1>3, <1>4, <1>5, OnWayIs DEF InHand, Busy
  <2>2. QED
    BY <1>4, <2>1, OnWayIs
<1>7. x[1] = c
  BY <1>1, <1>2, <1>6, OnWayOf DEF OneCaller, Requests
<1>8. QED
  BY <1>2, <1>3, <1>4, <1>6, <1>7, PastSame

LEMMA WayLetGo ==
  ASSUME PlaceInv, NEW c \in Callers, LetGo(c)
  PROVE  LET f == Target[c]
         IN  /\ OnWay(f)' \subseteq OnWay(f)
             /\ \A r : Target[r[1]] = f =>
                  (r \in lost' <=> r \in lost \/ r \in OnWay(f) \ OnWay(f)' \/ r \in Unsent(c))
             /\ \A n \in 1 .. MaxCalls : /\ Past(<<c, n>>)' <=> Past(<<c, n>>) \/ <<c, n>> \in Unsent(c)
                                         /\ <<c, n>> \in Unsent(c) => ~Past(<<c, n>>)
                                         /\ <<c, n>> \in abandoned' <=>
                                              \/ <<c, n>> \in abandoned \/ n \in Range(owed[c])
                                              \/ <<c, n>> \in Unsent(c)
             /\ Unsent(c) \subseteq Requests /\ Unsent(c) \in {{}, {<<c, calls[c]>>}}
             /\ owed'[c] = <<>> /\ answer' = answer
<1> DEFINE f == Target[c]
<1> USE DEF PlaceInv, TypeInv
<1>1. f \in Functions /\ {f} \in SUBSET Functions
  BY HostFunctionAssumption
<1>2. /\ Close(c, {f}) /\ dpc' = dpc /\ batch' = batch /\ hand' = hand
      /\ lost' = lost \cup Discarded(c, {f}) \cup Unsent(c)
      /\ abandoned' = abandoned \cup {<<c, n>> : n \in Range(owed[c])} \cup Unsent(c)
      /\ calls' = calls /\ cpc'[c] = "unlinked" /\ owed'[c] = <<>> /\ answer' = answer
  BY DEF LetGo, CallerGoto, TypeOK, thread
<1>3. \A e \in Dispatchers : (InHand(e, f)' <=> InHand(e, f)) /\ hand'[e] = hand[e]
  BY <1>2 DEF InHand, Busy
<1>4. /\ OnWay(f)' \subseteq OnWay(f)
      /\ \A r : Target[r[1]] = f => (r \in OnWay(f) \ OnWay(f)' <=> r \in Discarded(c, {f}))
  BY <1>1, <1>2, <1>3, WayClosed
<1>5. Unsent(c) \subseteq Requests /\ Unsent(c) \in {{}, {<<c, calls[c]>>}}
  BY RequestsOf DEF Unsent
<1>6. \A n \in 1 .. MaxCalls : /\ Past(<<c, n>>)' <=> Past(<<c, n>>) \/ <<c, n>> \in Unsent(c)
                               /\ <<c, n>> \in Unsent(c) => ~Past(<<c, n>>)
  <2>1. calls[c] \in Nat
    BY HostFunctionAssumption DEF TypeOK
  <2>2. QED
    BY <1>2, <2>1 DEF Past, Unsent
<1>7. \A n \in 1 .. MaxCalls : <<c, n>> \in abandoned' <=>
        <<c, n>> \in abandoned \/ n \in Range(owed[c]) \/ <<c, n>> \in Unsent(c)
  BY <1>2
<1>8. QED
  BY <1>2, <1>4, <1>5, <1>6, <1>7

-----------------------------------------------------------------------------
(* The responses of a caller come in the order of its calls *)

\* The response taken last is of an earlier call than all that is on its way.
LastTaken(c) ==
  answer[c] # None =>
    /\ answer[c][2] \in Requests /\ answer[c][2][1] = c /\ Past(answer[c][2])
    /\ \A x \in OnWay(Target[c]) : Before(answer[c][2], x)

AnswerInv == OrderInv /\ PlaceInv /\ \A c \in Callers : LastTaken(c)

\* What a caller finds first in the response FIFO is of the oldest call on its way.
LEMMA OldestFirst ==
  ASSUME OrderInv, NEW f \in Functions, res[f] # <<>>, NEW x \in OnWay(f), x # Head(res[f])
  PROVE  Before(Head(res[f]), x)
<1> USE DEF OrderInv
<1>1. Head(res[f]) = res[f][1] /\ 1 \in DOMAIN res[f]
  BY InLine, TailOf
<1>2. CASE x \in Range(req[f])
  <2>1. PICK i \in DOMAIN req[f] : x = req[f][i]
    BY <1>2 DEF Range
  <2>2. QED
    BY <1>1, <2>1 DEF Line, Ahead
<1>3. CASE x \in Range(res[f])
  <2>1. PICK i \in DOMAIN res[f] : x = res[f][i]
    BY <1>3 DEF Range
  <2>2. i # 1 /\ i \in Nat /\ i > 0
    BY <1>1, <2>1, InLine
  <2>3. QED
    BY <1>1, <2>1, <2>2 DEF Line, Ordered
<1>4. ASSUME NEW d \in Dispatchers, InHand(d, f), x = hand[d] PROVE Before(Head(res[f]), x)
  BY <1>1, <1>4 DEF Line
<1>5. QED
  BY <1>2, <1>3, <1>4, OnWayIs

LEMMA LastStep ==
  ASSUME OneCaller, AnswerInv, [Next]_vars, NEW c \in Callers PROVE LastTaken(c)'
<1> DEFINE f == Target[c]
<1> USE DEF AnswerInv
<1>0. f \in Functions /\ (Quiet \/ Moves)
  BY HostFunctionAssumption, QuietOrMoves DEF OrderInv
<1>1. ASSUME answer'[c] = answer[c],
             \A x \in OnWay(f)' : x \in OnWay(f) \/ (EndCall(c) /\ x = <<c, calls[c]>>)
      PROVE  LastTaken(c)'
  <2>1. CASE answer[c] = None
    BY <1>1, <2>1 DEF LastTaken
  <2>2. CASE answer[c] # None
    <3>1. PICK a \in Requests : a = answer[c][2]
      BY <2>2 DEF LastTaken
    <3>2. a[1] = c /\ Past(a) /\ \A x \in OnWay(f) : Before(a, x)
      BY <2>2, <3>1 DEF LastTaken
    <3>3. Past(a)'
      BY <1>0, <3>2, PastStep DEF OrderInv
    <3>4. EndCall(c) => Before(a, <<c, calls[c]>>)
      BY <3>2 DEF EndCall, Past, Before
    <3>5. \A x \in OnWay(f)' : Before(a, x)
      BY <1>1, <3>2, <3>4
    <3>6. answer'[c][2] = a
      BY <1>1, <3>1
    <3>7. QED
      BY <3>2, <3>3, <3>5, <3>6 DEF LastTaken, Past, Before
  <2>3. QED
    BY <2>1, <2>2
<1>2. CASE Elsewhere(c)
  BY <1>1, <1>2 DEF Elsewhere, Falls
<1>3. CASE EndCall(c)
  BY <1>1, <1>3, WayEndCall
<1>4. CASE LetGo(c)
  BY <1>1, <1>4, WayLetGo
<1>5. CASE EndGet(c)
  <2>1. PICK x \in Requests : x = Head(res[f])
    BY <1>5, WayEndGet
  <2>2. /\ x[1] = c /\ x \in OnWay(f) /\ OnWay(f)' = OnWay(f) \ {x} /\ answer'[c][2] = x
    <3>1. x[1] = c /\ x \in OnWay(f)
      BY <1>5, <2>1, WayEndGet
    <3>2. OnWay(f)' = OnWay(f) \ {x}
      BY <1>5, <2>1, WayEndGet
    <3>3. answer'[c][2] = x
      BY <1>5, <2>1, WayEndGet
    <3>4. QED
      BY <3>1, <3>2, <3>3
  <2>3. Past(x)'
    BY <1>0, <2>2, OnWayOf, PastStep DEF OrderInv
  <2>4. res[f] # <<>>
    BY <1>5 DEF EndGet
  <2>5. \A y \in OnWay(f)' : Before(x, y)
    BY <1>0, <2>1, <2>2, <2>4, OldestFirst
  <2>6. QED
    BY <2>2, <2>3, <2>5 DEF LastTaken, Past, Before
<1>6. QED
  BY <1>2, <1>3, <1>4, <1>5, StepOf

LEMMA InitAnswer == ASSUME Init PROVE AnswerInv
<1>1. \A c \in Callers : answer[c] = None
  BY DEF Init
<1>2. QED
  BY <1>1, InitOrder, InitPlace DEF AnswerInv, LastTaken

LEMMA StepAnswer ==
  ASSUME OneCaller, AnswerInv, Exclusive, [Next]_vars PROVE AnswerInv'
<1>1. OrderInv' /\ PlaceInv'
  BY StepOrder, StepType, PlaceStep, QuietOrMoves DEF AnswerInv, OrderInv, PlaceInv
<1>2. \A c \in Callers : LastTaken(c)'
  BY LastStep
<1>3. QED
  BY <1>1, <1>2 DEF AnswerInv

\* Every answer is of a later call than the one before, and of the caller.
Later ==
  \A c \in Callers : answer'[c] # answer[c] =>
    /\ answer'[c][2][1] = c
    /\ answer[c] # None => answer[c][2][2] < answer'[c][2][2]

LEMMA LaterStep == ASSUME OneCaller, AnswerInv, [Next]_vars PROVE Later
<1> SUFFICES ASSUME NEW c \in Callers, answer'[c] # answer[c]
             PROVE  /\ answer'[c][2][1] = c
                    /\ answer[c] # None => answer[c][2][2] < answer'[c][2][2]
  BY DEF Later
<1> USE DEF AnswerInv
<1>1. EndGet(c)
  BY StepOf, WayEndCall, WayLetGo DEF Elsewhere
<1>2. PICK x \in Requests : x = answer'[c][2]
  BY <1>1, WayEndGet
<1>3. x[1] = c /\ x \in OnWay(Target[c])
  BY <1>1, <1>2, WayEndGet
<1>4. answer[c] # None => answer[c][2][1] = c /\ Before(answer[c][2], x)
  BY <1>3 DEF LastTaken
<1>5. QED
  BY <1>2, <1>3, <1>4 DEF Before

\* Whoever is killed, the responses a caller takes are those of its calls, in
\* their order and none twice, while every function has one caller and no two
\* dispatchers run it.
THEOREM AnswersInOrder ==
  ASSUME OneCaller PROVE Spec /\ []Exclusive => ResponsesInOrder
<1>1. Init => AnswerInv
  BY InitAnswer
<1>2. AnswerInv /\ Exclusive /\ [Next]_vars => AnswerInv'
  BY StepAnswer
<1>3. AnswerInv /\ [Next]_vars => [Later]_vars
  BY LaterStep
<1>4. QED
  BY <1>1, <1>2, <1>3, PTL DEF Spec, ResponsesInOrder, Later

-----------------------------------------------------------------------------
(* How many: what is on its way and what was lost are, together, as many as *)
(* what is owed and what was abandoned                                      *)

LastFor(c) == IF answer[c] = None THEN 0 ELSE answer[c][1][2]

Increasing(q) == \A i, j \in DOMAIN q : i < j => q[i] < q[j]

\* The calls of c, those it still waits for, and those that no response is taken for
\* and no response comes of, each with those that will be.
Mine(c) == {c} \X (1 .. MaxCalls)
Still(c) == {<<c, n>> : n \in Range(owed[c])}
Expected(c) == Still(c) \cup Of(abandoned, c)
Coming(c) == OnWay(Target[c]) \cup Of(lost, c)

\* What a caller is owed are its calls so far but the abandoned ones, after the last
\* one that it took a response for.
Balanced(c) ==
  IF Target[c] \in Silent THEN owed[c] = <<>> /\ answer[c] = None ELSE
    /\ Increasing(owed[c])
    /\ \A n \in 1 .. MaxCalls :
         /\ n \in Range(owed[c]) <=> Past(<<c, n>>) /\ LastFor(c) < n /\ <<c, n>> \notin abandoned
         /\ <<c, n>> \in lost \cup abandoned => Past(<<c, n>>)
    /\ answer[c] # None => answer[c][1][1] = c /\ Past(answer[c][1])
    /\ OnWay(Target[c]) \cap lost = {}
    /\ Cardinality(Coming(c)) = Cardinality(Expected(c))

BalanceInv == PlaceInv /\ \A c \in Callers : Balanced(c)

LEMMA MineFinite == ASSUME NEW c PROVE IsFiniteSet(Mine(c))
<1>1. IsFiniteSet({c})
  BY FS_Singleton
<1>2. MaxCalls \in Int /\ 1 \in Int
  BY HostFunctionAssumption
<1>3. IsFiniteSet(1 .. MaxCalls)
  BY <1>2, FS_Interval
<1>4. QED
  BY <1>1, <1>3, FS_Product DEF Mine

LEMMA OfIs == ASSUME NEW c \in Callers, NEW S \in SUBSET Requests PROVE Of(S, c) = S \cap Mine(c)
BY DEF Of, Mine, Requests

\* All of this is among the calls of c, which are finitely many.
LEMMA MineAre ==
  ASSUME OneCaller, PlaceInv, NEW c \in Callers
  PROVE  /\ Mine(c) \subseteq Requests
         /\ OnWay(Target[c]) \subseteq Mine(c) /\ Of(lost, c) \subseteq Mine(c)
         /\ Still(c) \subseteq Mine(c) /\ Of(abandoned, c) \subseteq Mine(c)
         /\ \A x \in Mine(c) : x[1] = c /\ x[2] \in 1 .. MaxCalls /\ x = <<c, x[2]>>
<1> USE DEF PlaceInv, TypeInv
<1>1. \A x \in Requests : x[1] = c => x \in Mine(c)
  BY DEF Requests, Mine
<1>2. OnWay(Target[c]) \subseteq Mine(c)
  <2>1. Target[c] \in Functions
    BY HostFunctionAssumption
  <2>2. ASSUME NEW x \in OnWay(Target[c]) PROVE x \in Mine(c)
    <3>1. x \in Requests /\ Target[x[1]] = Target[c]
      BY <2>1, <2>2, OnWayOf
    <3>2. x[1] \in Callers
      BY <3>1 DEF Requests
    <3>3. QED
      BY <1>1, <3>1, <3>2 DEF OneCaller
  <2>3. QED
    BY <2>2
<1>3. Of(lost, c) \subseteq Mine(c) /\ Of(abandoned, c) \subseteq Mine(c)
  BY <1>1 DEF Of, TypeOK
<1>4. Still(c) \subseteq Mine(c)
  <2>1. Range(owed[c]) \subseteq 1 .. MaxCalls
    BY RangeOf DEF TypeOK
  <2>2. QED
    BY <2>1 DEF Still, Mine
<1>5. Mine(c) \subseteq Requests /\ \A x \in Mine(c) : x[1] = c /\ x[2] \in 1 .. MaxCalls /\ x = <<c, x[2]>>
  BY DEF Mine, Requests
<1>6. QED
  BY <1>2, <1>3, <1>4, <1>5

\* A distinct sequence has as many members as its length.
LEMMA LengthIsCardinality ==
  ASSUME NEW n \in Nat, NEW T, NEW q, DOMAIN q = 1 .. n, T = {q[i] : i \in 1 .. n},
         \A i, j \in 1 .. n : q[i] = q[j] => i = j
  PROVE  IsFiniteSet(T) /\ Cardinality(T) = n
<1> DEFINE b == [i \in 1 .. n |-> q[i]]
<1>1. b \in Bijection(1 .. n, T)
  BY DEF Bijection, Injection, IsInjective, Surjection
<1>2. ExistsBijection(1 .. n, T)
  BY <1>1 DEF ExistsBijection
<1>3. IsFiniteSet(1 .. n) /\ Cardinality(1 .. n) = n
  BY FS_Interval
<1>4. QED
  BY <1>2, <1>3, FS_Bijection

\* What a caller still waits for, counted.
LEMMA StillMany ==
  ASSUME PlaceInv, NEW c \in Callers, Increasing(owed[c])
  PROVE  Cardinality(Still(c)) = Len(owed[c])
<1>1. PICK n \in Nat : n = Len(owed[c]) /\ DOMAIN owed[c] = 1 .. n
  BY DEF PlaceInv, TypeInv, TypeOK
<1>2. \A i \in 1 .. n : owed[c][i] \in Nat
  BY <1>1, HostFunctionAssumption DEF PlaceInv, TypeInv, TypeOK
<1>3. \A i, j \in 1 .. n : owed[c][i] = owed[c][j] => i = j
  <2>1. \A i, j \in 1 .. n : i < j => owed[c][i] < owed[c][j]
    BY <1>1 DEF Increasing
  <2>2. \A i, j \in 1 .. n : i < j \/ j < i \/ i = j
    OBVIOUS
  <2>3. QED
    BY <1>2, <2>1, <2>2
<1>4. PICK q : q = [i \in 1 .. n |-> <<c, owed[c][i]>>]
  OBVIOUS
<1>5. DOMAIN q = 1 .. n /\ \A i, j \in 1 .. n : q[i] = q[j] => i = j
  BY <1>3, <1>4
<1>6. Still(c) = {q[i] : i \in 1 .. n}
  BY <1>1, <1>4 DEF Still, Range
<1>7. QED
  BY <1>1, <1>5, <1>6, LengthIsCardinality

\* One joins both, or one leaves both.
LEMMA BothMore ==
  ASSUME NEW A, NEW B, IsFiniteSet(A), IsFiniteSet(B), Cardinality(A) = Cardinality(B),
         NEW x, NEW y, x \notin A, y \notin B
  PROVE  Cardinality(A \cup {x}) = Cardinality(B \cup {y})
BY FS_AddElement

LEMMA BothFewer ==
  ASSUME NEW A, NEW B, IsFiniteSet(A), IsFiniteSet(B), Cardinality(A) = Cardinality(B),
         NEW x \in A, NEW y \in B
  PROVE  Cardinality(A \ {x}) = Cardinality(B \ {y})
<1>1. Cardinality(A \ {x}) = Cardinality(A) - 1
  BY FS_RemoveElement
<1>2. Cardinality(B \ {y}) = Cardinality(B) - 1
  BY FS_RemoveElement
<1>3. QED
  BY <1>1, <1>2

LEMMA CountFinite ==
  ASSUME OneCaller, PlaceInv, NEW c \in Callers
  PROVE  IsFiniteSet(Coming(c)) /\ IsFiniteSet(Expected(c))
<1>1. Coming(c) \subseteq Mine(c) /\ Expected(c) \subseteq Mine(c)
  BY MineAre DEF Coming, Expected
<1>2. QED
  BY <1>1, MineFinite, FS_Subset

LEMMA BalanceElsewhere ==
  ASSUME OneCaller, PlaceInv, TypeInv', NEW c \in Callers, Balanced(c), Elsewhere(c)
  PROVE  Balanced(c)'
<1> DEFINE f == Target[c]
<1>0. f \in Functions
  BY HostFunctionAssumption
<1>1. CASE f \in Silent
  BY <1>1 DEF Balanced, Elsewhere
<1>2. CASE f \notin Silent
  <2>1. /\ OnWay(f)' \subseteq OnWay(f)
        /\ \A x \in Mine(c) : x \in lost' <=> x \in lost \/ x \in OnWay(f) \ OnWay(f)'
    <3>1. \A x \in Mine(c) : x \in Requests /\ x[1] = c
      BY MineAre
    <3>2. QED
      BY <1>2, <3>1 DEF Elsewhere, Falls
  <2>2. \A x \in Mine(c) : x \in abandoned' <=> x \in abandoned
    BY MineAre DEF Elsewhere
  <2>3. /\ Of(lost, c) = lost \cap Mine(c) /\ Of(lost, c)' = lost' \cap Mine(c)
        /\ Of(abandoned, c) = abandoned \cap Mine(c) /\ Of(abandoned, c)' = abandoned' \cap Mine(c)
    BY OfIs DEF PlaceInv, TypeInv, TypeOK
  <2>4. Coming(c)' = Coming(c)
    BY <2>1, <2>3, MineAre DEF Coming
  <2>5. Expected(c)' = Expected(c)
    BY <2>2, <2>3 DEF Expected, Still, Elsewhere
  <2>6. OnWay(f)' \cap lost' = {}
    BY <1>2, <2>1, MineAre DEF Balanced
  <2>7. ASSUME NEW n \in 1 .. MaxCalls, <<c, n>> \in lost' \cup abandoned' PROVE Past(<<c, n>>)'
    <3>1. PICK x \in Mine(c) : x = <<c, n>>
      BY DEF Mine
    <3>2. x \in lost \cup abandoned \/ x \in OnWay(f)
      BY <2>1, <2>2, <2>7, <3>1
    <3>3. Past(<<c, n>>)
      BY <1>0, <1>2, <3>1, <3>2, OnWayOf DEF Balanced
    <3>4. QED
      BY <3>3 DEF Elsewhere
  <2>8. answer[c] # None => answer[c][1][1] = c /\ Past(answer[c][1])'
    <3>1. ASSUME answer[c] # None PROVE Past(answer[c][1])'
      <4>1. PICK n \in 1 .. MaxCalls : answer[c][1] = <<c, n>>
        BY <1>2, <3>1 DEF Balanced, PlaceInv, TypeInv, TypeOK, Requests
      <4>2. Past(<<c, n>>)'
        BY <1>2, <3>1, <4>1 DEF Balanced, Elsewhere
      <4>3. QED
        BY <4>1, <4>2 DEF Past, Elsewhere
    <3>2. QED
      BY <1>2, <3>1 DEF Balanced
  <2>9. ASSUME NEW n \in 1 .. MaxCalls
        PROVE  n \in Range(owed'[c]) <=>
                 Past(<<c, n>>)' /\ LastFor(c)' < n /\ <<c, n>> \notin abandoned'
    BY <1>2 DEF Balanced, Elsewhere, LastFor
  <2>10. Increasing(owed'[c]) /\ answer'[c] = answer[c]
    BY <1>2 DEF Balanced, Elsewhere
  <2>11. Cardinality(Coming(c)') = Cardinality(Expected(c)')
    BY <1>2, <2>4, <2>5 DEF Balanced
  <2>12. QED
    BY <1>2, <2>6, <2>7, <2>8, <2>9, <2>10, <2>11 DEF Balanced, Past, Increasing
<1>3. QED
  BY <1>1, <1>2

LEMMA BalanceEndCall ==
  ASSUME OneCaller, PlaceInv, TypeInv', NEW c \in Callers, Balanced(c), EndCall(c)
  PROVE  Balanced(c)'
<1> DEFINE f == Target[c]
<1> USE DEF PlaceInv, TypeInv
<1>0. f \in Functions
  BY HostFunctionAssumption
<1>1. CASE f \in Silent
  BY <1>1 DEF Balanced, EndCall, TypeOK
<1>2. CASE f \notin Silent
  <2>1. PICK m \in 1 .. MaxCalls : m = calls[c]
    BY WayEndCall
  <2>2. PICK x \in Mine(c) : x = <<c, m>>
    BY DEF Mine
  <2>3. /\ OnWay(f)' = OnWay(f) \cup {x} /\ lost' = lost /\ abandoned' = abandoned /\ answer' = answer
        /\ ~Past(x) /\ \A n \in 1 .. MaxCalls : Past(<<c, n>>)' <=> Past(<<c, n>>) \/ n = m
        /\ owed'[c] = Append(owed[c], m) /\ owed[c] \in Seq(1 .. MaxCalls)
    BY <1>2, <2>1, <2>2, WayEndCall DEF TypeOK
  <2>4. Range(owed'[c]) = Range(owed[c]) \cup {m}
    <3>1. \E S : m \in S /\ owed[c] \in Seq(S)
      BY <2>1, <2>3
    <3>2. PICK S : m \in S /\ owed[c] \in Seq(S)
      BY <3>1
    <3>3. Range(Append(owed[c], m)) = Range(owed[c]) \cup {m}
      BY <3>2, AppendRange
    <3>4. QED
      BY <2>3, <3>3
  <2>5. x \notin OnWay(f) /\ x \notin lost /\ x \notin abandoned /\ m \notin Range(owed[c])
    BY <1>0, <1>2, <2>1, <2>2, <2>3, OnWayOf DEF Balanced
  <2>6. Cardinality(Coming(c)') = Cardinality(Expected(c)')
    <3>1. Still(c)' = Still(c) \cup {x} /\ x \notin Still(c)
      <4>1. Still(c)' = {<<c, n>> : n \in Range(owed[c]) \cup {m}}
        BY <2>4 DEF Still
      <4>2. QED
        BY <2>2, <2>5, <4>1 DEF Still
    <3>2. Of(lost, c)' = Of(lost, c) /\ Of(abandoned, c)' = Of(abandoned, c)
      BY <2>3 DEF Of
    <3>3. Coming(c)' = Coming(c) \cup {x} /\ Expected(c)' = Expected(c) \cup {x}
      BY <2>3, <3>1, <3>2 DEF Coming, Expected
    <3>4. x \notin Coming(c) /\ x \notin Expected(c)
      BY <2>5, <3>1 DEF Coming, Expected, Of
    <3>5. Cardinality(Coming(c)) = Cardinality(Expected(c))
      BY <1>2 DEF Balanced
    <3>6. QED
      BY <3>3, <3>4, <3>5, CountFinite, BothMore
  <2>7. Increasing(owed'[c])
    <3>1. \A n \in Range(owed[c]) : n \in 1 .. MaxCalls /\ n < m
      <4>1. \A n \in Range(owed[c]) : n \in 1 .. MaxCalls /\ Past(<<c, n>>)
        BY <1>2, <2>3, RangeOf DEF Balanced
      <4>2. QED
        BY <2>1, <4>1 DEF Past, EndCall
    <3>2. /\ Len(owed[c]) \in Nat /\ DOMAIN owed[c] = 1 .. Len(owed[c])
          /\ DOMAIN owed'[c] = 1 .. Len(owed[c]) + 1 /\ owed'[c][Len(owed[c]) + 1] = m
          /\ \A i \in 1 .. Len(owed[c]) : owed'[c][i] = owed[c][i] /\ owed[c][i] \in Range(owed[c])
      BY <2>1, <2>3, AppendOf DEF Range
    <3>3. \A i, j \in 1 .. Len(owed[c]) : i < j => owed[c][i] < owed[c][j]
      BY <1>2, <3>2 DEF Balanced, Increasing
    <3>4. \A i, j \in 1 .. Len(owed[c]) + 1 : i < j =>
            i \in 1 .. Len(owed[c]) /\ (j \in 1 .. Len(owed[c]) \/ j = Len(owed[c]) + 1)
      BY <3>2
    <3>5. QED
      BY <3>1, <3>2, <3>3, <3>4 DEF Increasing
  <2>8. LastFor(c)' = LastFor(c) /\ LastFor(c) < m
    <3>1. answer[c] # None => /\ answer[c][1] \in Requests
                              /\ answer[c][1][1] = c /\ Past(answer[c][1])
      BY <1>2 DEF Balanced, TypeOK
    <3>2. QED
      BY <2>1, <2>3, <3>1 DEF LastFor, Past, EndCall
  <2>9. ASSUME NEW n \in 1 .. MaxCalls
        PROVE  /\ n \in Range(owed'[c]) <=> Past(<<c, n>>)' /\ LastFor(c)' < n /\ <<c, n>> \notin abandoned'
               /\ <<c, n>> \in lost' \cup abandoned' => Past(<<c, n>>)'
    BY <1>2, <2>2, <2>3, <2>4, <2>5, <2>8 DEF Balanced
  <2>10. OnWay(f)' \cap lost' = {}
    BY <1>2, <2>3, <2>5 DEF Balanced
  <2>11. answer'[c] # None => answer'[c][1][1] = c /\ Past(answer[c][1])'
    <3>1. ASSUME answer[c] # None PROVE Past(answer[c][1])'
      <4>1. PICK y \in Requests : y = answer[c][1]
        BY <3>1 DEF TypeOK
      <4>2. Past(y)
        BY <1>2, <3>1, <4>1 DEF Balanced
      <4>3. Past(y)'
        BY <4>2, PastStep DEF Moves
      <4>4. QED
        BY <4>1, <4>3, <2>3 DEF Past
    <3>2. QED
      BY <1>2, <2>3, <3>1 DEF Balanced
  <2>12. QED
    BY <1>2, <2>6, <2>7, <2>9, <2>10, <2>11 DEF Balanced, Past, Increasing
<1>3. QED
  BY <1>1, <1>2

LEMMA BalanceEndGet ==
  ASSUME OneCaller, PlaceInv, TypeInv', NEW c \in Callers, Balanced(c), EndGet(c)
  PROVE  Balanced(c)'
<1> DEFINE f == Target[c]
<1> USE DEF PlaceInv, TypeInv
<1>0. f \in Functions
  BY HostFunctionAssumption
<1>1. f \notin Silent
  BY WayEndGet DEF Balanced
<1>2. PICK x \in Requests : x = Head(res[f])
  BY WayEndGet
<1>3. x \in OnWay(f) /\ x[1] = c /\ lost' = lost /\ abandoned' = abandoned
  BY <1>2, WayEndGet
<1>4. OnWay(f)' = OnWay(f) \ {x}
  BY <1>2, WayEndGet
<1>5. /\ owed[c] \in Seq(1 .. MaxCalls) /\ owed[c] # <<>> /\ owed'[c] = Tail(owed[c])
      /\ \A n \in 1 .. MaxCalls : Past(<<c, n>>)' <=> Past(<<c, n>>)
  BY <1>2, WayEndGet
<1>6. PICK m \in 1 .. MaxCalls : m = Head(owed[c])
  BY <1>5, TailOf
<1>7. PICK y \in Mine(c) : y = <<c, m>>
  BY DEF Mine
<1>8. answer'[c][1] = y /\ answer'[c] # None
  <2>1. answer'[c] = <<y, x>>
    BY <1>2, <1>6, <1>7, WayEndGet
  <2>2. y \in Callers \X Nat /\ x \in Callers \X Nat
    BY <1>7, HostFunctionAssumption DEF Mine, Requests
  <2>3. QED
    BY <2>1, <2>2, HostFunctionAssumption
<1>9. /\ Range(owed[c]) = Range(owed'[c]) \cup {m} /\ m \notin Range(owed'[c])
      /\ Increasing(owed'[c]) /\ \A n \in Range(owed'[c]) : m < n
  <2>1. PICK S : S = 1 .. MaxCalls
    OBVIOUS
  <2>2. /\ Len(owed[c]) \in Nat /\ Len(owed[c]) > 0 /\ DOMAIN owed[c] = 1 .. Len(owed[c])
        /\ DOMAIN owed'[c] = 1 .. Len(owed[c]) - 1 /\ m = owed[c][1]
        /\ \A i \in 1 .. Len(owed[c]) - 1 : owed'[c][i] = owed[c][i + 1]
    BY <1>5, <1>6, TailOf
  <2>3. \A i, j \in DOMAIN owed[c] : i < j => owed[c][i] < owed[c][j]
    BY <1>1 DEF Balanced, Increasing
  <2>4. \A i \in 1 .. Len(owed[c]) - 1 : i + 1 \in DOMAIN owed[c] /\ 1 < i + 1 /\ 1 \in DOMAIN owed[c]
    BY <2>2
  <2>5. \A i \in 1 .. Len(owed[c]) - 1 : m < owed'[c][i]
    BY <2>2, <2>3, <2>4
  <2>6. \A i, j \in DOMAIN owed'[c] : i < j => owed'[c][i] < owed'[c][j]
    <3>1. ASSUME NEW i \in 1 .. Len(owed[c]) - 1, NEW j \in 1 .. Len(owed[c]) - 1, i < j
          PROVE  owed'[c][i] < owed'[c][j]
      <4>1. i + 1 < j + 1
        BY <2>2, <3>1
      <4>2. QED
        BY <2>2, <2>3, <2>4, <4>1
    <3>2. QED
      BY <2>2, <3>1
  <2>7. \A n \in Range(owed'[c]) : m < n
    BY <2>2, <2>5 DEF Range
  <2>8. Range(owed[c]) = Range(owed'[c]) \cup {m}
    BY <1>5, <1>6, <2>1, TailRange
  <2>9. QED
    BY <2>6, <2>7, <2>8 DEF Increasing
<1>10. Cardinality(Coming(c)') = Cardinality(Expected(c)')
  <2>1. x \notin lost /\ y \notin abandoned
    BY <1>1, <1>3, <1>7, <1>9 DEF Balanced
  <2>2. Still(c)' = Still(c) \ {y} /\ y \in Still(c)
    <3>1. Still(c) = {<<c, n>> : n \in Range(owed'[c]) \cup {m}}
      BY <1>9 DEF Still
    <3>2. QED
      BY <1>7, <1>9, <3>1 DEF Still
  <2>3. Of(lost, c)' = Of(lost, c) /\ Of(abandoned, c)' = Of(abandoned, c)
    BY <1>3 DEF Of
  <2>4. x \notin Of(lost, c) /\ y \notin Of(abandoned, c)
    BY <2>1 DEF Of
  <2>5. Coming(c)' = Coming(c) \ {x} /\ Expected(c)' = Expected(c) \ {y}
    BY <1>4, <2>2, <2>3, <2>4 DEF Coming, Expected
  <2>6. x \in Coming(c) /\ y \in Expected(c)
    BY <1>3, <2>2 DEF Coming, Expected
  <2>7. Cardinality(Coming(c)) = Cardinality(Expected(c))
    BY <1>1 DEF Balanced
  <2>8. QED
    BY <2>5, <2>6, <2>7, CountFinite, BothFewer
<1>11. LastFor(c)' = m /\ LastFor(c) < m
  BY <1>1, <1>7, <1>8, <1>9 DEF LastFor, Balanced
<1>12. LastFor(c) \in Nat
  <2>1. CASE answer[c] = None
    BY <2>1 DEF LastFor
  <2>2. CASE answer[c] # None
    <3>1. answer[c][1] \in Requests
      BY <2>2 DEF TypeOK
    <3>2. answer[c][1][2] \in 1 .. MaxCalls
      BY <3>1 DEF Requests
    <3>3. QED
      BY <2>2, <3>2, HostFunctionAssumption DEF LastFor
  <2>3. QED
    BY <2>1, <2>2
<1>13. ASSUME NEW n \in 1 .. MaxCalls
       PROVE  /\ n \in Range(owed'[c]) <=> Past(<<c, n>>)' /\ LastFor(c)' < n /\ <<c, n>> \notin abandoned'
              /\ <<c, n>> \in lost' \cup abandoned' => Past(<<c, n>>)'
  BY <1>1, <1>3, <1>5, <1>9, <1>11, <1>12 DEF Balanced
<1>14. OnWay(f)' \cap lost' = {}
  BY <1>1, <1>3, <1>4 DEF Balanced
<1>15. answer'[c][1][1] = c /\ Past(answer[c][1])'
  <2>1. Past(<<c, m>>)
    BY <1>1, <1>9 DEF Balanced
  <2>2. Past(<<c, m>>)'
    BY <1>5, <2>1
  <2>3. Past(y)' /\ y[1] = c
    BY <1>7, <2>2 DEF Past
  <2>4. QED
    BY <1>8, <2>3 DEF Past
<1>16. QED
  BY <1>1, <1>8, <1>9, <1>10, <1>13, <1>14, <1>15 DEF Balanced, Past, Increasing

LEMMA BalanceLetGo ==
  ASSUME OneCaller, PlaceInv, TypeInv', NEW c \in Callers, Balanced(c), LetGo(c)
  PROVE  Balanced(c)'
<1> DEFINE f == Target[c]
<1> USE DEF PlaceInv, TypeInv
<1>0. f \in Functions
  BY HostFunctionAssumption
<1>1. PICK U \in SUBSET Mine(c) : U = Unsent(c)
  <2>1. Unsent(c) \subseteq Mine(c)
    BY DEF Unsent, Mine, Numbered
  <2>2. QED
    BY <2>1
<1>2. /\ OnWay(f)' \subseteq OnWay(f) /\ owed'[c] = <<>> /\ answer'[c] = answer[c]
      /\ \A n \in 1 .. MaxCalls : /\ Past(<<c, n>>)' <=> Past(<<c, n>>) \/ <<c, n>> \in U
                                  /\ <<c, n>> \in U => ~Past(<<c, n>>)
      /\ U \in {{}, {<<c, calls[c]>>}}
  BY <1>1, WayLetGo
<1>3. \A x \in Mine(c) : x \in lost' <=> x \in lost \/ x \in OnWay(f) \ OnWay(f)' \/ x \in U
  BY <1>1, WayLetGo, MineAre
<1>4. \A n \in 1 .. MaxCalls : <<c, n>> \in abandoned' <=>
        <<c, n>> \in abandoned \/ n \in Range(owed[c]) \/ <<c, n>> \in U
  BY <1>1, WayLetGo
<1>5. CASE f \in Silent
  BY <1>2, <1>5 DEF Balanced
<1>6. CASE f \notin Silent
  <2>1. \A x \in Mine(c) : /\ x \in OnWay(f) \cup lost \cup abandoned \/ x \in Still(c) => Past(x)
                           /\ x \in Still(c) <=> x[2] \in Range(owed[c])
                           /\ x \in U => ~Past(x)
                           /\ x \in abandoned' <=> x \in abandoned \cup Still(c) \cup U
    <3>1. ASSUME NEW n \in 1 .. MaxCalls
          PROVE  /\ <<c, n>> \in OnWay(f) \cup lost \cup abandoned \/ <<c, n>> \in Still(c) => Past(<<c, n>>)
                 /\ <<c, n>> \in Still(c) <=> n \in Range(owed[c])
                 /\ <<c, n>> \in U => ~Past(<<c, n>>)
                 /\ <<c, n>> \in abandoned' <=> <<c, n>> \in abandoned \cup Still(c) \cup U
      <4>1. <<c, n>> \in Still(c) <=> n \in Range(owed[c])
        BY DEF Still
      <4>2. <<c, n>> \in OnWay(f) => Past(<<c, n>>)
        BY <1>0, OnWayOf
      <4>3. <<c, n>> \in lost \cup abandoned \/ n \in Range(owed[c]) => Past(<<c, n>>)
        BY <1>6 DEF Balanced
      <4>4. QED
        BY <1>2, <1>4, <4>1, <4>2, <4>3
    <3>2. ASSUME NEW x \in Mine(c)
          PROVE  /\ x \in OnWay(f) \cup lost \cup abandoned \/ x \in Still(c) => Past(x)
                 /\ x \in Still(c) <=> x[2] \in Range(owed[c])
                 /\ x \in U => ~Past(x)
                 /\ x \in abandoned' <=> x \in abandoned \cup Still(c) \cup U
      <4>1. PICK n \in 1 .. MaxCalls : x = <<c, n>>
        BY DEF Mine
      <4>2. x[2] = n
        BY <4>1
      <4>3. QED
        BY <3>1, <4>1, <4>2
    <3>3. QED
      BY <3>2
  <2>2. /\ Of(lost, c) = lost \cap Mine(c) /\ Of(lost, c)' = lost' \cap Mine(c)
        /\ Of(abandoned, c) = abandoned \cap Mine(c) /\ Of(abandoned, c)' = abandoned' \cap Mine(c)
    BY OfIs DEF TypeOK
  <2>3. Still(c)' = {}
    BY <1>2 DEF Still, Range
  <2>4. Coming(c)' = Coming(c) \cup U
    BY <1>2, <1>3, <2>2, MineAre DEF Coming
  <2>5. Expected(c)' = Expected(c) \cup U
    BY <2>1, <2>2, <2>3, MineAre DEF Expected
  <2>6. Cardinality(Coming(c)') = Cardinality(Expected(c)')
    <3>1. Cardinality(Coming(c)) = Cardinality(Expected(c))
      BY <1>6 DEF Balanced
    <3>2. CASE U = {}
      BY <2>4, <2>5, <3>1, <3>2
    <3>3. ASSUME NEW u \in Mine(c), U = {u} PROVE Cardinality(Coming(c)') = Cardinality(Expected(c)')
      <4>1. u \notin Coming(c) /\ u \notin Expected(c)
        BY <2>1, <2>2, <3>3 DEF Coming, Expected
      <4>2. Coming(c)' = Coming(c) \cup {u} /\ Expected(c)' = Expected(c) \cup {u}
        BY <2>4, <2>5, <3>3
      <4>3. QED
        BY <3>1, <4>1, <4>2, CountFinite, BothMore
    <3>4. U # {} => \E u \in Mine(c) : U = {u}
      BY <1>2
    <3>5. QED
      BY <3>2, <3>3, <3>4
  <2>7. OnWay(f)' \cap lost' = {}
    BY <1>2, <1>3, <1>6, <2>1, MineAre DEF Balanced
  <2>8. ASSUME NEW n \in 1 .. MaxCalls
        PROVE  /\ n \in Range(owed'[c]) <=> Past(<<c, n>>)' /\ LastFor(c)' < n /\ <<c, n>> \notin abandoned'
               /\ <<c, n>> \in lost' \cup abandoned' => Past(<<c, n>>)'
    <3>1. PICK x \in Mine(c) : x = <<c, n>>
      BY DEF Mine
    <3>2. Range(owed'[c]) = {} /\ LastFor(c)' = LastFor(c)
      BY <1>2 DEF Range, LastFor
    <3>3. n \in Range(owed[c]) <=> Past(<<c, n>>) /\ LastFor(c) < n /\ <<c, n>> \notin abandoned
      BY <1>6 DEF Balanced
    <3>4. x \in lost' \cup abandoned' => Past(x) \/ x \in U
      BY <1>3, <2>1, <3>1
    <3>5. QED
      BY <1>2, <1>4, <3>1, <3>2, <3>3, <3>4
  <2>9. answer'[c] # None => answer'[c][1][1] = c /\ Past(answer[c][1])'
    <3>1. ASSUME answer[c] # None PROVE Past(answer[c][1])'
      <4>1. PICK n \in 1 .. MaxCalls : answer[c][1] = <<c, n>>
        <5>1. answer[c][1] \in Requests /\ answer[c][1][1] = c
          BY <1>6, <3>1 DEF Balanced, TypeOK
        <5>2. QED
          BY <5>1 DEF Requests
      <4>2. Past(<<c, n>>)'
        BY <1>2, <1>6, <3>1, <4>1 DEF Balanced
      <4>3. QED
        BY <1>2, <4>1, <4>2 DEF Past
    <3>2. QED
      BY <1>2, <1>6, <3>1 DEF Balanced
  <2>10. Increasing(owed'[c])
    BY <1>2 DEF Increasing
  <2>11. QED
    BY <1>6, <2>6, <2>7, <2>8, <2>9, <2>10 DEF Balanced, Past, Increasing
<1>7. QED
  BY <1>5, <1>6

LEMMA BalanceStep ==
  ASSUME OneCaller, BalanceInv, [Next]_vars PROVE BalanceInv'
<1>1. PlaceInv' /\ TypeInv'
  BY StepType, PlaceStep, QuietOrMoves DEF BalanceInv, PlaceInv
<1>2. \A c \in Callers : Balanced(c)'
  BY <1>1, StepOf, BalanceElsewhere, BalanceEndCall, BalanceEndGet, BalanceLetGo DEF BalanceInv
<1>3. QED
  BY <1>1, <1>2 DEF BalanceInv

LEMMA InitBalance == ASSUME Init PROVE BalanceInv
<1> SUFFICES ASSUME NEW c \in Callers PROVE Balanced(c)
  BY InitPlace DEF BalanceInv
<1>1. /\ owed[c] = <<>> /\ answer[c] = None /\ calls[c] = 0 /\ lost = {} /\ abandoned = {}
      /\ Target[c] \in Functions /\ req[Target[c]] = <<>> /\ res[Target[c]] = <<>>
  BY HostFunctionAssumption DEF Init
<1>2. Range(owed[c]) = {} /\ Range(req[Target[c]]) = {} /\ Range(res[Target[c]]) = {}
  BY <1>1 DEF Range
<1>3. Coming(c) = {} /\ Expected(c) = {} /\ OnWay(Target[c]) = {}
  <2>1. \A d \in Dispatchers : ~InHand(d, Target[c])
    BY DEF Init, InHand, Busy
  <2>2. QED
    BY <1>1, <1>2, <2>1 DEF Coming, Expected, Still, Of, OnWay
<1>4. \A n \in 1 .. MaxCalls : ~Past(<<c, n>>)
  BY <1>1, HostFunctionAssumption DEF Past
<1>5. QED
  BY <1>1, <1>2, <1>3, <1>4 DEF Balanced, Increasing

LEMMA Balances == ASSUME OneCaller PROVE Spec => []BalanceInv
<1>1. Init => BalanceInv
  BY InitBalance
<1>2. BalanceInv /\ [Next]_vars => BalanceInv'
  BY BalanceStep
<1>3. QED
  BY <1>1, <1>2, PTL DEF Spec

\* Added up: nothing but a loss comes between what is owed and what is on its way.
LEMMA Account ==
  ASSUME OneCaller, PlaceInv, NEW c \in Callers, Target[c] \notin Silent, Balanced(c)
  PROVE  /\ IsFiniteSet(OnWay(Target[c]))
         /\ Cardinality(OnWay(Target[c])) \in Nat /\ Cardinality(Of(lost, c)) \in Nat
         /\ Cardinality(OnWay(Target[c])) + Cardinality(Of(lost, c))
              = Len(owed[c]) + Cardinality(Of(abandoned, c))
<1>1. /\ IsFiniteSet(OnWay(Target[c])) /\ IsFiniteSet(Of(lost, c))
      /\ IsFiniteSet(Still(c)) /\ IsFiniteSet(Of(abandoned, c))
  BY MineAre, MineFinite, FS_Subset
<1>2. OnWay(Target[c]) \cap Of(lost, c) = {} /\ Still(c) \cap Of(abandoned, c) = {}
  <2>1. \A n \in Range(owed[c]) : n \in 1 .. MaxCalls
    BY RangeOf DEF PlaceInv, TypeInv, TypeOK
  <2>2. \A n \in Range(owed[c]) : <<c, n>> \notin abandoned
    BY <2>1 DEF Balanced
  <2>3. QED
    BY <2>2 DEF Balanced, Of, Still
<1>3. /\ Cardinality(Coming(c)) = Cardinality(OnWay(Target[c])) + Cardinality(Of(lost, c)) - Cardinality({})
      /\ Cardinality(Expected(c)) = Cardinality(Still(c)) + Cardinality(Of(abandoned, c)) - Cardinality({})
  BY <1>1, <1>2, FS_Union DEF Coming, Expected
<1>4. /\ Cardinality(OnWay(Target[c])) \in Nat /\ Cardinality(Of(lost, c)) \in Nat
      /\ Cardinality(Still(c)) \in Nat /\ Cardinality(Of(abandoned, c)) \in Nat /\ Cardinality({}) = 0
  BY <1>1, FS_CardinalityType, FS_EmptySet
<1>5. Cardinality(Still(c)) = Len(owed[c])
  BY StillMany DEF Balanced
<1>6. QED
  BY <1>1, <1>3, <1>4, <1>5 DEF Balanced

\* A FIFO is never longer than what is on its way.
LEMMA WithinWay ==
  ASSUME PlaceInv, NEW f \in Functions, IsFiniteSet(OnWay(f)), NEW w \in Nat, w = Cardinality(OnWay(f))
  PROVE  /\ Len(req[f]) \in Nat /\ Len(res[f]) \in Nat /\ Len(req[f]) <= w
         /\ \A d \in Dispatchers : InHand(d, f) => Len(res[f]) + 1 <= w
<1> USE DEF PlaceInv
<1>1. ASSUME NEW q \in Seq(Requests), Distinct(q)
      PROVE  Len(q) \in Nat /\ IsFiniteSet(Range(q)) /\ Cardinality(Range(q)) = Len(q)
  <2>1. PICK n \in Nat : n = Len(q) /\ DOMAIN q = 1 .. n
    OBVIOUS
  <2>2. Range(q) = {q[i] : i \in 1 .. n} /\ \A i, j \in 1 .. n : q[i] = q[j] => i = j
    BY <1>1, <2>1 DEF Range, Distinct
  <2>3. QED
    BY <2>1, <2>2, LengthIsCardinality
<1>2. /\ req[f] \in Seq(Requests) /\ Distinct(req[f]) /\ res[f] \in Seq(Requests) /\ Distinct(res[f])
  BY InLine DEF Placed
<1>3. Len(req[f]) \in Nat /\ Len(req[f]) <= w
  <2>1. Range(req[f]) \subseteq OnWay(f)
    BY DEF OnWay
  <2>2. QED
    BY <1>1, <1>2, <2>1, FS_Subset
<1>4. ASSUME NEW d \in Dispatchers, InHand(d, f) PROVE Len(res[f]) + 1 <= w
  <2>1. hand[d] \notin Range(res[f])
    BY <1>4 DEF Placed
  <2>2. Cardinality(Range(res[f]) \cup {hand[d]}) = Len(res[f]) + 1
    BY <1>1, <1>2, <2>1, FS_AddElement
  <2>3. Range(res[f]) \cup {hand[d]} \subseteq OnWay(f)
    BY <1>4 DEF OnWay
  <2>4. QED
    BY <2>2, <2>3, FS_Subset
<1>5. QED
  BY <1>1, <1>2, <1>3, <1>4

\* Nothing gets stuck before a FIFO is full of responses that are owed or have been
\* abandoned, while every function has one caller: whoever is killed, unlinked,
\* deleted or replaced, and however many dispatchers run the function.
THEOREM RoomUntilFull ==
  ASSUME OneCaller PROVE Spec => []StuckOnlyWhenFull
<1>1. BalanceInv => StuckOnlyWhenFull
  <2> SUFFICES ASSUME BalanceInv, NEW c \in Callers, Target[c] \notin Silent
               PROVE  LET f == Target[c]
                          due == Len(owed[c]) + Cardinality(Of(abandoned, c))
                          limit == Capacity + Cardinality(Of(lost, c))
                      IN  /\ due <= limit =>
                               \A d \in Dispatchers :
                                 dpc[d] = "respond" /\ Head(batch[d]) = f => Len(res[f]) < Capacity
                          /\ due < limit /\ cpc[c] = "calling" => Len(req[f]) < Capacity
    BY DEF StuckOnlyWhenFull
  <2> DEFINE f == Target[c]
  <2>1. f \in Functions /\ Capacity \in Nat /\ PlaceInv /\ Balanced(c)
    BY HostFunctionAssumption DEF BalanceInv
  <2>2. IsFiniteSet(OnWay(f))
    BY <2>1, Account
  <2>3. PICK w \in Nat, l \in Nat : w = Cardinality(OnWay(f)) /\ l = Cardinality(Of(lost, c))
    BY <2>1, Account
  <2>4. w + l = Len(owed[c]) + Cardinality(Of(abandoned, c))
    BY <2>1, <2>3, Account
  <2>5. /\ Len(req[f]) \in Nat /\ Len(res[f]) \in Nat /\ Len(req[f]) <= w
        /\ \A d \in Dispatchers : InHand(d, f) => Len(res[f]) + 1 <= w
    BY <2>1, <2>2, <2>3, WithinWay
  <2>6. \A d \in Dispatchers : dpc[d] = "respond" /\ Head(batch[d]) = f => InHand(d, f)
    BY DEF InHand, Busy
  <2>7. w + l <= Capacity + l =>
          \A d \in Dispatchers : dpc[d] = "respond" /\ Head(batch[d]) = f => Len(res[f]) < Capacity
    BY <2>1, <2>5, <2>6
  <2>8. w + l < Capacity + l => Len(req[f]) < Capacity
    BY <2>1, <2>5
  <2>9. QED
    BY <2>3, <2>4, <2>7, <2>8
<1>2. QED
  BY <1>1, Balances, PTL

-----------------------------------------------------------------------------
(* Which: a response shifts by what was lost and what was abandoned before it *)

LastOf(c) == IF answer[c] = None THEN 0 ELSE answer[c][2][2]

\* What is on its way are the calls of c so far but the lost ones, after the one that
\* the last response taken was of.
Drift(c) ==
  Target[c] \notin Silent =>
    /\ \A n \in 1 .. MaxCalls :
         <<c, n>> \in OnWay(Target[c]) <=> Past(<<c, n>>) /\ LastOf(c) < n /\ <<c, n>> \notin lost
    /\ Rank(lost, c, LastOf(c)) = Rank(abandoned, c, LastFor(c))

DriftInv == AnswerInv /\ BalanceInv /\ \A c \in Callers : Drift(c)

LEMMA RankSame ==
  ASSUME NEW S, NEW T, NEW c, NEW n, \A k \in 1 .. n : <<c, k>> \in S <=> <<c, k>> \in T
  PROVE  Rank(S, c, n) = Rank(T, c, n)
<1>1. {k \in 1 .. n : <<c, k>> \notin S} = {k \in 1 .. n : <<c, k>> \notin T}
  OBVIOUS
<1>2. QED
  BY <1>1 DEF Rank

\* The next number that is not in S has the next rank.
LEMMA NextRank ==
  ASSUME NEW S, NEW c, NEW m \in Nat, NEW n \in Nat, m < n, <<c, n>> \notin S,
         \A k \in 1 .. n : m < k /\ k < n => <<c, k>> \in S
  PROVE  Rank(S, c, n) = Rank(S, c, m) + 1
<1> DEFINE A == {k \in 1 .. m : <<c, k>> \notin S}
<1>1. {k \in 1 .. n : <<c, k>> \notin S} = A \cup {n} /\ n \notin A
  <2>1. ASSUME NEW k \in 1 .. n, <<c, k>> \notin S PROVE k \in 1 .. m \/ k = n
    BY <2>1
  <2>2. ASSUME NEW k \in 1 .. m PROVE k \in 1 .. n /\ k # n
    BY <2>2
  <2>3. n \in 1 .. n
    OBVIOUS
  <2>4. QED
    BY <2>1, <2>2, <2>3
<1>2. IsFiniteSet(A)
  <2>1. IsFiniteSet(1 .. m)
    BY FS_Interval
  <2>2. QED
    BY <2>1, FS_Subset
<1>3. QED
  BY <1>1, <1>2, FS_AddElement DEF Rank

\* A call before one that has passed has passed.
LEMMA PastBefore ==
  ASSUME TypeOK, NEW c \in Callers, NEW n \in 1 .. MaxCalls, Past(<<c, n>>), NEW k \in 1 .. n
  PROVE  k \in 1 .. MaxCalls /\ Past(<<c, k>>)
<1>1. calls[c] \in Nat /\ n <= calls[c] /\ (cpc[c] = "calling" => n < calls[c])
  BY HostFunctionAssumption DEF TypeOK, Past
<1>2. k <= calls[c] /\ (cpc[c] = "calling" => k < calls[c])
  BY <1>1
<1>3. QED
  BY <1>2, HostFunctionAssumption DEF Past

\* What the numbers of the last response are.
LEMMA LastNumbers ==
  ASSUME AnswerInv, BalanceInv, NEW c \in Callers, Target[c] \notin Silent
  PROVE  /\ LastOf(c) \in Nat /\ LastFor(c) \in Nat
         /\ LastOf(c) # 0 => LastOf(c) \in 1 .. MaxCalls /\ Past(<<c, LastOf(c)>>)
         /\ LastFor(c) # 0 => LastFor(c) \in 1 .. MaxCalls /\ Past(<<c, LastFor(c)>>)
         /\ answer[c] # None => answer[c] = <<<<c, LastFor(c)>>, <<c, LastOf(c)>>>>
<1>1. CASE answer[c] = None
  BY <1>1 DEF LastOf, LastFor
<1>2. CASE answer[c] # None
  <2>1. PICK x \in Requests, y \in Requests : answer[c] = <<x, y>>
    BY <1>2 DEF AnswerInv, PlaceInv, TypeInv, TypeOK
  <2>2. x[1] = c /\ Past(x) /\ y[1] = c /\ Past(y)
    <3>1. answer[c][1] = x /\ answer[c][2] = y
      BY <2>1
    <3>2. answer[c][1][1] = c /\ Past(answer[c][1])
      BY <1>2 DEF BalanceInv, Balanced
    <3>3. answer[c][2][1] = c /\ Past(answer[c][2])
      BY <1>2 DEF AnswerInv, LastTaken
    <3>4. QED
      BY <3>1, <3>2, <3>3
  <2>3. x = <<c, x[2]>> /\ y = <<c, y[2]>> /\ x[2] \in 1 .. MaxCalls /\ y[2] \in 1 .. MaxCalls
    BY <2>2 DEF Requests
  <2>4. LastFor(c) = x[2] /\ LastOf(c) = y[2]
    BY <1>2, <2>1 DEF LastFor, LastOf
  <2>5. QED
    BY <2>1, <2>2, <2>3, <2>4, HostFunctionAssumption
<1>3. QED
  BY <1>1, <1>2

\* Calls that are lost or abandoned from here on are after those answered.
LEMMA DriftKept ==
  ASSUME AnswerInv, BalanceInv, NEW c \in Callers, Target[c] \notin Silent, Drift(c),
         answer'[c] = answer[c],
         \A n \in 1 .. MaxCalls : <<c, n>> \in OnWay(Target[c])' <=>
           Past(<<c, n>>)' /\ LastOf(c) < n /\ <<c, n>> \notin lost',
         \A n \in 1 .. MaxCalls : Past(<<c, n>>) /\ n <= LastOf(c) =>
           (<<c, n>> \in lost <=> <<c, n>> \in lost'),
         \A n \in 1 .. MaxCalls : Past(<<c, n>>) /\ n <= LastFor(c) =>
           (<<c, n>> \in abandoned <=> <<c, n>> \in abandoned')
  PROVE  Drift(c)'
<1>1. TypeOK
  BY DEF AnswerInv, OrderInv, TypeInv
<1>2. PICK p \in Nat : p = LastOf(c)
  BY LastNumbers
<1>3. PICK m \in Nat : m = LastFor(c)
  BY LastNumbers
<1>4. LastOf(c)' = p /\ LastFor(c)' = m
  BY <1>2, <1>3 DEF LastOf, LastFor
<1>5. Rank(lost', c, p) = Rank(lost, c, p)
  <2>1. ASSUME NEW k \in 1 .. p PROVE k \in 1 .. MaxCalls /\ Past(<<c, k>>) /\ k <= p
    <3>1. p # 0
      OBVIOUS
    <3>2. p \in 1 .. MaxCalls /\ Past(<<c, p>>)
      BY <1>2, <3>1, LastNumbers
    <3>3. QED
      BY <1>1, <3>2, PastBefore
  <2>2. \A k \in 1 .. p : <<c, k>> \in lost <=> <<c, k>> \in lost'
    BY <1>2, <2>1
  <2>3. QED
    BY <2>2, RankSame
<1>6. Rank(abandoned', c, m) = Rank(abandoned, c, m)
  <2>1. ASSUME NEW k \in 1 .. m PROVE k \in 1 .. MaxCalls /\ Past(<<c, k>>) /\ k <= m
    <3>1. m # 0
      OBVIOUS
    <3>2. m \in 1 .. MaxCalls /\ Past(<<c, m>>)
      BY <1>3, <3>1, LastNumbers
    <3>3. QED
      BY <1>1, <3>2, PastBefore
  <2>2. \A k \in 1 .. m : <<c, k>> \in abandoned <=> <<c, k>> \in abandoned'
    BY <1>3, <2>1
  <2>3. QED
    BY <2>2, RankSame
<1>7. Rank(lost, c, p) = Rank(abandoned, c, m)
  BY <1>2, <1>3 DEF Drift
<1>8. Rank(lost, c, LastOf(c))' = Rank(abandoned, c, LastFor(c))'
  BY <1>4, <1>5, <1>6, <1>7 DEF Rank
<1>9. \A n \in 1 .. MaxCalls : <<c, n>> \in OnWay(Target[c])' <=>
        Past(<<c, n>>)' /\ LastOf(c)' < n /\ <<c, n>> \notin lost'
  BY <1>2, <1>4
<1>10. QED
  BY <1>8, <1>9 DEF Drift

LEMMA DriftElsewhere ==
  ASSUME AnswerInv, BalanceInv, NEW c \in Callers, Target[c] \notin Silent, Drift(c), Elsewhere(c)
  PROVE  Drift(c)'
<1>1. ASSUME NEW n \in 1 .. MaxCalls
      PROVE  /\ <<c, n>> \in OnWay(Target[c])' => <<c, n>> \in OnWay(Target[c])
             /\ <<c, n>> \in lost' <=>
                  \/ <<c, n>> \in lost
                  \/ <<c, n>> \in OnWay(Target[c]) /\ <<c, n>> \notin OnWay(Target[c])'
  <2>1. <<c, n>> \in Requests /\ <<c, n>>[1] = c
    BY DEF Requests
  <2>2. QED
    BY <2>1 DEF Elsewhere, Falls
<1>2. \A n \in 1 .. MaxCalls :
        /\ Past(<<c, n>>)' <=> Past(<<c, n>>)
        /\ <<c, n>> \in abandoned' <=> <<c, n>> \in abandoned
  BY DEF Elsewhere
<1>3. \A n \in 1 .. MaxCalls :
        <<c, n>> \in OnWay(Target[c]) <=> Past(<<c, n>>) /\ LastOf(c) < n /\ <<c, n>> \notin lost
  BY DEF Drift
<1>4. PICK p \in Nat : p = LastOf(c)
  BY LastNumbers
<1>5. \A n \in 1 .. MaxCalls : n <= LastOf(c) => ~(LastOf(c) < n)
  BY <1>4
<1>6. /\ \A n \in 1 .. MaxCalls : <<c, n>> \in OnWay(Target[c])' <=>
           Past(<<c, n>>)' /\ LastOf(c) < n /\ <<c, n>> \notin lost'
      /\ \A n \in 1 .. MaxCalls : Past(<<c, n>>) /\ n <= LastOf(c) =>
           (<<c, n>> \in lost <=> <<c, n>> \in lost')
  BY <1>1, <1>2, <1>3, <1>5
<1>7. answer'[c] = answer[c]
  BY DEF Elsewhere
<1>8. QED
  BY <1>2, <1>6, <1>7, DriftKept

LEMMA DriftEndCall ==
  ASSUME AnswerInv, BalanceInv, NEW c \in Callers, Target[c] \notin Silent, Drift(c), EndCall(c)
  PROVE  Drift(c)'
<1>0. PlaceInv
  BY DEF AnswerInv
<1>1. PICK m \in 1 .. MaxCalls : m = calls[c]
  BY <1>0, WayEndCall
<1>2. PICK x \in Mine(c) : x = <<c, m>>
  BY DEF Mine
<1>3. /\ OnWay(Target[c])' = OnWay(Target[c]) \cup {x} /\ lost' = lost /\ abandoned' = abandoned
      /\ answer' = answer /\ ~Past(x)
      /\ \A n \in 1 .. MaxCalls : Past(<<c, n>>)' <=> Past(<<c, n>>) \/ n = m
  BY <1>0, <1>1, <1>2, WayEndCall
<1>4. x \notin lost
  BY <1>2, <1>3 DEF BalanceInv, Balanced
<1>5. LastOf(c) < m
  <2>1. LastOf(c) # 0 => LastOf(c) \in 1 .. MaxCalls /\ Past(<<c, LastOf(c)>>)
    BY LastNumbers
  <2>2. QED
    BY <1>1, <2>1 DEF Past, EndCall
<1>6. \A n \in 1 .. MaxCalls : <<c, n>> = x <=> n = m
  BY <1>2
<1>7. \A n \in 1 .. MaxCalls : <<c, n>> \in OnWay(Target[c])' <=>
        Past(<<c, n>>)' /\ LastOf(c) < n /\ <<c, n>> \notin lost'
  BY <1>3, <1>4, <1>5, <1>6 DEF Drift
<1>8. QED
  BY <1>3, <1>7, DriftKept

LEMMA DriftLetGo ==
  ASSUME AnswerInv, BalanceInv, NEW c \in Callers, Target[c] \notin Silent, Drift(c), LetGo(c)
  PROVE  Drift(c)'
<1>0. PlaceInv
  BY DEF AnswerInv
<1>1. PICK U : U = Unsent(c)
  OBVIOUS
<1>2. ASSUME NEW n \in 1 .. MaxCalls
      PROVE  /\ <<c, n>> \in OnWay(Target[c])' => <<c, n>> \in OnWay(Target[c])
             /\ <<c, n>> \in lost' <=>
                  \/ <<c, n>> \in lost \/ <<c, n>> \in U
                  \/ <<c, n>> \in OnWay(Target[c]) /\ <<c, n>> \notin OnWay(Target[c])'
             /\ Past(<<c, n>>)' <=> Past(<<c, n>>) \/ <<c, n>> \in U
             /\ <<c, n>> \in U => ~Past(<<c, n>>)
             /\ <<c, n>> \in abandoned' <=>
                  <<c, n>> \in abandoned \/ n \in Range(owed[c]) \/ <<c, n>> \in U
  <2>1. PICK x : x = <<c, n>>
    OBVIOUS
  <2>2. x \in lost' <=> x \in lost \/ x \in OnWay(Target[c]) \ OnWay(Target[c])' \/ x \in U
    <3>1. Target[x[1]] = Target[c]
      BY <2>1
    <3>2. QED
      BY <1>0, <1>1, <3>1, WayLetGo
  <2>3. QED
    BY <1>0, <1>1, <2>1, <2>2, WayLetGo
<1>3. \A n \in 1 .. MaxCalls :
        /\ <<c, n>> \in OnWay(Target[c]) <=> Past(<<c, n>>) /\ LastOf(c) < n /\ <<c, n>> \notin lost
        /\ n \in Range(owed[c]) => LastFor(c) < n
  BY DEF Drift, BalanceInv, Balanced
<1>4. \A n \in 1 .. MaxCalls : /\ n <= LastOf(c) => ~(LastOf(c) < n)
                               /\ n <= LastFor(c) => ~(LastFor(c) < n)
  <2>1. PICK p \in Nat, m \in Nat : p = LastOf(c) /\ m = LastFor(c)
    BY LastNumbers
  <2>2. QED
    BY <2>1
<1>5. \A n \in 1 .. MaxCalls : <<c, n>> \in OnWay(Target[c])' <=>
        Past(<<c, n>>)' /\ LastOf(c) < n /\ <<c, n>> \notin lost'
  BY <1>2, <1>3
<1>6. \A n \in 1 .. MaxCalls : Past(<<c, n>>) /\ n <= LastOf(c) =>
        (<<c, n>> \in lost <=> <<c, n>> \in lost')
  BY <1>2, <1>3, <1>4
<1>7. \A n \in 1 .. MaxCalls : Past(<<c, n>>) /\ n <= LastFor(c) =>
        (<<c, n>> \in abandoned <=> <<c, n>> \in abandoned')
  BY <1>2, <1>3, <1>4
<1>8. answer'[c] = answer[c]
  BY <1>0, WayLetGo
<1>9. QED
  BY <1>5, <1>6, <1>7, <1>8, DriftKept

\* A caller takes the next response that was not lost, for the next call that it has
\* not abandoned.
LEMMA DriftEndGet ==
  ASSUME OneCaller, AnswerInv, BalanceInv, NEW c \in Callers, Target[c] \notin Silent, Drift(c),
         EndGet(c)
  PROVE  Drift(c)'
<1> DEFINE f == Target[c]
<1>0. PlaceInv /\ TypeOK /\ f \in Functions
  BY HostFunctionAssumption DEF AnswerInv, PlaceInv, TypeInv
<1>1. PICK x \in Mine(c) : x = Head(res[f])
  <2>1. Head(res[f]) \in OnWay(f)
    BY <1>0, WayEndGet
  <2>2. QED
    BY <1>0, <2>1, MineAre
<1>2. PICK p \in 1 .. MaxCalls : x = <<c, p>>
  BY DEF Mine
<1>3. x \in OnWay(f) /\ lost' = lost /\ abandoned' = abandoned
  BY <1>0, <1>1, WayEndGet
<1>4. OnWay(f)' = OnWay(f) \ {x}
  BY <1>0, <1>1, WayEndGet
<1>5. /\ owed[c] \in Seq(1 .. MaxCalls) /\ owed[c] # <<>>
      /\ \A n \in 1 .. MaxCalls : Past(<<c, n>>)' <=> Past(<<c, n>>)
  BY <1>0, <1>1, WayEndGet
<1>6. PICK m \in 1 .. MaxCalls : m = Head(owed[c])
  BY <1>5, TailOf
<1>7. PICK q \in Nat, l \in Nat : q = LastOf(c) /\ l = LastFor(c)
  BY LastNumbers
<1>8. LastOf(c)' = p /\ LastFor(c)' = m
  <2>1. PICK y : y = <<c, m>>
    OBVIOUS
  <2>2. answer'[c] = <<y, x>>
    BY <1>0, <1>1, <1>6, <2>1, WayEndGet
  <2>3. y \in Callers \X Nat /\ x \in Callers \X Nat
    BY <1>2, <2>1, HostFunctionAssumption
  <2>4. answer'[c] # None
    BY <2>2, <2>3, HostFunctionAssumption
  <2>5. y[2] = m /\ x[2] = p
    BY <1>2, <2>1
  <2>6. QED
    BY <2>2, <2>4, <2>5 DEF LastOf, LastFor
<1>9. \A n \in 1 .. MaxCalls :
        /\ <<c, n>> \in OnWay(f) <=> Past(<<c, n>>) /\ q < n /\ <<c, n>> \notin lost
        /\ n \in Range(owed[c]) <=> Past(<<c, n>>) /\ l < n /\ <<c, n>> \notin abandoned
  BY <1>7 DEF Drift, BalanceInv, Balanced
<1>10. \A n \in 1 .. MaxCalls : <<c, n>> \in OnWay(f) /\ n # p => p < n
  <2>1. ASSUME NEW n \in 1 .. MaxCalls, <<c, n>> \in OnWay(f), n # p PROVE p < n
    <3>1. PICK y : y = <<c, n>>
      OBVIOUS
    <3>2. y \in OnWay(f) /\ y # Head(res[f]) /\ res[f] # <<>>
      BY <1>1, <1>2, <2>1, <3>1 DEF EndGet
    <3>3. Before(x, y)
      BY <1>0, <1>1, <3>2, OldestFirst DEF AnswerInv
    <3>4. QED
      BY <1>2, <3>1, <3>3 DEF Before
  <2>2. QED
    BY <2>1
<1>11. m \in Range(owed[c]) /\ \A n \in Range(owed[c]) : n = m \/ m < n
  <2>1. /\ Len(owed[c]) \in Nat /\ Len(owed[c]) > 0 /\ DOMAIN owed[c] = 1 .. Len(owed[c])
        /\ m = owed[c][1]
    BY <1>5, <1>6, TailOf
  <2>2. 1 \in DOMAIN owed[c] /\ \A i \in DOMAIN owed[c] : i = 1 \/ 1 < i
    BY <2>1
  <2>3. \A i \in DOMAIN owed[c] : 1 < i => owed[c][1] < owed[c][i]
    BY <2>2 DEF BalanceInv, Balanced, Increasing
  <2>4. QED
    BY <2>1, <2>2, <2>3 DEF Range
<1>12. Past(<<c, p>>) /\ q < p /\ <<c, p>> \notin lost
  BY <1>2, <1>3, <1>9
<1>13. Past(<<c, m>>) /\ l < m /\ <<c, m>> \notin abandoned
  BY <1>9, <1>11
<1>14. Rank(lost, c, p) = Rank(lost, c, q) + 1
  <2>1. ASSUME NEW k \in 1 .. p, q < k, k < p PROVE <<c, k>> \in lost
    <3>1. k \in 1 .. MaxCalls /\ Past(<<c, k>>)
      BY <1>0, <1>12, PastBefore
    <3>2. ~(p < k) /\ k # p
      BY <2>1
    <3>3. QED
      BY <1>9, <1>10, <2>1, <3>1, <3>2
  <2>2. p \in Nat
    OBVIOUS
  <2>3. QED
    BY <1>12, <2>1, <2>2, NextRank
<1>15. Rank(abandoned, c, m) = Rank(abandoned, c, l) + 1
  <2>1. ASSUME NEW k \in 1 .. m, l < k, k < m PROVE <<c, k>> \in abandoned
    <3>1. k \in 1 .. MaxCalls /\ Past(<<c, k>>)
      BY <1>0, <1>13, PastBefore
    <3>2. ~(m < k) /\ k # m
      BY <2>1
    <3>3. QED
      BY <1>9, <1>11, <2>1, <3>1, <3>2
  <2>2. m \in Nat
    OBVIOUS
  <2>3. QED
    BY <1>13, <2>1, <2>2, NextRank
<1>16. Rank(lost, c, q) = Rank(abandoned, c, l)
  BY <1>7 DEF Drift
<1>17. Rank(lost, c, LastOf(c))' = Rank(abandoned, c, LastFor(c))'
  <2>1. Rank(lost, c, p) = Rank(abandoned, c, m)
    BY <1>14, <1>15, <1>16
  <2>2. QED
    BY <1>3, <1>8, <2>1 DEF Rank
<1>18. ASSUME NEW n \in 1 .. MaxCalls
       PROVE  <<c, n>> \in OnWay(f)' <=> Past(<<c, n>>)' /\ LastOf(c)' < n /\ <<c, n>> \notin lost'
  <2>1. <<c, n>> = x <=> n = p
    BY <1>2
  <2>2. n = p \/ p < n => q < n
    BY <1>7, <1>12
  <2>3. p < n => n # p
    OBVIOUS
  <2>4. <<c, n>> \in OnWay(f)' <=> <<c, n>> \in OnWay(f) /\ n # p
    BY <1>4, <2>1
  <2>5. QED
    BY <1>3, <1>5, <1>8, <1>9, <1>10, <2>2, <2>3, <2>4
<1>19. QED
  BY <1>17, <1>18 DEF Drift

LEMMA DriftStep ==
  ASSUME OneCaller, DriftInv, Exclusive, [Next]_vars PROVE DriftInv'
<1>1. AnswerInv' /\ BalanceInv'
  BY StepAnswer, BalanceStep DEF DriftInv
<1>2. ASSUME NEW c \in Callers PROVE Drift(c)'
  <2>1. CASE Target[c] \in Silent
    BY <2>1 DEF Drift
  <2>2. CASE Target[c] \notin Silent
    <3>1. PlaceInv
      BY DEF DriftInv, AnswerInv
    <3>2. QED
      BY <2>2, <3>1, StepOf, DriftElsewhere, DriftEndCall, DriftEndGet, DriftLetGo DEF DriftInv
  <2>3. QED
    BY <2>1, <2>2
<1>3. QED
  BY <1>1, <1>2 DEF DriftInv

LEMMA InitDrift == ASSUME Init PROVE DriftInv
<1> SUFFICES ASSUME NEW c \in Callers PROVE Drift(c)
  BY InitAnswer, InitBalance DEF DriftInv
<1>1. /\ answer[c] = None /\ calls[c] = 0 /\ lost = {} /\ abandoned = {}
      /\ Target[c] \in Functions /\ req[Target[c]] = <<>> /\ res[Target[c]] = <<>>
  BY HostFunctionAssumption DEF Init
<1>2. OnWay(Target[c]) = {}
  <2>1. \A d \in Dispatchers : ~InHand(d, Target[c])
    BY DEF Init, InHand, Busy
  <2>2. QED
    BY <1>1, <2>1 DEF OnWay, Range
<1>3. \A n \in 1 .. MaxCalls : ~Past(<<c, n>>)
  BY <1>1, HostFunctionAssumption DEF Past
<1>4. LastOf(c) = 0 /\ LastFor(c) = 0
  BY <1>1 DEF LastOf, LastFor
<1>5. Rank(lost, c, 0) = Rank(abandoned, c, 0)
  BY <1>1
<1>6. QED
  BY <1>2, <1>3, <1>4, <1>5 DEF Drift

LEMMA Drifts == ASSUME OneCaller PROVE Spec /\ []Exclusive => []DriftInv
<1>1. Init => DriftInv
  BY InitDrift
<1>2. DriftInv /\ Exclusive /\ [Next]_vars => DriftInv'
  BY DriftStep
<1>3. QED
  BY <1>1, <1>2, PTL DEF Spec

\* The i-th response that a caller takes is that of the i-th call it has not lost, and
\* it takes it for the i-th call it has not abandoned, while every function has one
\* caller and no two dispatchers run it: however often it is unlinked or killed with
\* responses outstanding, and a dispatcher killed, deleted or replaced with requests
\* in its last batch.
THEOREM ResponsesDrift ==
  ASSUME OneCaller PROVE Spec /\ []Exclusive => []ResponseDrift
<1>1. DriftInv => ResponseDrift
  <2> SUFFICES ASSUME DriftInv, NEW c \in Callers, answer[c] # None
               PROVE  /\ answer[c][2][1] = c
                      /\ Rank(lost, c, answer[c][2][2]) = Rank(abandoned, c, answer[c][1][2])
    BY DEF ResponseDrift
  <2>1. Target[c] \notin Silent /\ answer[c][2][1] = c
    BY DEF DriftInv, BalanceInv, Balanced, AnswerInv, LastTaken
  <2>2. QED
    BY <2>1 DEF DriftInv, Drift, LastOf, LastFor
<1>2. QED
  BY <1>1, Drifts, PTL

\* Of which nothing is left to be seen while nothing is lost or abandoned: then the
\* response that a caller takes for its oldest unanswered call is the one of that call,
\* while every function has one caller and no two dispatchers run it.
THEOREM AnswersMatch ==
  ASSUME OneCaller PROVE Spec /\ []Exclusive => []ResponseMatches
<1>1. DriftInv => ResponseMatches
  <2> SUFFICES ASSUME DriftInv, NEW c \in Callers, answer[c] # None, Of(lost \cup abandoned, c) = {}
               PROVE  answer[c][1] = answer[c][2]
    BY DEF ResponseMatches
  <2>1. Target[c] \notin Silent
    BY DEF DriftInv, BalanceInv, Balanced
  <2>2. PICK p \in Nat, m \in Nat : p = LastOf(c) /\ m = LastFor(c)
    BY <2>1, LastNumbers DEF DriftInv
  <2>3. answer[c] = <<<<c, m>>, <<c, p>>>>
    BY <2>1, <2>2, LastNumbers DEF DriftInv
  <2>4. Rank(lost, c, p) = Rank(abandoned, c, m)
    BY <2>1, <2>2 DEF DriftInv, Drift
  <2>5. \A k : <<c, k>> \notin lost /\ <<c, k>> \notin abandoned
    <3>1. ASSUME NEW k, <<c, k>> \in lost \cup abandoned PROVE FALSE
      <4>1. PICK y \in lost \cup abandoned : y = <<c, k>>
        BY <3>1
      <4>2. y[1] = c
        BY <4>1
      <4>3. QED
        BY <4>1, <4>2 DEF Of
    <3>2. QED
      BY <3>1
  <2>6. ASSUME NEW S, \A k : <<c, k>> \notin S, NEW n \in Nat PROVE Rank(S, c, n) = n
    <3>1. {k \in 1 .. n : <<c, k>> \notin S} = 1 .. n
      BY <2>6
    <3>2. Cardinality(1 .. n) = n
      BY FS_Interval
    <3>3. QED
      BY <3>1, <3>2 DEF Rank
  <2>7. p = m
    BY <2>4, <2>5, <2>6
  <2>8. QED
    BY <2>3, <2>7
<1>2. QED
  BY <1>1, Drifts, PTL
=============================================================================
