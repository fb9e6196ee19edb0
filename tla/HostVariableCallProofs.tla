----------------------- MODULE HostVariableCallProofs -----------------------
(***************************************************************************)
(* What the calls of HostVariable are to their users: steps of LatestValue, *)
(* whatever happens, and calls that never fail and only move forward when  *)
(* few threads share the variable.                                         *)
(***************************************************************************)
EXTENDS HostVariableProofs

-----------------------------------------------------------------------------
(* HostVariable implements LatestValue: every step of a thread is a step of *)
(* the abstract variable or changes nothing its users can see.             *)

THEOREM InitRefines == Init => LV!Init
<1> SUFFICES ASSUME Init PROVE LV!Init
  OBVIOUS
<1> USE DEF Init
<1>1. \A p \in Threads : pc[p] = "idle" /\ ret[p] = "none"
  OBVIOUS
<1>2. Value = [i \in Words |-> Zero]
  BY Constants DEF Value, FlagsInit
<1>3. /\ Outcome = [w \in Writers |-> "none"] /\ Pending = [w \in Writers |-> None]
  BY <1>1, Constants DEF Outcome, Pending
<1>4. /\ Phase = [r \in Readers |-> "idle"] /\ View = [r \in Readers |-> None]
      /\ Result = [r \in Readers |-> None]
  BY <1>1, Constants DEF Phase, View, Result, Reading
<1>5. QED
  BY <1>2, <1>3, <1>4 DEF LV!Init, LV!Image

-----------------------------------------------------------------------------
(* What the steps leave as it was. *)

\* The users of a write see nothing of a step of another thread.
LEMMA SameWrites ==
  ASSUME \A w \in Writers : pc'[w] = pc[w] /\ ret'[w] = ret[w] /\ now'[w] = now[w]
  PROVE  Outcome' = Outcome /\ Pending' = Pending
BY DEF Outcome, Pending, Payload

\* Nor do those of a read.
LEMMA SameReads ==
  ASSUME \A r \in Readers :
           /\ pc'[r] = pc[r] /\ ret'[r] = ret[r] /\ buf'[r] = buf[r] /\ slot'[r] = slot[r]
           /\ Reading(r) => data'[slot[r]] = data[slot[r]]
  PROVE  Phase' = Phase /\ View' = View /\ Result' = Result
BY DEF Phase, View, Result, Reading

\* The value only changes with the target or the content of its buffer.
LEMMA SameValue ==
  ASSUME flags'.target = flags.target, data'[flags.target] = data[flags.target]
  PROVE  Value' = Value
BY DEF Value

-----------------------------------------------------------------------------
(* Reads *)

LEMMA ReadBeginRefines ==
  ASSUME IInv, NEW r \in Readers, ReadBegin(r)
  PROVE  LV!StartRead(r)
<1> USE DEF ReadBegin, At, Goto, LoadFlags, shared
<1>1. Value' = Value /\ Outcome' = Outcome /\ Pending' = Pending
  BY SameValue, SameWrites, Constants DEF IInv, TypeOK
<1>2. /\ \A q \in Readers \ {r} : pc'[q] = pc[q] /\ ret'[q] = ret[q] /\ buf'[q] = buf[q]
      /\ pc[r] = "idle" /\ pc'[r] = "r_acquire" /\ data' = data /\ slot' = slot
  BY Constants DEF IInv, TypeOK
<1>3. /\ Phase[r] = "idle"
      /\ Phase' = [Phase EXCEPT ![r] = "begun"]
  BY <1>2 DEF Phase, Reading
<1>4. View' = View
  BY <1>2 DEF View, Reading
<1>5. Result' = [Result EXCEPT ![r] = None]
  BY <1>2 DEF Result
<1>6. QED
  BY <1>1, <1>3, <1>4, <1>5 DEF LV!StartRead

LEMMA ReadRefusedRefines ==
  ASSUME IInv, NEW r \in Readers, ReadRefused(r)
  PROVE  LV!RefuseRead(r)
<1> USE DEF ReadRefused, At, Goto, Return, shared
<1>1. Value' = Value /\ Outcome' = Outcome /\ Pending' = Pending
  BY SameValue, SameWrites, Constants DEF IInv, TypeOK
<1>2. /\ \A q \in Readers \ {r} : pc'[q] = pc[q] /\ ret'[q] = ret[q] /\ slot'[q] = slot[q]
      /\ pc[r] = "r_acquire" /\ pc'[r] = "idle" /\ ret'[r] = "refused"
      /\ data' = data /\ buf' = buf
  BY Constants DEF IInv, TypeOK
<1>3. Phase[r] = "begun" /\ Phase' = [Phase EXCEPT ![r] = "idle"]
  BY <1>2 DEF Phase, Reading
<1>4. View' = View
  BY <1>2 DEF View, Reading
<1>5. Result' = Result
  BY <1>2 DEF Result
<1>6. QED
  BY <1>1, <1>3, <1>4, <1>5 DEF LV!RefuseRead

\* A read sees the value at the compare-exchange that locks its buffer.
LEMMA ReadAcquireRefines ==
  ASSUME IInv, NEW r \in Readers, ReadAcquire(r)
  PROVE  LV!Look(r) \/ UNCHANGED LV!vars
<1>1. /\ pc[r] = "r_acquire" /\ r \in Threads
      /\ data' = data /\ now' = now /\ buf' = buf /\ ret' = ret
  BY Constants DEF ReadAcquire, At
<1>2. CASE CasFails(r) /\ UNCHANGED <<pc, slot, todo>>
  <2>1. /\ Value' = Value /\ Outcome' = Outcome /\ Pending' = Pending
        /\ Phase' = Phase /\ View' = View /\ Result' = Result
    BY <1>1, <1>2, SameValue, SameWrites, SameReads DEF CasFails
  <2>2. QED
    BY <2>1 DEF LV!vars
<1>3. CASE /\ \E n : CasSucceeds(r, WithCount(seen[r], seen[r].target, n))
           /\ slot' = [slot EXCEPT ![r] = seen[r].target]
           /\ Goto(r, "r_copy")
  <2>1. /\ flags'.target = flags.target /\ slot'[r] = flags.target
        /\ pc'[r] = "r_copy"
        /\ \A p \in Threads \ {r} : pc'[p] = pc[p] /\ slot'[p] = slot[p]
    BY <1>1, <1>3 DEF IInv, TypeOK, CasSucceeds, WithCount, Goto
  <2>2. Value' = Value /\ Outcome' = Outcome /\ Pending' = Pending
    BY <1>1, <2>1, SameValue, SameWrites, Constants
  <2>3. \A q \in Readers \ {r} : pc'[q] = pc[q] /\ slot'[q] = slot[q]
    BY <2>1, Constants
  <2>4. Phase[r] = "begun" /\ Phase' = [Phase EXCEPT ![r] = "seen"]
    BY <1>1, <2>1, <2>3 DEF Phase, Reading
  <2>5. View' = [View EXCEPT ![r] = Value]
    BY <1>1, <2>1, <2>3 DEF View, Value, Reading
  <2>6. Result' = Result
    BY <1>1, <2>1, <2>3 DEF Result
  <2>7. QED
    BY <2>2, <2>4, <2>5, <2>6 DEF LV!Look
<1>4. QED
  BY <1>2, <1>3 DEF ReadAcquire

LEMMA ReadCopyRefines ==
  ASSUME IInv, NEW r \in Readers, ReadCopy(r) \/ ReadReload(r)
  PROVE  UNCHANGED LV!vars
<1> USE DEF ReadCopy, ReadReload, At, Goto, shared
<1>1. /\ flags' = flags /\ data' = data /\ now' = now /\ ret' = ret /\ slot' = slot
      /\ pc[r] = "r_copy" /\ pc'[r] \in {"r_copy", "r_release"}
      /\ \A p \in Threads \ {r} : pc'[p] = pc[p]
      /\ \A q \in Readers \ {r} : buf'[q] = buf[q]
  BY Constants DEF IInv, TypeOK
<1>2. Value' = Value /\ Outcome' = Outcome /\ Pending' = Pending
  BY <1>1, SameValue, SameWrites, Constants
<1>3. \A q \in Readers \ {r} : pc'[q] = pc[q]
  BY <1>1, Constants
<1>4. Phase' = Phase /\ View' = View /\ Result' = Result
  BY <1>1, <1>3 DEF Phase, View, Result, Reading
<1>5. QED
  BY <1>2, <1>4 DEF LV!vars

\* A read returns what it saw: its buffer was not touched in the meantime.
LEMMA ReadReleaseRefines ==
  ASSUME IInv, NEW r \in Readers, ReadRelease(r)
  PROVE  LV!EndRead(r) \/ UNCHANGED LV!vars
<1>1. /\ pc[r] = "r_release" /\ r \in Threads
      /\ data' = data /\ now' = now /\ buf' = buf
  BY Constants DEF ReadRelease, At
<1>2. CASE CasFails(r) /\ UNCHANGED <<pc, slot, ret>>
  <2>1. /\ Value' = Value /\ Outcome' = Outcome /\ Pending' = Pending
        /\ Phase' = Phase /\ View' = View /\ Result' = Result
    BY <1>1, <1>2, SameValue, SameWrites, SameReads DEF CasFails
  <2>2. QED
    BY <2>1 DEF LV!vars
<1>3. CASE /\ \E n : CasSucceeds(r, WithCount(seen[r], slot[r], n))
           /\ Return(r, "ok")
  <2>1. /\ flags'.target = flags.target
        /\ pc'[r] = "idle" /\ ret'[r] = "ok"
        /\ \A p \in Threads \ {r} : pc'[p] = pc[p] /\ slot'[p] = slot[p] /\ ret'[p] = ret[p]
    BY <1>1, <1>3 DEF IInv, TypeOK, CasSucceeds, WithCount, Return, Goto
  <2>2. Value' = Value /\ Outcome' = Outcome /\ Pending' = Pending
    BY <1>1, <2>1, SameValue, SameWrites, Constants
  <2>3. \A q \in Readers \ {r} : pc'[q] = pc[q] /\ slot'[q] = slot[q] /\ ret'[q] = ret[q]
    BY <2>1, Constants
  <2>4. buf[r] = data[slot[r]]
    <3>1. buf[r] \in [Words -> Payloads] /\ data[slot[r]] \in [Words -> Payloads]
      BY <1>1 DEF IInv, TypeOK, Contents
    <3>2. \A i \in Words : buf[r][i] = data[slot[r]][i]
      BY <1>1 DEF IInv, CallsInFlight, ReaderInFlight, Reading
    <3>3. QED
      BY <3>1, <3>2
  <2>5. Phase[r] = "seen" /\ Phase' = [Phase EXCEPT ![r] = "idle"]
    BY <1>1, <2>1, <2>3 DEF Phase, Reading
  <2>6. View[r] = data[slot[r]] /\ View' = [View EXCEPT ![r] = None]
    BY <1>1, <2>1, <2>3 DEF View, Reading
  <2>7. Result' = [Result EXCEPT ![r] = View[r]]
    BY <1>1, <2>1, <2>3, <2>4, <2>6 DEF Result
  <2>8. QED
    BY <2>2, <2>5, <2>6, <2>7 DEF LV!EndRead
<1>4. QED
  BY <1>2, <1>3 DEF ReadRelease

-----------------------------------------------------------------------------
(* Writes *)

LEMMA WriteBeginRefines ==
  ASSUME IInv, NEW w \in Writers, WriteBegin(w)
  PROVE  LV!StartWrite(w)
<1> USE DEF WriteBegin, At, Goto, shared
<1>1. PICK t \in {clock, clock + 1} :
        t <= MaxTime /\ clock' = t /\ now' = [now EXCEPT ![w] = t]
  OBVIOUS
<1>2. w \in Threads /\ t \in 1 .. MaxTime
  BY <1>1, Constants DEF IInv, TypeOK
<1>3. /\ pc[w] = "idle" /\ pc'[w] = "w_load" /\ now'[w] = t
      /\ \A v \in Writers \ {w} : pc'[v] = pc[v] /\ ret'[v] = ret[v] /\ now'[v] = now[v]
      /\ \A r \in Readers : pc'[r] = pc[r] /\ ret'[r] = ret[r]
  BY <1>1, <1>2, Constants DEF IInv, TypeOK
<1>4. /\ Value' = Value /\ Phase' = Phase /\ View' = View /\ Result' = Result
  BY <1>3, SameValue, SameReads
<1>5. Outcome[w] # "pending" /\ Outcome' = [Outcome EXCEPT ![w] = "pending"]
  <2>1. ret[w] # "pending"
    BY <1>2 DEF IInv, TypeOK, Codes
  <2>2. Outcome[w] # "pending"
    BY <1>3, <2>1 DEF Outcome
  <2>3. Outcome' = [Outcome EXCEPT ![w] = "pending"]
    BY <1>3 DEF Outcome
  <2>4. QED
    BY <2>2, <2>3
<1>6. <<w, t>> \in Payloads /\ Pending' = [Pending EXCEPT ![w] = <<w, t>>]
  <2>1. <<w, t>> \in Payloads
    BY <1>2 DEF Payloads
  <2>2. /\ Payload(w)' = <<w, t>>
        /\ \A v \in Writers \ {w} : Payload(v)' = Payload(v)
    BY <1>3 DEF Payload
  <2>3. Pending' = [Pending EXCEPT ![w] = <<w, t>>]
    BY <1>3, <2>2 DEF Pending
  <2>4. QED
    BY <2>1, <2>3
<1>7. QED
  BY <1>4, <1>5, <1>6 DEF LV!StartWrite

LEMMA WriteInsideRefines ==
  ASSUME IInv, NEW w \in Writers,
         WriteLoad(w) \/ WriteAcquire(w) \/ WriteStamp(w) \/ WriteReload(w) \/ WriteCheck(w)
  PROVE  UNCHANGED LV!vars
<1>1. /\ data' = data /\ now' = now /\ ret' = ret /\ buf' = buf
      /\ pc[w] # "idle" /\ w \in Threads
  BY Constants DEF WriteLoad, WriteAcquire, WriteStamp, WriteReload, WriteCheck, At, shared
<1>2. /\ pc'[w] # "idle"
      /\ \A p \in Threads \ {w} : pc'[p] = pc[p] /\ slot'[p] = slot[p]
  <2>1. CASE WriteLoad(w)
    BY <1>1, <2>1 DEF WriteLoad, Goto, IInv, TypeOK
  <2>2. CASE WriteAcquire(w)
    <3>1. PICK b \in Buffers :
            \/ slot' = [slot EXCEPT ![w] = b] /\ Goto(w, "w_stamp")
            \/ UNCHANGED <<pc, slot>>
      BY <2>2 DEF WriteAcquire, FreeBuffers
    <3>2. QED
      BY <1>1, <3>1 DEF Goto, IInv, TypeOK
  <2>3. CASE WriteStamp(w)
    BY <1>1, <2>3 DEF WriteStamp, Goto, IInv, TypeOK
  <2>4. CASE WriteReload(w)
    BY <1>1, <2>4 DEF WriteReload, Goto, IInv, TypeOK
  <2>5. CASE WriteCheck(w)
    BY <1>1, <2>5 DEF WriteCheck, Goto, IInv, TypeOK
  <2>6. QED
    BY <2>1, <2>2, <2>3, <2>4, <2>5
<1>3. flags'.target = flags.target
  BY DEF WriteLoad, WriteAcquire, WriteStamp, WriteReload, WriteCheck, shared,
     CasFails, CasSucceeds, WithCount
<1>4. /\ Value' = Value /\ Phase' = Phase /\ View' = View /\ Result' = Result
  BY <1>1, <1>2, <1>3, SameValue, SameReads, Constants
<1>5. Outcome' = Outcome /\ Pending' = Pending
  BY <1>1, <1>2, Constants DEF Outcome, Pending, Payload
<1>6. QED
  BY <1>4, <1>5 DEF LV!vars

\* Nobody can see the buffer a writer is filling.
LEMMA WriteCopyRefines ==
  ASSUME IInv, NEW w \in Writers, WriteCopy(w)
  PROVE  UNCHANGED LV!vars
<1> USE DEF WriteCopy, At
<1>1. Holds(w)
  BY DEF Holds
<1>2. /\ flags.target # slot[w] /\ flags.target \in Buffers
      /\ \A r \in Readers : Reading(r) => slot[r] \in Buffers \ {slot[w]}
  BY <1>1, HeldBuffer, Constants DEF IInv, TypeOK, FlagWords, WriteLocked
<1>3. \A c \in Buffers \ {slot[w]} : data'[c] = data[c]
  BY DEF IInv, TypeOK
<1>4. Value' = Value
  BY <1>2, <1>3, SameValue
<1>5. Outcome' = Outcome /\ Pending' = Pending
  BY SameWrites
<1>6. Phase' = Phase /\ View' = View /\ Result' = Result
  BY <1>2, <1>3, SameReads
<1>7. QED
  BY <1>4, <1>5, <1>6 DEF LV!vars

\* A write that ends without publishing leaves the value alone.
LEMMA WriteGivenUpRefines ==
  ASSUME IInv, NEW w \in Writers, WriteRefused(w) \/ WriteDiscard(w)
  PROVE  LV!GiveUp(w)
<1>1. PICK code \in {"superseded", "refused"} : WriteReturn(w, code)
  BY DEF WriteRefused, WriteDiscard
<1>2. /\ pc[w] # "idle" /\ w \in Threads
      /\ flags'.target = flags.target /\ data' = data /\ buf' = buf
  BY Constants DEF WriteRefused, WriteDiscard, WithCount, At, shared
<1>3. /\ pc'[w] = "idle" /\ ret'[w] = code
      /\ \A p \in Threads \ {w} : pc'[p] = pc[p] /\ slot'[p] = slot[p] /\ ret'[p] = ret[p]
      /\ \A v \in Writers \ {w} : now'[v] = now[v]
  BY <1>1, <1>2 DEF WriteReturn, Return, Goto, IInv, TypeOK
<1>4. /\ Value' = Value /\ Phase' = Phase /\ View' = View /\ Result' = Result
  BY <1>2, <1>3, SameValue, SameReads, Constants
<1>5. \A v \in Writers \ {w} : pc'[v] = pc[v] /\ ret'[v] = ret[v] /\ now'[v] = now[v]
  BY <1>3, Constants
<1>6. Outcome[w] = "pending" /\ Outcome' = [Outcome EXCEPT ![w] = code]
  BY <1>2, <1>3, <1>5 DEF Outcome
<1>7. Pending' = [Pending EXCEPT ![w] = None]
  BY <1>3, <1>5 DEF Pending, Payload
<1>8. QED
  BY <1>4, <1>6, <1>7 DEF LV!GiveUp, LV!EndWrite

\* A write is installed at the compare-exchange that makes its buffer the
\* target; by then the whole payload is in it.
LEMMA WritePublishRefines ==
  ASSUME IInv, NEW w \in Writers, WritePublish(w)
  PROVE  LV!Install(w) \/ UNCHANGED LV!vars
<1>1. /\ pc[w] = "w_publish" /\ w \in Threads /\ data' = data /\ buf' = buf
  BY Constants DEF WritePublish, At
<1>2. CASE CasFails(w) /\ Goto(w, "w_check") /\ UNCHANGED <<slot, now, ret>>
  <2>1. /\ flags' = flags /\ pc'[w] = "w_check"
        /\ \A p \in Threads \ {w} : pc'[p] = pc[p]
    BY <1>1, <1>2 DEF CasFails, Goto, IInv, TypeOK
  <2>2. /\ Value' = Value /\ Phase' = Phase /\ View' = View /\ Result' = Result
    BY <1>1, <1>2, <2>1, SameValue, SameReads, Constants
  <2>3. Outcome' = Outcome /\ Pending' = Pending
    BY <1>1, <1>2, <2>1, Constants DEF Outcome, Pending, Payload
  <2>4. QED
    BY <2>2, <2>3 DEF LV!vars
<1>3. CASE /\ CasSucceeds(w, WithTarget(WithCount(seen[w], slot[w], 0), slot[w]))
           /\ WriteReturn(w, "ok")
  <2>1. /\ flags'.target = slot[w] /\ pc'[w] = "idle" /\ ret'[w] = "ok"
        /\ \A p \in Threads \ {w} : pc'[p] = pc[p] /\ slot'[p] = slot[p] /\ ret'[p] = ret[p]
        /\ \A v \in Writers \ {w} : now'[v] = now[v]
    BY <1>1, <1>3 DEF CasSucceeds, WithTarget, WriteReturn, Return, Goto, IInv, TypeOK
  <2>2. data[slot[w]] = [i \in Words |-> Payload(w)]
    <3>1. data[slot[w]] \in [Words -> Payloads]
      BY <1>1 DEF IInv, TypeOK, Contents
    <3>2. \A i \in Words : data[slot[w]][i] = Payload(w)
      BY <1>1 DEF IInv, CallsInFlight, WriterInFlight
    <3>3. QED
      BY <3>1, <3>2
  <2>3. \A v \in Writers \ {w} : pc'[v] = pc[v] /\ ret'[v] = ret[v] /\ now'[v] = now[v]
    BY <2>1, Constants
  <2>4. Outcome[w] = "pending" /\ Outcome' = [Outcome EXCEPT ![w] = "ok"]
    BY <1>1, <2>1, <2>3 DEF Outcome
  <2>5. Pending[w] = Payload(w) /\ Pending' = [Pending EXCEPT ![w] = None]
    BY <1>1, <2>1, <2>3 DEF Pending, Payload
  <2>6. Value' = [i \in Words |-> Pending[w]]
    BY <1>1, <2>1, <2>2, <2>5 DEF Value
  <2>7. Phase' = Phase /\ View' = View /\ Result' = Result
    BY <1>1, <2>1, SameReads, Constants
  <2>8. QED
    BY <2>4, <2>5, <2>6, <2>7 DEF LV!Install, LV!EndWrite, LV!Image
<1>4. QED
  BY <1>2, <1>3 DEF WritePublish

-----------------------------------------------------------------------------
LEMMA StutterRefines ==
  ASSUME UNCHANGED vars \/ \E p \in Threads : Crash(p)
  PROVE  UNCHANGED LV!vars
<1>1. /\ flags' = flags /\ data' = data /\ pc' = pc /\ ret' = ret /\ now' = now
      /\ buf' = buf /\ slot' = slot
  BY DEF vars, shared, Crash
<1>2. /\ Value' = Value /\ Outcome' = Outcome /\ Pending' = Pending
      /\ Phase' = Phase /\ View' = View /\ Result' = Result
  BY <1>1, SameValue, SameWrites, SameReads
<1>3. QED
  BY <1>2 DEF LV!vars

\* Every step of a thread is a step of the abstract variable or a stutter.
THEOREM NextRefines == IInv /\ [Next]_vars => [LV!Next]_LV!vars
<1> SUFFICES ASSUME IInv, [Next]_vars PROVE LV!Next \/ UNCHANGED LV!vars
  OBVIOUS
<1>1. ASSUME NEW r \in Readers, ReadBegin(r) \/ ReadStep(r)
      PROVE  LV!Next \/ UNCHANGED LV!vars
  BY <1>1, ReadBeginRefines, ReadRefusedRefines, ReadAcquireRefines, ReadCopyRefines,
     ReadReleaseRefines DEF ReadStep, LV!Next
<1>2. ASSUME NEW w \in Writers, WriteBegin(w) \/ WriteStep(w)
      PROVE  LV!Next \/ UNCHANGED LV!vars
  BY <1>2, WriteBeginRefines, WriteInsideRefines, WriteCopyRefines, WriteGivenUpRefines,
     WritePublishRefines DEF WriteStep, LV!Next
<1>3. CASE UNCHANGED vars \/ \E p \in Threads : Crash(p)
  BY <1>3, StutterRefines
<1>4. QED
  BY <1>1, <1>2, <1>3 DEF Next

\* The host variable is an atomic value: whatever the interleaving of reads,
\* writes and crashes, its users see some behaviour of LatestValue.
THEOREM ImplementsAtomicValue == Spec => AtomicValue
BY InitRefines, NextRefines, Invariant, PTL DEF Spec, AtomicValue, LV!Spec

-----------------------------------------------------------------------------
(* No call fails while there are fewer threads than buffers, and with a    *)
(* single writer the value only moves forward.                             *)

FewThreads == Cardinality(Threads) < SHM_BUFFER_CNT
FewReaders == Cardinality(Readers) < LOCK_MAX

\* The word a call is about to compare has room for it, and no call failed.
RoomToWrite ==
  \A w \in Writers : /\ pc[w] = "w_acquire" => FreeBuffers(seen[w]) # {}
                     /\ ret[w] # "refused"
RoomToRead ==
  \A r \in Readers : /\ pc[r] = "r_acquire" => seen[r].count[seen[r].target] + 1 # LOCK_MAX
                     /\ ret[r] # "refused"

\* Every buffer but the target and the free ones has a thread in it.
LEMMA Occupied ==
  ASSUME IInv, NEW b \in Buffers, b \notin FreeBuffers(flags), b # flags.target
  PROVE  \E q \in Threads : /\ slot[q] = b
                            /\ q \in Writers => Holds(q)
                            /\ q \in Readers => Reading(q)
<1>1. flags.count[b] # 0
  BY DEF FreeBuffers
<1>2. CASE ReadLocked(b)
  <2>1. ReadersOf(b) # {}
    BY <1>1, <1>2, FS_EmptySet DEF ReadLocked
  <2>2. QED
    BY <2>1, Constants DEF ReadersOf
<1>3. CASE WriteLocked(b)
  BY <1>3, Constants DEF WriteLocked
<1>4. QED
  BY <1>2, <1>3 DEF IInv, LockAccounting

\* A thread without a buffer finds one free: the others cannot have them all.
LEMMA FreeBufferLeft ==
  ASSUME IInv, FewThreads, NEW w \in Writers, ~Holds(w)
  PROVE  FreeBuffers(flags) # {}
<1> SUFFICES ASSUME FreeBuffers(flags) = {} PROVE FALSE
  OBVIOUS
<1> DEFINE S == Buffers \ {flags.target}
           T == Threads \ {w}
           f == [b \in S |-> CHOOSE q \in T : slot[q] = b]
<1>1. \A b \in S : f[b] \in T /\ slot[f[b]] = b
  <2>1. ASSUME NEW b \in S PROVE \E q \in T : slot[q] = b
    BY Occupied, Constants
  <2>2. QED
    BY <2>1
<1>2. f \in Injection(S, T)
  <2>1. f \in [S -> T]
    BY <1>1
  <2>2. ASSUME NEW a \in S, NEW b \in S, f[a] = f[b] PROVE a = b
    BY <1>1, <2>2
  <2>3. DOMAIN f = S
    OBVIOUS
  <2> HIDE DEF f, S, T
  <2>4. QED
    BY <2>1, <2>2, <2>3 DEF Injection, IsInjective
<1>3. /\ IsFiniteSet(Threads) /\ IsFiniteSet(T) /\ Cardinality(Threads) \in Nat
      /\ Cardinality(T) = Cardinality(Threads) - 1
  <2>1. IsFiniteSet(Threads)
    BY HostVariableAssumption, FS_Union DEF Threads
  <2>2. QED
    BY <2>1, FS_RemoveElement, FS_CardinalityType, Constants
<1>4. IsFiniteSet(Buffers) /\ Cardinality(Buffers) = SHM_BUFFER_CNT
  <2>1. SHM_BUFFER_CNT \in Nat /\ SHM_BUFFER_CNT # 0
    BY HostVariableAssumption
  <2> DEFINE m == SHM_BUFFER_CNT - 1
  <2>2. m \in Int /\ ~(0 > m) /\ m - 0 + 1 = SHM_BUFFER_CNT
    BY <2>1
  <2> HIDE DEF m
  <2>3. IsFiniteSet(0..m) /\ Cardinality(0..m) = m - 0 + 1
    BY <2>2, FS_Interval
  <2>4. QED
    BY <2>2, <2>3 DEF Buffers, m
<1>5. Cardinality(S) = SHM_BUFFER_CNT - 1
  <2>1. flags.target \in Buffers
    BY DEF IInv, TypeOK, FlagWords
  <2>2. QED
    BY <1>4, <2>1, FS_RemoveElement
<1>6. Cardinality(S) <= Cardinality(T)
  BY <1>2, <1>3, FS_Injection
<1>7. QED
  BY <1>3, <1>5, <1>6, Constants DEF FewThreads

\* A reader outside finds the count of the target one short of full at most.
LEMMA CountLeft ==
  ASSUME IInv, FewReaders, NEW r \in Readers, ~Reading(r)
  PROVE  flags.count[flags.target] + 1 # LOCK_MAX
<1> DEFINE b == flags.target
<1>1. b \in Buffers
  BY DEF IInv, TypeOK, FlagWords
<1>2. ReadLocked(b)
  BY <1>1 DEF IInv, LockAccounting, WriteLocked
<1>3. IsFiniteSet(Readers) /\ Cardinality(Readers) \in Nat
  BY HostVariableAssumption, FS_CardinalityType
<1>4. IsFiniteSet(Readers \ {r}) /\ Cardinality(Readers \ {r}) = Cardinality(Readers) - 1
  BY <1>3, FS_RemoveElement
<1>5. ReadersOf(b) \in SUBSET (Readers \ {r})
  BY DEF ReadersOf
<1>6. Cardinality(ReadersOf(b)) <= Cardinality(Readers) - 1
  BY <1>4, <1>5, FS_Subset
<1>7. QED
  BY <1>2, <1>3, <1>6, ReadersFinite, Constants DEF ReadLocked, FewReaders

LEMMA RoomInit == Init => RoomToWrite /\ RoomToRead
BY Constants DEF Init, RoomToWrite, RoomToRead

\* A step leaves the calls of the other threads where they are.
LEMMA OthersUntouched ==
  ASSUME IInv, NEW p \in Threads,
         \/ p \in Readers /\ (ReadBegin(p) \/ ReadStep(p))
         \/ p \in Writers /\ (WriteBegin(p) \/ WriteStep(p))
  PROVE  \A q \in Threads \ {p} : pc'[q] = pc[q] /\ seen'[q] = seen[q] /\ ret'[q] = ret[q]
<1>1. CASE p \in Readers /\ (ReadBegin(p) \/ ReadStep(p))
  BY <1>1, Constants DEF ReadStep, ReadBegin, ReadRefused, ReadAcquire, ReadCopy, ReadReload,
     ReadRelease, At, Goto, Return, LoadFlags, CasFails, IInv, TypeOK
<1>2. CASE p \in Writers /\ (WriteBegin(p) \/ WriteStep(p))
  BY <1>2, Constants DEF WriteStep, WriteBegin, WriteLoad, WriteRefused, WriteReturn, WriteAcquire,
     WriteStamp, WriteCopy, WriteReload, WriteCheck, WriteDiscard, WritePublish, At, Goto, Return,
     LoadFlags, CasFails, IInv, TypeOK
<1>3. QED
  BY <1>1, <1>2

LEMMA RoomToReadNext ==
  ASSUME IInv, FewReaders, RoomToRead, [Next]_vars
  PROVE  RoomToRead'
<1>1. ASSUME NEW r \in Readers, ReadBegin(r) \/ ReadStep(r)
      PROVE  /\ pc'[r] = "r_acquire" => seen'[r].count[seen'[r].target] + 1 # LOCK_MAX
             /\ ret'[r] # "refused"
  <2>1. CASE ReadBegin(r) \/ ReadAcquire(r)
    <3>1. flags.count[flags.target] + 1 # LOCK_MAX
      <4>1. ~Reading(r)
        BY <2>1 DEF ReadBegin, ReadAcquire, At, Reading
      <4>2. QED
        BY <4>1, CountLeft
    <3>2. seen'[r] \in {flags, seen[r]} /\ (pc[r] = "idle" => seen'[r] = flags)
      BY <2>1, Constants DEF ReadBegin, ReadAcquire, At, CasFails, LoadFlags, IInv, TypeOK
    <3>3. ret'[r] # "refused"
      BY <2>1, Constants DEF RoomToRead, ReadBegin, ReadAcquire, IInv, TypeOK
    <3>4. QED
      BY <2>1, <3>1, <3>2, <3>3 DEF RoomToRead, ReadBegin, ReadAcquire, At
  <2>2. CASE ReadRefused(r)
    BY <2>2 DEF ReadRefused, RoomToRead, At
  <2>3. CASE ReadCopy(r) \/ ReadReload(r) \/ ReadRelease(r)
    BY <2>3, Constants DEF RoomToRead, ReadCopy, ReadReload, ReadRelease, At, Goto, Return, IInv,
       TypeOK
  <2>4. QED
    BY <1>1, <2>1, <2>2, <2>3 DEF ReadStep
<1>2. ASSUME NEW r \in Readers, ReadBegin(r) \/ ReadStep(r) PROVE RoomToRead'
  BY <1>1, <1>2, OthersUntouched, Constants DEF RoomToRead
<1>3. ASSUME NEW w \in Writers, WriteBegin(w) \/ WriteStep(w) PROVE RoomToRead'
  BY <1>3, OthersUntouched, Constants DEF RoomToRead
<1>4. CASE UNCHANGED vars \/ \E p \in Threads : Crash(p)
  BY <1>4 DEF vars, Crash, RoomToRead
<1>5. QED
  BY <1>2, <1>3, <1>4 DEF Next

LEMMA RoomToWriteNext ==
  ASSUME IInv, FewThreads, RoomToWrite, [Next]_vars
  PROVE  RoomToWrite'
<1>1. ASSUME NEW w \in Writers, WriteBegin(w) \/ WriteStep(w)
      PROVE  /\ pc'[w] = "w_acquire" => FreeBuffers(seen'[w]) # {}
             /\ ret'[w] # "refused"
  <2>1. CASE WriteLoad(w) \/ WriteAcquire(w)
    <3>1. FreeBuffers(flags) # {}
      <4>1. ~Holds(w)
        BY <2>1 DEF WriteLoad, WriteAcquire, At, Holds
      <4>2. QED
        BY <4>1, FreeBufferLeft
    <3>2. seen'[w] = flags \/ (pc[w] = "w_acquire" /\ seen'[w] = seen[w])
      BY <2>1, Constants DEF WriteLoad, WriteAcquire, At, CasFails, LoadFlags, IInv, TypeOK
    <3>3. ret'[w] # "refused"
      BY <2>1 DEF RoomToWrite, WriteLoad, WriteAcquire
    <3>4. QED
      BY <3>1, <3>2, <3>3 DEF RoomToWrite
  <2>2. CASE WriteRefused(w)
    BY <2>2 DEF WriteRefused, RoomToWrite, At
  <2>3. CASE \/ WriteBegin(w) \/ WriteStamp(w) \/ WriteCopy(w) \/ WriteReload(w)
             \/ WriteCheck(w) \/ WriteDiscard(w) \/ WritePublish(w)
    BY <2>3, Constants DEF RoomToWrite, WriteBegin, WriteStamp, WriteCopy, WriteReload, WriteCheck,
       WriteDiscard, WritePublish, WriteReturn, At, Goto, Return, IInv, TypeOK
  <2>4. QED
    BY <1>1, <2>1, <2>2, <2>3 DEF WriteStep
<1>2. ASSUME NEW w \in Writers, WriteBegin(w) \/ WriteStep(w) PROVE RoomToWrite'
  BY <1>1, <1>2, OthersUntouched, Constants DEF RoomToWrite
<1>3. ASSUME NEW r \in Readers, ReadBegin(r) \/ ReadStep(r) PROVE RoomToWrite'
  BY <1>3, OthersUntouched, Constants DEF RoomToWrite
<1>4. CASE UNCHANGED vars \/ \E p \in Threads : Crash(p)
  BY <1>4 DEF vars, Crash, RoomToWrite
<1>5. QED
  BY <1>2, <1>3, <1>4 DEF Next

\* With fewer threads than buffers, crashed ones included, no write ever
\* fails, and with fewer readers than a count can hold no read does: the -1 of
\* __acquire_read_lock and of write_host_variable.
THEOREM CallsNeverRefused == Spec => []NeverRefused
<1> DEFINE W == FewThreads => \A w \in Writers : ret[w] # "refused"
           R == FewReaders => \A r \in Readers : ret[r] # "refused"
<1>1. Spec => []W
  <2>1. CASE FewThreads
    <3>1. RoomToWrite => W
      BY DEF RoomToWrite
    <3>2. IInv /\ RoomToWrite /\ [Next]_vars => RoomToWrite'
      BY <2>1, RoomToWriteNext
    <3>3. QED
      BY <3>1, <3>2, RoomInit, Invariant, PTL DEF Spec
  <2>2. CASE ~FewThreads
    <3>1. W
      BY <2>2
    <3>2. QED
      BY <3>1, PTL
  <2>3. QED
    BY <2>1, <2>2
<1>2. Spec => []R
  <2>1. CASE FewReaders
    <3>1. RoomToRead => R
      BY DEF RoomToRead
    <3>2. IInv /\ RoomToRead /\ [Next]_vars => RoomToRead'
      BY <2>1, RoomToReadNext
    <3>3. QED
      BY <3>1, <3>2, RoomInit, Invariant, PTL DEF Spec
  <2>2. CASE ~FewReaders
    <3>1. R
      BY <2>2
    <3>2. QED
      BY <3>1, PTL
  <2>3. QED
    BY <2>1, <2>2
<1>3. W /\ R => NeverRefused
  BY DEF NeverRefused, FewThreads, FewReaders
<1>4. QED
  BY <1>1, <1>2, <1>3, PTL

-----------------------------------------------------------------------------
(* A single writer *)

\* What the one writer read of the target is still so when it acts on it.
Current ==
  \A w \in Writers :
    /\ pc[w] \in {"w_check", "w_discard", "w_publish"} => seen[w].target = flags.target
    /\ pc[w] = "w_publish" => stamp[flags.target] < now[w]
    /\ pc[w] = "w_discard" => stamp[flags.target] >= now[w]

LEMMA CurrentNext ==
  ASSUME IInv, Current, [Next]_vars,
         \A v, w \in Writers : v = w
  PROVE  /\ Current'
         /\ flags'.target # flags.target => stamp[flags'.target] > stamp[flags.target]
         /\ \A w \in Writers : pc[w] = "w_check" /\ pc'[w] = "w_discard" =>
                stamp[flags.target] >= now[w]
<1> DEFINE Goal ==
      /\ Current'
      /\ flags'.target # flags.target => stamp[flags'.target] > stamp[flags.target]
      /\ \A w \in Writers : pc[w] = "w_check" /\ pc'[w] = "w_discard" =>
             stamp[flags.target] >= now[w]
<1>1. ASSUME NEW r \in Readers, ReadBegin(r) \/ ReadStep(r) PROVE Goal
  <2>1. /\ \A w \in Writers : pc'[w] = pc[w] /\ seen'[w] = seen[w]
        /\ stamp' = stamp /\ now' = now /\ flags'.target = flags.target
    BY <1>1, Constants DEF ReadStep, ReadBegin, ReadRefused, ReadAcquire, ReadCopy, ReadReload,
       ReadRelease, At, Goto, Return, LoadFlags, CasFails, CasSucceeds, WithCount, IInv, TypeOK,
       shared
  <2>2. QED
    BY <2>1 DEF Current
<1>2. ASSUME NEW w \in Writers, WriteBegin(w) \/ WriteStep(w) PROVE Goal
  <2>1. /\ w \in Threads /\ \A v \in Writers : v = w
        /\ stamp \in [Buffers -> Times] /\ now[w] \in Times /\ flags.target \in Buffers
    BY Constants DEF IInv, TypeOK, FlagWords
  <2>2. CASE WriteBegin(w) \/ WriteLoad(w) \/ WriteRefused(w) \/ WriteAcquire(w)
             \/ WriteStamp(w) \/ WriteCopy(w)
    <3>1. /\ pc'[w] \notin {"w_check", "w_discard", "w_publish"} /\ pc[w] # "w_check"
          /\ flags'.target = flags.target
      BY <2>1, <2>2 DEF WriteBegin, WriteLoad, WriteRefused, WriteReturn, WriteAcquire, WriteStamp,
         WriteCopy, At, Goto, Return, CasFails, CasSucceeds, WithCount, IInv, TypeOK, shared
    <3>2. QED
      BY <2>1, <3>1 DEF Current
  <2>3. CASE WriteReload(w)
    <3>1. /\ pc'[w] = "w_check" /\ pc[w] = "w_copy" /\ seen'[w] = flags /\ flags' = flags
      BY <2>1, <2>3 DEF WriteReload, At, Goto, LoadFlags, IInv, TypeOK, shared
    <3>2. QED
      BY <2>1, <3>1 DEF Current
  <2>4. CASE WriteCheck(w)
    <3>1. /\ flags' = flags /\ stamp' = stamp /\ seen' = seen /\ now' = now
          /\ seen[w].target = flags.target
          /\ pc'[w] = IF stamp[seen[w].target] >= now[w] THEN "w_discard" ELSE "w_publish"
      BY <2>1, <2>4 DEF WriteCheck, At, Goto, Current, IInv, TypeOK, shared
    <3>2. QED
      BY <2>1, <3>1 DEF Current, Times
  <2>5. CASE WriteDiscard(w)
    <3>1. pc'[w] = "idle" /\ pc[w] = "w_discard" /\ flags'.target = flags.target
      BY <2>1, <2>5 DEF WriteDiscard, WriteReturn, Return, At, Goto, WithCount, IInv, TypeOK
    <3>2. QED
      BY <2>1, <3>1 DEF Current
  <2>6. CASE WritePublish(w)
    <3>1. /\ pc[w] = "w_publish" /\ stamp[slot[w]] = now[w] /\ stamp' = stamp
          /\ stamp[flags.target] < now[w]
      BY <2>6 DEF WritePublish, At, Current, IInv, CallsInFlight, WriterInFlight
    <3>2. CASE pc'[w] = "idle" /\ flags'.target = slot[w]
      BY <2>1, <3>1, <3>2 DEF Current
    <3>3. CASE pc'[w] = "w_check" /\ seen'[w] = flags /\ flags' = flags
      BY <2>1, <3>1, <3>3 DEF Current
    <3>4. QED
      BY <2>1, <2>6, <3>2, <3>3 DEF WritePublish, CasSucceeds, CasFails, LoadFlags, WithTarget,
         WriteReturn, Return, Goto, IInv, TypeOK
  <2>7. QED
    BY <1>2, <2>2, <2>3, <2>4, <2>5, <2>6 DEF WriteStep
<1>3. CASE UNCHANGED vars \/ \E p \in Threads : Crash(p)
  <2>1. pc' = pc /\ seen' = seen /\ flags' = flags /\ stamp' = stamp /\ now' = now
    BY <1>3 DEF vars, shared, Crash
  <2>2. QED
    BY <2>1 DEF Current
<1>4. QED
  BY <1>1, <1>2, <1>3 DEF Next

LEMMA CurrentInit == Init => Current
BY Constants DEF Init, Current

\* With one writer the readable buffer only ever gives way to a later one.
THEOREM SingleWriterAdvances ==
  ASSUME \A v, w \in Writers : v = w
  PROVE  Spec => TargetAdvances
<1>1. IInv /\ Current /\ [Next]_vars => Current'
  BY CurrentNext
<1>2. IInv /\ Current /\ [Next]_vars =>
        [flags'.target # flags.target => stamp[flags'.target] > stamp[flags.target]]_vars
  BY CurrentNext
<1>3. QED
  BY <1>1, <1>2, CurrentInit, Invariant, PTL DEF Spec, TargetAdvances

\* With one writer a write is only ever given up for a value as recent as it:
\* when the clock has not moved since the writer's last write.
THEOREM SingleWriterDiscards ==
  ASSUME \A v, w \in Writers : v = w
  PROVE  Spec => DiscardJustified
<1>1. IInv /\ Current /\ [Next]_vars => Current'
  BY CurrentNext
<1>2. IInv /\ Current /\ [Next]_vars =>
        [\A w \in Writers : pc[w] = "w_check" /\ pc'[w] = "w_discard" =>
           stamp[flags.target] >= now[w]]_vars
  BY CurrentNext
<1>3. QED
  BY <1>1, <1>2, CurrentInit, Invariant, PTL DEF Spec, DiscardJustified
=============================================================================
