---------------------------- MODULE HostVariable ----------------------------
(***************************************************************************)
(* The lock-free multi-buffer shared variable of src/src/host_variable.c:  *)
(* read_host_variable and write_host_variable as they interleave between   *)
(* the processes and threads that have linked the same variable.           *)
(*                                                                         *)
(* One atomic word, flags, holds a 4-bit lock count per buffer and the     *)
(* index of the readable buffer, the target.  Every update of it is a      *)
(* compare-exchange on a copy loaded earlier, so each operation is modelled *)
(* with that copy (`seen') and one action per atomic access.  memcpy is not *)
(* atomic: it moves one word of the buffer at a time, in any order.        *)
(***************************************************************************)
EXTENDS Integers, FiniteSets

CONSTANTS
  Writers,         \* threads that call write_host_variable
  Readers,         \* threads that call read_host_variable
  Words,           \* the pieces memcpy moves separately
  SHM_BUFFER_CNT,  \* number of buffers (4 in config.h)
  LOCK_MAX,        \* the all-ones lock count: 0xF, held by a writer
  MaxTime,         \* bound: the largest timestamp a clock read returns
  Mortal,          \* bound: the threads whose process may be killed
  Zero,            \* content of memory that was never written
  None             \* stands for no content in the abstract specification

ASSUME HostVariableAssumption ==
  /\ IsFiniteSet(Writers) /\ IsFiniteSet(Readers)
  /\ Writers \cap Readers = {}
  /\ SHM_BUFFER_CNT \in Nat \ {0}
  /\ LOCK_MAX \in Nat \ {0}
  /\ MaxTime \in Nat
  /\ Zero \notin Writers \X (1..MaxTime)

VARIABLES
  flags,    \* shared: lock counts and target
  stamp,    \* shared: timestamp[] of each buffer
  data,     \* shared: content of each buffer, word by word
  clock,    \* the largest value CLOCK_BOOTTIME has returned to anyone
  pc,       \* where each thread is in its call; "idle" between calls
  seen,     \* local flags: the expected value of the next compare-exchange
  slot,     \* local target (reader) or target4 >> 2 (writer)
  now,      \* local timestamp of a writer
  todo,     \* words the running memcpy still has to move
  buf,      \* the caller's buffer of a reader
  ret,      \* return code of the last call
  crashed   \* threads killed in the middle of a call

shared == <<flags, stamp, data>>
vars == <<flags, stamp, data, clock, pc, seen, slot, now, todo, buf, ret, crashed>>

-----------------------------------------------------------------------------
Threads == Writers \cup Readers
Buffers == 0 .. SHM_BUFFER_CNT - 1
Times   == 0 .. MaxTime

\* A payload is named by the writer and the timestamp of its call.
Payloads == (Writers \X (1..MaxTime)) \cup {Zero}
Payload(w) == <<w, now[w]>>
Contents == [Words -> Payloads]

FlagWords == [target : Buffers, count : [Buffers -> 0..LOCK_MAX]]
FlagsInit == [target |-> 0, count |-> [b \in Buffers |-> 0]]

Codes == {"none", "ok", "superseded", "refused"}

WithCount(f, b, n) == [target |-> f.target, count |-> [f.count EXCEPT ![b] = n]]
WithTarget(f, b) == [target |-> b, count |-> f.count]

\* Slips in the free mask: the target is not excluded; the lowest bit of the
\* count is forgotten.
FreeBuffersWithTarget(f) == {b \in Buffers : f.count[b] = 0}
FreeBuffersLowBit(f) == {b \in Buffers : f.count[b] \in {0, 1} /\ b # f.target}

\* Buffers a writer may take: no lock of any kind, and not the target.
FreeBuffers(f) == {b \in Buffers : f.count[b] = 0 /\ b # f.target}

-----------------------------------------------------------------------------
At(p, label) == pc[p] = label /\ p \notin crashed

Goto(p, label) == pc' = [pc EXCEPT ![p] = label]

\* The atomic load of flags before a compare-exchange loop.
LoadFlags(p) == seen' = [seen EXCEPT ![p] = flags]

\* atomic_compare_exchange_strong(&p->flags, &flags, new): both outcomes.
CasSucceeds(p, new) == flags = seen[p] /\ flags' = new
\* Slip: the expected value is not refreshed, as if the exchange did not do it.
CasFailsStale(p) == flags # seen[p] /\ UNCHANGED <<flags, seen>>
CasFails(p) == flags # seen[p] /\ flags' = flags /\ LoadFlags(p)

\* The call returns and its local variables die.
Return(p, code) ==
  /\ Goto(p, "idle")
  /\ ret' = [ret EXCEPT ![p] = code]
  /\ seen' = [seen EXCEPT ![p] = FlagsInit]
  /\ slot' = [slot EXCEPT ![p] = 0]

Init ==
  /\ flags = FlagsInit
  /\ stamp = [b \in Buffers |-> 0]
  /\ data = [b \in Buffers |-> [i \in Words |-> Zero]]
  /\ clock = 1
  /\ pc = [p \in Threads |-> "idle"]
  /\ seen = [p \in Threads |-> FlagsInit]
  /\ slot = [p \in Threads |-> 0]
  /\ now = [w \in Writers |-> 0]
  /\ todo = [p \in Threads |-> {}]
  /\ buf = [r \in Readers |-> [i \in Words |-> Zero]]
  /\ ret = [p \in Threads |-> "none"]
  /\ crashed = {}

-----------------------------------------------------------------------------
(* read_host_variable *)

ReadBegin(r) ==
  /\ At(r, "idle")
  /\ LoadFlags(r)
  /\ Goto(r, "r_acquire")
  /\ buf' = [buf EXCEPT ![r] = [i \in Words |-> Zero]]
  /\ ret' = [ret EXCEPT ![r] = "none"]
  /\ UNCHANGED <<shared, clock, slot, now, todo, crashed>>

\* The count would become LOCK_MAX, which means a write lock.
ReadRefused(r) ==
  /\ At(r, "r_acquire")
  /\ seen[r].count[seen[r].target] + 1 = LOCK_MAX
  /\ Return(r, "refused")
  /\ UNCHANGED <<shared, clock, now, todo, buf, crashed>>

ReadAcquire(r) ==
  LET b == seen[r].target
      n == seen[r].count[b] + 1
  IN  /\ At(r, "r_acquire")
      /\ n # LOCK_MAX
      /\ \/ /\ CasSucceeds(r, WithCount(seen[r], b, n))
            /\ slot' = [slot EXCEPT ![r] = b]
            /\ todo' = [todo EXCEPT ![r] = Words]
            /\ Goto(r, "r_copy")
            /\ UNCHANGED seen
         \/ /\ CasFails(r)
            /\ UNCHANGED <<pc, slot, todo>>
      /\ UNCHANGED <<stamp, data, clock, now, buf, ret, crashed>>

ReadCopy(r) ==
  /\ At(r, "r_copy")
  /\ \E i \in todo[r] :
       /\ buf' = [buf EXCEPT ![r][i] = data[slot[r]][i]]
       /\ todo' = [todo EXCEPT ![r] = @ \ {i}]
  /\ UNCHANGED <<shared, clock, pc, seen, slot, now, ret, crashed>>

ReadReload(r) ==
  /\ At(r, "r_copy")
  /\ todo[r] = {}
  /\ LoadFlags(r)
  /\ Goto(r, "r_release")
  /\ UNCHANGED <<shared, clock, slot, now, todo, buf, ret, crashed>>

\* Slip: the count of the current target goes down, whatever was locked; the
\* source warns "we shouldn't get the latest target here".
ReadReleaseTarget(r) ==
  /\ At(r, "r_release")
  /\ LET b == seen[r].target
     IN  CasSucceeds(r, WithCount(seen[r], b, seen[r].count[b] - 1))
  /\ Return(r, "ok")
  /\ UNCHANGED <<stamp, data, clock, now, todo, buf, crashed>>

\* Slip: a release whose compare-exchange fails is not tried again.
ReadReleaseOnce(r) ==
  /\ At(r, "r_release")
  /\ flags' = IF flags = seen[r] THEN WithCount(flags, slot[r], flags.count[slot[r]] - 1) ELSE flags
  /\ Return(r, "ok")
  /\ UNCHANGED <<stamp, data, clock, now, todo, buf, crashed>>

ReadRelease(r) ==
  /\ At(r, "r_release")
  /\ \/ /\ CasSucceeds(r, WithCount(seen[r], slot[r], seen[r].count[slot[r]] - 1))
        /\ Return(r, "ok")
     \/ /\ CasFails(r)
        /\ UNCHANGED <<pc, slot, ret>>
  /\ UNCHANGED <<stamp, data, clock, now, todo, buf, crashed>>

-----------------------------------------------------------------------------
(* write_host_variable *)

\* The timestamp is taken first, before the flags are looked at.  Two clock
\* reads may return the same value.
WriteBegin(w) ==
  /\ At(w, "idle")
  /\ \E t \in {clock, clock + 1} :
       /\ t <= MaxTime
       /\ clock' = t
       /\ now' = [now EXCEPT ![w] = t]
  /\ Goto(w, "w_load")
  /\ ret' = [ret EXCEPT ![w] = "none"]
  /\ UNCHANGED <<shared, seen, slot, todo, buf, crashed>>

WriteLoad(w) ==
  /\ At(w, "w_load")
  /\ LoadFlags(w)
  /\ Goto(w, "w_acquire")
  /\ UNCHANGED <<shared, clock, slot, now, todo, buf, ret, crashed>>

WriteReturn(w, code) ==
  /\ Return(w, code)
  /\ now' = [now EXCEPT ![w] = 0]

WriteRefused(w) ==
  /\ At(w, "w_acquire")
  /\ FreeBuffers(seen[w]) = {}
  /\ WriteReturn(w, "refused")
  /\ UNCHANGED <<shared, clock, todo, buf, crashed>>

WriteAcquire(w) ==
  /\ At(w, "w_acquire")
  /\ \E b \in FreeBuffers(seen[w]) :
       /\ \A c \in FreeBuffers(seen[w]) : b <= c
       /\ \/ /\ CasSucceeds(w, WithCount(seen[w], b, LOCK_MAX))
             /\ slot' = [slot EXCEPT ![w] = b]
             /\ Goto(w, "w_stamp")
             /\ UNCHANGED seen
          \/ /\ CasFails(w)
             /\ UNCHANGED <<pc, slot>>
  /\ UNCHANGED <<stamp, data, clock, now, todo, buf, ret, crashed>>

WriteStamp(w) ==
  /\ At(w, "w_stamp")
  /\ stamp' = [stamp EXCEPT ![slot[w]] = now[w]]
  /\ todo' = [todo EXCEPT ![w] = Words]
  /\ Goto(w, "w_copy")
  /\ UNCHANGED <<flags, data, clock, seen, slot, now, buf, ret, crashed>>

WriteCopy(w) ==
  /\ At(w, "w_copy")
  /\ \E i \in todo[w] :
       /\ data' = [data EXCEPT ![slot[w]][i] = Payload(w)]
       /\ todo' = [todo EXCEPT ![w] = @ \ {i}]
  /\ UNCHANGED <<flags, stamp, clock, pc, seen, slot, now, buf, ret, crashed>>

\* Slip: the new target can become visible before the copy is done.
WriteReloadEarly(w) ==
  /\ At(w, "w_copy")
  /\ LoadFlags(w)
  /\ Goto(w, "w_check")
  /\ UNCHANGED <<shared, clock, slot, now, todo, buf, ret, crashed>>

WriteReload(w) ==
  /\ At(w, "w_copy")
  /\ todo[w] = {}
  /\ LoadFlags(w)
  /\ Goto(w, "w_check")
  /\ UNCHANGED <<shared, clock, slot, now, todo, buf, ret, crashed>>

\* Slips: > for >=; the timestamp of the writer's own buffer.
WriteCheckStrict(w) ==
  /\ At(w, "w_check")
  /\ Goto(w, IF stamp[seen[w].target] > now[w] THEN "w_discard" ELSE "w_publish")
  /\ UNCHANGED <<shared, clock, seen, slot, now, todo, buf, ret, crashed>>
WriteCheckOwn(w) ==
  /\ At(w, "w_check")
  /\ Goto(w, IF stamp[slot[w]] >= now[w] THEN "w_discard" ELSE "w_publish")
  /\ UNCHANGED <<shared, clock, seen, slot, now, todo, buf, ret, crashed>>

\* Reads the timestamp of the buffer that was the target when seen was loaded.
WriteCheck(w) ==
  /\ At(w, "w_check")
  /\ Goto(w, IF stamp[seen[w].target] >= now[w] THEN "w_discard" ELSE "w_publish")
  /\ UNCHANGED <<shared, clock, seen, slot, now, todo, buf, ret, crashed>>

\* Slip: the early return forgets the lock.
WriteDiscardLocked(w) ==
  /\ At(w, "w_discard")
  /\ WriteReturn(w, "superseded")
  /\ UNCHANGED <<shared, clock, todo, buf, crashed>>

\* atomic_fetch_and: gives the buffer back without publishing it.
WriteDiscard(w) ==
  /\ At(w, "w_discard")
  /\ flags' = WithCount(flags, slot[w], 0)
  /\ WriteReturn(w, "superseded")
  /\ UNCHANGED <<stamp, data, clock, todo, buf, crashed>>

WritePublish(w) ==
  /\ At(w, "w_publish")
  /\ \/ /\ CasSucceeds(w, WithTarget(WithCount(seen[w], slot[w], 0), slot[w]))
        /\ WriteReturn(w, "ok")
     \/ /\ CasFails(w)
        /\ Goto(w, "w_check")
        /\ UNCHANGED <<slot, now, ret>>
  /\ UNCHANGED <<stamp, data, clock, todo, buf, crashed>>

-----------------------------------------------------------------------------
\* The process is killed inside a call; whatever it locked stays locked.
Crash(p) ==
  /\ p \in Mortal \ crashed
  /\ pc[p] # "idle"
  /\ crashed' = crashed \cup {p}
  /\ UNCHANGED <<shared, clock, pc, seen, slot, now, todo, buf, ret>>

ReadStep(r) == ReadRefused(r) \/ ReadAcquire(r) \/ ReadCopy(r) \/ ReadReload(r) \/ ReadRelease(r)

WriteStep(w) ==
  \/ WriteLoad(w) \/ WriteRefused(w) \/ WriteAcquire(w) \/ WriteStamp(w) \/ WriteCopy(w)
  \/ WriteReload(w) \/ WriteCheck(w) \/ WriteDiscard(w) \/ WritePublish(w)

Next ==
  \/ \E r \in Readers : ReadBegin(r) \/ ReadStep(r)
  \/ \E w \in Writers : WriteBegin(w) \/ WriteStep(w)
  \/ \E p \in Threads : Crash(p)

Spec == Init /\ [][Next]_vars

\* A thread that is inside a call and alive keeps being scheduled.  Nobody is
\* obliged to start another call.
FairSpec ==
  /\ Spec
  /\ \A r \in Readers : WF_vars(ReadStep(r))
  /\ \A w \in Writers : WF_vars(WriteStep(w))
-----------------------------------------------------------------------------
(* Properties *)

Holds(w) ==
  pc[w] \in {"w_stamp", "w_copy", "w_check", "w_discard", "w_publish"}
Reading(r) == pc[r] \in {"r_copy", "r_release"}
ReadersOf(b) == {r \in Readers : Reading(r) /\ slot[r] = b}

\* Every variable has its type.
TypeOK ==
  /\ flags \in FlagWords
  /\ stamp \in [Buffers -> Times]
  /\ data \in [Buffers -> Contents]
  /\ clock \in 1 .. (MaxTime + 1)
  /\ pc \in [Threads -> {"idle", "r_acquire", "r_copy", "r_release", "w_load",
                         "w_acquire", "w_stamp", "w_copy", "w_check", "w_discard", "w_publish"}]
  /\ seen \in [Threads -> FlagWords]
  /\ slot \in [Threads -> Buffers]
  /\ now \in [Writers -> Times]
  /\ todo \in [Threads -> SUBSET Words]
  /\ buf \in [Readers -> Contents]
  /\ ret \in [Threads -> Codes]
  /\ crashed \in SUBSET Threads

ReadLocked(b) ==
  /\ flags.count[b] = Cardinality(ReadersOf(b))
  /\ flags.count[b] < LOCK_MAX
  /\ \A w \in Writers : Holds(w) => slot[w] # b

WriteLocked(b) ==
  /\ flags.count[b] = LOCK_MAX
  /\ ReadersOf(b) = {}
  /\ \E w \in Writers : Holds(w) /\ slot[w] = b
  /\ b # flags.target

\* The packed word accounts exactly for who is where: the count of a buffer
\* is the number of readers inside it, or LOCK_MAX while its one writer has it,
\* and the target is never in a writer's hands.  A count that leaks or a
\* release that lands on the wrong buffer breaks it many steps later.
LockAccounting ==
  /\ \A b \in Buffers : ReadLocked(b) \/ WriteLocked(b)
  /\ \A v, w \in Writers : Holds(v) /\ Holds(w) /\ slot[v] = slot[w] => v = w

\* Whoever may be reading a buffer finds one write's payload in all of it, and
\* the buffer's timestamp is that write's: the integrity check of
\* examples/host_variable_integrity_check, and what WriteCheck relies on.
WholePayloads ==
  \A b \in Buffers : flags.count[b] # LOCK_MAX =>
    \/ data[b] = [i \in Words |-> Zero] /\ stamp[b] = 0
    \/ \E w \in Writers : data[b] = [i \in Words |-> <<w, stamp[b]>>]

\* What the users of the variable can tell of it.
Value   == data[flags.target]
Outcome == [w \in Writers |-> IF pc[w] = "idle" THEN ret[w] ELSE "pending"]
Pending == [w \in Writers |-> IF pc[w] = "idle" THEN None ELSE Payload(w)]
Phase   == [r \in Readers |-> IF Reading(r) THEN "seen" ELSE IF pc[r] = "idle" THEN "idle" ELSE "begun"]
View    == [r \in Readers |-> IF Reading(r) THEN data[slot[r]] ELSE None]
Result  == [r \in Readers |-> IF pc[r] = "idle" /\ ret[r] = "ok" THEN buf[r] ELSE None]

LV == INSTANCE LatestValue WITH
  Initial <- Zero, value <- Value, outcome <- Outcome, pending <- Pending,
  phase <- Phase, view <- View, result <- Result

\* The buffers implement an atomic value: a read returns, whole, the value the
\* variable had at one moment inside the call, and a write replaces it in one
\* step or not at all, although both copy word by word and threads die.
AtomicValue == LV!Spec

\* The word that flags are packed into: its sixteen fields, counted from the
\* lowest bit, are the counts, all ones for the buffers there are not, and the
\* target.
CountBits == CHOOSE n \in 1 .. LOCK_MAX : 2^n = LOCK_MAX + 1
Field(f, b) == IF b = 15 THEN f.target ELSE IF b \in Buffers THEN f.count[b] ELSE LOCK_MAX
Pack(f) ==
  {i \in 0 .. 16 * CountBits - 1 : (Field(f, i \div CountBits) \div 2^(i % CountBits)) % 2 = 1}

FW == INSTANCE FlagsWord WITH flags <- Pack(flags)

\* Every change of the counts and the target is what the shifts and masks of
\* the code make of the packed word: no carry reaches another field, and no
\* buffer is handed out that does not exist.
PackedWord == FW!Init /\ [][flags' # flags => FW!Next]_vars

\* With fewer threads than buffers no write fails with -1: the target and one
\* buffer per other thread is all that can be taken, crashed threads included.
\* With fewer readers than a count can hold no read does.
NeverRefused ==
  /\ Cardinality(Threads) < SHM_BUFFER_CNT => \A w \in Writers : ret[w] # "refused"
  /\ Cardinality(Readers) < LOCK_MAX => \A r \in Readers : ret[r] # "refused"

\* The target only ever moves to a buffer with a later timestamp: "a 'target'
\* pointer referring to the lastest (readable) buffer".
TargetAdvances ==
  [][flags'.target # flags.target => stamp[flags'.target] > stamp[flags.target]]_vars

\* A write is given up, "cause we are not lastest", only while the readable
\* value is at least as recent as the one given up.
DiscardJustified ==
  [][\A w \in Writers : pc[w] = "w_check" /\ pc'[w] = "w_discard" =>
        stamp[flags.target] >= now[w]]_vars

\* The loops are lock-free: a call that does not end, though its thread keeps
\* running, is overtaken forever by calls of another thread that do.  A thread
\* that is stopped or killed inside its call blocks nobody.
LockFree ==
  \A p \in Threads :
    \/ []<>(pc[p] = "idle" \/ p \in crashed)
    \/ \E q \in Threads \ {p} : []<>(pc[q] = "idle") /\ []<>(pc[q] # "idle")
=============================================================================
