------------------------- MODULE HostVariableProofs -------------------------
(***************************************************************************)
(* What HostVariable guarantees for any number of readers, writers, buffers *)
(* and words, with crashes anywhere.                                       *)
(***************************************************************************)
EXTENDS HostVariable, FiniteSetTheorems, TLAPS

\* How far a write in flight has got: it has a timestamp, the buffer it holds
\* carries it, and the words it has moved are there.
WriterInFlight(w) ==
  /\ pc[w] # "idle" => now[w] \in 1 .. MaxTime
  /\ pc[w] \in {"w_copy", "w_check", "w_discard", "w_publish"} =>
       /\ stamp[slot[w]] = now[w]
       /\ \A i \in Words \ todo[w] : data[slot[w]][i] = Payload(w)
  /\ pc[w] \in {"w_check", "w_discard", "w_publish"} => todo[w] = {}

\* How far a read in flight has got: the words it has moved are those of the
\* buffer it locked.
ReaderInFlight(r) ==
  /\ Reading(r) => \A i \in Words \ todo[r] : buf[r][i] = data[slot[r]][i]
  /\ pc[r] = "r_release" => todo[r] = {}

CallsInFlight ==
  (\A w \in Writers : WriterInFlight(w)) /\ (\A r \in Readers : ReaderInFlight(r))

IInv == TypeOK /\ LockAccounting /\ WholePayloads /\ CallsInFlight

-----------------------------------------------------------------------------
\* The constants, with the shared and distinct elements spelled out.
LEMMA Constants ==
  /\ LOCK_MAX \in Nat /\ LOCK_MAX > 0
  /\ SHM_BUFFER_CNT \in Nat /\ 0 \in Buffers
  /\ MaxTime \in Nat /\ 0 \in Times
  /\ FlagsInit \in FlagWords
  /\ \A r \in Readers : r \in Threads /\ r \notin Writers
  /\ \A w \in Writers : w \in Threads /\ w \notin Readers
<1>1. SHM_BUFFER_CNT \in Nat /\ SHM_BUFFER_CNT > 0 /\ LOCK_MAX \in Nat /\ LOCK_MAX > 0
      /\ MaxTime \in Nat
  BY HostVariableAssumption
<1>2. 0 \in Buffers /\ 0 \in Times
  BY <1>1 DEF Buffers, Times
<1>3. FlagsInit \in FlagWords
  BY <1>1, <1>2 DEF FlagsInit, FlagWords
<1>4. QED
  BY <1>1, <1>2, <1>3, HostVariableAssumption DEF Threads

\* Readers are finitely many, so a buffer's readers can be counted.
LEMMA ReadersFinite ==
  ASSUME NEW b
  PROVE  IsFiniteSet(ReadersOf(b)) /\ Cardinality(ReadersOf(b)) \in Nat
<1>1. ReadersOf(b) \subseteq Readers
  BY DEF ReadersOf
<1>2. IsFiniteSet(Readers)
  BY HostVariableAssumption
<1>3. QED
  BY <1>1, <1>2, FS_Subset, FS_CardinalityType

\* What WithCount and WithTarget change, and what they leave.
LEMMA FlagUpdates ==
  ASSUME NEW f \in FlagWords, NEW b \in Buffers, NEW n \in 0 .. LOCK_MAX
  PROVE  /\ WithCount(f, b, n) \in FlagWords
         /\ WithCount(f, b, n).target = f.target
         /\ WithCount(f, b, n).count[b] = n
         /\ \A c \in Buffers \ {b} : WithCount(f, b, n).count[c] = f.count[c]
         /\ WithTarget(f, b) \in FlagWords
         /\ WithTarget(f, b).target = b
         /\ WithTarget(f, b).count = f.count
BY DEF WithCount, WithTarget, FlagWords

\* A step that leaves the word alone, and leaves everybody who has a buffer
\* with that buffer, leaves the accounts right.
LEMMA SameLocks ==
  ASSUME LockAccounting,
         flags' = flags,
         \A r \in Readers : /\ Reading(r)' <=> Reading(r)
                            /\ Reading(r) => slot'[r] = slot[r],
         \A w \in Writers : /\ Holds(w)' <=> Holds(w)
                            /\ Holds(w) => slot'[w] = slot[w]
  PROVE  LockAccounting'
<1>1. \A b \in Buffers : ReadersOf(b)' = ReadersOf(b)
  BY DEF ReadersOf
<1>2. ASSUME NEW b \in Buffers PROVE (ReadLocked(b) \/ WriteLocked(b))'
  <2>1. CASE ReadLocked(b)
    BY <2>1, <1>1 DEF ReadLocked
  <2>2. CASE WriteLocked(b)
    BY <2>2, <1>1 DEF WriteLocked
  <2>3. QED
    BY <2>1, <2>2 DEF LockAccounting
<1>3. \A v, w \in Writers : (Holds(v) /\ Holds(w) /\ slot[v] = slot[w])' => v = w
  BY DEF LockAccounting
<1>4. QED
  BY <1>2, <1>3 DEF LockAccounting

\* A step that moves no word and no timestamp, and lets go of no write lock,
\* leaves every readable buffer whole.
LEMMA SameBuffers ==
  ASSUME WholePayloads, stamp' = stamp, data' = data,
         \A b \in Buffers : flags'.count[b] # LOCK_MAX => flags.count[b] # LOCK_MAX
  PROVE  WholePayloads'
BY DEF WholePayloads

\* A write in flight only depends on its own thread and the buffer it holds.
LEMMA SameWriter ==
  ASSUME NEW w \in Writers, WriterInFlight(w),
         pc'[w] = pc[w], now'[w] = now[w], slot'[w] = slot[w], todo'[w] = todo[w],
         Holds(w) => stamp'[slot[w]] = stamp[slot[w]] /\ data'[slot[w]] = data[slot[w]]
  PROVE  WriterInFlight(w)'
BY DEF WriterInFlight, Holds, Payload

\* So does a read.
LEMMA SameReader ==
  ASSUME NEW r \in Readers, ReaderInFlight(r),
         pc'[r] = pc[r], buf'[r] = buf[r], slot'[r] = slot[r], todo'[r] = todo[r],
         Reading(r) => data'[slot[r]] = data[slot[r]]
  PROVE  ReaderInFlight(r)'
BY DEF ReaderInFlight, Reading

-----------------------------------------------------------------------------
THEOREM InitInvariant == Init => IInv
<1> SUFFICES ASSUME Init PROVE IInv
  OBVIOUS
<1> USE DEF Init
<1>1. TypeOK
  BY Constants, HostVariableAssumption
  DEF TypeOK, Times, Buffers, Contents, Payloads, Codes, FlagWords, FlagsInit
<1>2. LockAccounting
  <2>1. \A b \in Buffers : ReadersOf(b) = {}
    BY Constants DEF ReadersOf, Reading
  <2>2. \A w \in Writers : ~Holds(w)
    BY Constants DEF Holds
  <2>3. \A b \in Buffers : ReadLocked(b)
    BY <2>1, <2>2, FS_EmptySet, Constants DEF ReadLocked, FlagsInit
  <2>4. QED
    BY <2>2, <2>3 DEF LockAccounting
<1>3. WholePayloads
  BY DEF WholePayloads
<1>4. CallsInFlight
  BY Constants DEF CallsInFlight, WriterInFlight, ReaderInFlight, Reading
<1>5. QED
  BY <1>1, <1>2, <1>3, <1>4 DEF IInv

-----------------------------------------------------------------------------
(* One lemma per step of a read. *)

LEMMA ReadBeginInvariant ==
  ASSUME IInv, NEW r \in Readers, ReadBegin(r)
  PROVE  IInv'
<1> USE DEF ReadBegin, At, Goto, LoadFlags, shared
<1>1. TypeOK'
  BY Constants DEF IInv, TypeOK, Contents, Payloads, Codes
<1>2. LockAccounting'
  BY SameLocks, Constants DEF IInv, TypeOK, Reading, Holds
<1>3. WholePayloads'
  BY SameBuffers DEF IInv
<1>4. CallsInFlight'
  <2>1. \A w \in Writers : WriterInFlight(w)'
    BY SameWriter, Constants DEF IInv, TypeOK, CallsInFlight
  <2>2. \A q \in Readers \ {r} : ReaderInFlight(q)'
    BY SameReader, Constants DEF IInv, TypeOK, CallsInFlight
  <2>3. ReaderInFlight(r)'
    BY Constants DEF IInv, TypeOK, ReaderInFlight, Reading
  <2>4. QED
    BY <2>1, <2>2, <2>3 DEF CallsInFlight
<1>5. QED
  BY <1>1, <1>2, <1>3, <1>4 DEF IInv

LEMMA ReadRefusedInvariant ==
  ASSUME IInv, NEW r \in Readers, ReadRefused(r)
  PROVE  IInv'
<1> USE DEF ReadRefused, At, Goto, Return, shared
<1>1. TypeOK'
  BY Constants DEF IInv, TypeOK, Codes
<1>2. LockAccounting'
  BY SameLocks, Constants DEF IInv, TypeOK, Reading, Holds
<1>3. WholePayloads'
  BY SameBuffers DEF IInv
<1>4. CallsInFlight'
  <2>1. \A w \in Writers : WriterInFlight(w)'
    BY SameWriter, Constants DEF IInv, TypeOK, CallsInFlight
  <2>2. \A q \in Readers \ {r} : ReaderInFlight(q)'
    BY SameReader, Constants DEF IInv, TypeOK, CallsInFlight
  <2>3. ReaderInFlight(r)'
    BY Constants DEF IInv, TypeOK, ReaderInFlight, Reading
  <2>4. QED
    BY <2>1, <2>2, <2>3 DEF CallsInFlight
<1>5. QED
  BY <1>1, <1>2, <1>3, <1>4 DEF IInv

LEMMA ReadCopyInvariant ==
  ASSUME IInv, NEW r \in Readers, ReadCopy(r)
  PROVE  IInv'
<1> USE DEF ReadCopy, At, shared
<1>1. PICK i \in todo[r] :
        /\ buf' = [buf EXCEPT ![r][i] = data[slot[r]][i]]
        /\ todo' = [todo EXCEPT ![r] = @ \ {i}]
  OBVIOUS
<1>2. TypeOK'
  <2>1. i \in Words /\ data[slot[r]][i] \in Payloads
    BY Constants DEF IInv, TypeOK, Contents
  <2>2. buf' \in [Readers -> Contents]
    BY <1>1, <2>1 DEF IInv, TypeOK, Contents
  <2>3. todo' \in [Threads -> SUBSET Words]
    BY <1>1, Constants DEF IInv, TypeOK
  <2>4. QED
    BY <2>2, <2>3 DEF IInv, TypeOK
<1>3. LockAccounting'
  BY SameLocks, Constants DEF IInv, TypeOK, Reading, Holds
<1>4. WholePayloads'
  BY SameBuffers DEF IInv
<1>5. CallsInFlight'
  <2>1. \A w \in Writers : WriterInFlight(w)'
    BY <1>1, SameWriter, Constants DEF IInv, TypeOK, CallsInFlight
  <2>2. \A q \in Readers \ {r} : ReaderInFlight(q)'
    BY <1>1, SameReader, Constants DEF IInv, TypeOK, CallsInFlight
  <2>3. ReaderInFlight(r)'
    BY <1>1, Constants DEF IInv, TypeOK, CallsInFlight, ReaderInFlight, Reading, Contents
  <2>4. QED
    BY <2>1, <2>2, <2>3 DEF CallsInFlight
<1>6. QED
  BY <1>2, <1>3, <1>4, <1>5 DEF IInv

LEMMA ReadReloadInvariant ==
  ASSUME IInv, NEW r \in Readers, ReadReload(r)
  PROVE  IInv'
<1> USE DEF ReadReload, At, Goto, LoadFlags, shared
<1>1. TypeOK'
  BY Constants DEF IInv, TypeOK
<1>2. LockAccounting'
  BY SameLocks, Constants DEF IInv, TypeOK, Reading, Holds
<1>3. WholePayloads'
  BY SameBuffers DEF IInv
<1>4. CallsInFlight'
  <2>1. \A w \in Writers : WriterInFlight(w)'
    BY SameWriter, Constants DEF IInv, TypeOK, CallsInFlight
  <2>2. \A q \in Readers \ {r} : ReaderInFlight(q)'
    BY SameReader, Constants DEF IInv, TypeOK, CallsInFlight
  <2>3. ReaderInFlight(r)'
    BY Constants DEF IInv, TypeOK, CallsInFlight, ReaderInFlight, Reading
  <2>4. QED
    BY <2>1, <2>2, <2>3 DEF CallsInFlight
<1>5. QED
  BY <1>1, <1>2, <1>3, <1>4 DEF IInv

\* The compare-exchange of a read lock moves one reader into the target.
LEMMA ReadAcquireInvariant ==
  ASSUME IInv, NEW r \in Readers, ReadAcquire(r)
  PROVE  IInv'
<1>0. PICK b \in Buffers, n \in Int : b = seen[r].target /\ n = seen[r].count[b] + 1
  <2>1. seen[r].target \in Buffers /\ seen[r].count[seen[r].target] \in Int
    BY Constants DEF IInv, TypeOK, FlagWords
  <2>2. QED
    BY <2>1
<1>1. /\ pc[r] = "r_acquire" /\ n # LOCK_MAX
      /\ stamp' = stamp /\ data' = data /\ clock' = clock /\ now' = now
      /\ buf' = buf /\ ret' = ret /\ crashed' = crashed
  BY <1>0 DEF ReadAcquire, At
<1>2. CASE CasFails(r) /\ UNCHANGED <<pc, slot, todo>>
  <2> USE <1>1, <1>2 DEF CasFails, LoadFlags
  <2>1. TypeOK'
    BY Constants DEF IInv, TypeOK
  <2>2. LockAccounting'
    BY SameLocks, Constants DEF IInv, Reading, Holds
  <2>3. WholePayloads'
    BY SameBuffers DEF IInv
  <2>4. CallsInFlight'
    BY SameWriter, SameReader DEF IInv, CallsInFlight
  <2>5. QED
    BY <2>1, <2>2, <2>3, <2>4 DEF IInv
<1>3. CASE /\ CasSucceeds(r, WithCount(seen[r], b, n))
           /\ slot' = [slot EXCEPT ![r] = b]
           /\ todo' = [todo EXCEPT ![r] = Words]
           /\ Goto(r, "r_copy")
           /\ UNCHANGED seen
  <2>1. /\ flags = seen[r] /\ b = flags.target /\ r \in Threads
        /\ flags' = WithCount(flags, b, n) /\ n = flags.count[b] + 1
        /\ flags \in FlagWords
    BY <1>0, <1>3, Constants DEF IInv, TypeOK, CasSucceeds
  <2>2. /\ slot' = [slot EXCEPT ![r] = b] /\ todo' = [todo EXCEPT ![r] = Words]
        /\ pc' = [pc EXCEPT ![r] = "r_copy"] /\ seen' = seen
    BY <1>3 DEF Goto
  <2>3. ReadLocked(b)
    BY <2>1 DEF IInv, LockAccounting, WriteLocked
  <2>4. n \in 0 .. LOCK_MAX /\ n < LOCK_MAX
    BY <2>1, <2>3, <1>1, Constants DEF ReadLocked, FlagWords
  <2>5. /\ flags'.target = b /\ flags'.count[b] = n
        /\ \A c \in Buffers \ {b} : flags'.count[c] = flags.count[c]
        /\ flags' \in FlagWords
    <3>1. flags \in FlagWords /\ n \in 0 .. LOCK_MAX /\ flags' = WithCount(flags, b, n)
      BY <2>1, <2>4
    <3>2. flags.target = b
      BY <2>1
    <3>3. QED
      BY <3>1, <3>2, FlagUpdates
  <2>6. TypeOK'
    BY <1>1, <2>1, <2>2, <2>5 DEF IInv, TypeOK
  <2>7. LockAccounting'
    <3>1. /\ r \notin ReadersOf(b) /\ ReadersOf(b)' = ReadersOf(b) \cup {r}
          /\ \A c \in Buffers \ {b} : ReadersOf(c)' = ReadersOf(c)
      BY <1>1, <2>1, <2>2 DEF ReadersOf, Reading, IInv, TypeOK
    <3>2. Cardinality(ReadersOf(b)') = Cardinality(ReadersOf(b)) + 1
      BY <3>1, ReadersFinite, FS_AddElement
    <3>3. \A w \in Writers : (Holds(w)' <=> Holds(w)) /\ slot'[w] = slot[w]
      BY <2>2, Constants DEF Holds, IInv, TypeOK
    <3>4. ReadLocked(b)'
      BY <2>1, <2>3, <2>4, <2>5, <3>2, <3>3 DEF ReadLocked
    <3>5. ASSUME NEW c \in Buffers, c # b
          PROVE  (ReadLocked(c) \/ WriteLocked(c))'
      <4>1. CASE ReadLocked(c)
        BY <4>1, <2>5, <3>1, <3>3, <3>5 DEF ReadLocked
      <4>2. CASE WriteLocked(c)
        BY <4>2, <2>5, <3>1, <3>3, <3>5 DEF WriteLocked
      <4>3. QED
        BY <4>1, <4>2 DEF IInv, LockAccounting
    <3>6. QED
      BY <3>3, <3>4, <3>5 DEF IInv, LockAccounting
  <2>8. WholePayloads'
    BY <1>1, <2>3, <2>5, SameBuffers, Constants DEF IInv, ReadLocked, FlagWords
  <2>9. CallsInFlight'
    <3>1. \A w \in Writers : WriterInFlight(w)'
      BY <1>1, <2>2, SameWriter, Constants DEF IInv, TypeOK, CallsInFlight
    <3>2. \A q \in Readers \ {r} : ReaderInFlight(q)'
      BY <1>1, <2>2, SameReader, Constants DEF IInv, TypeOK, CallsInFlight
    <3>3. ReaderInFlight(r)'
      BY <2>1, <2>2 DEF IInv, TypeOK, ReaderInFlight
    <3>4. QED
      BY <3>1, <3>2, <3>3 DEF CallsInFlight
  <2>10. QED
    BY <2>6, <2>7, <2>8, <2>9 DEF IInv
<1>4. QED
  BY <1>0, <1>2, <1>3 DEF ReadAcquire

\* The release takes one reader out of the buffer it locked, which need not
\* be the target any more.
LEMMA ReadReleaseInvariant ==
  ASSUME IInv, NEW r \in Readers, ReadRelease(r)
  PROVE  IInv'
<1>0. PICK b \in Buffers, n \in Int : b = slot[r] /\ n = seen[r].count[b] - 1
  <2>1. slot[r] \in Buffers /\ seen[r].count[slot[r]] \in Int
    BY Constants DEF IInv, TypeOK, FlagWords
  <2>2. QED
    BY <2>1
<1>1. /\ pc[r] = "r_release"
      /\ stamp' = stamp /\ data' = data /\ clock' = clock /\ now' = now
      /\ todo' = todo /\ buf' = buf /\ crashed' = crashed
  BY DEF ReadRelease, At
<1>2. CASE CasFails(r) /\ UNCHANGED <<pc, slot, ret>>
  <2> USE <1>1, <1>2 DEF CasFails, LoadFlags
  <2>1. TypeOK'
    BY Constants DEF IInv, TypeOK
  <2>2. LockAccounting'
    BY SameLocks, Constants DEF IInv, Reading, Holds
  <2>3. WholePayloads'
    BY SameBuffers DEF IInv
  <2>4. CallsInFlight'
    BY SameWriter, SameReader DEF IInv, CallsInFlight
  <2>5. QED
    BY <2>1, <2>2, <2>3, <2>4 DEF IInv
<1>3. CASE CasSucceeds(r, WithCount(seen[r], b, n)) /\ Return(r, "ok")
  <2>1. /\ flags = seen[r] /\ b = slot[r] /\ r \in Threads
        /\ flags' = WithCount(flags, b, n) /\ n = flags.count[b] - 1
        /\ flags \in FlagWords
    BY <1>0, <1>3, Constants DEF IInv, TypeOK, CasSucceeds
  <2>2. /\ slot' = [slot EXCEPT ![r] = 0] /\ ret' = [ret EXCEPT ![r] = "ok"]
        /\ pc' = [pc EXCEPT ![r] = "idle"] /\ seen' = [seen EXCEPT ![r] = FlagsInit]
    BY <1>3 DEF Goto, Return
  <2>3. r \in ReadersOf(b) /\ ReadLocked(b)
    BY <1>1, <2>1 DEF IInv, LockAccounting, WriteLocked, ReadersOf, Reading
  <2>4. /\ ReadersOf(b)' = ReadersOf(b) \ {r}
        /\ \A c \in Buffers \ {b} : ReadersOf(c)' = ReadersOf(c)
    BY <1>1, <2>1, <2>2 DEF ReadersOf, Reading, IInv, TypeOK
  <2>5. Cardinality(ReadersOf(b)') = Cardinality(ReadersOf(b)) - 1
    BY <2>3, <2>4, ReadersFinite, FS_RemoveElement
  <2>6. Cardinality(ReadersOf(b)) \in Nat /\ Cardinality(ReadersOf(b)) # 0
    BY <2>3, ReadersFinite, FS_EmptySet
  <2>7. n \in 0 .. LOCK_MAX /\ n < LOCK_MAX /\ n = Cardinality(ReadersOf(b)')
    BY <2>1, <2>3, <2>5, <2>6, Constants DEF ReadLocked
  <2>8. /\ flags'.target = flags.target /\ flags'.count[b] = n
        /\ \A c \in Buffers \ {b} : flags'.count[c] = flags.count[c]
        /\ flags' \in FlagWords
    <3>1. flags \in FlagWords /\ n \in 0 .. LOCK_MAX /\ flags' = WithCount(flags, b, n)
      BY <2>1, <2>7
    <3>2. QED
      BY <3>1, FlagUpdates
  <2>9. TypeOK'
    BY <1>1, <2>1, <2>2, <2>8, Constants DEF IInv, TypeOK, Codes
  <2>10. LockAccounting'
    <3>1. \A w \in Writers : (Holds(w)' <=> Holds(w)) /\ slot'[w] = slot[w]
      BY <2>2, Constants DEF Holds, IInv, TypeOK
    <3>2. ReadLocked(b)'
      BY <2>3, <2>7, <2>8, <3>1 DEF ReadLocked
    <3>3. ASSUME NEW c \in Buffers, c # b
          PROVE  (ReadLocked(c) \/ WriteLocked(c))'
      <4>1. CASE ReadLocked(c)
        BY <4>1, <2>4, <2>8, <3>1, <3>3 DEF ReadLocked
      <4>2. CASE WriteLocked(c)
        BY <4>2, <2>4, <2>8, <3>1, <3>3 DEF WriteLocked
      <4>3. QED
        BY <4>1, <4>2 DEF IInv, LockAccounting
    <3>4. QED
      BY <3>1, <3>2, <3>3 DEF IInv, LockAccounting
  <2>11. WholePayloads'
    BY <1>1, <2>3, <2>8, SameBuffers, Constants DEF IInv, ReadLocked, FlagWords
  <2>12. CallsInFlight'
    <3>1. \A w \in Writers : WriterInFlight(w)'
      BY <1>1, <2>2, SameWriter, Constants DEF IInv, TypeOK, CallsInFlight
    <3>2. \A q \in Readers \ {r} : ReaderInFlight(q)'
      BY <1>1, <2>2, SameReader, Constants DEF IInv, TypeOK, CallsInFlight
    <3>3. ReaderInFlight(r)'
      BY <2>1, <2>2 DEF IInv, TypeOK, ReaderInFlight, Reading
    <3>4. QED
      BY <3>1, <3>2, <3>3 DEF CallsInFlight
  <2>13. QED
    BY <2>9, <2>10, <2>11, <2>12 DEF IInv
<1>4. QED
  BY <1>0, <1>2, <1>3 DEF ReadRelease

-----------------------------------------------------------------------------
(* One lemma per step of a write. *)

LEMMA WriteBeginInvariant ==
  ASSUME IInv, NEW w \in Writers, WriteBegin(w)
  PROVE  IInv'
<1> USE DEF WriteBegin, At, Goto, shared
<1>1. PICK t \in {clock, clock + 1} :
        t <= MaxTime /\ clock' = t /\ now' = [now EXCEPT ![w] = t]
  OBVIOUS
<1>2. t \in 1 .. MaxTime
  BY <1>1, Constants DEF IInv, TypeOK
<1>3. TypeOK'
  BY <1>1, <1>2, Constants DEF IInv, TypeOK, Codes, Times
<1>4. LockAccounting'
  BY SameLocks, Constants DEF IInv, TypeOK, Reading, Holds
<1>5. WholePayloads'
  BY SameBuffers DEF IInv
<1>6. CallsInFlight'
  <2>1. \A v \in Writers \ {w} : WriterInFlight(v)'
    BY <1>1, SameWriter, Constants DEF IInv, TypeOK, CallsInFlight
  <2>2. \A r \in Readers : ReaderInFlight(r)'
    BY SameReader, Constants DEF IInv, TypeOK, CallsInFlight
  <2>3. WriterInFlight(w)'
    BY <1>1, <1>2, Constants DEF IInv, TypeOK, WriterInFlight
  <2>4. QED
    BY <2>1, <2>2, <2>3 DEF CallsInFlight
<1>7. QED
  BY <1>3, <1>4, <1>5, <1>6 DEF IInv

LEMMA WriteLoadInvariant ==
  ASSUME IInv, NEW w \in Writers, WriteLoad(w)
  PROVE  IInv'
<1> USE DEF WriteLoad, At, Goto, LoadFlags, shared
<1>1. TypeOK'
  BY Constants DEF IInv, TypeOK
<1>2. LockAccounting'
  BY SameLocks, Constants DEF IInv, TypeOK, Reading, Holds
<1>3. WholePayloads'
  BY SameBuffers DEF IInv
<1>4. CallsInFlight'
  <2>1. \A v \in Writers \ {w} : WriterInFlight(v)'
    BY SameWriter, Constants DEF IInv, TypeOK, CallsInFlight
  <2>2. \A r \in Readers : ReaderInFlight(r)'
    BY SameReader, Constants DEF IInv, TypeOK, CallsInFlight
  <2>3. WriterInFlight(w)'
    BY Constants DEF IInv, TypeOK, CallsInFlight, WriterInFlight
  <2>4. QED
    BY <2>1, <2>2, <2>3 DEF CallsInFlight
<1>5. QED
  BY <1>1, <1>2, <1>3, <1>4 DEF IInv

LEMMA WriteRefusedInvariant ==
  ASSUME IInv, NEW w \in Writers, WriteRefused(w)
  PROVE  IInv'
<1> USE DEF WriteRefused, WriteReturn, Return, At, Goto, shared
<1>1. TypeOK'
  BY Constants DEF IInv, TypeOK, Codes
<1>2. LockAccounting'
  BY SameLocks, Constants DEF IInv, TypeOK, Reading, Holds
<1>3. WholePayloads'
  BY SameBuffers DEF IInv
<1>4. CallsInFlight'
  <2>1. \A v \in Writers \ {w} : WriterInFlight(v)'
    BY SameWriter, Constants DEF IInv, TypeOK, CallsInFlight
  <2>2. \A r \in Readers : ReaderInFlight(r)'
    BY SameReader, Constants DEF IInv, TypeOK, CallsInFlight
  <2>3. WriterInFlight(w)'
    BY Constants DEF IInv, TypeOK, WriterInFlight
  <2>4. QED
    BY <2>1, <2>2, <2>3 DEF CallsInFlight
<1>5. QED
  BY <1>1, <1>2, <1>3, <1>4 DEF IInv

\* A writer that holds a buffer has it for itself.
LEMMA HeldBuffer ==
  ASSUME TypeOK, LockAccounting, NEW w \in Writers, Holds(w)
  PROVE  /\ slot[w] \in Buffers
         /\ WriteLocked(slot[w])
         /\ \A v \in Writers \ {w} : Holds(v) => slot[v] # slot[w]
         /\ \A r \in Readers : Reading(r) => slot[r] # slot[w]
<1>1. slot[w] \in Buffers
  BY Constants DEF TypeOK
<1>2. WriteLocked(slot[w])
  BY <1>1 DEF LockAccounting, ReadLocked
<1>3. \A v \in Writers \ {w} : Holds(v) => slot[v] # slot[w]
  BY DEF LockAccounting
<1>4. \A r \in Readers : Reading(r) => slot[r] # slot[w]
  BY <1>2 DEF WriteLocked, ReadersOf
<1>5. QED
  BY <1>1, <1>2, <1>3, <1>4

\* Whatever a writer does to the buffer it holds, no one else notices.
LEMMA OwnBuffer ==
  ASSUME IInv, NEW w \in Writers, Holds(w), flags' = flags,
         \A c \in Buffers \ {slot[w]} : stamp'[c] = stamp[c] /\ data'[c] = data[c],
         slot' = slot, now' = now, buf' = buf,
         \A p \in Threads \ {w} : pc'[p] = pc[p] /\ todo'[p] = todo[p]
  PROVE  /\ WholePayloads'
         /\ \A v \in Writers \ {w} : WriterInFlight(v)'
         /\ \A r \in Readers : ReaderInFlight(r)'
<1>1. /\ slot[w] \in Buffers /\ flags.count[slot[w]] = LOCK_MAX
      /\ \A v \in Writers \ {w} : Holds(v) => slot[v] \in Buffers \ {slot[w]}
      /\ \A r \in Readers : Reading(r) => slot[r] \in Buffers \ {slot[w]}
  BY HeldBuffer, Constants DEF IInv, TypeOK, WriteLocked
<1>2. WholePayloads'
  BY <1>1 DEF IInv, WholePayloads
<1>3. \A v \in Writers \ {w} : WriterInFlight(v)'
  BY <1>1, SameWriter, Constants DEF IInv, CallsInFlight
<1>4. \A r \in Readers : ReaderInFlight(r)'
  BY <1>1, SameReader, Constants DEF IInv, CallsInFlight
<1>5. QED
  BY <1>2, <1>3, <1>4

LEMMA WriteStampInvariant ==
  ASSUME IInv, NEW w \in Writers, WriteStamp(w)
  PROVE  IInv'
<1> USE DEF WriteStamp, At, Goto
<1>1. w \in Threads /\ slot[w] \in Buffers /\ now[w] \in Times /\ Holds(w)
  BY Constants DEF IInv, TypeOK, Holds
<1>2. TypeOK'
  BY <1>1 DEF IInv, TypeOK
<1>3. LockAccounting'
  BY SameLocks, Constants DEF IInv, TypeOK, Reading, Holds
<1>4. /\ WholePayloads'
      /\ \A v \in Writers \ {w} : WriterInFlight(v)'
      /\ \A r \in Readers : ReaderInFlight(r)'
  <2>1. \A c \in Buffers \ {slot[w]} : stamp'[c] = stamp[c] /\ data'[c] = data[c]
    BY DEF IInv, TypeOK
  <2>2. \A p \in Threads \ {w} : pc'[p] = pc[p] /\ todo'[p] = todo[p]
    BY DEF IInv, TypeOK
  <2>3. QED
    BY <1>1, <2>1, <2>2, OwnBuffer
<1>5. WriterInFlight(w)'
  BY <1>1 DEF IInv, TypeOK, CallsInFlight, WriterInFlight
<1>6. QED
  BY <1>2, <1>3, <1>4, <1>5 DEF IInv, CallsInFlight

LEMMA WriteCopyInvariant ==
  ASSUME IInv, NEW w \in Writers, WriteCopy(w)
  PROVE  IInv'
<1> USE DEF WriteCopy, At
<1>1. PICK i \in todo[w] :
        /\ data' = [data EXCEPT ![slot[w]][i] = Payload(w)]
        /\ todo' = [todo EXCEPT ![w] = @ \ {i}]
  OBVIOUS
<1>2. /\ w \in Threads /\ slot[w] \in Buffers /\ Holds(w) /\ i \in Words
      /\ Payload(w) \in Payloads
  BY Constants DEF IInv, TypeOK, Holds, CallsInFlight, WriterInFlight, Payload, Payloads
<1>3. TypeOK'
  <2>1. data' \in [Buffers -> Contents]
    BY <1>1, <1>2 DEF IInv, TypeOK, Contents
  <2>2. todo' \in [Threads -> SUBSET Words]
    BY <1>1, <1>2 DEF IInv, TypeOK
  <2>3. QED
    BY <2>1, <2>2 DEF IInv, TypeOK
<1>4. LockAccounting'
  BY SameLocks, Constants DEF IInv, TypeOK, Reading, Holds
<1>5. /\ WholePayloads'
      /\ \A v \in Writers \ {w} : WriterInFlight(v)'
      /\ \A r \in Readers : ReaderInFlight(r)'
  <2>1. \A c \in Buffers \ {slot[w]} : stamp'[c] = stamp[c] /\ data'[c] = data[c]
    BY <1>1 DEF IInv, TypeOK
  <2>2. \A p \in Threads \ {w} : pc'[p] = pc[p] /\ todo'[p] = todo[p]
    BY <1>1 DEF IInv, TypeOK
  <2>3. QED
    BY <1>2, <2>1, <2>2, OwnBuffer
<1>6. WriterInFlight(w)'
  <2>1. /\ data[slot[w]] \in Contents /\ todo'[w] = todo[w] \ {i}
        /\ data'[slot[w]] = [data[slot[w]] EXCEPT ![i] = Payload(w)]
    BY <1>1, <1>2 DEF IInv, TypeOK
  <2>2. \A j \in Words \ todo'[w] : data'[slot[w]][j] = Payload(w)
    BY <1>2, <2>1 DEF IInv, CallsInFlight, WriterInFlight, Contents
  <2>3. QED
    BY <2>2 DEF IInv, CallsInFlight, WriterInFlight, Payload
<1>7. QED
  BY <1>3, <1>4, <1>5, <1>6 DEF IInv, CallsInFlight

LEMMA WriteReloadInvariant ==
  ASSUME IInv, NEW w \in Writers, WriteReload(w)
  PROVE  IInv'
<1> USE DEF WriteReload, At, Goto, LoadFlags, shared
<1>1. TypeOK'
  BY Constants DEF IInv, TypeOK
<1>2. LockAccounting'
  BY SameLocks, Constants DEF IInv, TypeOK, Reading, Holds
<1>3. WholePayloads'
  BY SameBuffers DEF IInv
<1>4. CallsInFlight'
  <2>1. \A v \in Writers \ {w} : WriterInFlight(v)'
    BY SameWriter, Constants DEF IInv, TypeOK, CallsInFlight
  <2>2. \A r \in Readers : ReaderInFlight(r)'
    BY SameReader, Constants DEF IInv, TypeOK, CallsInFlight
  <2>3. WriterInFlight(w)'
    BY Constants DEF IInv, TypeOK, CallsInFlight, WriterInFlight, Payload
  <2>4. QED
    BY <2>1, <2>2, <2>3 DEF CallsInFlight
<1>5. QED
  BY <1>1, <1>2, <1>3, <1>4 DEF IInv

LEMMA WriteCheckInvariant ==
  ASSUME IInv, NEW w \in Writers, WriteCheck(w)
  PROVE  IInv'
<1> USE DEF WriteCheck, At, Goto, shared
<1>1. PICK label \in {"w_discard", "w_publish"} : pc' = [pc EXCEPT ![w] = label]
  OBVIOUS
<1>2. TypeOK'
  BY <1>1, Constants DEF IInv, TypeOK
<1>3. LockAccounting'
  BY <1>1, SameLocks, Constants DEF IInv, TypeOK, Reading, Holds
<1>4. WholePayloads'
  BY SameBuffers DEF IInv
<1>5. CallsInFlight'
  <2>1. \A v \in Writers \ {w} : WriterInFlight(v)'
    BY <1>1, SameWriter, Constants DEF IInv, TypeOK, CallsInFlight
  <2>2. \A r \in Readers : ReaderInFlight(r)'
    BY <1>1, SameReader, Constants DEF IInv, TypeOK, CallsInFlight
  <2>3. WriterInFlight(w)'
    BY <1>1, Constants DEF IInv, TypeOK, CallsInFlight, WriterInFlight, Payload
  <2>4. QED
    BY <2>1, <2>2, <2>3 DEF CallsInFlight
<1>6. QED
  BY <1>2, <1>3, <1>4, <1>5 DEF IInv

LEMMA CrashInvariant ==
  ASSUME IInv, NEW p \in Threads, Crash(p)
  PROVE  IInv'
<1> USE DEF Crash, shared
<1>1. TypeOK'
  BY DEF IInv, TypeOK
<1>2. LockAccounting'
  BY SameLocks DEF IInv, Reading, Holds
<1>3. WholePayloads'
  BY SameBuffers DEF IInv
<1>4. CallsInFlight'
  BY SameWriter, SameReader DEF IInv, CallsInFlight
<1>5. QED
  BY <1>1, <1>2, <1>3, <1>4 DEF IInv

\* A buffer that is free in the word has no reader and no writer.
LEMMA WriteAcquireInvariant ==
  ASSUME IInv, NEW w \in Writers, WriteAcquire(w)
  PROVE  IInv'
<1>1. PICK b \in FreeBuffers(seen[w]) :
        \/ /\ CasSucceeds(w, WithCount(seen[w], b, LOCK_MAX))
           /\ slot' = [slot EXCEPT ![w] = b]
           /\ Goto(w, "w_stamp")
           /\ UNCHANGED seen
        \/ CasFails(w) /\ UNCHANGED <<pc, slot>>
  BY DEF WriteAcquire
<1>2. /\ pc[w] = "w_acquire" /\ w \in Threads /\ b \in Buffers
      /\ stamp' = stamp /\ data' = data /\ clock' = clock /\ now' = now
      /\ todo' = todo /\ buf' = buf /\ ret' = ret /\ crashed' = crashed
  BY Constants DEF WriteAcquire, At, FreeBuffers
<1>3. CASE CasFails(w) /\ UNCHANGED <<pc, slot>>
  <2> USE <1>2, <1>3 DEF CasFails, LoadFlags
  <2>1. TypeOK'
    BY Constants DEF IInv, TypeOK
  <2>2. LockAccounting'
    BY SameLocks, Constants DEF IInv, Reading, Holds
  <2>3. WholePayloads'
    BY SameBuffers DEF IInv
  <2>4. CallsInFlight'
    BY SameWriter, SameReader DEF IInv, CallsInFlight
  <2>5. QED
    BY <2>1, <2>2, <2>3, <2>4 DEF IInv
<1>4. CASE /\ CasSucceeds(w, WithCount(seen[w], b, LOCK_MAX))
           /\ slot' = [slot EXCEPT ![w] = b]
           /\ Goto(w, "w_stamp")
           /\ UNCHANGED seen
  <2>1. /\ flags \in FlagWords /\ flags' = WithCount(flags, b, LOCK_MAX)
        /\ flags.count[b] = 0 /\ b # flags.target
    BY <1>1, <1>4 DEF IInv, TypeOK, CasSucceeds, FreeBuffers
  <2>2. /\ slot' = [slot EXCEPT ![w] = b] /\ seen' = seen
        /\ pc' = [pc EXCEPT ![w] = "w_stamp"]
    BY <1>4 DEF Goto
  <2>3. /\ flags'.target = flags.target /\ flags'.count[b] = LOCK_MAX
        /\ \A c \in Buffers \ {b} : flags'.count[c] = flags.count[c]
        /\ flags' \in FlagWords
    <3>1. /\ flags \in FlagWords /\ b \in Buffers /\ LOCK_MAX \in 0 .. LOCK_MAX
          /\ flags' = WithCount(flags, b, LOCK_MAX)
      BY <1>2, <2>1, Constants
    <3>2. QED
      BY <3>1, FlagUpdates, SMTT(30)
  <2>4. TypeOK'
    BY <1>2, <2>2, <2>3 DEF IInv, TypeOK
  <2>5. ReadLocked(b) /\ ReadersOf(b) = {}
    <3>1. ReadLocked(b)
      BY <1>2, <2>1, Constants DEF IInv, LockAccounting, WriteLocked
    <3>2. QED
      BY <2>1, <3>1, ReadersFinite, FS_EmptySet DEF ReadLocked
  <2>6. LockAccounting'
    <3>1. \A c \in Buffers : ReadersOf(c)' = ReadersOf(c)
      BY <1>2, <2>2, Constants DEF ReadersOf, Reading, IInv, TypeOK
    <3>2. /\ ~Holds(w) /\ Holds(w)' /\ slot'[w] = b
          /\ \A v \in Writers \ {w} : (Holds(v)' <=> Holds(v)) /\ slot'[v] = slot[v]
      BY <1>2, <2>2, Constants DEF Holds, IInv, TypeOK
    <3>3. WriteLocked(b)'
      BY <2>1, <2>3, <2>5, <1>2, <3>1, <3>2 DEF WriteLocked
    <3>4. ASSUME NEW c \in Buffers, c # b
          PROVE  (ReadLocked(c) \/ WriteLocked(c))'
      <4>1. CASE ReadLocked(c)
        BY <4>1, <2>3, <3>1, <3>2, <3>4 DEF ReadLocked
      <4>2. CASE WriteLocked(c)
        BY <4>2, <2>3, <3>1, <3>2, <3>4 DEF WriteLocked
      <4>3. QED
        BY <4>1, <4>2 DEF IInv, LockAccounting
    <3>5. \A u, v \in Writers : (Holds(u) /\ Holds(v) /\ slot[u] = slot[v])' => u = v
      BY <2>5, <3>2 DEF IInv, LockAccounting, ReadLocked
    <3>6. QED
      BY <3>3, <3>4, <3>5 DEF LockAccounting
  <2>7. WholePayloads'
    BY <1>2, <2>3, SameBuffers DEF IInv
  <2>8. CallsInFlight'
    <3>1. \A v \in Writers \ {w} : WriterInFlight(v)'
      BY <1>2, <2>2, SameWriter, Constants DEF IInv, TypeOK, CallsInFlight
    <3>2. \A r \in Readers : ReaderInFlight(r)'
      BY <1>2, <2>2, SameReader, Constants DEF IInv, TypeOK, CallsInFlight
    <3>3. WriterInFlight(w)'
      BY <1>2, <2>2 DEF IInv, TypeOK, CallsInFlight, WriterInFlight
    <3>4. QED
      BY <3>1, <3>2, <3>3 DEF CallsInFlight
  <2>9. QED
    BY <2>4, <2>6, <2>7, <2>8 DEF IInv
<1>5. QED
  BY <1>1, <1>3, <1>4

\* A writer hands its finished buffer back, published or not: nobody else has
\* it, and it is whole.
LEMMA HandBack ==
  ASSUME IInv, NEW w \in Writers, pc[w] \in {"w_discard", "w_publish"},
         NEW b \in Buffers, b = slot[w],
         flags' \in FlagWords,
         flags'.target \in {b, flags.target},
         flags'.count[b] = 0,
         \A c \in Buffers \ {b} : flags'.count[c] = flags.count[c],
         NEW code \in Codes, WriteReturn(w, code),
         stamp' = stamp, data' = data, clock' = clock, todo' = todo, buf' = buf,
         crashed' = crashed
  PROVE  IInv'
<1>1. /\ w \in Threads /\ Holds(w)
      /\ slot' = [slot EXCEPT ![w] = 0] /\ ret' = [ret EXCEPT ![w] = code]
      /\ pc' = [pc EXCEPT ![w] = "idle"] /\ seen' = [seen EXCEPT ![w] = FlagsInit]
      /\ now' = [now EXCEPT ![w] = 0]
  BY Constants DEF Holds, WriteReturn, Return, Goto
<1>2. /\ WriteLocked(b)
      /\ \A v \in Writers \ {w} : Holds(v) => slot[v] # b
      /\ \A r \in Readers : Reading(r) => slot[r] # b
  BY <1>1, HeldBuffer DEF IInv
<1>3. TypeOK'
  BY <1>1, Constants DEF IInv, TypeOK
<1>4. LockAccounting'
  <2>1. \A c \in Buffers : ReadersOf(c)' = ReadersOf(c)
    BY <1>1, Constants DEF ReadersOf, Reading, IInv, TypeOK
  <2>2. /\ ~Holds(w)'
        /\ \A v \in Writers \ {w} : (Holds(v)' <=> Holds(v)) /\ slot'[v] = slot[v]
    BY <1>1, Constants DEF Holds, IInv, TypeOK
  <2>3. ReadLocked(b)'
    <3>1. flags'.count[b] = Cardinality(ReadersOf(b)') /\ flags'.count[b] < LOCK_MAX
      BY <1>2, <2>1, FS_EmptySet, Constants DEF WriteLocked
    <3>2. QED
      BY <1>2, <2>2, <3>1 DEF ReadLocked
  <2>4. ASSUME NEW c \in Buffers, c # b
        PROVE  (ReadLocked(c) \/ WriteLocked(c))'
    <3>1. CASE ReadLocked(c)
      BY <3>1, <2>1, <2>2, <2>4 DEF ReadLocked
    <3>2. CASE WriteLocked(c)
      BY <3>2, <1>1, <2>1, <2>2, <2>4 DEF WriteLocked
    <3>3. QED
      BY <3>1, <3>2 DEF IInv, LockAccounting
  <2>5. \A u, v \in Writers : (Holds(u) /\ Holds(v) /\ slot[u] = slot[v])' => u = v
    BY <2>2 DEF IInv, LockAccounting
  <2>6. QED
    BY <2>3, <2>4, <2>5 DEF LockAccounting
<1>5. WholePayloads'
  <2>1. data[b] \in [Words -> Payloads]
    BY DEF IInv, TypeOK, Contents
  <2>2. /\ stamp[b] = now[w] /\ todo[w] = {}
        /\ \A i \in Words \ todo[w] : data[b][i] = Payload(w)
    BY DEF IInv, CallsInFlight, WriterInFlight
  <2>3. \A i \in Words : data[b][i] = <<w, stamp[b]>>
    BY <2>2 DEF Payload
  <2>4. data[b] = [i \in Words |-> <<w, stamp[b]>>]
    BY <2>1, <2>3
  <2>5. ASSUME NEW c \in Buffers, flags'.count[c] # LOCK_MAX
        PROVE  \/ data[c] = [i \in Words |-> Zero] /\ stamp[c] = 0
               \/ \E v \in Writers : data[c] = [i \in Words |-> <<v, stamp[c]>>]
    <3>1. CASE c = b
      BY <2>4, <3>1
    <3>2. CASE c # b
      <4>1. flags.count[c] # LOCK_MAX
        BY <2>5, <3>2
      <4>2. QED
        BY <4>1 DEF IInv, WholePayloads
    <3>3. QED
      BY <3>1, <3>2
  <2>6. QED
    BY <2>5 DEF WholePayloads
<1>6. CallsInFlight'
  <2>1. \A v \in Writers \ {w} : WriterInFlight(v)'
    BY <1>1, SameWriter, Constants DEF IInv, TypeOK, CallsInFlight
  <2>2. \A r \in Readers : ReaderInFlight(r)'
    BY <1>1, SameReader, Constants DEF IInv, TypeOK, CallsInFlight
  <2>3. WriterInFlight(w)'
    BY <1>1 DEF IInv, TypeOK, WriterInFlight
  <2>4. QED
    BY <2>1, <2>2, <2>3 DEF CallsInFlight
<1>7. QED
  BY <1>3, <1>4, <1>5, <1>6 DEF IInv

LEMMA WriteDiscardInvariant ==
  ASSUME IInv, NEW w \in Writers, WriteDiscard(w)
  PROVE  IInv'
<1>1. PICK b \in Buffers : b = slot[w]
  BY Constants DEF IInv, TypeOK
<1>2. /\ pc[w] = "w_discard" /\ flags \in FlagWords /\ 0 \in 0 .. LOCK_MAX
      /\ flags' = WithCount(flags, b, 0) /\ WriteReturn(w, "superseded")
      /\ stamp' = stamp /\ data' = data /\ clock' = clock /\ todo' = todo
      /\ buf' = buf /\ crashed' = crashed
  BY <1>1, Constants DEF IInv, TypeOK, WriteDiscard, At
<1>3. /\ flags' \in FlagWords /\ flags'.target = flags.target /\ flags'.count[b] = 0
      /\ \A c \in Buffers \ {b} : flags'.count[c] = flags.count[c]
  BY <1>2, FlagUpdates
<1>4. "superseded" \in Codes
  BY DEF Codes
<1>5. QED
  BY <1>1, <1>2, <1>3, <1>4, HandBack

LEMMA WritePublishInvariant ==
  ASSUME IInv, NEW w \in Writers, WritePublish(w)
  PROVE  IInv'
<1>1. PICK b \in Buffers : b = slot[w]
  BY Constants DEF IInv, TypeOK
<1>2. /\ pc[w] = "w_publish" /\ flags \in FlagWords /\ 0 \in 0 .. LOCK_MAX /\ w \in Threads
      /\ stamp' = stamp /\ data' = data /\ clock' = clock /\ todo' = todo
      /\ buf' = buf /\ crashed' = crashed
  BY Constants DEF IInv, TypeOK, WritePublish, At
<1>3. CASE /\ CasSucceeds(w, WithTarget(WithCount(seen[w], slot[w], 0), slot[w]))
           /\ WriteReturn(w, "ok")
  <2>1. flags' = WithTarget(WithCount(flags, b, 0), b)
    BY <1>1, <1>3 DEF CasSucceeds
  <2>2. PICK f \in FlagWords :
          /\ f = WithCount(flags, b, 0) /\ f.count[b] = 0
          /\ \A c \in Buffers \ {b} : f.count[c] = flags.count[c]
    BY <1>2, FlagUpdates
  <2>3. /\ flags' \in FlagWords /\ flags'.target = b /\ flags'.count[b] = 0
        /\ \A c \in Buffers \ {b} : flags'.count[c] = flags.count[c]
    <3>1. flags' = WithTarget(f, b)
      BY <2>1, <2>2
    <3>2. 0 \in 0 .. LOCK_MAX
      BY <1>2
    <3>3. flags' \in FlagWords /\ flags'.target = b /\ flags'.count = f.count
      BY <3>1, <3>2, FlagUpdates
    <3>4. QED
      BY <2>2, <3>3
  <2>4. "ok" \in Codes
    BY DEF Codes
  <2>5. QED
    BY <1>1, <1>2, <1>3, <2>3, <2>4, HandBack
<1>4. CASE CasFails(w) /\ Goto(w, "w_check") /\ UNCHANGED <<slot, now, ret>>
  <2> USE <1>2, <1>4 DEF CasFails, LoadFlags, Goto
  <2>1. TypeOK'
    BY DEF IInv, TypeOK
  <2>2. LockAccounting'
    BY SameLocks, Constants DEF IInv, TypeOK, Reading, Holds
  <2>3. WholePayloads'
    BY SameBuffers DEF IInv
  <2>4. CallsInFlight'
    <3>1. \A v \in Writers \ {w} : WriterInFlight(v)'
      BY SameWriter, Constants DEF IInv, TypeOK, CallsInFlight
    <3>2. \A r \in Readers : ReaderInFlight(r)'
      BY SameReader, Constants DEF IInv, TypeOK, CallsInFlight
    <3>3. WriterInFlight(w)'
      BY DEF IInv, TypeOK, CallsInFlight, WriterInFlight, Payload
    <3>4. QED
      BY <3>1, <3>2, <3>3 DEF CallsInFlight
  <2>5. QED
    BY <2>1, <2>2, <2>3, <2>4 DEF IInv
<1>5. QED
  BY <1>3, <1>4 DEF WritePublish

-----------------------------------------------------------------------------
\* A step that changes nothing keeps the invariant.
LEMMA StutterInvariant ==
  ASSUME IInv, UNCHANGED vars
  PROVE  IInv'
<1> USE DEF vars, shared
<1>1. TypeOK'
  BY DEF IInv, TypeOK
<1>2. LockAccounting'
  BY SameLocks DEF IInv, Reading, Holds
<1>3. WholePayloads'
  BY SameBuffers DEF IInv
<1>4. CallsInFlight'
  BY SameWriter, SameReader DEF IInv, CallsInFlight
<1>5. QED
  BY <1>1, <1>2, <1>3, <1>4 DEF IInv

\* Every step of every thread keeps the invariant.
THEOREM NextInvariant == IInv /\ [Next]_vars => IInv'
<1> SUFFICES ASSUME IInv, [Next]_vars PROVE IInv'
  OBVIOUS
<1>1. ASSUME NEW r \in Readers, ReadBegin(r) \/ ReadStep(r) PROVE IInv'
  BY <1>1, ReadBeginInvariant, ReadRefusedInvariant, ReadAcquireInvariant,
     ReadCopyInvariant, ReadReloadInvariant, ReadReleaseInvariant DEF ReadStep
<1>2. ASSUME NEW w \in Writers, WriteBegin(w) \/ WriteStep(w) PROVE IInv'
  BY <1>2, WriteBeginInvariant, WriteLoadInvariant, WriteRefusedInvariant,
     WriteAcquireInvariant, WriteStampInvariant, WriteCopyInvariant,
     WriteReloadInvariant, WriteCheckInvariant, WriteDiscardInvariant,
     WritePublishInvariant DEF WriteStep
<1>3. ASSUME NEW p \in Threads, Crash(p) PROVE IInv'
  BY <1>3, CrashInvariant
<1>4. CASE UNCHANGED vars
  BY <1>4, StutterInvariant
<1>5. QED
  BY <1>1, <1>2, <1>3, <1>4 DEF Next

\* The inductive invariant holds in every reachable state.
THEOREM Invariant == Spec => []IInv
BY InitInvariant, NextInvariant, PTL DEF Spec

\* Every variable keeps its type; in particular no lock count ever wraps.
THEOREM TypeCorrect == Spec => []TypeOK
BY Invariant, PTL DEF IInv

\* The lock counts are right whatever the interleaving and wherever threads
\* die: src/src/host_variable.c, __acquire_read_lock to write_host_variable.
THEOREM LocksAccountedFor == Spec => []LockAccounting
BY Invariant, PTL DEF IInv

\* No torn or mixed payload can be read.
THEOREM PayloadsWhole == Spec => []WholePayloads
BY Invariant, PTL DEF IInv
=============================================================================
