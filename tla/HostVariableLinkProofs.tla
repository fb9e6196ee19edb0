----------------------- MODULE HostVariableLinkProofs -----------------------
(***************************************************************************)
(* What linking and unlinking guarantee for any number of processes and    *)
(* objects, with any system call failing and any process killed at any     *)
(* moment.                                                                 *)
(***************************************************************************)
EXTENDS HostVariableLink, FiniteSetTheorems, TLAPS

\* p made the object it has, and is the one to initialise it.
Creator(p) == isCreate[p] /\ obj[p] # NoObject

\* Where a call is tells what its process has open, and as what.
Descriptors ==
  \A p \in Procs :
    /\ pc[p] \in {"idle", "open_new", "open_old"} => obj[p] = NoObject
    /\ pc[p] \in {"clear", "flags", "stamps", "announce"} => isCreate[p]
    /\ pc[p] = "await" => ~isCreate[p]

\* An object has one creator, and what it has stored is what its place in the
\* sequence flags, timestamps, created says.
OneCreator ==
  \A p, q \in Procs : Creator(p) /\ Creator(q) /\ obj[p] = obj[q] => p = q

Initialising ==
  \A p \in Procs : Creator(p) =>
    /\ pc[p] # "linked" => ~mem[obj[p]].created
    /\ pc[p] \in {"map", "clear", "flags"} => mem[obj[p]].flags = "zero"
    /\ pc[p] \in {"stamps", "announce"} => mem[obj[p]].flags = "initial"
    /\ pc[p] \in {"map", "clear", "flags", "stamps"} => mem[obj[p]].stamps = "zero"
    /\ pc[p] = "announce" => mem[obj[p]].stamps = "initial"

\* created is only set on an object that is ready, and a handle is only given
\* out once it is; users come after that.
Announced ==
  /\ \A o \in Objects : mem[o].created => mem[o].flags # "zero" /\ mem[o].stamps # "zero"
  /\ \A o \in Objects : ~mem[o].created => mem[o].flags # "in_use" /\ mem[o].stamps # "in_use"
  /\ \A p \in Procs : pc[p] = "linked" => mem[obj[p]].created

\* The kernel's part: an object nobody can reach is free and empty; what is
\* open has the name, or lost it to a link that failed.
Kernel ==
  /\ \A o \in Objects : Unreferenced(o) => mem[o] = Zeroed
  /\ \A p \in Procs : obj[p] # NoObject => obj[p] = name \/ obj[p] \in disowned

IInv == TypeOK /\ Descriptors /\ OneCreator /\ Initialising /\ Announced /\ Kernel

-----------------------------------------------------------------------------
\* There are more objects than processes to hold them.
LEMMA FreshIsUnreferenced ==
  ASSUME TypeOK, name = NoObject
  PROVE  Fresh \in Objects /\ Unreferenced(Fresh)
<1> DEFINE held == {obj[p] : p \in Procs}
<1>1. IsFiniteSet(held) /\ Cardinality(held) <= Cardinality(Procs)
  <2>1. obj \in Surjection(Procs, held)
    BY DEF TypeOK, Surjection
  <2>2. QED
    BY <2>1, FS_Surjection, HostVariableLinkAssumption
<1>2. Cardinality(held) \in Nat /\ Cardinality(Procs) \in Nat /\ Cardinality(Objects) \in Nat
  BY <1>1, FS_CardinalityType, HostVariableLinkAssumption
<1>3. ~(Objects \subseteq held)
  <2>1. SUFFICES ASSUME Objects \subseteq held PROVE FALSE
    OBVIOUS
  <2>2. Cardinality(Objects) <= Cardinality(held)
    BY <1>1, <2>1, FS_Subset
  <2>3. QED
    BY <1>1, <1>2, <2>2, HostVariableLinkAssumption
<1>4. \E o \in Objects : Unreferenced(o)
  BY <1>3, HostVariableLinkAssumption DEF Unreferenced
<1>5. QED
  BY <1>4 DEF Fresh

\* What a process that lets go of its object leaves to the others: everything
\* they can still reach.
LEMMA LetGoEffect ==
  ASSUME TypeOK, NEW p \in Procs, NEW n \in {name, NoObject}, NEW failing \in SUBSET Objects,
         LetGo(p, n, failing)
  PROVE  /\ name' = n /\ pc'[p] = "idle" /\ obj'[p] = NoObject /\ ~isCreate'[p]
         /\ \A q \in Procs \ {p} :
              pc'[q] = pc[q] /\ obj'[q] = obj[q] /\ isCreate'[q] = isCreate[q]
         /\ \A o \in Objects : mem'[o] = IF Unreferenced(o)' THEN Zeroed ELSE mem[o]
         /\ \A q \in Procs : obj'[q] # NoObject => mem'[obj'[q]] = mem[obj'[q]]
         /\ disowned' = {o \in disowned \cup failing : ~Unreferenced(o)'}
         /\ TypeOK'
<1>1. /\ name' = n /\ pc'[p] = "idle" /\ obj'[p] = NoObject /\ ~isCreate'[p]
      /\ \A q \in Procs \ {p} :
              pc'[q] = pc[q] /\ obj'[q] = obj[q] /\ isCreate'[q] = isCreate[q]
      /\ \A o \in Objects : mem'[o] = IF Unreferenced(o)' THEN Zeroed ELSE mem[o]
      /\ disowned' = {o \in disowned \cup failing : ~Unreferenced(o)'}
  BY DEF LetGo, Goto, TypeOK
<1>2. obj' \in [Procs -> Objects \cup {NoObject}]
  BY DEF LetGo, TypeOK
<1>3. \A q \in Procs : obj'[q] # NoObject => mem'[obj'[q]] = mem[obj'[q]]
  BY <1>1, <1>2 DEF Unreferenced
<1>4. mem' \in [Objects -> Headers]
  BY DEF LetGo, TypeOK, Headers, Zeroed
<1>5. TypeOK'
  <2>1. name' \in Objects \cup {NoObject} /\ disowned' \in SUBSET Objects
    BY <1>1 DEF TypeOK
  <2>2. pc' \in [Procs -> Labels] /\ isCreate' \in [Procs -> BOOLEAN]
    BY DEF LetGo, Goto, TypeOK, Labels
  <2>3. \A q \in Procs : pc'[q] \in Mapped => obj'[q] # NoObject
    BY <1>1 DEF TypeOK, Mapped
  <2>4. QED
    BY <1>2, <1>4, <2>1, <2>2, <2>3 DEF TypeOK
<1>6. QED
  BY <1>1, <1>3, <1>5

LEMMA LetGoInvariant ==
  ASSUME IInv, NEW p \in Procs, NEW n, NEW failing,
         \/ n = name /\ failing = {}
         \/ n = NoObject /\ failing = {name} \ {NoObject},
         LetGo(p, n, failing)
  PROVE  IInv'
<1>1. n \in {name, NoObject} /\ failing \in SUBSET Objects
  BY DEF IInv, TypeOK
<1>2. TypeOK /\ TypeOK'
  BY <1>1, LetGoEffect DEF IInv
<1>3. /\ name' = n /\ pc'[p] = "idle" /\ obj'[p] = NoObject /\ ~isCreate'[p]
      /\ \A q \in Procs \ {p} :
              pc'[q] = pc[q] /\ obj'[q] = obj[q] /\ isCreate'[q] = isCreate[q]
      /\ \A o \in Objects : mem'[o] = IF Unreferenced(o)' THEN Zeroed ELSE mem[o]
      /\ \A q \in Procs : obj'[q] # NoObject => mem'[obj'[q]] = mem[obj'[q]]
      /\ disowned' = {o \in disowned \cup failing : ~Unreferenced(o)'}
  BY <1>1, <1>2, LetGoEffect
<1>4. Descriptors' /\ OneCreator'
  BY <1>3 DEF IInv, Descriptors, OneCreator, Creator
<1>5. Initialising'
  <2>1. SUFFICES ASSUME NEW q \in Procs, Creator(q)'
                 PROVE  /\ q # p /\ Creator(q) /\ pc'[q] = pc[q] /\ obj'[q] = obj[q]
                        /\ mem'[obj'[q]] = mem[obj[q]]
    BY DEF IInv, Initialising
  <2>2. QED
    BY <1>3, <2>1 DEF Creator
<1>6. Announced'
  <2>1. \A o \in Objects : /\ mem'[o].created => mem'[o].flags # "zero" /\ mem'[o].stamps # "zero"
                           /\ ~mem'[o].created => mem'[o].flags # "in_use" /\ mem'[o].stamps # "in_use"
    BY <1>3 DEF IInv, Announced, Zeroed
  <2>2. ASSUME NEW q \in Procs, pc'[q] = "linked" PROVE mem'[obj'[q]].created
    BY <1>2, <1>3, <2>2 DEF IInv, Announced, TypeOK, Mapped
  <2>3. QED
    BY <2>1, <2>2 DEF Announced
<1>7. Kernel'
  <2>1. ASSUME NEW q \in Procs, obj'[q] # NoObject PROVE obj'[q] = name' \/ obj'[q] \in disowned'
    <3>1. q # p /\ obj'[q] = obj[q] /\ (obj[q] = name \/ obj[q] \in disowned)
      BY <1>3, <2>1 DEF IInv, Kernel
    <3>2. ~Unreferenced(obj[q])'
      BY <3>1 DEF Unreferenced
    <3>3. QED
      BY <1>3, <2>1, <3>1, <3>2
  <2>2. QED
    BY <1>3, <2>1 DEF Kernel
<1>8. QED
  BY <1>2, <1>4, <1>5, <1>6, <1>7 DEF IInv

-----------------------------------------------------------------------------
LEMMA InitInvariant == Init => IInv
<1> SUFFICES ASSUME Init PROVE IInv
  OBVIOUS
<1>1. TypeOK
  BY DEF Init, TypeOK, Headers, Zeroed, Labels, Mapped
<1>2. Descriptors /\ OneCreator /\ Initialising /\ Announced /\ Kernel
  BY DEF Init, Descriptors, OneCreator, Initialising, Announced, Kernel, Creator, Zeroed
<1>3. QED
  BY <1>1, <1>2 DEF IInv

\* Steps that only move a call on: no object, name or header changes.
LEMMA QuietInvariant ==
  ASSUME IInv, NEW p \in Procs,
         \/ Link(p) \/ Map(p) \/ Await(p) \/ SystemCallFails(p)
         \/ OpenNew(p) /\ name # NoObject
  PROVE  IInv'
<1>1. /\ name' = name /\ mem' = mem /\ obj' = obj /\ disowned' = disowned
      /\ \A q \in Procs \ {p} : pc'[q] = pc[q] /\ isCreate'[q] = isCreate[q]
      /\ isCreate'[p] = isCreate[p] \/ pc[p] = "idle"
  BY DEF Link, Map, Await, SystemCallFails, OpenNew, Goto, IInv, TypeOK
<1>2. TypeOK'
  BY DEF Link, Map, Await, SystemCallFails, OpenNew, Goto, IInv, TypeOK, Labels, Mapped, Descriptors
<1>3. Descriptors'
  <2>1. CASE Link(p) \/ (OpenNew(p) /\ name # NoObject)
    BY <2>1, <1>1 DEF Link, OpenNew, Goto, IInv, TypeOK, Descriptors
  <2>2. CASE Map(p) \/ Await(p) \/ SystemCallFails(p)
    BY <2>2, <1>1 DEF Map, Await, SystemCallFails, Goto, IInv, TypeOK, Descriptors
  <2>3. QED
    BY <2>1, <2>2
<1>4. OneCreator'
  BY <1>1 DEF IInv, OneCreator, Creator, Descriptors
<1>5. Initialising'
  <2>1. SUFFICES ASSUME Creator(p)'
                 PROVE  /\ Creator(p)
                        /\ pc[p] = "map" /\ pc'[p] \in {"clear", "failed"}
    BY <1>1 DEF IInv, Initialising, Creator
  <2>2. QED
    BY <1>1, <2>1 DEF Link, Map, Await, SystemCallFails, OpenNew, Goto, IInv, TypeOK, Descriptors, Creator
<1>6. Announced'
  BY <1>1 DEF Link, Map, Await, SystemCallFails, OpenNew, Goto, IInv, TypeOK, Announced
<1>7. Kernel'
  BY <1>1 DEF IInv, Kernel, Unreferenced
<1>8. QED
  BY <1>2, <1>3, <1>4, <1>5, <1>6, <1>7 DEF IInv

\* Opening: a fresh object with a new name, or the one the name has.
LEMMA OpenInvariant ==
  ASSUME IInv, NEW p \in Procs,
         (OpenNew(p) /\ name = NoObject) \/ OpenOld(p)
  PROVE  IInv'
<1>1. CASE OpenNew(p) /\ name = NoObject
  <2>1. Fresh \in Objects /\ Unreferenced(Fresh)
    BY <1>1, FreshIsUnreferenced DEF IInv
  <2>2. /\ name' = Fresh /\ mem' = mem /\ disowned' = disowned /\ isCreate' = isCreate
        /\ pc[p] = "open_new" /\ pc'[p] = "map" /\ obj'[p] = Fresh
        /\ \A q \in Procs \ {p} : pc'[q] = pc[q] /\ obj'[q] = obj[q] /\ obj[q] # Fresh
    BY <1>1, <2>1 DEF OpenNew, Goto, IInv, TypeOK, Unreferenced
  <2>3. TypeOK'
    BY <1>1, <2>1, HostVariableLinkAssumption DEF OpenNew, Goto, IInv, TypeOK, Labels, Mapped
  <2>4. Descriptors' /\ OneCreator'
    BY <2>2 DEF IInv, Descriptors, OneCreator, Creator
  <2>5. mem[Fresh] = Zeroed
    BY <2>1 DEF IInv, Kernel
  <2>6. Initialising'
    BY <2>2, <2>5 DEF IInv, Initialising, Creator, Zeroed
  <2>7. Announced'
    BY <2>2 DEF IInv, Announced
  <2>8. Kernel'
    <3>1. ASSUME NEW o \in Objects, Unreferenced(o)' PROVE mem'[o] = Zeroed
      <4>1. Unreferenced(o)
        BY <1>1, <2>2, <3>1, HostVariableLinkAssumption DEF Unreferenced, IInv, Descriptors
      <4>2. QED
        BY <2>2, <4>1 DEF IInv, Kernel
    <3>2. ASSUME NEW q \in Procs, obj'[q] # NoObject PROVE obj'[q] = name' \/ obj'[q] \in disowned'
      BY <1>1, <2>2, <3>2 DEF IInv, Kernel
    <3>3. QED
      BY <3>1, <3>2 DEF Kernel
  <2>9. QED
    BY <2>3, <2>4, <2>6, <2>7, <2>8 DEF IInv
<1>2. CASE OpenOld(p)
  <2>2. /\ name' = name /\ mem' = mem /\ disowned' = disowned /\ ~isCreate'[p]
        /\ pc[p] = "open_old" /\ obj'[p] = name
        /\ pc'[p] = IF name = NoObject THEN "failed" ELSE "map"
        /\ \A q \in Procs \ {p} : pc'[q] = pc[q] /\ obj'[q] = obj[q] /\ isCreate'[q] = isCreate[q]
    BY <1>2 DEF OpenOld, Goto, IInv, TypeOK
  <2>3. TypeOK'
    BY <1>2, <2>2 DEF OpenOld, Goto, IInv, TypeOK, Labels, Mapped
  <2>4. Descriptors' /\ OneCreator'
    BY <2>2 DEF IInv, Descriptors, OneCreator, Creator
  <2>6. Initialising'
    BY <2>2 DEF IInv, Initialising, Creator
  <2>7. Announced'
    BY <2>2 DEF IInv, Announced
  <2>8. Kernel'
    <3>1. ASSUME NEW o \in Objects, Unreferenced(o)' PROVE mem'[o] = Zeroed
      <4>1. Unreferenced(o)
        BY <2>2, <3>1, HostVariableLinkAssumption DEF Unreferenced, IInv, Descriptors
      <4>2. QED
        BY <2>2, <4>1 DEF IInv, Kernel
    <3>2. ASSUME NEW q \in Procs, obj'[q] # NoObject PROVE obj'[q] = name' \/ obj'[q] \in disowned'
      BY <2>2, <3>2 DEF IInv, Kernel
    <3>3. QED
      BY <3>1, <3>2 DEF Kernel
  <2>9. QED
    BY <2>3, <2>4, <2>6, <2>7, <2>8 DEF IInv
<1>3. QED
  BY <1>1, <1>2

\* Stores into the header of the object a process has: the creator's, in
\* order, before anybody uses it, and the users' afterwards.
LEMMA StoreInvariant ==
  ASSUME IInv, NEW p \in Procs,
         ClearCreated(p) \/ StoreFlags(p) \/ StoreStamps(p) \/ Announce(p) \/ Use(p)
  PROVE  IInv'
<1> DEFINE o == obj[p]
<1>1. /\ o \in Objects /\ o # NoObject /\ ~Unreferenced(o)
      /\ name' = name /\ obj' = obj /\ disowned' = disowned /\ isCreate' = isCreate
      /\ \A q \in Procs \ {p} : pc'[q] = pc[q]
      /\ \A x \in Objects \ {o} : mem'[x] = mem[x]
  BY DEF ClearCreated, StoreFlags, StoreStamps, Announce, Use, Goto, IInv, TypeOK, Mapped,
     Unreferenced
<1>2. TypeOK'
  <2>1. mem' \in [Objects -> Headers]
    <3>1. /\ [mem[o] EXCEPT !.created = FALSE] \in Headers
          /\ [mem[o] EXCEPT !.created = TRUE] \in Headers
          /\ [mem[o] EXCEPT !.flags = "initial"] \in Headers
          /\ [mem[o] EXCEPT !.stamps = "initial"] \in Headers
          /\ [mem[o] EXCEPT !.flags = "in_use"] \in Headers
          /\ [mem[o] EXCEPT !.flags = "in_use", !.stamps = "in_use"] \in Headers
      BY <1>1 DEF IInv, TypeOK, Headers
    <3>2. QED
      BY <1>1, <3>1 DEF ClearCreated, StoreFlags, StoreStamps, Announce, Use, IInv, TypeOK
  <2>2. QED
    BY <1>1, <2>1 DEF ClearCreated, StoreFlags, StoreStamps, Announce, Use, Goto, IInv, TypeOK,
       Mapped, Labels
<1>3. Descriptors' /\ OneCreator'
  BY <1>1 DEF ClearCreated, StoreFlags, StoreStamps, Announce, Use, Goto, IInv, TypeOK, Descriptors,
     OneCreator, Creator
<1>4. CASE ClearCreated(p) \/ StoreFlags(p) \/ StoreStamps(p) \/ Announce(p)
  <2>1. Creator(p) /\ \A q \in Procs \ {p} : Creator(q) => obj[q] # o
    BY <1>1, <1>4 DEF ClearCreated, StoreFlags, StoreStamps, Announce, IInv, Descriptors,
       OneCreator, Creator
  <2>2. ~mem[o].created
    BY <1>4, <2>1 DEF ClearCreated, StoreFlags, StoreStamps, Announce, IInv, Initialising
  <2>3. /\ ClearCreated(p) => /\ pc[p] = "clear" /\ pc'[p] = "flags" /\ ~mem'[o].created
                              /\ mem'[o].flags = mem[o].flags /\ mem'[o].stamps = mem[o].stamps
        /\ StoreFlags(p) => /\ pc[p] = "flags" /\ pc'[p] = "stamps" /\ mem'[o].flags = "initial"
                            /\ mem'[o].created = mem[o].created /\ mem'[o].stamps = mem[o].stamps
        /\ StoreStamps(p) => /\ pc[p] = "stamps" /\ pc'[p] = "announce" /\ mem'[o].stamps = "initial"
                             /\ mem'[o].created = mem[o].created /\ mem'[o].flags = mem[o].flags
        /\ Announce(p) => /\ pc[p] = "announce" /\ pc'[p] = "linked" /\ mem'[o].created
                          /\ mem'[o].flags = mem[o].flags /\ mem'[o].stamps = mem[o].stamps
    BY <1>1 DEF ClearCreated, StoreFlags, StoreStamps, Announce, Goto, IInv, TypeOK, Headers
  <2>4. Initialising'
    <3>1. ASSUME NEW q \in Procs \ {p}, Creator(q)'
          PROVE  Creator(q) /\ pc'[q] = pc[q] /\ obj'[q] = obj[q] /\ mem'[obj[q]] = mem[obj[q]]
      BY <1>1, <2>1, <3>1 DEF Creator, IInv, TypeOK
    <3>2. /\ pc'[p] # "linked" => ~mem'[o].created
          /\ pc'[p] \in {"map", "clear", "flags"} => mem'[o].flags = "zero"
          /\ pc'[p] \in {"stamps", "announce"} => mem'[o].flags = "initial"
          /\ pc'[p] \in {"map", "clear", "flags", "stamps"} => mem'[o].stamps = "zero"
          /\ pc'[p] = "announce" => mem'[o].stamps = "initial"
      BY <1>4, <2>1, <2>2, <2>3 DEF IInv, Initialising, Headers
    <3>3. QED
      BY <1>1, <3>1, <3>2 DEF IInv, Initialising
  <2>5. Announced'
    <3>1. /\ mem'[o].created => mem'[o].flags # "zero" /\ mem'[o].stamps # "zero"
          /\ ~mem'[o].created => mem'[o].flags # "in_use" /\ mem'[o].stamps # "in_use"
          /\ pc'[p] = "linked" => mem'[o].created
      BY <1>4, <2>1, <2>2, <2>3 DEF IInv, Initialising, Announced, Headers
    <3>2. \A q \in Procs \ {p} : pc[q] = "linked" => obj[q] # o /\ obj[q] \in Objects
      BY <2>2 DEF IInv, Announced, TypeOK, Mapped
    <3>3. QED
      BY <1>1, <3>1, <3>2 DEF IInv, Announced
  <2>6. Kernel'
    BY <1>1 DEF IInv, Kernel, Unreferenced
  <2>7. QED
    BY <1>2, <1>3, <2>4, <2>5, <2>6 DEF IInv
<1>5. CASE Use(p)
  <2>1. pc' = pc /\ pc[p] = "linked" /\ mem[o].created /\ mem[o] \in Headers
    BY <1>1, <1>5 DEF Use, IInv, Announced, TypeOK
  <2>2. mem'[o].created /\ mem'[o].flags # "zero" /\ mem'[o].stamps # "zero"
    BY <1>1, <1>5, <2>1 DEF Use, IInv, Announced, TypeOK, Headers
  <2>3. Initialising'
    <3>1. SUFFICES ASSUME NEW q \in Procs, Creator(q), pc[q] # "linked"
                   PROVE  obj[q] # o /\ obj[q] \in Objects
      BY <1>1, <2>1 DEF IInv, Initialising, Creator
    <3>2. QED
      BY <2>1, <3>1 DEF IInv, Initialising, Creator, TypeOK
  <2>4. Announced'
    BY <1>1, <2>1, <2>2 DEF IInv, Announced, TypeOK, Mapped
  <2>5. Kernel'
    BY <1>1 DEF IInv, Kernel, Unreferenced
  <2>6. QED
    BY <1>2, <1>3, <2>3, <2>4, <2>5 DEF IInv
<1>6. QED
  BY <1>4, <1>5

LEMMA NextInvariant ==
  ASSUME IInv, [Next]_vars
  PROVE  IInv'
<1>1. ASSUME NEW p \in Procs, Fail(p) \/ Unlink(p) \/ Crash(p) PROVE IInv'
  <2>1. CASE Fail(p)
    BY <2>1, LetGoInvariant DEF Fail
  <2>2. CASE Unlink(p) \/ Crash(p)
    BY <2>2, LetGoInvariant DEF Unlink, Crash
  <2>3. QED
    BY <1>1, <2>1, <2>2
<1>2. CASE UNCHANGED vars
  BY <1>2 DEF vars, IInv, TypeOK, Descriptors, OneCreator, Initialising, Announced, Kernel, Creator,
     Unreferenced
<1>3. QED
  BY <1>1, <1>2, QuietInvariant, OpenInvariant, StoreInvariant DEF Next, LinkStep

LEMMA Invariant == Spec => []IInv
BY InitInvariant, NextInvariant, PTL DEF Spec

-----------------------------------------------------------------------------
\* Every variable keeps its type, and a call that uses an object has one.
THEOREM LinkTypeCorrect == Spec => []TypeOK
<1>1. IInv => TypeOK
  BY DEF IInv
<1>2. QED
  BY <1>1, Invariant, PTL

\* Whatever fails and whoever dies, a handle returned by link_host_variable is
\* one of an initialised object.
THEOREM HandlesAreReady == Spec => []ReadyBeforeUse
<1>1. IInv => ReadyBeforeUse
  BY DEF IInv, TypeOK, Announced, ReadyBeforeUse, Mapped
<1>2. QED
  BY <1>1, Invariant, PTL

\* Two handles of one name reach the same object unless a link that failed has
\* removed the name of one of them.
THEOREM OnlyFailuresSplit == Spec => []SplitOnlyByFailure
<1>1. IInv => SplitOnlyByFailure
  BY DEF IInv, TypeOK, Kernel, SplitOnlyByFailure, Mapped
<1>2. QED
  BY <1>1, Invariant, PTL

\* No link is failing, none has failed, and none will.
NoneFailed ==
  /\ disowned = {}
  /\ \A p \in Procs : pc[p] # "failed" /\ (pc[p] = "open_old" => name # NoObject)

\* One failing system call is all that can separate two handles: processes that
\* race to create the object, unlink it or die in the middle all share it.
THEOREM SharedUnlessFailure == ASSUME Faulty = {} PROVE Spec => []OneObject
<1>1. Init => NoneFailed
  BY DEF Init, NoneFailed
<1>2. IInv /\ NoneFailed /\ [Next]_vars => NoneFailed'
  <2> SUFFICES ASSUME IInv, NoneFailed, [Next]_vars PROVE NoneFailed'
    OBVIOUS
  <2> USE DEF NoneFailed, IInv, TypeOK, Goto
  <2>1. CASE UNCHANGED vars
    BY <2>1 DEF vars
  <2>2. ASSUME NEW p \in Procs, Link(p) \/ Map(p) \/ Await(p) \/ Use(p)
        PROVE  NoneFailed'
    BY <2>2 DEF Link, Map, Await, Use
  <2>3. ASSUME NEW p \in Procs, ClearCreated(p) \/ StoreFlags(p) \/ StoreStamps(p) \/ Announce(p)
        PROVE  NoneFailed'
    BY <2>3 DEF ClearCreated, StoreFlags, StoreStamps, Announce
  <2>4. ASSUME NEW p \in Procs, OpenNew(p) PROVE NoneFailed'
    <3>1. name' # NoObject /\ disowned' = disowned
      BY <2>4, FreshIsUnreferenced, HostVariableLinkAssumption DEF OpenNew
    <3>2. pc'[p] \in {"map", "open_old"} /\ \A q \in Procs \ {p} : pc'[q] = pc[q]
      BY <2>4 DEF OpenNew
    <3>3. QED
      BY <3>1, <3>2
  <2>5. ASSUME NEW p \in Procs, OpenOld(p) PROVE NoneFailed'
    BY <2>5 DEF OpenOld
  <2>6. ASSUME NEW p \in Procs, Unlink(p) \/ Crash(p) PROVE NoneFailed'
    BY <2>6 DEF Unlink, Crash, LetGo
  <2>7. ASSUME NEW p \in Procs, SystemCallFails(p) \/ Fail(p) PROVE FALSE
    BY <2>7 DEF SystemCallFails, Fail
  <2>8. QED
    BY <2>1, <2>2, <2>3, <2>4, <2>5, <2>6, <2>7 DEF Next, LinkStep
<1>3. SplitOnlyByFailure /\ NoneFailed => OneObject
  BY DEF SplitOnlyByFailure, NoneFailed, OneObject
<1>4. QED
  BY <1>1, <1>2, <1>3, Invariant, OnlyFailuresSplit, PTL DEF Spec

\* No link ever resets the locks or the timestamps of an object in use: not by
\* a race of two creators, not after a crash in the middle of the sequence.
THEOREM NeverInitializedAgain == Spec => InitializedOnce
<1> DEFINE Kept(o) ==
      ~Unreferenced(o)' => /\ mem[o].flags = "in_use" => mem'[o].flags = "in_use"
                           /\ mem[o].stamps = "in_use" => mem'[o].stamps = "in_use"
<1>1. IInv /\ [Next]_vars => [\A o \in Objects : Kept(o)]_vars
  <2> SUFFICES ASSUME IInv, Next, NEW o \in Objects PROVE Kept(o)
    BY DEF vars
  <2>1. PICK p \in Procs : Link(p) \/ LinkStep(p) \/ Use(p) \/ Unlink(p) \/ Crash(p)
    BY DEF Next
  <2>2. CASE Fail(p) \/ Unlink(p) \/ Crash(p)
    BY <2>2 DEF Fail, Unlink, Crash, LetGo, Unreferenced
  <2>3. CASE \/ Link(p) \/ OpenNew(p) \/ OpenOld(p) \/ Map(p) \/ Await(p) \/ SystemCallFails(p)
    BY <2>3 DEF Link, OpenNew, OpenOld, Map, Await, SystemCallFails
  <2>4. CASE Use(p)
    BY <2>4 DEF Use, IInv, TypeOK, Headers
  <2>5. CASE ClearCreated(p) \/ StoreFlags(p) \/ StoreStamps(p) \/ Announce(p)
    <3>1. Creator(p)
      BY <2>5 DEF ClearCreated, StoreFlags, StoreStamps, Announce, IInv, TypeOK, Mapped,
         Descriptors, Creator
    <3>2. ~mem[obj[p]].created /\ obj[p] \in Objects
      BY <2>5, <3>1 DEF ClearCreated, StoreFlags, StoreStamps, Announce, IInv, TypeOK,
         Initialising, Creator
    <3>3. mem[obj[p]].flags # "in_use" /\ mem[obj[p]].stamps # "in_use"
      BY <3>2 DEF IInv, Announced
    <3>4. QED
      BY <2>5, <3>2, <3>3 DEF ClearCreated, StoreFlags, StoreStamps, Announce, IInv, TypeOK, Headers
  <2>6. QED
    BY <2>1, <2>2, <2>3, <2>4, <2>5 DEF LinkStep
<1>2. QED
  BY <1>1, Invariant, PTL DEF Spec, InitializedOnce
=============================================================================
