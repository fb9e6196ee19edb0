-------------------------- MODULE HostVariableLink --------------------------
(***************************************************************************)
(* link_host_variable and unlink_host_variable (src/src/host_variable.c):  *)
(* how processes that know only a name come to share one initialised       *)
(* memory object.  The name lives in /dev/shm; an object outlives its name *)
(* while somebody still has it open.  One action per system call or atomic *)
(* store; any system call may fail, any process may be killed and restart. *)
(***************************************************************************)
EXTENDS Naturals, FiniteSets

CONSTANTS
  Procs,      \* processes that link the variable
  Objects,    \* identities of shared memory objects, reused once unreferenced
  Faulty,     \* bound: the processes whose system calls may fail
  Mortal,     \* bound: the processes that may be killed and restarted
  NoObject

ASSUME HostVariableLinkAssumption ==
  /\ NoObject \notin Objects
  /\ IsFiniteSet(Procs) /\ IsFiniteSet(Objects)
  /\ Cardinality(Objects) > Cardinality(Procs)

VARIABLES
  name,      \* the object the name refers to, or NoObject
  mem,       \* content of each object's header
  pc,        \* "idle", a step of link_host_variable, or "linked"
  obj,       \* the object behind a process's descriptor or mapping
  isCreate,  \* local is_create
  disowned   \* history: objects whose name a failing link has removed

vars == <<name, mem, pc, obj, isCreate, disowned>>

-----------------------------------------------------------------------------
\* A new object is all zeros: nothing created, no valid flags.  "initial" is
\* what the creator stores, "in_use" whatever readers and writers made of it.
Zeroed == [created |-> FALSE, flags |-> "zero", stamps |-> "zero"]

Headers == [created : BOOLEAN, flags : {"zero", "initial", "in_use"},
            stamps : {"zero", "initial", "in_use"}]

Unreferenced(o) == name # o /\ \A p \in Procs : obj[p] # o

Goto(p, label) == pc' = [pc EXCEPT ![p] = label]

\* p closes and unmaps what it has, and the name comes to refer to n.  The
\* kernel frees what nobody refers to any more.
LetGo(p, n, failing) ==
  /\ name' = n
  /\ obj' = [obj EXCEPT ![p] = NoObject]
  /\ isCreate' = [isCreate EXCEPT ![p] = FALSE]
  /\ mem' = [o \in Objects |-> IF Unreferenced(o)' THEN Zeroed ELSE mem[o]]
  /\ disowned' = {o \in disowned \cup failing : ~Unreferenced(o)'}
  /\ Goto(p, "idle")

\* The kernel's choice of a new object; which one it takes is all the same.
Fresh == CHOOSE o \in Objects : Unreferenced(o)

Init ==
  /\ name = NoObject
  /\ mem = [o \in Objects |-> Zeroed]
  /\ pc = [p \in Procs |-> "idle"]
  /\ obj = [p \in Procs |-> NoObject]
  /\ isCreate = [p \in Procs |-> FALSE]
  /\ disowned = {}

-----------------------------------------------------------------------------
(* link_host_variable *)

Link(p) ==
  /\ pc[p] = "idle"
  /\ Goto(p, "open_new")
  /\ isCreate' = [isCreate EXCEPT ![p] = TRUE]
  /\ UNCHANGED <<name, mem, obj, disowned>>

\* Slip: shm_open without O_EXCL takes an existing object for a new one.
OpenNewShared(p) ==
  /\ pc[p] = "open_new"
  /\ name' = IF name = NoObject THEN Fresh ELSE name
  /\ obj' = [obj EXCEPT ![p] = name']
  /\ Goto(p, "map")
  /\ UNCHANGED <<mem, isCreate, disowned>>

\* shm_open(name, O_CREAT | O_EXCL | O_RDWR): a new object, or EEXIST.
OpenNew(p) ==
  /\ pc[p] = "open_new"
  /\ \/ /\ name = NoObject
        /\ name' = Fresh
        /\ obj' = [obj EXCEPT ![p] = Fresh]
        /\ Goto(p, "map")
     \/ /\ name # NoObject
        /\ Goto(p, "open_old")
        /\ UNCHANGED <<name, obj>>
  /\ UNCHANGED <<mem, isCreate, disowned>>

\* Slip: the second shm_open is trusted to succeed.
OpenOldUnchecked(p) ==
  /\ pc[p] = "open_old"
  /\ isCreate' = [isCreate EXCEPT ![p] = FALSE]
  /\ obj' = [obj EXCEPT ![p] = name]
  /\ Goto(p, "map")
  /\ UNCHANGED <<name, mem, disowned>>

\* shm_open(name, O_RDWR): ENOENT if the name has gone in the meantime.
OpenOld(p) ==
  /\ pc[p] = "open_old"
  /\ isCreate' = [isCreate EXCEPT ![p] = FALSE]
  /\ obj' = [obj EXCEPT ![p] = name]
  /\ Goto(p, IF name = NoObject THEN "failed" ELSE "map")
  /\ UNCHANGED <<name, mem, disowned>>

\* ftruncate and mmap; every process asks for the same size, so neither
\* changes what is in the object, nor can anybody else see them happen.
Map(p) ==
  /\ pc[p] = "map"
  /\ Goto(p, IF isCreate[p] THEN "clear" ELSE "await")
  /\ UNCHANGED <<name, mem, obj, isCreate, disowned>>

\* The creator: created = 0, flags, timestamps, created = 1.
ClearCreated(p) ==
  /\ pc[p] = "clear"
  /\ mem' = [mem EXCEPT ![obj[p]].created = FALSE]
  /\ Goto(p, "flags")
  /\ UNCHANGED <<name, obj, isCreate, disowned>>

StoreFlags(p) ==
  /\ pc[p] = "flags"
  /\ mem' = [mem EXCEPT ![obj[p]].flags = "initial"]
  /\ Goto(p, "stamps")
  /\ UNCHANGED <<name, obj, isCreate, disowned>>

StoreStamps(p) ==
  /\ pc[p] = "stamps"
  /\ mem' = [mem EXCEPT ![obj[p]].stamps = "initial"]
  /\ Goto(p, "announce")
  /\ UNCHANGED <<name, obj, isCreate, disowned>>

\* Slip: the flag is never raised.
AnnounceNothing(p) == pc[p] = "announce" /\ Goto(p, "linked") /\ UNCHANGED <<name, mem, obj, isCreate, disowned>>

Announce(p) ==
  /\ pc[p] = "announce"
  /\ mem' = [mem EXCEPT ![obj[p]].created = TRUE]
  /\ Goto(p, "linked")
  /\ UNCHANGED <<name, obj, isCreate, disowned>>

\* Slip: whoever opens an existing object does not wait.
AwaitNothing(p) == pc[p] = "await" /\ Goto(p, "linked") /\ UNCHANGED <<name, mem, obj, isCreate, disowned>>

\* while (created == 0) usleep(1000): has no other way out.
Await(p) ==
  /\ pc[p] = "await"
  /\ mem[obj[p]].created
  /\ Goto(p, "linked")
  /\ UNCHANGED <<name, mem, obj, isCreate, disowned>>

\* shm_open, ftruncate or mmap returns an error.
SystemCallFails(p) ==
  /\ p \in Faulty
  /\ pc[p] \in {"open_new", "open_old", "map"}
  /\ Goto(p, "failed")
  /\ UNCHANGED <<name, mem, obj, isCreate, disowned>>

\* FAILED: close, munmap and shm_unlink(name), whoever created the object.
Fail(p) ==
  /\ pc[p] = "failed"
  /\ LetGo(p, NoObject, {name} \ {NoObject})

-----------------------------------------------------------------------------
\* read_host_variable and write_host_variable change the flags, and writes the
\* timestamps: the module HostVariable.
Use(p) ==
  /\ pc[p] = "linked"
  /\ \/ mem' = [mem EXCEPT ![obj[p]].flags = "in_use"]
     \/ mem' = [mem EXCEPT ![obj[p]].flags = "in_use", ![obj[p]].stamps = "in_use"]
  /\ UNCHANGED <<name, pc, obj, isCreate, disowned>>

\* Slip: the commented-out shm_unlink(name) is done after all.
UnlinkName(p) == pc[p] = "linked" /\ LetGo(p, NoObject, {})

\* unlink_host_variable: munmap, the name stays.
Unlink(p) == pc[p] = "linked" /\ LetGo(p, name, {})

\* The process is killed, at any moment, and started again.
Crash(p) ==
  /\ p \in Mortal
  /\ pc[p] # "idle"
  /\ LetGo(p, name, {})

LinkStep(p) ==
  \/ OpenNew(p) \/ OpenOld(p) \/ Map(p)
  \/ ClearCreated(p) \/ StoreFlags(p) \/ StoreStamps(p) \/ Announce(p)
  \/ Await(p) \/ SystemCallFails(p) \/ Fail(p)

Next == \E p \in Procs : Link(p) \/ LinkStep(p) \/ Use(p) \/ Unlink(p) \/ Crash(p)

Spec == Init /\ [][Next]_vars

\* A call in progress keeps being scheduled.  Nobody has to link or unlink.
FairSpec == Spec /\ \A p \in Procs : WF_vars(LinkStep(p))

-----------------------------------------------------------------------------
(* Properties *)

Labels == {"idle", "open_new", "open_old", "map", "clear", "flags", "stamps",
           "announce", "await", "failed", "linked"}

Mapped == {"map", "clear", "flags", "stamps", "announce", "await", "linked"}

\* Every variable has its type, and a step that uses an object has one.
TypeOK ==
  /\ name \in Objects \cup {NoObject}
  /\ mem \in [Objects -> Headers]
  /\ pc \in [Procs -> Labels]
  /\ obj \in [Procs -> Objects \cup {NoObject}]
  /\ isCreate \in [Procs -> BOOLEAN]
  /\ disowned \in SUBSET Objects
  /\ \A p \in Procs : pc[p] \in Mapped => obj[p] # NoObject

\* A handle is returned only for an object whose flags and timestamps hold
\* what the creator stores or later users made of it: nobody locks buffers in
\* a word of zeros, which would pass for one with every buffer free.
ReadyBeforeUse ==
  \A p \in Procs : pc[p] = "linked" =>
    mem[obj[p]].flags # "zero" /\ mem[obj[p]].stamps # "zero"

\* The locks and timestamps that users keep in an object are never overwritten
\* by another link, as long as somebody can reach the object.
InitializedOnce ==
  [][\A o \in Objects : ~Unreferenced(o)' =>
       /\ mem[o].flags = "in_use" => mem'[o].flags = "in_use"
       /\ mem[o].stamps = "in_use" => mem'[o].stamps = "in_use"]_vars

\* "a piece of shared memory identified by a unique name": all handles of the
\* name reach the same object.
OneObject ==
  \A p, q \in Procs : pc[p] = "linked" /\ pc[q] = "linked" => obj[p] = obj[q]

\* Nothing but a failing link of the same name can separate two handles: not
\* the creation race, not unlinking, not a process that dies and comes back.
SplitOnlyByFailure ==
  \A p, q \in Procs : pc[p] = "linked" /\ pc[q] = "linked" /\ obj[p] # obj[q] =>
    obj[p] \in disowned \/ obj[q] \in disowned

\* Nobody is left who could announce the object: its creator died or failed.
Orphaned(o) == ~mem[o].created /\ \A q \in Procs : obj[q] = o => ~isCreate[q]

\* "return: A valid host_variable handle, or NULL on error": a call whose
\* process lives returns, unless it came to wait for an orphan.
LinkReturns ==
  \A p \in Procs : pc[p] = "open_new" ~>
    pc[p] \in {"idle", "linked"} \/ (pc[p] = "await" /\ Orphaned(obj[p]))
=============================================================================
