# Verification of robot-ipc

TLA+ specifications of the C core of robot-ipc and of the Python bindings around
it, the TLC instances that check them, and proofs checked by TLAPS. Paths are
those of the repository, under `src/`. `PROJECT.json` maps every definition to
the lines it stands for, and lists the hazards of the code with the properties
that cover them.

## 1. The system

| Component | State | Operations | Modelled by |
|---|---|---|---|
| host variable, reads and writes (`src/host_variable.c`) | shared: one atomic word `flags` (a 4-bit lock count per buffer, the index `target` of the readable buffer), a timestamp and a payload per buffer; per call: the copy of `flags` it will compare with | `read_host_variable`, `write_host_variable` | `HostVariable`, `FlagsWord` |
| host variable, link and unlink (`src/host_variable.c`) | a name in `/dev/shm`, the objects behind it, `meta.created` | `link_host_variable`, `unlink_host_variable` | `HostVariableLink` |
| interrupt guard of debug builds (`host_variable.c`, `#ifndef NDEBUG`) | `_host_variable_should_wait`, the handler to call next, the installed handler | `_set_handler_wrap`, `__handler_wrap`, both calls | `SignalGuard` |
| host function caller (`src/host_function_caller.c`) | two FIFO descriptors | `link_`, `unlink_`, `call_`, `get_response_host_function` | `HostFunction` |
| host function dispatcher (`src/host_function_receiver.c`) | epoll set, control pipes, table of functions, one thread | `create_`, `attach_`, `start_`, `delete_host_function_dispatcher`, the thread | `HostFunction` |
| Python bindings (`src/python_bindings.cpp`, `src/robot_ipc/robot_ipc.py`) | handles; the interpreter lock | callers, dispatchers, callbacks | `PythonFunction` |
| C++ wrapper (`include/robot_ipc.hpp`) | handles | forwards to the C functions | no state of its own |
| logger, examples, CI scripts | none | | not modelled |

**How they interact.** Processes share a host variable through mapped memory
only: no lock, no message, every update of `flags` is a compare-exchange on a
copy loaded earlier, and `memcpy` moves a payload without any atomicity. The
link protocol decides which object a name stands for and when it may be used;
reads and writes start where it ends. Callers and dispatchers share two named
FIFOs per function; the owner of a dispatcher talks to its thread through two
more pipes, and frees the memory that thread works on. In Python, each of these
waits happens with the interpreter lock held, and the dispatcher's thread takes
that lock for every callback.

**What is hard.** Interleavings of compare-exchange loops with word-by-word
copies; a word that returns to an earlier value between a load and an exchange
(ABA); processes killed with a lock held, in the middle of a creation, or with a
request in hand; a failing link that cleans up after others; FIFOs that fill up
on both sides; two dispatchers that are told of one request; a thread that
outlives the memory it uses; a handle dropped with responses outstanding, and a
dispatcher replaced with a request in its last batch; a flag without a lock that several threads and a
signal handler share; a lock held while waiting for a thread that needs it.

**What makes each component correct.**
Reads and writes: lock counts are exact, payloads are never torn, the variable
behaves like one value replaced atomically, it moves forward in time, and
nobody can be blocked by a thread that stopped. Link: a handle stands for an
initialised object, an object is initialised once, all handles of a name reach
the same object, a link returns. Guard: nobody is killed with a buffer locked,
and interrupts are heard otherwise. Functions: a response belongs to the call it
is taken for, calls run in order and at most once, nobody blocks before a FIFO is
full, calls and responses come,
deletion ends and leaves nobody behind in freed memory.

## 2. Modules

### HostVariable

One action per atomic access. A thread's `pc` says which access comes next:

| `read_host_variable` | | `write_host_variable` | |
|---|---|---|---|
| `ReadBegin` | load `flags` | `WriteBegin` | read the clock |
| `ReadRefused` / `ReadAcquire` | return -1 / exchange count+1 | `WriteLoad` | load `flags` |
| `ReadCopy` | one word of `memcpy` | `WriteRefused` / `WriteAcquire` | return -1 / exchange count `0xF` |
| `ReadReload` | load `flags` | `WriteStamp`, `WriteCopy` | store the timestamp, one word of `memcpy` |
| `ReadRelease` | exchange count-1, return 0 | `WriteReload`, `WriteCheck` | load `flags`, compare timestamps |
| | | `WriteDiscard` / `WritePublish` | `fetch_and`, return 1 / exchange target, return 0 |

A failed exchange refreshes the copy and goes round the loop. `Crash` stops a
thread for ever inside its call. Abstractions: a payload is named by its writer
and timestamp; `memcpy` moves the members of `Words` in any order; every call
moves the whole payload (`op_size = size`); the clock is `CLOCK_BOOTTIME` as one
monotonic counter all processes see, where two readings may be equal; `flags`
is a record of counts and target. The timestamp store and the loads of `flags`
are sequentially consistent in the code, and the model is.

**LatestValue** is what users may rely on: a `value`, writes that replace it as a
whole or leave it alone, reads that return what the value was at one moment of
the call. `HostVariable` implements it (`AtomicValue`): a write takes effect in
the exchange of `WritePublish`, a read in that of `ReadAcquire`. Refinement is
about safety: which of several writes wins is not part of it (see
`TargetAdvances`).

**FlagsWord** is the word as the code computes it: fields of `CountBits` bits in
a word that is the set of its bits, with the shifts, masks, `+ 1`, `- 1` and
`__builtin_ctzll` of each exchange, and the buffers that do not exist locked for
ever by `link_host_variable`. `HostVariable` packs its record into such a word
(`Pack`), and `PackedWord` says that each change of the record is one of these
computations: no carry reaches another field, no buffer is handed out that is
locked, readable, or not there.

### HostVariableLink

One action per system call or atomic store of `link_host_variable`. The kernel
is external: `name` is the directory entry, an object exists while it has a
name or somebody holds it, and a new one is all zeros. `LetGo` is what closing
and unmapping do to it. `Fail` is the whole FAILED path, whose `shm_unlink`
removes the name whoever created it; `disowned` remembers the objects that lost
their name that way. `Crash` kills a process anywhere; it starts again with
another `Link`. `Use` stands for what `HostVariable` does to the header. All
processes pass the same size.

### SignalGuard

The code between `#ifndef NDEBUG` and `#endif`: each call raises the flag of its
process and lowers it at the end of its normal path, each link puts
`__handler_wrap` in front of the present handler. `pc` has only the places that
matter, the point where the buffer becomes locked (`Acquire`), the early returns
(`Refused`, `Superseded`), and the order of lowering the guard and giving the
lock back, which differs between reads and writes. `Interrupt` runs the handler
at any moment; `fate` is what became of the process. Installing the wrapper is
two steps, one `sigaction` that reads the present handler and one that replaces
it.

### HostFunction

One action per system call, enabled when it would not block. A FIFO is a
sequence of records of at most `Capacity`; records never exceed `PIPE_BUF`, and
both sides agree on their size, so they are written and read whole. Every
handle opens its FIFOs `O_RDWR`, hence no end-of-file; the kernel discards the
content with the last descriptor (`Close`). `BeginCall`/`EndCall` and
`BeginGet`/`EndGet` split a call at the point where it may block.
`unlink_host_function` closes both descriptors whatever is outstanding, and so
does `Unlink`; a caller that links again knows of no call it is owed a response
for. The thread's events are a snapshot (`batch`) handled one after the other; the
control event is answered (`Acknowledge`) in the middle of it, and from then on
`Free` may happen. `UseFreed` stands for every access to what was freed: a call
fails and the event is skipped, or the process faults. The thread may also go on as
before, since the memory may still hold what it held; a read that waited when `Free`
closed the descriptor takes a later request like any other (`ReadRequest`).
`CreateFails` is the FAILED_MALLOC path of a creation, which frees `p` under its
thread. Once a dispatcher is freed and its thread has ended (`Over`), another may be
created in its place; one that is created earlier has another name in the model.
`start_host_function_dispatcher` only detaches the thread, which has been running since
`Create`, and is no action.
A function in `Silent` never answers; any other may return NULL in any call
(`ExecuteUnanswered`), as line 302 decides it call by call.

Processes in `Mortal` may be killed once, at any moment, and start again
(`CallerCrash`, `DispatcherCrash`). What they had written stays in the FIFOs as
long as somebody else has them open.

`answer`, `executed`, `lost`, `abandoned` and `crashed` are history variables. What
goes wrong with a call is one of two things, and `ResponseDrift` says that nothing
else does. A call is *lost* when no response can come of it any more: it was in a
FIFO whose last descriptor is closed, in the hand of a thread that was killed or uses
what was freed, in a write that was killed, or its function returned NULL. It is
*abandoned* when the handle it was made with went before a response was taken for it.
A lost call makes a caller take the response of a later call, an abandoned one that of an
earlier call; `Rank` counts both, and `answer` remembers which response a caller took
for which call.

Two situations in which a thread of a dispatcher does not move are named, because
the liveness properties have to except them. `Clogged`: it writes a response, the
FIFO is full, and every caller of the function is blocked in a call itself or is owed
nothing, so that nobody will fetch what is there. `Starved`: it reads a request that
another dispatcher has taken. `NoHelp(d, f)` is that `d` does not serve `f`, or is in
one of the two. The properties speak of every dispatcher by itself, "or at some moment
`d` does not help": dispatchers may be deleted and replaced for ever, so that
"somebody serves the function at every moment" promises nothing of any of them.

**RemoteCall** is what users of host functions may rely on, however many callers
and dispatchers share a function and whoever is killed: a call that was made may
run, once, as a call of the function it was made of; if it has run its response
may be taken, once, by a caller of that function; calls and responses may get
lost. `HostFunction` implements it (`AtMostOnce`): the calls that wait to run are
those in request FIFOs, in a write, or in the hand of a thread that has not run
them (`Waiting`), and the responses that may be taken are those in response FIFOs
or in the hand of a thread that has (`Answerable`). A call is made in `BeginCall`,
runs in `Execute` or `ExecuteUnanswered`, is answered in `EndGet`. Which caller of a
function takes which response is left open, because the code leaves it open (`hf_response`).

### PythonFunction

`HostFunction` with the interpreter lock. No binding releases it, so it is held
exactly while a caller is inside a C call or an owner inside
`delete_host_function_dispatcher`: `GilHeld` derives it from `cpc` and `main`.
Every Python operation is the C operation under that condition (`WithGil`). The
destructor of a caller is `PyUnlink`: an instance is collected whatever it is owed. A
callback takes the lock and returns a result (`PyCallback`), or ends without one
although a response is owed (`PyCallbackRaises`): it raises, returns None, or its
result does not fit. What waits with the lock is `LockWaits`, and `PyStuck` is what a
dispatcher cannot get out of because of it.

The operators marked "Slip" are wrong versions of the definition that follows
them; each shows that some property would notice.

## 3. What TLC checks

All runs explore every state of their instance.

| Run | Instance | Shows |
|---|---|---|
| `hv_safety` | 2 writers, 1 reader, 3 buffers, 2 words, 2 clock values | `TypeOK`, `LockAccounting`, `WholePayloads`, `NeverRefused`; refinement `AtomicValue`; `PackedWord` |
| `hv_live` | 1 writer, 2 readers, 4 buffers, 2 clock values, writer and one reader may be killed | `NeverRefused`, `TargetAdvances`, `DiscardJustified`, `LockFree` |
| `hv_backwards` | 2 writers, 3 buffers, 3 clock values | **violated**: `TargetAdvances` |
| `link` | 3 processes, one whose system calls fail, one that is killed | `TypeOK`, `ReadyBeforeUse`, `SplitOnlyByFailure`, `InitializedOnce`, `LinkReturns`; no deadlock |
| `link_split` | 3 processes, calls may fail | **violated**: `OneObject` |
| `guard` | 3 threads, 3 links | `TypeOK`, `GuardLoweredByOther`, `DeafOnlyAfterFailure`, `OwnHandlerDecides` |
| `guard_locked` | 1 thread | **violated**: `NotKilledLocked` |
| `hf_safe` | 1 caller, 4 calls, 1 dispatcher whose creation may fail, FIFOs of one record; both are killed and start again | `TypeOK`, `ResponseDrift`, `ExecutedInOrder`, `StuckOnlyWhenFull`, `OnlyLastBatch`; refinement `AtMostOnce`; `ResponsesInOrder`, `CallReturns`, `ResponseComes`, `DeleteReturns` |
| `hf_shared` | 2 callers with a function each, 2 dispatchers that may both attach both functions | `RunOnce`, `OnlyLastBatch`; refinement `AtMostOnce`; `RequestsRun`, `DeleteReturns` |
| `hf_response` | 2 callers of one function | **violated**: `ResponseMatches` |
| `hf_delete` | 2 callers, 1 call each | **violated**: `NoUseAfterFree` |
| `py_safe` | 2 callers in one interpreter with a function each, 1 dispatcher in another whose creation may fail, callbacks may raise; FIFOs of one record | `ResponseDrift`, `PyResponseComes`, `DeleteEndsOrDeadlocks` |

**Bounds and why they are enough.** Three buffers are the smallest number with
a choice: the target, a buffer being written, and one more that a second writer
or a late reader can meet; `hv_live` has the four of `config.h`. `LOCK_MAX` is 3
or 2 instead of 15, so that a count is at its limit with the readers there are;
in `hv_live` the second reader is refused, which is `ReadRefused`. With `LOCK_MAX`
3 the packed word has fields of two bits, and twelve of its fifteen counts
belong to buffers that do not exist; the layout of the code itself is the
subject of a theorem. Two words are enough for a torn payload. Two clock values
give an older, a newer and an equal timestamp; the ABA of `hv_backwards` needs
three. Three processes link because the interesting cases have a creator, a
process that found its object, and one that makes a second; that only one of
them fails and another is killed keeps the instance small, and the theorems
cover all choices. A FIFO of capacity 1 fills at once. Both
FIFOs and the hand of the dispatcher then hold three records, so that the fourth
call of one caller blocks: `hf_safe` has four, and no bound but that number on what
is outstanding, so that caller and dispatcher do wait for each other there. A caller
that is killed or unlinked can leave a response in the FIFO and another in the
dispatcher's hand, and come back for two more. One caller is enough for what is said
of order and responses, since each is about one caller of a function; several
functions in one batch are met in `hf_shared` and `py_safe`.
`hf_shared` has one call per caller: the case needs one request and
two dispatchers that are both told of it. In `py_safe` two calls are enough to fill
the response FIFO and block the dispatcher, while the other caller waits with the
interpreter lock.
`MaxTime` and `MaxCalls` only stop threads from starting
further calls. Where deadlock is not checked the system may stop, when these
bounds are used up, because everyone is idle, or because the process is dead.

**Fairness.** A thread inside a call keeps being scheduled (weak fairness of
its steps); nobody is obliged to start a call, to link, to attach or to unlink,
and a killed thread takes no step. A system call that could proceed does: FIFO
reads and writes wake their waiters. `HostFunction` also assumes that a caller
fetches the responses it is owed, as `docs/python3-apis.md` asks. The
interpreter lock is never assumed to be handed to anybody: it is only free
between calls, and a step that needs it is fair only as long as it is free. Nothing is assumed about which of two exchanges wins, so one call
may lose for ever: `LockFree` says exactly that much and no more. Likewise
nothing decides which of two dispatchers is first.

## 4. What the code does differently from what is said of it

Shown by a run:

- **The value can move backwards** (`hv_backwards`). `timestamp[old_target]` is
  compared, and then an exchange succeeds if the word is the same as when it was
  loaded. Other writes in between can bring the same target and counts back,
  with a newer timestamp in that buffer. For the same reason, with two writers,
  a write may be given up (return 1) although the value that stays is older.
  With one writer neither happens; that is proved.
- **A failed link takes the name away** (`link_split`), whoever created it. Removing
  the file under `/dev/shm` by hand, as `docs/apis.md` and `examples/delete_shm.c`
  do while a program may still use it, separates handles in the same way; nobody
  does so in the model.
- **Callers of one function take each other's responses** (`hf_response`).
- **Deleting a dispatcher does not wait for its thread** (`hf_delete`): the
  thread answers and then finishes its batch. It never goes further than that
  (`OnlyLastBatch`).
- **The read lowers the interrupt guard before it gives its lock back**
  (`guard_locked`).

Read in the code, and reflected in the way a property has to be stated:

- A creator that dies between `shm_open` and `created = 1` leaves an object for
  which every later link waits for ever (`Orphaned` in `LinkReturns`).
- A refused or superseded call leaves the guard up: the process is deaf to
  interrupts until a call succeeds (`DeafOnlyAfterFailure`). A second link makes
  the wrapper its own next handler (`OwnHandlerDecides`).
- A call is not always non-blocking, as `docs/apis.md` says it is: a caller that
  fetches no responses fills the response FIFO, the dispatcher's hand and the request
  FIFO, and its next call waits for ever for a dispatcher that waits for it.
  `CallReturns` excepts that (`Clogged`), and nothing else.
- A caller that is unlinked, or in Python collected, with responses outstanding, and
  links again, takes the old responses for its new calls; if nobody else had the FIFO
  open they are gone, with requests that will never run (`ResponseDrift`). The
  responses nobody fetches can clog a dispatcher with all its functions (`Clogged`).
- A dispatcher that is deleted may drop a request in its last batch, or answer it
  after another was created in its place: `lost` in `ResponseDrift`, and two threads
  that serve one function at once (see `Exclusive` below).
- Two dispatchers of one function: the slower one blocks in `read`, and so does
  its deletion (`Starved`).
- A Python callback that raises leaves a response owed, and every later response
  of that caller is one call late (`lost` in `ResponseDrift`). A C function that
  answers and returns NULL once does the same.
- A Python caller that waits holds the interpreter lock, and the one that could make
  room in the FIFO the dispatcher is blocked on never runs (`PyClogged`).
- A Python dispatcher that is collected while its thread waits for the
  interpreter lock deadlocks with it (`DeleteEndsOrDeadlocks`).

Read, and not part of a model: `_try_to_open_pipe` of the caller returns a
positive error code that passes for a descriptor (`host_function_caller.c:32`);
a function without argument (`sz_arg` 0) is never run, since its request is a
write of no bytes; `host_function_caller.h` says that `call_host_function`
blocks until the remote returns and yields a size, which it does not;
`docs/python3-apis.md` speaks of 14 slots where `config.h` has 4, and of a variable
that "will stuck" when all are locked, where the calls return -1;
`start_host_function_dispatcher` starts nothing, since functions are already
served before it.

## 5. What is proved

The theorems hold for all values of the constants: any number of threads,
buffers, words, processes, callers, dispatchers and functions, any capacity, any
of them killed. They rest on the named assumption of each module
(`HostVariableAssumption`, `HostVariableLinkAssumption`, `SignalGuardAssumption`,
`HostFunctionAssumption`, `PythonFunctionAssumption`), and on those a theorem states itself.

**HostVariableProofs.** `TypeCorrect`, `LocksAccountedFor`, `PayloadsWhole`.
None of the three is inductive alone. A reader's release subtracts one from a
count, which stays in range only because the count is the number of readers
inside, and the number is what `LockAccounting` says. A published buffer is
whole only if its writer has finished. So the inductive invariant `IInv` is
`TypeOK /\ LockAccounting /\ WholePayloads /\ CallsInFlight`, where
`CallsInFlight` says how far each call has come: which words of a writer's
buffer already carry its payload, whose timestamp is in it, what a reader has
copied. The key step is that an exchange succeeds only if `flags = seen[p]`: the
facts about the shared word transfer to the copy, so an update computed from an
old copy is an update of the present word. There is one lemma per action.

**HostVariableCallProofs.** `ImplementsAtomicValue`: every step maps to one step
of `LatestValue` or a stutter; `IInv` gives that the published buffer holds the
one payload the abstract write carries, and that a reader's buffer equals, word
for word, what it saw.

`CallsNeverRefused`: with fewer threads than buffers, and
fewer readers than `LOCK_MAX`, no call returns -1. Each occupied buffer other
than the target is mapped to a thread in it; the map is injective, so the other
threads cannot occupy all of them, and likewise for a count. The copy a call
compares with was taken when the thread held nothing, which is what
`RoomToWrite` and `RoomToRead` record. `SingleWriterAdvances`,
`SingleWriterDiscards`: with one writer the word it loaded keeps its target, so
that the comparison is still true when it acts.

**HostVariableWordProofs.** `FollowsPackedWord`: with `LOCK_MAX` 15 and at most
fifteen buffers, as in the code, every change of the flags is what the shifts
and masks make of the 64-bit word. Two words are equal if their fields are, bit
by bit; what the code reads out of the word is the record's target and counts,
and each of its masks changes one field. `LockAccounting` is needed: the count
that a read increments is no write lock, and the one it decrements is not zero.

**HostVariableLinkProofs.** `LinkTypeCorrect`, `HandlesAreReady`,
`OnlyFailuresSplit`, `NeverInitializedAgain`. The invariant adds to the type what
a process has open at each step (`Descriptors`), that an object has one creator
(`OneCreator`), how far it has come with the header (`Initialising`), that
`created` is set only on a header that is ready (`Announced`), and that what
nobody can reach is empty and what is open has the name or lost it to a failed
link (`Kernel`). `SharedUnlessFailure`: where no system call fails there is one
object. It rests on `NoneFailed`, that no process is on its way to the failure
path, not even one that found the name taken and opens it a moment later: nobody
else removes a name.

**SignalGuardProofs.** `GuardTypeCorrect`, `OnlyOthersLowerTheGuard`,
`OneThreadIsSafe`, `DeafnessHasACause`, `ApplicationDecides`: by an invariant that
says who lowered the flag under a call, and why it is up when it is.

**HostFunctionProofs.** `FunctionTypeCorrect`, for which a thread that runs a
function must be known to have its request and event (`HandsFull`). The proofs
about records rest on two kinds of steps: those that move none (`Quiet`), which
may empty FIFOs and hands, as crashes and the last `close` do, and six that move
one (`Moves`).

- `RunsOnce`: no request runs twice, whatever number of dispatchers compete for
  it. `RunOnce` is not inductive: the request in a thread's hand must not have
  run. So `Placed` says of every function that its records are in one place at a
  time: in its FIFO, in one hand, or run, and then also in a hand or in the
  response FIFO, none there twice, and none with a number its caller has not
  reached.
- `ImplementsRemoteCall`: under the same invariant every step maps to a step of
  `RemoteCall` or a stutter. What reads a request or writes a response moves a
  record within `Waiting` or `Answerable`, and changes neither only because the
  record is in no third place; what crashes, closes or frees is a `Lose`.
- `CallsRunInOrder`: calls of one caller run in order and at most once, whoever
  is killed, deleted or replaced, under `Exclusive`, that no function is attached to
  two dispatchers whose threads have both not ended. With two, the one that took the
  earlier request may run it later. A dispatcher may be deleted and replaced, as
  long as the old thread is through with its last batch when the new one attaches;
  `delete_host_function_dispatcher` does not wait for that, hence the hypothesis.
  `Line` follows a request along the function: what was run and answered is
  ahead of what is in hand, and that is ahead of what is in the FIFO, where the
  numbers of each caller increase and its next call has a greater one.
- `FreedInLastBatch`: what a freed dispatcher has left. `Handshake` lists the
  phases of deletion, from the command in the pipe over the thread that reads
  and answers it to the owner that frees: the command is in the batch only until
  it is answered, and the thread does not wait again after it. That epoll reports
  an event once and at most `MAX_EPOLL_EVENTS` of them (`Reported`) makes what is
  left fewer.

**HostFunctionResponses.** For callers that share no function (`OneCaller`).
`OnWay(f)` is what is in the FIFOs of a function or in a hand; each kind of step
adds one call to it, takes one out, or loses some (`StepOf`).

- `AnswersInOrder`, under `Exclusive`: the responses a caller takes are those of its
  calls, in order, none twice, whoever is killed or replaced; the last one taken is
  added to the line.
- `RoomUntilFull`, for any number of dispatchers: neither side blocks before the
  caller has a FIFO full of responses due. A call that was begun is lost, on its way,
  or its response was taken; and abandoned, owed, or a response was taken for it. So
  what is on its way and what was lost are as many as what is owed and what was
  abandoned (`Balanced`), and that is kept by every step, though not the numbers
  themselves.
- `ResponsesDrift`, under `Exclusive`: with the order above, the calls up to the last
  response taken and not lost are as many as those up to the last call it was taken for and
  not abandoned (`Drift`), because all that is on its way or owed is later. The step
  that matters is `EndGet`: the next response is that of the first call after the
  last that is not lost, and is taken for the first after the last that is not
  abandoned (`NextRank`), one more on both sides. A step that loses calls takes them
  from behind the last response.
- `AnswersMatch`: of which nothing is to be seen as long as nothing is lost or
  abandoned: the caller then gets the response of the call it asks for. That is the
  condition under which `ResponseMatches` holds with one caller per function;
  `hf_response` shows that with two it does not.

**PythonFunctionProofs.** The interpreter lock only takes steps away:
`PythonIsHostFunction` says that every behaviour is one of `HostFunction`, with
callbacks that raise as calls that return NULL, and instances that are collected as
handles that are unlinked. So its theorems hold here, among them `PyResponsesDrift`
and `PyImplementsRemoteCall`.

**Only model-checked.** All liveness (`LockFree`, `LinkReturns`, `CallReturns`,
`ResponseComes`, `RequestsRun`, `DeleteReturns`, `PyResponseComes`,
`DeleteEndsOrDeadlocks`): liveness under fairness is out of the prover's reach.
Every invariant and every action property of the passing runs is a theorem.

## 6. Not modelled

- **C++ wrapper.** Its functions forward to C; its checks are compile-time type
  traits.
- **Python variable class and framing.** They raise before or after a C call on a
  bad size or return code, and encode one value into one payload; nothing in
  them has a state of its own.
- **Logger, examples, CI scripts.** No state.
- **Calls that move part of a payload** (`op_size < size`): the rest of the buffer
  keeps what an older write left there, and `WholePayloads` is about whole
  payloads.
- **Processes that disagree on sizes**, of a variable (`docs/notice.md` forbids
  it) or of a request (`docs/apis.md` does): the first is a `ftruncate` under
  others' mappings, the second a short read that drops a request.
- **Failing system calls of the function pipes** in link and attach, the same name
  attached twice to one dispatcher, and more functions than the `n` of its
  creation (`cnt_func` is not compared with it).

## 7. What could come next

`op_size < size` in `HostVariable`; failing system calls of the pipes; records of
two sizes on one FIFO; a thread of a deleted dispatcher whose descriptors' numbers
were given to other files.
