# Verification of Cali

Cali (Compiler Assisted Library Isolation) links a program against a library so
that the library runs in another, sandboxed process. The linker rewrites every
call across the boundary into a remote call; a runtime library (`libipc`) moves
control, memory and file descriptors between the two processes.

This directory holds TLA+ models of the runtime, of the stubs that the linker
generates and of the linker's analysis passes, TLC configurations that check
them on small instances, and TLAPS proofs. `PROJECT.json` lists the runs, what
each definition models (file and lines), and the places of the code that are
hard to test. Paths below are relative to `src/`.

## 1. Inventory

### The parts and how they interact

| Part | Source | State | Operations | Model |
|---|---|---|---|---|
| Rendezvous | `libipc/ipc_communication.cpp`, `libipc/shared_lock.h` | two SysV semaphores, two message areas, `sending_lock`, `sending_is_blocked`, `errno` | trigger, wait, dispatch, respond, exception, terminate | `IpcCommunication` |
| Generated stubs and handlers | `cali-linker/modules/communication_pair.cpp`, `cali-linker/snippets/` | code numbers | lock, marshal, trigger, wait, read the result; handler: read, call, lock, write the result | `IpcCommunication` |
| Jail, intermediate process | `libnsjail/src/libnsjail/fork.cc` | three processes in a chain | fork, parent-death signal, clean-up callback | `IpcCommunication`, `StatusLock` |
| Shared page allocator | `libipc/shared_memory_manager.cpp` | bitset of pages, segment size (shared), mapped size (per process), a mutex | `shm_mmap`, `shm_mremap`, `shm_munmap`, enlarge, remap | `SharedPages` |
| File descriptor sharing | `libipc/file_descriptor_manager.cpp` | one table per process, a socket pair | map to the other side, receive, close, remote close | `FileDescriptors` |
| Fork-aware termination | `libipc/shared_memory_locking.cpp` | a record lock per process | install, fork handlers, sole-survivor test | `StatusLock` |
| Callback tables | `libipc/ipc_communication.cpp`, `CallbackManager` | table of callbacks, trampoline pages (per process) | wrap a pointer, make a trampoline, look up, call | `Callbacks` |
| Order of the functions | `cali-linker/graph/`, `passes/DataDrivenSCCPass.cpp` | call graph, components | depth first search, Tarjan's components, bottom-up traversal | `SccOrder` |
| Marking passes | `passes/PDGReachabilityPass.cpp`, `passes/PDGSharedReachabilityPass.cpp` | marks on the values of the program, summaries | breadth first search, summaries, propagation to callers and callees | `Reachability` |
| Shared heap, hooks, data segment, signals, seccomp, linker front end | see `PROJECT.json` | | | not modelled, section 8 |

A stub of the program takes `sending_lock` (if the program is configured as
concurrent), writes its parameters to the library's message area, posts the
library's semaphore and serves whatever arrives on its own semaphore until a
return arrives. The library does the same in the other direction when it calls
back, without a lock: it has one thread. After every message a process remaps
the shared segment, because the other one may have enlarged it; pointers in
messages point into the segment, and the pages are handed out by the page
allocator, which both processes use through the shared heap. Descriptors in
parameters are exchanged through the socket pair and internal remote functions
(codes 3 to 8), which run inside an outstanding call. When a process ends, the
semaphores are removed; that wakes the others up, and they exit.

### What is hard, and what makes each part correct

* **Rendezvous**: several program threads, nesting in both directions, one flag
  per process, a lock that is released when a callback arrives and kept when an
  internal function arrives. Correct if: one thread exchanges messages at a time,
  no wakeup is lost, the flag agrees with the state, a request is not overwritten,
  the return and its result go to the caller, calls return.
* **Death**: the program or the library exits, throws or is killed anywhere.
  Correct if: nobody waits for a dead process, the sandboxed process does not
  survive, the kernel objects are removed, an exception is reported.
* **Page allocator**: shared state under a mutex, private state outside of it; the
  size changes while the other process has an old mapping; partial failures.
  Correct if: the pages of two allocations are disjoint, zero when handed out,
  backed by the file and mapped where they are used; the scan finds what is free;
  nothing leaks.
* **Descriptors**: tables in two processes without a common lock. Correct if: the
  number passed names the same file, the tables are inverse, one close closes both.
* **Callbacks**: a pointer that crosses the boundary twice is a trampoline of a
  trampoline. Correct if: calling what arrived runs what was passed, in its own
  process; values that are no pointers stay what they are; trampolines do not
  overlap.
* **Order of the functions**: a list that every later pass relies on. Correct if:
  the groups are the strongly connected components of the call graph, each listed
  once, after everything it calls, and none is missed.
* **Marking passes**: searches that meet each other through marks, colours and
  summaries. Correct if: everything that must be marked is, and nothing else.
* **Fork-aware termination**: processes fork and exit in any order; the only
  synchronisation is a record lock and a sleep. Correct if: the semaphores are
  removed by the last user, not before and not never.

## 2. Modules

| Module | Contents |
|---|---|
| `LocalCalls` | what the two processes pretend to be: one stack of calls |
| `IpcCommunication` | rendezvous, stubs, handlers, intermediate process |
| `MCIpcCommunication` | instances, refinement mapping to `LocalCalls`, the invariant of one thread |
| `IpcCommunicationProofs` | theorems for any number of threads, and for one |
| `SharedPages`, `MCSharedPages`, `SharedPagesProofs` | page allocator, instances, theorems |
| `FileDescriptors`, `MCFileDescriptors`, `FileDescriptorsProofs` | descriptor tables, instances, theorems |
| `StatusLock`, `MCStatusLock`, `StatusLockProofs` | termination of programs that fork, instances, theorems |
| `Callbacks`, `MCCallbacks`, `CallbacksProofs` | function pointers across the boundary, instances, theorems |
| `CalleeFirst` | what the order of the functions promises to the passes |
| `SccOrder`, `MCSccOrder`, `SccOrderProofs` | components and traversal of the call graph, instances, theorems |
| `Reachability`, `MCReachability` | marking passes with reference definitions, instances |
| `ReachabilityProofs`, `SharedReachabilityProofs` | theorems about all searches and the first pass, and about the second pass |
| `MCReachabilityInvariant` | the inductive invariants of the marking passes, for TLC |

Definitions whose names start with `Mutant` are plausible errors in the code.
No specification uses them; each one stands before the definition it would
replace, and shows that a property can fail.

### IpcCommunication

One action per step between two points where another thread or process can
interfere. `pc[a]` is the place of a thread:

| `pc` | Code |
|---|---|
| `run` | the program's or the library's own functions |
| `lock` | in `ipc_lock_sending()` of a stub or a handler |
| `fill` | writing parameters (stub) or the result (handler) to the peer's area |
| `post` | `trigger_ipc_call()`: flag, `errno`, `semop` |
| `wait` | `wait_for_return()`, blocked in `semop` |
| `unlock`, `got` | the message is received; releasing the lock; reading from the area |
| `serve` | an internal function that keeps the lock |
| `dying`, `exiting`, `gone` | exception in the library; `exit()`; no longer running |

A message is its code, `errno`, and the call it belongs to. The latter is not in
the code; it exists to state which return belongs to which call. Parameters and
results are represented by it: `DataIntact` says that what is read from an area
still belongs to the message that announced it. Both semaphores are removed in
one step, although `terminate()` calls `semctl` twice: a process blocked on either
one exits in both cases.

### SharedPages

`used` is the bitset as a set of pages. The scan of `findContinousFreePages` is
modelled element by element, with its `i`, `j`, `c` and `last_start` and the
skipping of full elements. The width of an element (8 in the code), the number of
elements and the number of reserved pages (513) are constants. A page is *dirty*
or zero. The kernel's real mapping is kept beside the value that the process
believes (`mapped`), so that an `mremap` with a wrong old size can fail. `Pass`
hands control to the other process, which remaps, as a message does.

### FileDescriptors

`open[p][d]` is the file behind a descriptor, `remote` the two tables. An internal
remote call (receive, close) is one step: in `IpcCommunication` the caller keeps
the exchange from request to answer, and these functions make no calls.

### StatusLock

Processes fork, call the library, exit, are killed; the first one is the parent of
the intermediate process. `holds` is the set of processes with a record lock. The
exit handler is two steps (`Exit` tests, `Remove` removes), then `Die`. Calls are
one step out and one step back.

### Callbacks

Pointers are addresses. `table` is `callback_functions`, `code` the trampolines
written so far, `cursor` and `left` the place for the next one in its page. A call,
a callback and a return are one kind of message that carries one function pointer;
a call through a trampoline carries a number as well. What a pointer *stands for*
(`goal`, `of`, `known`) is not in the code; the properties compare it with what the
code computes. `callback_numbers` of the code is searched and never filled, so that
a pointer gets a new number each time; the model has no such map.

### SccOrder

`Start`, `Examine` and `Finish` are the events of the depth first search with the
visitor of Tarjan's algorithm (`root`, `comp`, `path`), `Condense` builds the graph
of the components, `Visit` is one round of `bottom_up_traversal()`. Vertices are
taken in the order of `vertex_set()`; the order of the edges of a vertex, and of the
vertices in the queue of the traversal, is left open.

### Reachability

`agenda` is the list of jobs that `runOnModule()` of the two passes works off:
searches of three kinds, instantiation of summaries at calls, making of summaries,
propagation of marks to callers (`push`) and to callees (`pull`). The graph, and the
map from the vertices of a callee to those of a call that `matchSubnodes()` makes,
are given by the program, and with each call whether `considerCall()` accepts it.
Only a function with a considered call from outside of its component gets a summary,
and only considered calls are in the call graph that orders the components; marks are
propagated over all calls. `addSubnodeEdges()` makes no edge towards a constant.
Abstractions: memory that `uniteSubnodes()` gets (`united`) has data edges in both
directions, as between different functions, and merging two vertices of one function
is part of the given graph; the constant check is made for each pair of subnodes,
where the code stops at the first constant one (the subnodes of a global constant are
constant too); known functions and indirect calls are part of the initial graph and
marks; nodes for variable arguments, and the marks they get when a search has found a
sink (`PDGReachabilityPass.cpp:128-132`), are left out; the options
`strongFDAnalysis` and `strongFPAnalysis` are off; `PDGSpecializationPass` does not
clone functions. As in the code, marks that a recursive component gets after its
search are not searched from again, and a global that is handed to the library is no
source of the second pass.

## 3. Runs

| Run | Instance | States | Shows |
|---|---|---|---|
| `one_thread` | 1 thread, nesting 2, codes 3, 9 / 2, 8, deaths, with and without jail | 33,070 | the two processes implement `LocalCalls`; results and `errno` reach the caller; every call returns; deaths are noticed, exceptions reported, semaphores removed |
| `concurrent_threads` | 2 threads, nesting 2, deaths, with and without jail | 728,543 | mutual exclusion, no lost wakeup, flags, requests not overwritten |
| `concurrent_returns` | 2 threads, nesting 2 | — | **violated**: a return reaches somebody who waits for another call |
| `pages` | 2 processes, one running at a time, 12 pages, 2 allocations of 1 or 4 | 197,990 | accessible, backed, zeroed, complete scan, successful remaps, requests end |
| `pages_concurrent` | 2 processes at once, 8 pages, `ftruncate` may fail | 677,784 | metadata kept, nothing leaks, the run found stays free |
| `double_allocation` | as `pages`, requests of 1 page | — | **violated**: a page is handed out twice |
| `descriptors` | 1 thread per process, 4 files, 4 numbers | 46,696 | same file, inverse tables, no stray duplicate |
| `status` | 3 processes, with `is_forking`, and without it with kills and crashes | 899 | the last user removes everything, nobody earlier; callers are released |
| `callbacks` | 1 thread, a function per process, 3 pages of 2 trampolines | 140,879 | the original is called, special values arrive, trampolines fit, every invocation ends |
| `scc_order` | all call graphs of 4 functions, and of 3 with direct recursion | 216,057 | components listed once and callees first; the list implements `CalleeFirst`; all are listed |
| `reachability` | programs of 3 functions: layered, with calls not considered, out of order, recursive, with a global | 240,521 | searches complete, nothing else marked; both passes exact on layered programs; they end |
| `lost_marks` | the layered programs | — | **violated**: marks that come from callers are not followed |

### Where the code differs from what it documents

* `concurrent_returns` (`libipc/ipc_communication.cpp:168`). A thread in a callback
  has released `sending_lock`; a second thread calls the library meanwhile, and the
  library calls back again. Everybody waits for the next message with code 1. In the
  trace the return from the outer callback reaches the library's thread while it waits
  for the inner one. The header says that `wait_for_return` waits "for the last
  dispatched call to return".
* `double_allocation` (`libipc/shared_memory_manager.cpp:400`). The scan starts at
  `i = 1` and tests bit `j` of element `i / 8`, but computes the page as `i + j`:
  the page returned is one after the page tested. The page that was found stays
  free, is found again, and the same page is returned again.
* `lost_marks` (`cali-linker/passes/PDGSharedReachabilityPass.cpp:231`).
  `propagateInfluenceFromCallers()` notes whether it has propagated a mark and then
  returns `false`, against its comment; `runOnModule()` never repeats the search of
  a function whose parameters were marked by its callers.

Further configurations are no runs of `PROJECT.json`. `OneThreadInvariant` checks an
inductive invariant of section 6 with nesting 3 (53,866 states, passes), and
`ComponentsInvariant` the two of the order of the passes (216,057 states, passes).
`ReachabilityInvariant` (module `MCReachabilityInvariant`) checks those of the marking
passes on 272 layered programs (26,442 states, passes). The others drop one
assumption of a passing run each; TLC finds the listed property violated.
They document why the assumption is there.

| Configuration | Assumption dropped | Property | Place in `libipc/` |
|---|---|---|---|
| `ConcurrentResults` | one program thread | `DataIntact` | `ipc_communication.cpp:168`: the lock is released before the stub reads its result |
| `InterruptedLock` | `semop` is not interrupted | `OneSender` | `shared_lock.h:28`: EINTR is printed and ignored |
| `FailedTruncate` | `ftruncate` succeeds | `GrantsBacked` | `shared_memory_manager.cpp:476`: the size is stored first |
| `ShrinkingMove` | allocations do not shrink | `NoLeak` | `shared_memory_manager.cpp:769`: only positions are compared |
| `RemapThreads` | one thread per process | `RemapSucceeds` | `shared_memory_manager.cpp:714`: remap outside of the mutex |
| `RemapProcesses` | one process running at a time | `RemapSucceeds` | `shared_memory_manager.cpp:726`: the size is read twice |
| `ConcurrentSharing` | one thread per process | `SharedIsSame` | `file_descriptor_manager.cpp:38`: the number is free before its entry is cleared |
| `ConcurrentCallbacks` | one program thread | `CallsTheOriginal` | `ipc_communication.cpp`, `CallbackManager`: tables and trampolines without a lock |
| `SimultaneousExits` | exits do not overlap | `GoneIsRemoved` | `shared_memory_locking.cpp:41`: each sees the lock of the other |
| `ForkingCrash` | the library does not crash, with `is_forking` | `CallersReleased` | `ipc_communication.cpp:302`: the clean-up waits for a lock that the callers hold |

## 4. Bounds

* Codes: an ordinary function (9), a callback (2), and the first and the last
  internal function (3, 8), because the code compares with these limits. With
  nesting 2 an internal function or callback is inside a call inside a callback;
  deeper nesting repeats the same places. The proofs have no bound.
  `concurrent_threads` lets the program call ordinary functions only.
* Liveness of the rendezvous is checked with one program thread. Two threads are
  covered for safety, deaths included.
* Elements of 4 bits, not 8: full, empty and partly used elements, runs that cross
  an element, and an allocator that ends inside an element (5 pages) all occur.
  Requests of 1 and 4 pages are a part of an element and a whole one.
* Four descriptor numbers, one of them shared from the start, and four files: enough
  for both processes to reuse a number that was closed while another is shared.
* Three processes: a fork of a fork, and a process that survives two others.
* Callback tables stop growing at 5 entries (`MaxEntries`), two of them reserved:
  enough for a trampoline of a trampoline and for a second page, whose last byte
  fits no trampoline.
* Four functions: two components of two, a circle of four, a component that is
  reached from two others. Direct recursion is covered with three functions.
* Three functions with a parameter and a result each, and a global: data flows
  through two calls, around a circle, and back from a callee to its caller.

Symmetry is used for safety properties only (threads, slots, files).
`CHECK_DEADLOCK FALSE` is set where the system may stop: in `PagesConcurrent` and
the two `Remap` configurations a process that ends with the mutex held blocks the
other one; in `ForkingCrash` the callers block; the algorithms of `SccOrder` and
`Reachability` end; in `Callbacks` no call begins when a table is full.

## 5. Fairness

* `IpcCommunication`: weak fairness of every thread's steps, since the kernel runs
  every runnable thread; strong fairness of taking `sending_lock`, because Linux
  queues `semop` calls in order; weak fairness of the delivery of a death (signal,
  `waitpid`). Functions and callbacks of the user return (`HandlersReturn`), which
  is the premise of every statement that calls return. No process has to die.
* `SharedPages`: weak fairness of a thread that is inside an operation. Nothing is
  assumed of callers.
* `StatusLock`: weak fairness of sleeping, answering and exiting processes, of the
  library and of the intermediate process. No process has to exit.
* `Callbacks`: weak fairness of the steps of a call that has begun. No call has to
  begin.
* `SccOrder`, `Reachability`: weak fairness of the next step of a sequential program.
* `SleepSuffices` is not fairness but timing: the library's 50 ms and the fork
  handler's 10 ms are long enough for the other process to take its step. With the
  constant FALSE the steps may come in any order.

## 6. Proofs

All theorems hold for every value of the constants that satisfies the named
assumptions of the modules; TLC evaluates the assumptions in every run. A further
hypothesis of a theorem is stated in it and named here.

### Rendezvous, any number of threads (`IpcCommunicationProofs`)

* `TypeCorrect`: `Spec => []TypeOK`.
* `Rendezvous`: `Spec => []RendezvousInv`, if `~Interrupts` (the `semop` of the mutex
  is not interrupted; `InterruptedLock` shows that it is needed).
* `MutualExclusion` (`OneSender`), `TokenUnique` (`OneToken`), `WakeupsKept`
  (`NoLostWakeup`), `WarningsSilent` (`NoBlockedWarning`), `RequestsSafe`
  (`RequestsNotOverwritten`): for any number of threads, any nesting, and deaths at
  any point.

None of the five is inductive alone. That a program thread may post without
disturbing a message under way follows from *who* may be where: `TokenInv` says
that a message exists, or the library works, only while a program thread waits,
and `MutexInv` that this thread is the only one inside the exchange and that the
mutex is then taken. A thread that receives an internal function keeps the mutex;
when its handler is done it must still be the newest activity of that thread
(`HandlerInv`), or a handler without the mutex could post. `BlockedInv` ties the
flag of a process to its waiting thread; `GoneInv`, `RemovedInv` and `LibraryInv`
cover the ends of the processes. There is one lemma per conjunct (`HandlerStep`,
`MutexStep`, `TokenStep`, `BlockedStep`, ...), with one case per action.

### Rendezvous, one thread (`IpcCommunicationProofs`, second part)

The hypothesis is `Threads = {Main}`; locks may be interrupted, and every process
may die at any point. `ConcurrentReturns` and `ConcurrentResults` show that the
first two theorems below fail with two threads.

* `DataStaysIntact` (`DataIntact`), `ReturnsMatch` (`ReturnIsMine`), `ErrnoKept`
  (`ErrnoTravels`).
* `Implements` (`BehavesLocally`): the two processes implement `LocalCalls`.

All rest on `TakeTurns` (`Spec => []OneThreadInv`). `TurnInv` says that at most one of
the two threads is active or has a message posted to it; `HolderInv` says of the one
whose turn it is that the message it has got, or that is on the way to it, is the
newest call or return of the other one, with the other one's data and `errno`.
`Balanced` says that a thread which runs user code waits for exactly as many calls as
the other one serves, `Crossing` that there is one more while a request or its answer
is on the way; `IdInv` that the k-th handler of one thread serves the k-th call the
other one waits for. Together they make a return the return of the last call. For the
refinement, the single stack of `LocalCalls` is the alternation of the two stacks
(`Mix`). The lemmas `PushLibrary`, `PushProgram` and `DropAppended` say what a call
and a return do to the alternation, and `StartsLocally`, `ReturnsLocally` and
`StepsLocally` that each action is a call, a return or a stutter there.

### Page allocator (`SharedPagesProofs`)

For any number of threads and processes, any requests, elements of at least two bits,
and a process that dies with a failed `mremap`, whether it releases the mutex or not:

* `MetadataSafe` (`MetadataKept`), `NothingLeaks` (`NoLeak`), `FoundStaysFree`
  (`FoundRunFree`), `ScanFindsAll` (`ScanComplete`), `FreshIsZero` (`FreshPagesZero`),
  `GrantsZero` (`ZeroedWhenGranted`), if allocations do not shrink (`OnlyGrowing`;
  see `ShrinkingMove`).
* `Backed` (`GrantsBacked`), if also `ftruncate` succeeds (`Truncates`; see
  `FailedTruncate`).
* `RemapsSucceed` (`RemapSucceeds`), `AccessWorks` (`RunnerCanAccess`), if also one
  thread runs at a time (`Turns`; see `RemapThreads` and `RemapProcesses`).

A remapping may come between most steps. The invariants therefore speak of `Place(t)`,
where a thread is once the remapping it is in is over, and the steps of a remapping
leave them alone. `LockInv` gives the mutex to every thread from the scan to the
setting of the bits, so that bits do not appear below a scan. `ScanInv` says what the
scan knows: no run of the requested length ends before the page it looks at, and its
counter is the length of the free run before that page; that is what the skipping of
full elements must preserve. `SlotInv` gives each operation an allocation of its own,
`FirstInv` puts every page handed out below `first_unused_page_index` and that below
the size of the segment.

### Descriptors (`FileDescriptorsProofs`)

`SameFile` (`SharedIsSame`), `TablesInverse` (`TablesAgree`), `NoStray`
(`NoStrayDuplicate`), for any files and numbers, if one thread runs at a time
(`Turns`; see `ConcurrentSharing`). In the middle of passing or closing a descriptor
the tables are not inverse. `DescriptorInv` says that they are inverse but for the
one descriptor in work (`Partial`), and the place of the thread says in which way
they differ there.

### Termination (`StatusLockProofs`)

* `TypeCorrect`: `Spec => []TypeOK`.
* `LastUserRemoves` (`NotRemovedInUse`) for any number of processes, if (`Orderly`)
  with `is_forking` the sleep suffices and no process is killed. The strengthening
  `StatusInv` says that every running process holds its lock, that a child without a
  lock has a sleeping parent (which holds one, so that nobody else can be the sole
  survivor), and that a process which has decided to remove the semaphores is the
  last user. The theorem needs neither that exits do not overlap nor that the library
  does not crash.

### Callbacks (`CallbacksProofs`)

`OriginalCalled` (`CallsTheOriginal`), `SpecialsArrive` (`SpecialsKept`) and
`TrampolinesApart` (`TrampolinesFit`), for one program thread (see
`ConcurrentCallbacks`), any functions, page size, trampoline size and tables of any
length. `CallbackInv` gives every pointer and every number a meaning: a pointer means
itself if it is a function of the process, and what its number means in the *other*
process if it is a trampoline. Chains need no induction, since each table entry is
tied to what the pointer in it stands for when it is made, and tables and trampoline
pages only grow (`NumberKept`, `PointerKept`).

### Order of the passes (`SccOrderProofs`)

For every finite call graph, and every order in which the search takes the edges of
a vertex and the traversal the components in its queue:

* `Invariant` (`OrderInv`), `InOrder` (`ComponentsInOrder`): the counters of
  `bottom_up_traversal()` are right, and a component is listed once and after the
  components it has edges to.
* `ComponentsFound` (`Spec => []TarjanInv`): Tarjan's algorithm is correct. The
  conjunct `FoundInv` says that two functions have the same component number exactly
  when each reaches the other, and that calls do not leave what is found.
* `CalleesFirst` (`ListsCalleesFirst`): search and traversal implement `CalleeFirst`.

`FoundInv` speaks of complete components; the other conjuncts of `TarjanInv` say why
what is popped is one. `TimeInv` numbers the vertices in the order of discovery;
`LineInv` makes the gray vertices a path that ends where the search is; `PathInv` says
that Tarjan's stack holds the open vertices, latest first. `OpenInv` ties each open
vertex to the gray ones: an earlier gray vertex reaches it, and it reaches one. That
gives the circles. `RootInv` and `LowInv` give completeness. `RootInv`: the root of a
finished vertex is not later than an open vertex it calls. `LowInv`: the gray vertex
last before a finished one has a finished callee whose root is as early, so when
that gray vertex is finished, its own root is as early too. When a vertex stays its
own root, what is popped with it therefore calls nothing that stays open
(`PoppedIsComponent`).

### Marking passes (`ReachabilityProofs`, `SharedReachabilityProofs`)

For every program: `OnlyReached` (`NothingElseMarked`), that every mark is in each set
that contains the initial marks and follows data flow and calls; and
`SearchesComplete` (`SearchComplete`), that a search ends only when every edge of its
kind from a marked vertex of the component leads to a marked one. `ReachInv` says
that what is coloured and may be marked is marked, that a vertex which left the queue
has been followed, and that what is left to propagate belongs to a call.

For every layered program (`IsLayered`: no recursion, no data in globals, no `Deref`
edges, and `sccs` lists every function after what it calls):

* `FirstPass` (`FirstPassExact`): the functions with a considered call, and no others,
  have summaries; these are the data flow between their signature nodes through any
  number of calls of such functions, and the marks are what flows so into the library,
  or is passed by any call to a parameter that does. What flows only through a function
  none of whose calls is considered is lost: "we can loose dataflow not containing
  enough data for a pointer" (`DataDrivenSCCPass.cpp:235`).
* `SecondPass` (`SecondPassExact`): what is marked as influenced is what the data flow
  within functions and to callers reaches, and what stands for such an argument.

`SccOrderProofs` shows the order of `sccs` for the calls in the call graph, and
`DataDrivenSCCPass` enters only considered calls there (line 134). For the others the
order is a hypothesis about the program: without it a caller may be visited before a
callee whose marks it should copy. The run has programs that violate it, on which only
`SearchComplete`, `NothingElseMarked` and `PassesEnd` say something.

The reference definitions (`Flows`, `Closure`) are least sets, given as the
intersection of all closed ones and not by recursion. No induction over paths is then
needed: that the passes add nothing else is an invariant about every closed set, and
that they add everything holds because what they have marked is itself closed.
`LayeredInvariant` (`Spec => []LayeredInv`) says where the first pass is and what is
complete there. `AgendaInv` gives every job its place in the agenda (`AgendaPlace`,
by arithmetic modulo 4 and 2), so that *done* is a comparison of places: that the
summary of a callee exists when its caller is handled follows from their order (the
lemmas `OrderCall` to `OrderPull`). `FlowInv` says that every edge stays in its
function and is in each closed flow relation. `NodeInv` and `SummaryInv` say that the
search from a signature node finds exactly what it reaches, and that the summary
stays complete: no later step adds a flow edge to a function whose summary exists.
`CallInv`, `SinkInv` and `WithinInv` say the same of instantiated calls and of sink
marks.

`SharedInvariant` (`Spec => []SharedInv`) is about the second pass and rests on the
first one. `InfluenceSound` says that nothing else is marked, `InfluenceInv` that all
is marked as far as the pass has come. While marks go up (`Rising`) only components
whose turn has been are complete; when the last one has been pushed the marks are
closed upwards (`AllPassedUp`), and the way down adds only the formals of marked
arguments.

`FunctionsAssumption` (no function has the name of the owner of the globals) is
needed here. `ReachabilityInvariant.cfg` checks the three inductive invariants with
TLC, also on programs with calls that are not considered.

## 7. What is model-checked only

* Liveness under fairness is outside of the prover: `CallsReturn`,
  `LibraryDeathNoticed`, `ProgramDeathNoticed`, `SemaphoresRemoved`,
  `LibraryExceptionReported`, `RequestsEnd`, `GoneIsRemoved`, `GoneMutexRemoved`,
  `CallersReleased`, `InvocationEnds`, `AllListed`, `PassesEnd`.
* The exactness of the two marking passes is proved, and checked, for layered programs
  only. With recursion, globals, dereferences (where a summary may mark new sources) or
  a call that is not considered and listed out of order,
  `SearchComplete` and `NothingElseMarked` are what is known.

## 8. What is not modelled

* The vendored malloc (`libipc/malloc`), glibc and nsjail: third-party code. Its
  page requests are the operations of `SharedPages`.
* malloc and mmap hooks, data segment remapping, seccomp filters, instrumentation:
  process-wide settings, or done once before the fork; no protocol.
* In the rendezvous: the build variants with threads instead of processes,
  `MPROTECT_MODE` and `SEQUENTIAL_MODE`. In the page allocator: file mappings, and a
  process that dies inside an operation. A process whose `mremap` fails is taken to
  end: `internal_remap_shm` calls `exit(1)`, and the exception of
  `remapSharedMemory` ends the library's process in `child_process_main`; a program
  that catches it and goes on is left out. For descriptors: numbers of 256 and more,
  a `recvfd()` that returns -1 (no message, or no free number; the receiver then
  uses -1 as an index, `file_descriptor_manager.cpp:103-104`), `dup2`, programs that
  fork. In `StatusLock`: a process that closes the descriptor of the segment, which
  releases its record lock.
* `mmap_next_free_address` and the signal handlers of `signals.cpp`.
* Callbacks: an `mmap` of a trampoline page that fails.
* The linker: command line, configuration files and LLVM code generation; building
  the program dependence graph, merging its vertices, nodes for variable arguments,
  cloning of functions, the struct heuristic.

## 9. Plan

1. File mappings (`synchronizedFileMap`) as actions of `SharedPages`, and the death
   of a process that holds the allocator's mutex.
2. `dup2` and closing the segment's descriptor in `FileDescriptors` and `StatusLock`.
3. `PDGSpecializationPass`: cloning of functions, composed with `Reachability`.
