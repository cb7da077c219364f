---------------------------- MODULE SharedPages ----------------------------
(***************************************************************************)
(* The page allocator of the shared memory segment, class                  *)
(* SharedMemoryInformation of libipc/shared_memory_manager.cpp, used by    *)
(* both processes through shm_mmap, shm_mremap and shm_munmap.  The bitset *)
(* pages_used, the size of the segment and first_unused_page_index are in  *)
(* the shared segment and protected by a SharedMutex; how much of the      *)
(* segment is mapped is private to a process.  Sizes are in pages.         *)
(***************************************************************************)
EXTENDS Integers

CONSTANTS
  Threads,   \* the threads that use the segment
  Procs,     \* the processes that map it
  ProcOf,    \* ProcOf[t]: the process of thread t
  NoThread,  \* no thread: the value of a free mutex
  Concurrent,\* do several threads run at the same time?
  Width,     \* bits per element of the bitset (8 in the code)
  Elements,  \* bitset_size: number of elements of the bitset
  Reserved,  \* used_pages: pages of the allocator's own data (513 in the code)
  Slots,     \* bound: the allocations that are alive at the same time
  NoSlot,    \* no allocation
  Counts,    \* numbers of pages requested
  MayShrink, \* does mremap() also shrink allocations?
  TruncateFails \* may ftruncate() fail?

ASSUME PagesAssumption ==
  /\ Width \in Nat \ {0, 1} /\ Elements \in Nat \ {0}
  /\ Reserved \in 1 .. Width * Elements
  /\ NoSlot \notin Slots /\ Counts \subseteq Nat \ {0}
  /\ ProcOf \in [Threads -> Procs] /\ NoThread \notin Threads
  /\ Concurrent \in BOOLEAN /\ TruncateFails \in BOOLEAN /\ MayShrink \in BOOLEAN

VARIABLES
  used,    \* the pages whose bit is set in pages_used
  size,    \* shared_size
  fdsize,  \* size of the file behind the segment
  mapped,  \* mapped[p]: current_mapped_size of process p
  first,   \* first_unused_page_index
  dirty,   \* pages whose content is not zero
  kernel,  \* kernel[p]: how much of the segment is really mapped in p
  broken,  \* the processes whose mremap() failed or moved the segment
  turn,    \* the thread that runs, unless Concurrent
  mtx,     \* the thread that holds the mutex, or NoThread
  pc,      \* pc[t]: where thread t is
  op,      \* op[t]: the local variables of the operation of thread t
  scan,    \* i, j, c and last_start of findContinousFreePages
  alloc,   \* alloc[s]: start and number of pages of allocation s
  state    \* state[s]: "none", "pending", "live", "moving" or "leaving"

pages == <<used, first, dirty>>
sizes == <<size, fdsize>>
maps  == <<mapped, kernel, broken>>
blocks == <<alloc, state>>
vars == <<pages, sizes, maps, turn, mtx, pc, op, scan, blocks>>

PCs == {"idle", "lock", "remap", "store", "scan", "bits", "found", "truncate",
        "block", "copy", "free", "dead"}
States == {"none", "pending", "live", "moving", "leaving"}
Blocks == [pos : Nat, count : Nat]
NoBlock == [pos |-> 0, count |-> 0]
\* slot: the allocation; count: the pages requested; target: where shm_mremap()
\* moves them; old, new: the sizes passed to mremap(); ret: where to go on then.
Locals == [slot : Slots \cup {NoSlot}, count : Nat, target : Blocks, old : Nat, new : Nat, ret : PCs]
Operation(s, n) == [slot |-> s, count |-> n, target |-> NoBlock,
                    old |-> 0, new |-> 0, ret |-> "idle"]
NoLocals == Operation(NoSlot, 0)
EndOf(b) == b.pos + b.count
Pages(b) == b.pos .. EndOf(b) - 1
\* The block that the scan has found for thread t.
Found(t) == [pos |-> scan.last, count |-> op[t].count]

TypeOK ==
  /\ used \subseteq Nat /\ dirty \subseteq Nat
  /\ size \in Nat /\ fdsize \in Nat /\ first \in Nat
  /\ mapped \in [Procs -> Nat] /\ kernel \in [Procs -> Nat] /\ broken \subseteq Procs
  /\ turn \in Threads /\ mtx \in Threads \cup {NoThread}
  /\ pc \in [Threads -> PCs] /\ op \in [Threads -> Locals]
  /\ scan \in [i : Nat, j : Nat, c : Nat, last : Nat]
  /\ alloc \in [Slots -> Blocks] /\ state \in [Slots -> States]

\* The pages of the object and of its bitset; mutant: the object is forgotten.
MutantMetadata == 0 .. Reserved - 2
Metadata == 0 .. Reserved - 1
StartOfScan == [i |-> 1, j |-> 0, c |-> 0, last |-> 0]

\* shared_memory_init(): the allocator's own pages are in use, and mapped.
Init ==
  /\ used = Metadata /\ dirty = Metadata
  /\ size = Reserved /\ fdsize = Reserved /\ first = Reserved
  /\ mapped = [p \in Procs |-> Reserved] /\ kernel = mapped /\ broken = {}
  /\ turn \in Threads /\ mtx = NoThread
  /\ pc = [t \in Threads |-> "idle"] /\ op = [t \in Threads |-> NoLocals]
  /\ scan = StartOfScan
  /\ alloc = [s \in Slots |-> NoBlock]
  /\ state = [s \in Slots |-> "none"]

Goto(t, l) == pc' = [pc EXCEPT ![t] = l]
\* The operation of thread t returns.
Return(t) == Goto(t, "idle") /\ op' = [op EXCEPT ![t] = NoLocals]
SetState(s, v) == state' = [state EXCEPT ![s] = v]
Larger(x, y) == IF x > y THEN x ELSE y
\* The process of thread t has not ended, and t is at l.
At(t, l) == pc[t] = l /\ ProcOf[t] \notin broken
\* Thread t runs the program's or the library's own code.
Idle(t) == At(t, "idle") /\ (Concurrent \/ turn = t)

-----------------------------------------------------------------------------
\* shm_mmap() without file, hint or offset.
Mmap(t, s, n) ==
  /\ Idle(t) /\ state[s] = "none"
  /\ op' = [op EXCEPT ![t] = Operation(s, n)]
  /\ SetState(s, "pending")
  /\ Goto(t, "lock")
  /\ UNCHANGED <<pages, sizes, maps, turn, mtx, scan, alloc>>

\* shm_mremap(): new pages are requested whatever the old and the new size.
Mremap(t, s, n) ==
  /\ Idle(t) /\ state[s] = "live" /\ (MayShrink \/ n >= alloc[s].count)
  /\ op' = [op EXCEPT ![t] = Operation(s, n)]
  /\ SetState(s, "moving")
  /\ Goto(t, "lock")
  /\ UNCHANGED <<pages, sizes, maps, turn, mtx, scan, alloc>>

\* shm_munmap(), by either process.
Munmap(t, s) ==
  /\ Idle(t) /\ state[s] = "live"
  /\ op' = [op EXCEPT ![t] = Operation(s, 0)]
  /\ SetState(s, "leaving")
  /\ Goto(t, "free")
  /\ UNCHANGED <<pages, sizes, maps, turn, mtx, scan, alloc>>

-----------------------------------------------------------------------------
(* internal_remap_shm() and remapSharedMemory(): the sizes are read, the     *)
(* mapping is changed, and the size of the segment is read again and stored  *)
(* as the size of the mapping.                                               *)

\* Read the arguments of mremap(), and continue at l after it.
RemapTo(t, l) ==
  /\ op' = [op EXCEPT ![t].old = mapped[ProcOf[t]], ![t].new = size, ![t].ret = l]
  /\ Goto(t, "remap")

\* Mutant: only an enlargement remaps.
MutantRemapIfNeeded(t, l) == Goto(t, l) /\ UNCHANGED op

RemapIfNeeded(t, l) ==
  IF size > mapped[ProcOf[t]] THEN RemapTo(t, l)
  ELSE Goto(t, l) /\ UNCHANGED op

\* mremap(base, old, new, MREMAP_MAYMOVE) enlarges in place only a mapping that
\* has the old size; the process does not survive any other outcome.
\* internal_remap_shm() calls exit(1) and leaves a mutex locked; the exception of
\* remapSharedMemory() releases it if it is caught, as in child_process_main().
RemapMap(t) ==
  /\ At(t, "remap")
  /\ IF kernel[ProcOf[t]] = op[t].old
     THEN /\ kernel' = [kernel EXCEPT ![ProcOf[t]] = op[t].new]
          /\ Goto(t, "store") /\ UNCHANGED <<broken, mtx>>
     ELSE /\ broken' = broken \cup {ProcOf[t]}
          /\ mtx' \in IF op[t].ret = "block" THEN {mtx, NoThread} ELSE {mtx}
          /\ Goto(t, "dead") /\ UNCHANGED kernel
  /\ UNCHANGED <<pages, sizes, mapped, turn, op, scan, blocks>>

\* Mutant: the new size of the mapping is not recorded.
MutantNowMapped(t) == mapped
NowMapped(t) == [mapped EXCEPT ![ProcOf[t]] = size]

RemapStore(t) ==
  /\ At(t, "store")
  /\ mapped' = NowMapped(t)
  /\ Goto(t, op[t].ret)
  /\ op' = [op EXCEPT ![t].old = 0, ![t].new = 0, ![t].ret = "idle"]
  /\ UNCHANGED <<pages, sizes, kernel, broken, turn, mtx, scan, blocks>>

\* wait_for_return() remaps for every message it takes.  Without concurrency
\* the message also is what hands control over to thread t.
Receive(t) ==
  /\ IF Concurrent THEN Idle(t) /\ mapped[ProcOf[t]] < size
     ELSE t # turn /\ Idle(turn) /\ ProcOf[t] \notin broken
  /\ turn' = IF Concurrent THEN turn ELSE t
  /\ RemapIfNeeded(t, "idle")
  /\ UNCHANGED <<pages, sizes, maps, mtx, scan, blocks>>

-----------------------------------------------------------------------------
(* requestContinousFreePages(), findContinousFreePages() and                 *)
(* requestContinousFreePagesInternal().                                      *)

\* requestContinousFreePagesForMove() does not remap before it scans.
Acquire(t) ==
  /\ At(t, "lock") /\ mtx = NoThread
  /\ mtx' = t
  /\ scan' = StartOfScan
  /\ IF state[op[t].slot] = "pending" THEN RemapIfNeeded(t, "scan")
     ELSE Goto(t, "scan") /\ UNCHANGED op
  /\ UNCHANGED <<pages, sizes, maps, turn, blocks>>

\* The scan looks at element i / 8 of the bitset, that is at the pages of
\* ElementPages; i itself is one more than the first of them.
Element == scan.i \div Width
ElementPages == Element * Width .. Element * Width + Width - 1
\* Mutants: the scan skips elements, stays; a run is one too short.
MutantSkipElement == scan.i + 2 * Width
MutantSameElement == scan.i
NextElement == scan.i + Width
MutantEnough(t, c) == c + 1 >= op[t].count
Enough(t, c) == c >= op[t].count

ScanFull(t) ==
  /\ At(t, "scan") /\ Element < Elements
  /\ ElementPages \subseteq used
  /\ scan' = [scan EXCEPT !.i = NextElement, !.c = 0]
  /\ UNCHANGED <<pages, sizes, maps, turn, mtx, pc, op, blocks>>

ScanEmpty(t) ==
  /\ At(t, "scan") /\ Element < Elements
  /\ ElementPages \cap used = {}
  /\ scan' = [scan EXCEPT !.i = NextElement, !.c = @ + Width,
                          !.last = IF scan.c = 0 THEN scan.i ELSE @]
  /\ Goto(t, IF Enough(t, scan.c + Width) THEN "found" ELSE "scan")
  /\ UNCHANGED <<pages, sizes, maps, turn, mtx, op, blocks>>

ScanMixed(t) ==
  /\ At(t, "scan") /\ Element < Elements
  /\ ElementPages \cap used # {} /\ ~(ElementPages \subseteq used)
  /\ scan' = [scan EXCEPT !.j = 0]
  /\ Goto(t, "bits")
  /\ UNCHANGED <<pages, sizes, maps, turn, mtx, op, blocks>>

ScanUsedBit(t) ==
  /\ At(t, "bits") /\ scan.j < Width
  /\ Element * Width + scan.j \in used
  /\ scan' = [scan EXCEPT !.j = @ + 1, !.c = 0]
  /\ UNCHANGED <<pages, sizes, maps, turn, mtx, pc, op, blocks>>

ScanFreeBit(t) ==
  /\ At(t, "bits") /\ scan.j < Width
  /\ Element * Width + scan.j \notin used
  /\ scan' = [scan EXCEPT !.j = @ + 1, !.c = @ + 1,
                          !.last = IF scan.c = 0 THEN scan.i + scan.j ELSE @]
  /\ Goto(t, IF Enough(t, scan.c + 1) THEN "found" ELSE "bits")
  /\ UNCHANGED <<pages, sizes, maps, turn, mtx, op, blocks>>

ScanNext(t) ==
  /\ At(t, "bits") /\ scan.j = Width
  /\ scan' = [scan EXCEPT !.i = NextElement]
  /\ Goto(t, "scan")
  /\ UNCHANGED <<pages, sizes, maps, turn, mtx, op, blocks>>

\* An exception leaves the request: the guard releases the mutex, and an
\* allocation that was to be moved stays where it is.
Throw(t) ==
  /\ mtx' = NoThread
  /\ SetState(op[t].slot, IF state[op[t].slot] = "moving" THEN "live" ELSE "none")
  /\ scan' = StartOfScan
  /\ Return(t)

\* "Too much memory used!"
ScanFails(t) ==
  /\ At(t, "scan") /\ Element >= Elements
  /\ Throw(t)
  /\ UNCHANGED <<pages, sizes, maps, turn, alloc>>

\* Mutant: the end of the run is one too low.
MutantNewEnd(t) == scan.last + op[t].count - 1
NewEnd(t) == scan.last + op[t].count

LargeEnough(t) ==
  /\ At(t, "found") /\ size >= NewEnd(t)
  /\ RemapIfNeeded(t, "block")
  /\ UNCHANGED <<pages, sizes, maps, turn, mtx, scan, blocks>>

\* resizeSharedMemory(): shared_size changes before the file has that size.
Enlarge(t) ==
  /\ At(t, "found") /\ size < NewEnd(t)
  /\ size' = NewEnd(t)
  /\ Goto(t, "truncate")
  /\ UNCHANGED <<pages, fdsize, maps, turn, mtx, op, scan, blocks>>

\* ftruncate() and the remapping after it.  The minimum that
\* resizeSharedMemory() takes at its end commutes with the remapping.
Truncate(t) ==
  /\ At(t, "truncate")
  /\ fdsize' = size
  /\ first' = IF size < first THEN size ELSE first
  /\ RemapTo(t, "block")
  /\ UNCHANGED <<used, dirty, size, maps, turn, mtx, scan, blocks>>

TruncateThrows(t) ==
  /\ TruncateFails
  /\ At(t, "truncate")
  /\ Throw(t)
  /\ UNCHANGED <<pages, sizes, maps, turn, alloc>>

\* Mutant: pages are zeroed only if something above them was used.
MutantUsedBefore(t) == NewEnd(t) < first
UsedBefore(t) == scan.last < first
NewFirst(t) == Larger(first, NewEnd(t))

\* The pages are zeroed if they have been used before, their bits are set and
\* the mutex is released.
Block(t) ==
  /\ At(t, "block")
  /\ dirty' = IF UsedBefore(t) THEN dirty \ Pages(Found(t)) ELSE dirty
  /\ used' = used \cup Pages(Found(t))
  /\ first' = NewFirst(t)
  /\ mtx' = NoThread
  /\ IF state[op[t].slot] = "pending"
     THEN /\ alloc' = [alloc EXCEPT ![op[t].slot] = Found(t)]
          /\ SetState(op[t].slot, "live")
          /\ Return(t)
     ELSE /\ op' = [op EXCEPT ![t].target = Found(t)]
          /\ Goto(t, "copy")
          /\ UNCHANGED blocks
  /\ scan' = StartOfScan
  /\ UNCHANGED <<sizes, maps, turn>>

-----------------------------------------------------------------------------
\* The end of shm_mremap(): if the new pages start where the old ones did, they
\* are one allocation; else the old pages are copied, all of them, and freed.
Keep(t) ==
  /\ At(t, "copy") /\ op[t].target.pos = alloc[op[t].slot].pos
  /\ alloc' = [alloc EXCEPT ![op[t].slot] = op[t].target]
  /\ SetState(op[t].slot, "live")
  /\ Return(t)
  /\ UNCHANGED <<pages, sizes, maps, turn, mtx, scan>>

Copy(t) ==
  /\ At(t, "copy") /\ op[t].target.pos # alloc[op[t].slot].pos
  /\ LET count == alloc[op[t].slot].count
         copied(k) == op[t].target.pos + (k - alloc[op[t].slot].pos)
     IN dirty' = (dirty \ (op[t].target.pos .. op[t].target.pos + count - 1))
                 \cup {copied(k) : k \in dirty \cap Pages(alloc[op[t].slot])}
  /\ Goto(t, "free")
  /\ UNCHANGED <<used, first, sizes, maps, turn, mtx, op, scan, blocks>>

\* Mutant: the first page stays blocked.
MutantFreed(t) == Pages(alloc[op[t].slot]) \ {alloc[op[t].slot].pos}
Freed(t) == Pages(alloc[op[t].slot])

\* freePages().
Free(t) ==
  /\ At(t, "free") /\ mtx = NoThread
  /\ used' = used \ Freed(t)
  /\ IF state[op[t].slot] = "moving"
     THEN alloc' = [alloc EXCEPT ![op[t].slot] = op[t].target] /\ SetState(op[t].slot, "live")
     ELSE SetState(op[t].slot, "none") /\ UNCHANGED alloc
  /\ Return(t)
  /\ UNCHANGED <<first, dirty, sizes, maps, turn, mtx, scan>>

\* A process writes to an allocation.
Write(t, s) ==
  /\ Idle(t) /\ state[s] = "live" /\ EndOf(alloc[s]) <= kernel[ProcOf[t]]
  /\ ~(Pages(alloc[s]) \subseteq dirty)
  /\ dirty' = dirty \cup Pages(alloc[s])
  /\ UNCHANGED <<used, first, sizes, maps, turn, mtx, pc, op, scan, blocks>>

Step(t) ==
  \/ RemapMap(t) \/ RemapStore(t)
  \/ Acquire(t) \/ ScanFull(t) \/ ScanEmpty(t) \/ ScanMixed(t)
  \/ ScanUsedBit(t) \/ ScanFreeBit(t) \/ ScanNext(t) \/ ScanFails(t)
  \/ LargeEnough(t) \/ Enlarge(t) \/ Truncate(t) \/ TruncateThrows(t) \/ Block(t)
  \/ Keep(t) \/ Copy(t) \/ Free(t)

Use(t) ==
  \/ Receive(t)
  \/ \E s \in Slots : Munmap(t, s) \/ Write(t, s)
  \/ \E s \in Slots, n \in Counts : Mmap(t, s, n) \/ Mremap(t, s, n)

Next == \E t \in Threads : Step(t) \/ Use(t)
Spec == Init /\ [][Next]_vars

\* A thread that has started an operation goes on, and semop() wakes a thread
\* whenever the mutex becomes free.  Nothing is assumed of the callers.
Fairness == \A t \in Threads : WF_vars(Step(t))
FairSpec == Spec /\ Fairness

-----------------------------------------------------------------------------
Occupied == {s \in Slots : state[s] \in {"live", "moving", "leaving"}}
\* Thread t has left findContinousFreePages() and has not set the bits yet.
HasFound(t) == \/ pc[t] \in {"found", "truncate", "block"}
               \/ pc[t] \in {"remap", "store"} /\ op[t].ret = "block"
Moving(t) == pc[t] \in {"copy", "free"} /\ state[op[t].slot] = "moving"
Run(k, n) == k .. k + n - 1
Bitset == 0 .. Width * Elements - 1

\* The pages of the allocator itself (the object and its bitset) stay blocked
\* and are never handed out, whatever is allocated, moved and freed.
MetadataKept ==
  /\ Run(0, Reserved) \subseteq used
  /\ \A s \in Occupied : alloc[s].pos >= Reserved

\* A blocked page belongs to the allocator, to an allocation, or to the new
\* place of one that is being moved: no path, not even an exception, leaks one.
NoLeak ==
  used \subseteq Run(0, Reserved)
                 \cup (UNION {Pages(alloc[s]) : s \in Occupied})
                 \cup (UNION {Pages(op[t].target) : t \in {u \in Threads : Moving(u)}})

\* first_unused_page_index is above every page that was ever written to.
FreshPagesZero == \A k \in dirty : k < first

\* mmap() hands out pages full of zeros, also pages that were freed before.
ZeroedWhenGranted ==
  [][\A s \in Slots : state[s] = "pending" /\ state'[s] = "live"
                      => Pages(alloc'[s]) \cap dirty' = {}]_vars

\* Every page of an allocation is backed by the file of the segment.
GrantsBacked == \A s \in Occupied : EndOf(alloc[s]) <= fdsize

\* findContinousFreePages() only stops at a run of the requested number of free
\* pages of the bitset, and they stay free until they are blocked.  The run
\* starts one page before the page the function returns.
FoundRunFree ==
  \A t \in Threads : HasFound(t) => /\ Run(scan.last - 1, op[t].count) \cap used = {}
                                    /\ Run(scan.last - 1, op[t].count) \subseteq Bitset

\* The scan gives up only if there is no run of that many free pages.
ScanComplete ==
  \A t \in Threads : pc[t] = "scan" /\ Element >= Elements =>
    ~ \E k \in Bitset : Run(k, op[t].count) \cap used = {} /\ Run(k, op[t].count) \subseteq Bitset

\* With one thread running at a time, the one that runs can access every
\* allocation, whichever process made it: it has remapped since.
RunnerCanAccess ==
  \A t \in Threads : Idle(t) => \A s \in Occupied : EndOf(alloc[s]) <= kernel[ProcOf[t]]

\* mremap() of the segment never fails and never moves it (the code checks it
\* after every call and gives up).
RemapSucceeds == broken = {}

\* Two allocations never share a page: a request blocks the pages it returns,
\* and blocked pages are not returned.
NoDoubleAllocation ==
  \A r, s \in Occupied : r # s => Pages(alloc[r]) \cap Pages(alloc[s]) = {}

\* Every request for pages ends, with pages or with an exception.
RequestsEnd == \A t \in Threads : pc[t] = "lock" ~> pc[t] = "idle"
=============================================================================
