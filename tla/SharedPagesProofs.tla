-------------------------- MODULE SharedPagesProofs --------------------------
(***************************************************************************)
(* The page allocator for any bitset, number of threads and processes, and *)
(* sizes of requests.  Place(t) is where a thread is when the remapping it *)
(* may be in is over; the invariants are about that place, so that the     *)
(* steps of a remapping do not disturb them.                               *)
(***************************************************************************)
EXTENDS SharedPages, TLAPS

\* Where thread t is, or will be once the remapping it is in is over.
Place(t) == IF pc[t] \in {"remap", "store"} THEN op[t].ret ELSE pc[t]

\* What a remapping leaves alone in the variables of thread t.
SameRequest(t) ==
  op'[t].slot = op[t].slot /\ op'[t].count = op[t].count /\ op'[t].target = op[t].target

\* The local variables of the search for free pages.
ScanStates == [i : Nat, j : Nat, c : Nat, last : Nat]

\* A step of t leaves the other threads alone.
Frame(t) == \A u \in Threads : u # t => op'[u] = op[u] /\ pc'[u] = pc[u] /\ Place(u)' = Place(u)

\* A remapping is followed by the program's own code, the scan, or the marking.
PlaceInv == \A t \in Threads : pc[t] \in {"remap", "store"} => op[t].ret \in {"idle", "scan", "block"}
\* A thread that waits for its turn has no operation; a dead one has no process.
WaitInv == /\ ~Concurrent => \A t \in Threads : t # turn => pc[t] \in {"idle", "dead"}
           /\ \A t \in Threads : pc[t] = "dead" => ProcOf[t] \in broken

\* The places between the lock and the unlock of the allocator.
Critical(t) == Place(t) \in {"scan", "bits", "found", "truncate", "block"}
\* The same, and the wait for the lock.
Requesting(t) == Critical(t) \/ Place(t) = "lock"

\* The mutex protects the scan and what follows until the bits are set.
LockInv == \A t \in Threads : Critical(t) => mtx = t

\* A thread in an operation works on an allocation of its own, which is in the
\* state that fits the place; an enlarged allocation asks for at least its size.
SlotOf(t) ==
  /\ Place(t) = "idle" => op[t].slot = NoSlot
  /\ Place(t) \notin {"idle", "dead"} => op[t].slot \in Slots
  /\ op[t].slot \in Slots => state[op[t].slot] \in {"pending", "moving", "leaving"}
  /\ Requesting(t) => /\ state[op[t].slot] # "leaving" /\ op[t].count > 0
                      /\ state[op[t].slot] = "moving" => op[t].count >= alloc[op[t].slot].count
  /\ Place(t) = "copy" => state[op[t].slot] = "moving"
  /\ Place(t) = "free" => state[op[t].slot] # "pending"
  /\ Place(t) \in {"copy", "free"} /\ state[op[t].slot] = "moving" =>
       op[t].target.count >= alloc[op[t].slot].count
Apart == \A t, u \in Threads : t # u /\ op[t].slot = op[u].slot => op[t].slot = NoSlot
SlotInv == Apart /\ \A t \in Threads : SlotOf(t)

\* No run of n free pages ends at or before page p.
NoRun(n, p) == \A k \in Nat : k + n <= p => \E x \in Nat : k <= x /\ x < k + n /\ x \in used
\* The c pages before page p are free, and the one before them is not.
FreeBefore(c, p) ==
  /\ c <= p
  /\ \A x \in Nat : p - c <= x /\ x < p => x \notin used
  /\ c < p => p - c - 1 \in used
\* The scan has looked at the pages below p: the element of the bitset that
\* comes next, or is under way, is the k-th, and the scan has not found n pages.
Scanned(k, p, n) ==
  /\ scan.i = k * Width + 1 /\ NoRun(n, p) /\ FreeBefore(scan.c, p) /\ scan.c < n
  /\ scan.c > 0 => scan.last = p - scan.c + 1

\* Where the scan is between two elements of the bitset, and within one.
ScanOf(t) ==
  /\ Place(t) = "scan" => \E k \in 0 .. Elements : Scanned(k, k * Width, op[t].count)
  /\ Place(t) = "bits" => \E k \in 0 .. Elements - 1 :
       scan.j <= Width /\ Scanned(k, k * Width + scan.j, op[t].count)
ScanInv == \A t \in Threads : ScanOf(t)

\* The pages found are free; the ones blocked and returned start one later.
FoundOf(t) ==
  Place(t) \in {"found", "truncate", "block"} =>
    /\ scan.last > 0 /\ scan.last - 1 + op[t].count <= Width * Elements
    /\ \A x \in Nat : scan.last - 1 <= x /\ x < scan.last - 1 + op[t].count => x \notin used
FoundInv == \A t \in Threads : FoundOf(t)

\* The blocks that are in use, or about to be.
Held(b) == \/ \E s \in Occupied : b = alloc[s]
           \/ \E t \in Threads : Moving(t) /\ b = op[t].target
\* The pages of the metadata are marked as used.
Kept == \A x \in Nat : x < Reserved => x \in used
\* A page marked as used belongs to the metadata or to a block.
Owned == \A x \in used : x < Reserved \/ \E b \in Blocks : Held(b) /\ x \in Pages(b)
\* The blocks do not touch the metadata.
Above == \A b \in Blocks : Held(b) => b.pos >= Reserved

\* Pages at first_unused_page_index and above have never been used.
FirstInv ==
  /\ first <= size /\ \A x \in dirty : x < first
  /\ \A b \in Blocks : Held(b) => EndOf(b) <= first
  /\ \A t \in Threads : Place(t) \in {"truncate", "block"} => NewEnd(t) <= size

\* The file is as large as the segment, but for the thread that enlarges it.
BackedInv ==
  /\ fdsize <= size /\ (fdsize < size => \E t \in Threads : pc[t] = "truncate")
  /\ \A b \in Blocks : Held(b) => EndOf(b) <= fdsize

\* One thread runs at a time, and has mapped all of the segment unless it is on
\* its way to do so; the others may have mapped less.
TurnInv ==
  /\ broken = {} /\ \A t \in Threads : t # turn => pc[t] = "idle"
  /\ \A p \in Procs : mapped[p] <= size
  /\ \A p \in Procs : ~(pc[turn] = "store" /\ p = ProcOf[turn]) => kernel[p] = mapped[p]
  /\ pc[turn] \notin {"remap", "store", "truncate"} => mapped[ProcOf[turn]] = size
  /\ pc[turn] \in {"remap", "store"} => op[turn].new = size
  /\ pc[turn] = "remap" => op[turn].old = mapped[ProcOf[turn]]
  /\ pc[turn] = "store" => kernel[ProcOf[turn]] = size
-----------------------------------------------------------------------------
(* The kinds of steps, as the places, the mutex and the allocations see them. *)

\* An operation on an allocation starts.
Start(t) ==
  /\ Place(t) = "idle" /\ Frame(t) /\ UNCHANGED <<used, alloc, mtx, scan>>
  /\ \E s \in Slots, n \in Nat, v \in States :
       /\ op'[t].slot = s /\ op'[t].count = n /\ state' = [state EXCEPT ![s] = v]
       /\ \/ state[s] = "none" /\ v = "pending" /\ Place(t)' = "lock" /\ n > 0
          \/ state[s] = "live" /\ v = "moving" /\ Place(t)' = "lock" /\ n > 0 /\ n >= alloc[s].count
          \/ state[s] = "live" /\ v = "leaving" /\ Place(t)' = "free"

\* Thread t goes on.
Go(t) ==
  /\ SameRequest(t) /\ Frame(t) /\ UNCHANGED <<used, alloc, state>>
  /\ Critical(t) \/ Place(t) = "lock" \/ UNCHANGED scan
  /\ \/ Place(t)' \in {Place(t), "dead"} /\ UNCHANGED mtx
     \/ Place(t) = "block" /\ Place(t)' = "dead" /\ mtx' = NoThread
     \/ Place(t) = "lock" /\ Place(t)' = "scan" /\ mtx = NoThread /\ mtx' = t
     \/ /\ Place(t) \in {"scan", "bits"} /\ Place(t)' \in {"scan", "bits", "found"} /\ UNCHANGED mtx
     \/ /\ Place(t) \in {"found", "truncate"} /\ Place(t)' \in {"truncate", "block"} /\ UNCHANGED mtx
     \/ Place(t) = "copy" /\ Place(t)' = "free" /\ UNCHANGED mtx

\* Thread t gives up its request.
GiveUp(t) ==
  /\ Critical(t) /\ Place(t)' = "idle" /\ op'[t].slot = NoSlot /\ Frame(t)
  /\ mtx' = NoThread /\ UNCHANGED <<used, alloc>>
  /\ state' = [state EXCEPT ![op[t].slot] =
                 IF state[op[t].slot] = "moving" THEN "live" ELSE "none"]

\* The request of thread t is granted, for a new allocation or for one that moves.
Grant(t) ==
  /\ Place(t) = "block" /\ state[op[t].slot] = "pending" /\ Place(t)' = "idle"
  /\ op'[t].slot = NoSlot /\ Frame(t) /\ mtx' = NoThread /\ used' = used \cup Pages(Found(t))
  /\ alloc' = [alloc EXCEPT ![op[t].slot] = Found(t)]
  /\ state' = [state EXCEPT ![op[t].slot] = "live"]

\* The request of a moving allocation is granted: its content is copied next.
GrantMove(t) ==
  /\ Place(t) = "block" /\ state[op[t].slot] # "pending" /\ Place(t)' = "copy"
  /\ op'[t].slot = op[t].slot /\ op'[t].target = Found(t) /\ Frame(t)
  /\ mtx' = NoThread /\ used' = used \cup Pages(Found(t)) /\ UNCHANGED <<alloc, state>>

\* Thread t ends its operation: the allocation is at its new place, or is gone.
Finish(t) ==
  /\ Place(t)' = "idle" /\ op'[t].slot = NoSlot /\ Frame(t) /\ UNCHANGED <<mtx, scan>>
  /\ \/ /\ Place(t) = "copy" /\ used' = used /\ op[t].target.pos = alloc[op[t].slot].pos
        /\ alloc' = [alloc EXCEPT ![op[t].slot] = op[t].target]
        /\ state' = [state EXCEPT ![op[t].slot] = "live"]
     \/ /\ Place(t) = "free" /\ state[op[t].slot] = "moving" /\ mtx = NoThread
        /\ used' = used \ Pages(alloc[op[t].slot])
        /\ alloc' = [alloc EXCEPT ![op[t].slot] = op[t].target]
        /\ state' = [state EXCEPT ![op[t].slot] = "live"]
     \/ /\ Place(t) = "free" /\ state[op[t].slot] # "moving" /\ mtx = NoThread
        /\ used' = used \ Pages(alloc[op[t].slot])
        /\ state' = [state EXCEPT ![op[t].slot] = "none"] /\ UNCHANGED alloc
-----------------------------------------------------------------------------
\* A thread without operation.
LEMMA NoLocalsType == NoLocals \in Locals /\ NoBlock \in Blocks
BY Zenon DEF NoLocals, Operation, Locals, NoBlock, Blocks, PCs

\* The start of an operation.
LEMMA OperationType ==
  ASSUME NEW s \in Slots, NEW n \in Nat
  PROVE  Operation(s, n) \in Locals
BY NoLocalsType, Zenon DEF Operation, Locals, PCs

\* What RemapIfNeeded() and RemapTo() do to thread t.
LEMMA RemapView ==
  ASSUME TypeOK, NEW t \in Threads, NEW l \in {"idle", "scan", "block"},
         RemapIfNeeded(t, l) \/ RemapTo(t, l)
  PROVE  /\ op' \in [Threads -> Locals] /\ pc' \in [Threads -> PCs]
         /\ Place(t)' = l /\ SameRequest(t)
         /\ pc'[t] \in {"remap", "store"} => op'[t].ret = l
         /\ pc'[t] \in {l, "remap"}
         /\ Frame(t)
<1> USE PagesAssumption DEF TypeOK, Goto, SameRequest, Frame
<1>1. CASE RemapTo(t, l)
  <2>1. pc' = [pc EXCEPT ![t] = "remap"] BY <1>1, Zenon DEF RemapTo
  <2>2. op' = [op EXCEPT ![t] = [op[t] EXCEPT !.old = mapped[ProcOf[t]], !.new = size, !.ret = l]]
    BY <1>1, Zenon DEF RemapTo
  <2>3. [op[t] EXCEPT !.old = mapped[ProcOf[t]], !.new = size, !.ret = l] \in Locals
    <3>1. mapped[ProcOf[t]] \in Nat /\ size \in Nat /\ op[t] \in Locals BY Zenon
    <3>2. l \in PCs BY Zenon DEF PCs
    <3> QED BY <3>1, <3>2, Zenon DEF Locals
  <2>4. op'[t] = [op[t] EXCEPT !.old = mapped[ProcOf[t]], !.new = size, !.ret = l] BY <2>2, Zenon
  <2>5. SameRequest(t) /\ op'[t].ret = l BY <2>4 DEF Locals
  <2> QED BY <2>1, <2>2, <2>3, <2>5, Zenon DEF Place, PCs
<1>2. CASE RemapIfNeeded(t, l) /\ ~RemapTo(t, l)
  BY <1>2, ZenonT(60) DEF RemapIfNeeded, Place, PCs
<1> QED BY <1>1, <1>2, Zenon

\* Thread t returns from its operation.
LEMMA ReturnView ==
  ASSUME TypeOK, NEW t \in Threads, Return(t)
  PROVE  /\ op' \in [Threads -> Locals] /\ pc' \in [Threads -> PCs]
         /\ Place(t)' = "idle" /\ pc'[t] = "idle" /\ op'[t].slot = NoSlot
         /\ Frame(t)
BY NoLocalsType, Zenon DEF Return, Goto, Place, Frame, NoLocals, Operation, TypeOK, PCs

\* Thread t goes on at l, with the same variables.
LEMMA GotoView ==
  ASSUME TypeOK, NEW t \in Threads, NEW l \in PCs \ {"remap", "store"}, Goto(t, l), UNCHANGED op
  PROVE  /\ op' \in [Threads -> Locals] /\ pc' \in [Threads -> PCs]
         /\ Place(t)' = l /\ pc'[t] = l /\ SameRequest(t)
         /\ Frame(t)
BY Zenon DEF Goto, Place, Frame, SameRequest, TypeOK, PCs

\* Thread t starts an operation on s.
LEMMA StartView ==
  ASSUME TypeOK, NEW t \in Threads, NEW l \in {"lock", "free"}, NEW s \in Slots, NEW n \in Nat,
         Goto(t, l), op' = [op EXCEPT ![t] = Operation(s, n)]
  PROVE  /\ op' \in [Threads -> Locals] /\ pc' \in [Threads -> PCs]
         /\ Place(t)' = l /\ pc'[t] = l /\ op'[t].slot = s /\ op'[t].count = n
         /\ Frame(t)
<1>1. Operation(s, n) \in Locals BY OperationType, Zenon
<1>2. Operation(s, n).slot = s /\ Operation(s, n).count = n BY Zenon DEF Operation
<1> HIDE DEF Operation
<1> QED BY <1>1, <1>2, Zenon DEF Goto, Place, Frame, TypeOK, PCs

\* mremap() does not change the place of a thread that survives it.
LEMMA MapView ==
  ASSUME TypeOK, NEW t \in Threads, RemapMap(t)
  PROVE  /\ op' = op /\ pc' \in [Threads -> PCs]
         /\ pc[t] = "remap" /\ pc'[t] \in {"store", "dead"}
         /\ Place(t)' \in {Place(t), "dead"} /\ SameRequest(t)
         /\ Frame(t)
<1>1. CASE kernel[ProcOf[t]] = op[t].old
  BY <1>1, Zenon DEF RemapMap, At, Goto, Place, Frame, SameRequest, TypeOK, PCs
<1>2. CASE kernel[ProcOf[t]] # op[t].old
  BY <1>2, ZenonT(60) DEF RemapMap, At, Goto, Place, Frame, SameRequest, TypeOK, PCs
<1> QED BY <1>1, <1>2, Zenon

\* The second half of a remapping, which stores the new size, ends it.
LEMMA StoreView ==
  ASSUME TypeOK, PlaceInv, NEW t \in Threads, RemapStore(t)
  PROVE  /\ op' \in [Threads -> Locals] /\ pc' \in [Threads -> PCs]
         /\ pc[t] = "store" /\ pc'[t] = op[t].ret
         /\ Place(t)' = Place(t) /\ SameRequest(t)
         /\ Frame(t)
<1>1. op' = [op EXCEPT ![t] = [op[t] EXCEPT !.old = 0, !.new = 0, !.ret = "idle"]]
  BY Zenon DEF RemapStore
<1>2. [op[t] EXCEPT !.old = 0, !.new = 0, !.ret = "idle"] \in Locals
  <2>1. op[t] \in Locals /\ "idle" \in PCs BY Zenon DEF TypeOK, PCs
  <2> QED BY <2>1, Zenon DEF Locals
<1>3. SameRequest(t) BY <1>1, Zenon DEF SameRequest, TypeOK, Locals
<1>4. op[t].ret \in {"idle", "scan", "block"} /\ pc[t] = "store" BY Zenon DEF PlaceInv, RemapStore, At
<1>5. pc' = [pc EXCEPT ![t] = op[t].ret] BY Zenon DEF RemapStore, Goto
<1>6. op' \in [Threads -> Locals] BY <1>1, <1>2, Zenon DEF TypeOK
<1>7. \A u \in Threads : u # t => op'[u] = op[u] /\ pc'[u] = pc[u] BY <1>1, <1>5, Zenon DEF TypeOK
<1>8. pc'[t] = op[t].ret /\ pc' \in [Threads -> PCs] BY <1>4, <1>5, Zenon DEF TypeOK, PCs
<1> QED BY <1>3, <1>4, <1>6, <1>7, <1>8, Zenon DEF Place, Frame

\* shm_mremap() has its new pages.
LEMMA MoveView ==
  ASSUME TypeOK, NEW t \in Threads, Goto(t, "copy"), op' = [op EXCEPT ![t].target = Found(t)]
  PROVE  /\ op' \in [Threads -> Locals] /\ pc' \in [Threads -> PCs]
         /\ Place(t)' = "copy" /\ pc'[t] = "copy"
         /\ op'[t].slot = op[t].slot /\ op'[t].count = op[t].count /\ op'[t].target = Found(t)
         /\ Frame(t)
<1>1. Found(t) \in Blocks BY Zenon DEF Found, TypeOK, Locals, Blocks
<1> DEFINE o == [op[t] EXCEPT !.target = Found(t)]
<1>2. o \in Locals /\ o.slot = op[t].slot /\ o.count = op[t].count /\ o.target = Found(t)
  <2>1. op[t] \in Locals BY Zenon DEF TypeOK
  <2> HIDE DEF Found
  <2> QED BY <1>1, <2>1, Zenon DEF Locals
<1>3. op' = [op EXCEPT ![t] = o] BY Zenon
<1> HIDE DEF o
<1> QED BY <1>2, <1>3 DEF Goto, Place, Frame, TypeOK, PCs

\* What the steps of the scan do to its variables.
LEMMA ScanView ==
  ASSUME TypeOK, NEW t \in Threads
  PROVE  /\ ScanFull(t) => scan' = [scan EXCEPT !.i = scan.i + Width, !.c = 0] /\ scan' \in ScanStates
         /\ ScanEmpty(t) => /\ scan' = [i |-> scan.i + Width, j |-> scan.j, c |-> scan.c + Width,
                                        last |-> IF scan.c = 0 THEN scan.i ELSE scan.last]
                            /\ scan' \in ScanStates
         /\ ScanUsedBit(t) => scan' = [scan EXCEPT !.j = scan.j + 1, !.c = 0] /\ scan' \in ScanStates
         /\ ScanFreeBit(t) => /\ scan' = [i |-> scan.i, j |-> scan.j + 1, c |-> scan.c + 1,
                                          last |-> IF scan.c = 0 THEN scan.i + scan.j ELSE scan.last]
                              /\ scan' \in ScanStates
<1>1. scan \in ScanStates BY Zenon DEF TypeOK, ScanStates
<1>2. scan.i + Width \in Nat /\ scan.j + 1 \in Nat /\ scan.c + 1 \in Nat /\ scan.c + Width \in Nat
      /\ scan.i + scan.j \in Nat
  BY <1>1, PagesAssumption DEF ScanStates
<1>3. ASSUME ScanFull(t) PROVE scan' = [scan EXCEPT !.i = scan.i + Width, !.c = 0] /\ scan' \in ScanStates
  BY <1>1, <1>2, <1>3, Zenon DEF ScanFull, NextElement, ScanStates
<1>4. ASSUME ScanEmpty(t)
      PROVE  /\ scan' = [i |-> scan.i + Width, j |-> scan.j, c |-> scan.c + Width,
                         last |-> IF scan.c = 0 THEN scan.i ELSE scan.last]
             /\ scan' \in ScanStates
  BY <1>1, <1>2, <1>4, Zenon DEF ScanEmpty, NextElement, ScanStates
<1>5. ASSUME ScanUsedBit(t) PROVE scan' = [scan EXCEPT !.j = scan.j + 1, !.c = 0] /\ scan' \in ScanStates
  BY <1>1, <1>2, <1>5, Zenon DEF ScanUsedBit, ScanStates
<1>6. ASSUME ScanFreeBit(t)
      PROVE  /\ scan' = [i |-> scan.i, j |-> scan.j + 1, c |-> scan.c + 1,
                         last |-> IF scan.c = 0 THEN scan.i + scan.j ELSE scan.last]
             /\ scan' \in ScanStates
  BY <1>1, <1>2, <1>6, ZenonT(60) DEF ScanFreeBit, ScanStates
<1> QED BY <1>3, <1>4, <1>5, <1>6, Zenon
-----------------------------------------------------------------------------
\* Every step keeps the types.
LEMMA TypeStep ==
  ASSUME TypeOK, PlaceInv, SlotInv, NEW t \in Threads, Step(t) \/ Use(t)
  PROVE  TypeOK'
<1> USE PagesAssumption
<1> DEFINE slot == op[t].slot
<1>0. /\ op[t] \in Locals /\ slot \in Slots \cup {NoSlot} /\ op[t].count \in Nat
      /\ op[t].target \in Blocks /\ op[t].new \in Nat /\ Found(t) \in Blocks /\ NewEnd(t) \in Nat
  BY DEF TypeOK, Locals, Blocks, Found, NewEnd
<1>1. CASE RemapMap(t)
  <2>1. pc' \in [Threads -> PCs] BY <1>1, MapView, Zenon
  <2> QED BY <1>0, <1>1, <2>1 DEF RemapMap, TypeOK, pages, sizes, blocks
<1>2. CASE RemapStore(t)
  <2>1. pc' \in [Threads -> PCs] /\ op' \in [Threads -> Locals] BY <1>2, StoreView, Zenon
  <2> QED BY <1>2, <2>1, Zenon DEF RemapStore, NowMapped, TypeOK, pages, sizes, blocks
<1>3. CASE Acquire(t)
  <2>1. pc' \in [Threads -> PCs] /\ op' \in [Threads -> Locals]
    BY <1>3, RemapView, GotoView, Zenon DEF Acquire, PCs
  <2> QED BY <1>3, <2>1, Zenon DEF Acquire, StartOfScan, TypeOK, pages, sizes, maps, blocks
<1>4. CASE ScanFull(t) \/ ScanUsedBit(t)
  <2>1. scan' \in ScanStates BY <1>4, ScanView, Zenon
  <2> QED BY <1>4, <2>1, ZenonT(60) DEF ScanFull, ScanUsedBit, ScanStates, TypeOK, pages, sizes, maps, blocks
<1>5. CASE ScanEmpty(t)
  <2>1. pc' \in [Threads -> PCs] BY <1>5, Zenon DEF ScanEmpty, Goto, TypeOK, PCs
  <2>2. scan' \in ScanStates BY <1>5, ScanView, Zenon
  <2> QED BY <1>5, <2>1, <2>2, Zenon DEF ScanEmpty, ScanStates, TypeOK, pages, sizes, maps, blocks
<1>6. CASE ScanMixed(t)
  <2>1. pc' \in [Threads -> PCs] BY <1>6, Zenon DEF ScanMixed, Goto, TypeOK, PCs
  <2> QED BY <1>6, <2>1, Zenon DEF ScanMixed, TypeOK, pages, sizes, maps, blocks
<1>7. CASE ScanFreeBit(t)
  <2>1. pc' \in [Threads -> PCs] BY <1>7, Zenon DEF ScanFreeBit, Goto, TypeOK, PCs
  <2>2. scan' \in ScanStates BY <1>7, ScanView, Zenon
  <2> QED BY <1>7, <2>1, <2>2, Zenon DEF ScanFreeBit, ScanStates, TypeOK, pages, sizes, maps, blocks
<1>8. CASE ScanNext(t)
  <2>1. pc' \in [Threads -> PCs] BY <1>8, Zenon DEF ScanNext, Goto, TypeOK, PCs
  <2> QED BY <1>8, <2>1 DEF ScanNext, NextElement, TypeOK, pages, sizes, maps, blocks
<1>9. CASE ScanFails(t) \/ TruncateThrows(t)
  <2>1. pc' \in [Threads -> PCs] /\ op' \in [Threads -> Locals]
    BY <1>9, ReturnView, Zenon DEF ScanFails, TruncateThrows, Throw
  <2>2. state' \in [Slots -> States]
    BY <1>9, Zenon DEF ScanFails, TruncateThrows, Throw, SetState, States, TypeOK
  <2>3. Throw(t) /\ UNCHANGED <<pages, sizes, maps, turn, alloc>>
    BY <1>9, Zenon DEF ScanFails, TruncateThrows
  <2> QED BY <2>1, <2>2, <2>3, Zenon DEF Throw, StartOfScan, TypeOK, pages, sizes, maps
<1>10. CASE LargeEnough(t)
  <2>1. pc' \in [Threads -> PCs] /\ op' \in [Threads -> Locals]
    BY <1>10, RemapView, Zenon DEF LargeEnough
  <2> QED BY <1>10, <2>1, Zenon DEF LargeEnough, TypeOK, pages, sizes, maps, blocks
<1>11. CASE Enlarge(t)
  <2>1. pc' \in [Threads -> PCs] BY <1>11, Zenon DEF Enlarge, Goto, TypeOK, PCs
  <2> QED BY <1>0, <1>11, <2>1, Zenon DEF Enlarge, TypeOK, pages, maps, blocks
<1>12. CASE Truncate(t)
  <2>1. pc' \in [Threads -> PCs] /\ op' \in [Threads -> Locals]
    BY <1>12, RemapView, Zenon DEF Truncate
  <2> QED BY <1>12, <2>1, Zenon DEF Truncate, TypeOK, maps, blocks
<1>13. CASE Block(t)
  <2>1. pc' \in [Threads -> PCs] /\ op' \in [Threads -> Locals]
    BY <1>13, ReturnView, MoveView, Zenon DEF Block
  <2>2. alloc' \in [Slots -> Blocks] /\ state' \in [Slots -> States]
    BY <1>0, <1>13 DEF Block, blocks, SetState, States, TypeOK
  <2>3. Pages(Found(t)) \subseteq Nat BY <1>0 DEF Pages, EndOf, Blocks
  <2>4. used' \subseteq Nat /\ dirty' \subseteq Nat BY <1>13, <2>3, Zenon DEF Block, TypeOK
  <2>5. first' \in Nat BY <1>0, <1>13, Zenon DEF Block, NewFirst, Larger, TypeOK
  <2> QED BY <1>13, <2>1, <2>2, <2>4, <2>5, Zenon DEF Block, StartOfScan, TypeOK, sizes, maps
<1>14. CASE Keep(t)
  <2>1. pc' \in [Threads -> PCs] /\ op' \in [Threads -> Locals] BY <1>14, ReturnView, Zenon DEF Keep
  <2>2. alloc' \in [Slots -> Blocks] /\ state' \in [Slots -> States]
    BY <1>0, <1>14, Zenon DEF Keep, SetState, States, TypeOK
  <2> QED BY <1>14, <2>1, <2>2, Zenon DEF Keep, TypeOK, pages, sizes, maps
<1>15. CASE Copy(t)
  <2>1. pc' \in [Threads -> PCs] BY <1>15, Zenon DEF Copy, Goto, TypeOK, PCs
  <2>2. dirty' \subseteq Nat
    <3> DEFINE b == alloc[slot]  c == op[t].target.pos
               new == {c + (k - b.pos) : k \in dirty \cap Pages(b)}
    <3>1. dirty' = (dirty \ (c .. c + b.count - 1)) \cup new BY <1>15, Zenon DEF Copy
    <3>2. new \subseteq Nat
      <4> SUFFICES ASSUME NEW k \in dirty \cap Pages(b) PROVE c + (k - b.pos) \in Nat BY Zenon
      <4>1. slot \in Slots BY <1>15, Zenon DEF Copy, At, Place, SlotInv, SlotOf
      <4>2. b \in Blocks /\ k \in Nat /\ c \in Nat BY <1>0, <4>1, Zenon DEF TypeOK, Blocks
      <4>3. k \in b.pos .. EndOf(b) - 1 BY Zenon DEF Pages
      <4> HIDE DEF b, c
      <4> QED BY <4>2, <4>3 DEF EndOf, Blocks
    <3> QED BY <3>1, <3>2, Zenon DEF TypeOK
  <2> QED BY <1>15, <2>1, <2>2, Zenon DEF Copy, TypeOK, sizes, maps, blocks
<1>16. CASE Free(t)
  <2>1. pc' \in [Threads -> PCs] /\ op' \in [Threads -> Locals] BY <1>16, ReturnView, Zenon DEF Free
  <2>2. alloc' \in [Slots -> Blocks] /\ state' \in [Slots -> States]
    BY <1>0, <1>16, ZenonT(60) DEF Free, SetState, States, TypeOK
  <2>3. used' \subseteq Nat BY <1>16, Zenon DEF Free, TypeOK
  <2> QED BY <1>16, <2>1, <2>2, <2>3, Zenon DEF Free, TypeOK, sizes, maps
<1>17. CASE Receive(t)
  <2>1. pc' \in [Threads -> PCs] /\ op' \in [Threads -> Locals] BY <1>17, RemapView, Zenon DEF Receive
  <2> QED BY <1>17, <2>1, Zenon DEF Receive, TypeOK, pages, sizes, maps, blocks
<1>18. ASSUME NEW s \in Slots, Munmap(t, s) PROVE TypeOK'
  <2>1. pc' \in [Threads -> PCs] /\ op' \in [Threads -> Locals] BY <1>18, StartView, Zenon DEF Munmap
  <2>2. state' \in [Slots -> States] BY <1>18, Zenon DEF Munmap, SetState, States, TypeOK
  <2> QED BY <1>18, <2>1, <2>2, Zenon DEF Munmap, TypeOK, pages, sizes, maps
<1>19. ASSUME NEW s \in Slots, Write(t, s) PROVE TypeOK'
  <2>1. Pages(alloc[s]) \subseteq Nat BY DEF Pages, EndOf, Blocks, TypeOK
  <2> QED BY <1>19, <2>1, Zenon DEF Write, TypeOK, sizes, maps, blocks
<1>20. ASSUME NEW s \in Slots, NEW n \in Counts, Mmap(t, s, n) \/ Mremap(t, s, n) PROVE TypeOK'
  <2>1. pc' \in [Threads -> PCs] /\ op' \in [Threads -> Locals]
    BY <1>20, StartView, Zenon DEF Mmap, Mremap
  <2>2. state' \in [Slots -> States] BY <1>20, ZenonT(60) DEF Mmap, Mremap, SetState, States, TypeOK
  <2> QED BY <1>20, <2>1, <2>2, Zenon DEF Mmap, Mremap, TypeOK, pages, sizes, maps
<1> QED BY <1>1, <1>2, <1>3, <1>4, <1>5, <1>6, <1>7, <1>8, <1>9, <1>10, <1>11, <1>12, <1>13,
           <1>14, <1>15, <1>16, <1>17, <1>18, <1>19, <1>20, Zenon DEF Step, Use

\* Shrinking is left out: ShrinkingMove.cfg shows what it does.
OnlyGrowing == ~MayShrink

\* Every step of a thread is of one of the kinds.
LEMMA Kinds ==
  ASSUME OnlyGrowing, TypeOK, PlaceInv, WaitInv, NEW t \in Threads, Step(t) \/ Use(t)
  PROVE  Start(t) \/ Go(t) \/ GiveUp(t) \/ Grant(t) \/ GrantMove(t) \/ Finish(t)
<1> USE PagesAssumption
<1>1. CASE RemapMap(t)
  <2>1. /\ mtx' = mtx \/ (op[t].ret = "block" /\ pc'[t] = "dead" /\ mtx' = NoThread)
        /\ UNCHANGED <<used, alloc, state, scan>>
    <3>1. CASE kernel[ProcOf[t]] = op[t].old BY <1>1, <3>1, Zenon DEF RemapMap, pages, blocks
    <3>2. CASE kernel[ProcOf[t]] # op[t].old
      BY <1>1, <3>2, Zenon DEF RemapMap, Goto, TypeOK, pages, blocks
    <3> QED BY <3>1, <3>2, Zenon
  <2>2. CASE mtx' = mtx BY <1>1, <2>1, <2>2, MapView, Zenon DEF Go
  <2>3. CASE op[t].ret = "block" /\ pc'[t] = "dead" /\ mtx' = NoThread
    <3>1. Place(t) = "block" /\ Place(t)' = "dead" BY <1>1, <2>3, MapView, Zenon DEF Place
    <3> QED BY <1>1, <2>1, <2>3, <3>1, MapView, Zenon DEF Go
  <2> QED BY <2>1, <2>2, <2>3, Zenon
<1>2. CASE RemapStore(t)
  BY <1>2, StoreView, Zenon DEF RemapStore, Go, pages, blocks
<1>3. CASE Acquire(t)
  <2>1. Place(t) = "lock" BY <1>3, Zenon DEF Acquire, At, Place
  <2>2. Place(t)' = "scan" /\ SameRequest(t) /\ Frame(t)
    BY <1>3, RemapView, GotoView, Zenon DEF Acquire, PCs
  <2> QED BY <1>3, <2>1, <2>2, Zenon DEF Acquire, Go, pages, blocks
<1>4. CASE ScanFull(t) \/ ScanUsedBit(t)
  <2>1. UNCHANGED <<pc, op, pages, blocks, mtx>> BY <1>4, Zenon DEF ScanFull, ScanUsedBit
  <2>2. Critical(t) BY <1>4, Zenon DEF ScanFull, ScanUsedBit, At, Critical, Place
  <2> QED BY <2>1, <2>2, Zenon DEF Go, SameRequest, Frame, Place, pages, blocks
<1>5. CASE ScanEmpty(t)
  <2>1. Place(t) = "scan" /\ UNCHANGED <<op, mtx, pages, blocks>> BY <1>5, Zenon DEF ScanEmpty, At, Place
  <2>2. PICK l \in {"found", "scan"} : Goto(t, l) BY <1>5, Zenon DEF ScanEmpty
  <2>3. Place(t)' = l /\ SameRequest(t) /\ Frame(t) BY <2>1, <2>2, GotoView, Zenon DEF PCs
  <2> QED BY <2>1, <2>3, Zenon DEF Go, Critical, pages, blocks
<1>6. CASE ScanMixed(t)
  <2>1. Place(t) = "scan" /\ UNCHANGED <<op, mtx, pages, blocks>> BY <1>6, Zenon DEF ScanMixed, At, Place
  <2>2. Place(t)' = "bits" /\ SameRequest(t) /\ Frame(t) BY <1>6, <2>1, GotoView, Zenon DEF ScanMixed, PCs
  <2> QED BY <2>1, <2>2, Zenon DEF Go, Critical, pages, blocks
<1>7. CASE ScanFreeBit(t)
  <2>1. Place(t) = "bits" /\ UNCHANGED <<op, mtx, pages, blocks>> BY <1>7, Zenon DEF ScanFreeBit, At, Place
  <2>2. PICK l \in {"found", "bits"} : Goto(t, l) BY <1>7, Zenon DEF ScanFreeBit
  <2>3. Place(t)' = l /\ SameRequest(t) /\ Frame(t) BY <2>1, <2>2, GotoView, Zenon DEF PCs
  <2> QED BY <2>1, <2>3, Zenon DEF Go, Critical, pages, blocks
<1>8. CASE ScanNext(t)
  <2>1. Place(t) = "bits" /\ UNCHANGED <<op, mtx, pages, blocks>> BY <1>8, Zenon DEF ScanNext, At, Place
  <2>2. Place(t)' = "scan" /\ SameRequest(t) /\ Frame(t) BY <1>8, <2>1, GotoView, Zenon DEF ScanNext, PCs
  <2> QED BY <2>1, <2>2, Zenon DEF Go, Critical, pages, blocks
<1>9. CASE ScanFails(t) \/ TruncateThrows(t)
  <2>1. Critical(t) BY <1>9, Zenon DEF ScanFails, TruncateThrows, At, Critical, Place
  <2>2. Throw(t) /\ UNCHANGED <<pages, alloc>> BY <1>9, Zenon DEF ScanFails, TruncateThrows
  <2>3. Place(t)' = "idle" /\ op'[t].slot = NoSlot /\ Frame(t) BY <2>2, ReturnView, Zenon DEF Throw
  <2> QED BY <2>1, <2>2, <2>3, Zenon DEF Throw, SetState, GiveUp, pages
<1>10. CASE LargeEnough(t) \/ Truncate(t)
  <2>1. Place(t) \in {"found", "truncate"} BY <1>10, Zenon DEF LargeEnough, Truncate, At, Place
  <2>2. RemapIfNeeded(t, "block") \/ RemapTo(t, "block") BY <1>10, Zenon DEF LargeEnough, Truncate
  <2>3. Place(t)' = "block" /\ SameRequest(t) /\ Frame(t) BY <2>2, RemapView, Zenon
  <2> QED BY <1>10, <2>1, <2>3, Zenon DEF LargeEnough, Truncate, Go, pages, blocks
<1>11. CASE Enlarge(t)
  <2>1. Place(t) = "found" /\ UNCHANGED <<op, mtx, pages, blocks>> BY <1>11, Zenon DEF Enlarge, At, Place
  <2>2. Place(t)' = "truncate" /\ SameRequest(t) /\ Frame(t) BY <1>11, <2>1, GotoView, Zenon DEF Enlarge, PCs
  <2> QED BY <2>1, <2>2, Zenon DEF Go, Critical, pages, blocks
<1>12. CASE Block(t)
  <2>1. Place(t) = "block" BY <1>12, Zenon DEF Block, At, Place
  <2>2. CASE state[op[t].slot] = "pending"
    <3>1. Place(t)' = "idle" /\ op'[t].slot = NoSlot /\ Frame(t) BY <1>12, <2>2, ReturnView, Zenon DEF Block
    <3> QED BY <1>12, <2>1, <2>2, <3>1, Zenon DEF Block, SetState, Grant
  <2>3. CASE state[op[t].slot] # "pending"
    <3>1. /\ Place(t)' = "copy" /\ op'[t].slot = op[t].slot /\ op'[t].target = Found(t) /\ Frame(t)
      BY <1>12, <2>3, MoveView, Zenon DEF Block
    <3> QED BY <1>12, <2>1, <2>3, <3>1, Zenon DEF Block, GrantMove, blocks
  <2> QED BY <2>2, <2>3, Zenon
<1>13. CASE Keep(t)
  <2>1. Place(t) = "copy" BY <1>13, Zenon DEF Keep, At, Place
  <2>2. Place(t)' = "idle" /\ op'[t].slot = NoSlot /\ Frame(t) BY <1>13, ReturnView, Zenon DEF Keep
  <2> QED BY <1>13, <2>1, <2>2, Zenon DEF Keep, SetState, Finish, pages
<1>14. CASE Copy(t)
  <2>1. Place(t) = "copy" BY <1>14, Zenon DEF Copy, At, Place
  <2>2. Place(t)' = "free" /\ SameRequest(t) /\ Frame(t) BY <1>14, GotoView, Zenon DEF Copy, PCs
  <2> QED BY <1>14, <2>1, <2>2, Zenon DEF Copy, Go, blocks
<1>15. CASE Free(t)
  <2>1. Place(t) = "free" BY <1>15, Zenon DEF Free, At, Place
  <2>2. Place(t)' = "idle" /\ op'[t].slot = NoSlot /\ Frame(t) BY <1>15, ReturnView, Zenon DEF Free
  <2> QED BY <1>15, <2>1, <2>2, Zenon DEF Free, Freed, SetState, Finish
<1>16. CASE Receive(t)
  <2>1. pc[t] = "idle" BY <1>16, Zenon DEF Receive, Idle, At, WaitInv
  <2>2. Place(t)' = "idle" /\ SameRequest(t) /\ Frame(t) BY <1>16, RemapView, Zenon DEF Receive
  <2>3. Place(t) = "idle" BY <2>1, Zenon DEF Place
  <2> QED BY <1>16, <2>2, <2>3, Zenon DEF Receive, Go, pages, blocks
<1>17. ASSUME NEW s \in Slots, Munmap(t, s) PROVE Start(t)
  <2>1. Place(t) = "idle" BY <1>17, Zenon DEF Munmap, Idle, At, Place
  <2>2. Place(t)' = "free" /\ op'[t].slot = s /\ op'[t].count = 0 /\ Frame(t)
    BY <1>17, StartView, ZenonT(60) DEF Munmap
  <2>3. UNCHANGED <<used, alloc, mtx, scan>> BY <1>17, Zenon DEF Munmap, pages
  <2>4. state[s] = "live" /\ state' = [state EXCEPT ![s] = "leaving"]
    BY <1>17, Zenon DEF Munmap, SetState
  <2>5. 0 \in Nat /\ "leaving" \in States BY Zenon DEF States
  <2> QED BY <2>1, <2>2, <2>3, <2>4, <2>5, Zenon DEF Start
<1>18. ASSUME NEW s \in Slots, Write(t, s) PROVE Go(t)
  BY <1>18, Zenon DEF Write, Go, SameRequest, Frame, Place, blocks
<1>19. ASSUME NEW s \in Slots, NEW n \in Counts, Mmap(t, s, n) PROVE Start(t)
  <2>1. Place(t) = "idle" BY <1>19, Zenon DEF Mmap, Idle, At, Place
  <2>2. Place(t)' = "lock" /\ op'[t].slot = s /\ op'[t].count = n /\ Frame(t)
    BY <1>19, StartView, ZenonT(60) DEF Mmap
  <2>3. UNCHANGED <<used, alloc, mtx, scan>> /\ n \in Nat /\ n > 0 BY <1>19 DEF Mmap, pages
  <2>4. state[s] = "none" /\ state' = [state EXCEPT ![s] = "pending"]
    BY <1>19, Zenon DEF Mmap, SetState
  <2> QED BY <2>1, <2>2, <2>3, <2>4, Zenon DEF Start, States
<1>20. ASSUME NEW s \in Slots, NEW n \in Counts, Mremap(t, s, n) PROVE Start(t)
  <2>1. Place(t) = "idle" BY <1>20, Zenon DEF Mremap, Idle, At, Place
  <2>2. Place(t)' = "lock" /\ op'[t].slot = s /\ op'[t].count = n /\ Frame(t)
    BY <1>20, StartView, ZenonT(60) DEF Mremap
  <2>3. UNCHANGED <<used, alloc, mtx, scan>> BY <1>20, Zenon DEF Mremap, pages
  <2>5. n \in Nat /\ n > 0 OBVIOUS
  <2>4. state[s] = "live" /\ state' = [state EXCEPT ![s] = "moving"] /\ n >= alloc[s].count
    BY <1>20, Zenon DEF Mremap, SetState, OnlyGrowing
  <2> QED BY <2>1, <2>2, <2>3, <2>4, <2>5, Zenon DEF Start, States
<1> QED BY <1>1, <1>2, <1>3, <1>4, <1>5, <1>6, <1>7, <1>8, <1>9, <1>10, <1>11, <1>12, <1>13,
           <1>14, <1>15, <1>16, <1>17, <1>18, <1>19, <1>20, Zenon DEF Step, Use

\* A remapping goes on at one of three places.
LEMMA PlaceStep ==
  ASSUME TypeOK, PlaceInv, NEW t \in Threads, Step(t) \/ Use(t)
  PROVE  PlaceInv'
<1>1. CASE \A u \in Threads : pc'[u] \in {"remap", "store"} => pc[u] \in {"remap", "store"} /\ op'[u].ret = op[u].ret
  BY <1>1, Zenon DEF PlaceInv
<1>2. ASSUME NEW l \in {"idle", "scan", "block"}, RemapIfNeeded(t, l) \/ RemapTo(t, l)
      PROVE PlaceInv'
  BY <1>2, RemapView, Zenon DEF PlaceInv, Frame
<1>3. ASSUME NEW l \in PCs \ {"remap", "store"}, Goto(t, l), Frame(t) PROVE PlaceInv'
  BY <1>3, Zenon DEF PlaceInv, Frame, Goto, TypeOK
<1>4. CASE RemapMap(t)
  BY <1>4, MapView, Zenon DEF PlaceInv, Frame
<1>5. CASE RemapStore(t)
  BY <1>5, StoreView, Zenon DEF PlaceInv, Frame
<1>6. CASE Acquire(t) \/ LargeEnough(t) \/ Truncate(t) \/ Receive(t)
  BY <1>2, <1>3, <1>6, GotoView, Zenon DEF Acquire, LargeEnough, Truncate, Receive, PCs
<1>7. CASE ScanFull(t) \/ ScanUsedBit(t) \/ \E s \in Slots : Write(t, s)
  BY <1>1, <1>7, Zenon DEF ScanFull, ScanUsedBit, Write
<1>8. CASE ScanEmpty(t) \/ ScanFreeBit(t)
  <2>1. PICK l \in {"found", "scan", "bits"} : Goto(t, l) BY <1>8, Zenon DEF ScanEmpty, ScanFreeBit
  <2>2. UNCHANGED op BY <1>8, Zenon DEF ScanEmpty, ScanFreeBit
  <2> QED BY <1>3, <2>1, <2>2, GotoView, Zenon DEF PCs
<1>9. CASE ScanMixed(t) \/ ScanNext(t) \/ Enlarge(t) \/ Copy(t)
  BY <1>3, <1>9, GotoView, Zenon DEF ScanMixed, ScanNext, Enlarge, Copy, PCs
<1>10. CASE ScanFails(t) \/ TruncateThrows(t) \/ Keep(t) \/ Free(t)
  <2>1. Return(t) BY <1>10, Zenon DEF ScanFails, TruncateThrows, Keep, Free, Throw
  <2> QED BY <1>3, <2>1, ReturnView, Zenon DEF Return, PCs
<1>11. CASE Block(t)
  BY <1>3, <1>11, ReturnView, MoveView, Zenon DEF Block, Return, PCs
<1>12. ASSUME NEW s \in Slots, NEW n \in Nat, Munmap(t, s) \/ Mmap(t, s, n) \/ Mremap(t, s, n)
       PROVE PlaceInv'
  <2>1. PICK l \in {"lock", "free"} : Goto(t, l) BY <1>12, Zenon DEF Munmap, Mmap, Mremap
  <2>2. PICK k \in Nat : op' = [op EXCEPT ![t] = Operation(s, k)]
    BY <1>12, Zenon DEF Munmap, Mmap, Mremap
  <2>3. Frame(t) BY <2>1, <2>2, StartView, Zenon
  <2> QED BY <1>3, <2>1, <2>3, Zenon DEF PCs
<1>13. Counts \subseteq Nat BY PagesAssumption, Zenon
<1> QED BY <1>4, <1>5, <1>6, <1>7, <1>8, <1>9, <1>10, <1>11, <1>12, <1>13, Zenon DEF Step, Use

\* Only a thread that has its turn leaves "idle", and only mremap() kills.
LEMMA WaitStep ==
  ASSUME OnlyGrowing, TypeOK, PlaceInv, WaitInv, NEW t \in Threads, Step(t) \/ Use(t)
  PROVE  WaitInv'
<1>1. Frame(t) BY Kinds, Zenon DEF Start, Go, GiveUp, Grant, GrantMove, Finish
<1>2. ASSUME RemapMap(t) PROVE pc'[t] = "dead" => ProcOf[t] \in broken'
  BY <1>2, Zenon DEF RemapMap, Goto, TypeOK
<1>3. CASE RemapMap(t)
  <2>1. turn' = turn /\ broken \subseteq broken' /\ pc[t] = "remap" BY <1>3, Zenon DEF RemapMap, At
  <2> QED BY <1>1, <1>2, <1>3, <2>1, Zenon DEF WaitInv, Frame
<1>4. CASE RemapStore(t)
  <2>1. turn' = turn /\ broken' = broken /\ pc[t] = "store" BY <1>4, Zenon DEF RemapStore, At
  <2>2. pc'[t] # "dead" BY <1>4, StoreView, Zenon DEF PlaceInv
  <2> QED BY <1>1, <2>1, <2>2, Zenon DEF WaitInv, Frame
<1>5. CASE Receive(t)
  <2>1. broken' = broken /\ turn' = (IF Concurrent THEN turn ELSE t) BY <1>5, Zenon DEF Receive, maps
  <2>2. pc'[t] # "dead" BY <1>5, RemapView, Zenon DEF Receive
  <2>3. ~Concurrent => pc[turn] = "idle" BY <1>5, Zenon DEF Receive, Idle, At
  <2>4. ASSUME ~Concurrent, NEW u \in Threads, u # turn' PROVE pc'[u] \in {"idle", "dead"}
    <3>1. u # t BY <2>1, <2>4, Zenon
    <3>2. pc'[u] = pc[u] BY <1>1, <3>1, Zenon DEF Frame
    <3> QED BY <2>3, <2>4, <3>2, Zenon DEF WaitInv
  <2>5. ASSUME NEW u \in Threads, pc'[u] = "dead" PROVE ProcOf[u] \in broken'
    BY <1>1, <2>1, <2>2, <2>5, Zenon DEF WaitInv, Frame
  <2> QED BY <2>4, <2>5, Zenon DEF WaitInv
<1>6. ASSUME turn' = turn, broken' = broken, pc[t] \notin {"idle", "dead"} \/ Concurrent \/ turn = t,
             pc'[t] # "dead" \/ pc' = pc
      PROVE  WaitInv'
  <2>1. ASSUME ~Concurrent, NEW u \in Threads, u # turn' PROVE pc'[u] \in {"idle", "dead"}
    <3>1. u # t BY <1>6, <2>1, Zenon DEF WaitInv
    <3>2. pc'[u] = pc[u] BY <1>1, <3>1, Zenon DEF Frame
    <3> QED BY <1>6, <2>1, <3>2, Zenon DEF WaitInv
  <2>2. ASSUME NEW u \in Threads, pc'[u] = "dead" PROVE ProcOf[u] \in broken'
    BY <1>1, <1>6, <2>2, Zenon DEF WaitInv, Frame
  <2> QED BY <2>1, <2>2, Zenon DEF WaitInv
<1>7. CASE Acquire(t)
  <2>1. pc'[t] # "dead" BY <1>7, RemapView, GotoView, Zenon DEF Acquire, PCs
  <2> QED BY <1>6, <1>7, <2>1, Zenon DEF Acquire, At, maps
<1>8. CASE LargeEnough(t) \/ Truncate(t)
  <2>1. pc'[t] # "dead" BY <1>8, RemapView, Zenon DEF LargeEnough, Truncate
  <2> QED BY <1>6, <1>8, <2>1, Zenon DEF LargeEnough, Truncate, At, maps
<1>9. CASE ScanFull(t) \/ ScanUsedBit(t) \/ \E s \in Slots : Write(t, s)
  BY <1>6, <1>9, Zenon DEF ScanFull, ScanUsedBit, Write, At, Idle, maps
<1>10. CASE ScanEmpty(t) \/ ScanFreeBit(t) \/ ScanMixed(t) \/ ScanNext(t) \/ Enlarge(t) \/ Copy(t)
  <2>1. PICK l \in {"found", "scan", "bits", "truncate", "free"} : Goto(t, l)
    BY <1>10, Zenon DEF ScanEmpty, ScanFreeBit, ScanMixed, ScanNext, Enlarge, Copy
  <2>2. pc'[t] # "dead" BY <2>1, Zenon DEF Goto, TypeOK
  <2> QED BY <1>6, <1>10, <2>2, Zenon DEF ScanEmpty, ScanFreeBit, ScanMixed, ScanNext, Enlarge, Copy, At, maps
<1>11. CASE ScanFails(t) \/ TruncateThrows(t) \/ Keep(t) \/ Free(t)
  <2>1. Return(t) BY <1>11, Zenon DEF ScanFails, TruncateThrows, Keep, Free, Throw
  <2>2. pc'[t] # "dead" BY <2>1, ReturnView, Zenon
  <2> QED BY <1>6, <1>11, <2>2, Zenon DEF ScanFails, TruncateThrows, Keep, Free, At, maps
<1>12. CASE Block(t)
  <2>1. pc'[t] # "dead" BY <1>12, ReturnView, MoveView, Zenon DEF Block
  <2> QED BY <1>6, <1>12, <2>1, Zenon DEF Block, At, maps
<1>13. ASSUME NEW s \in Slots, NEW n \in Nat, Munmap(t, s) \/ Mmap(t, s, n) \/ Mremap(t, s, n)
       PROVE WaitInv'
  <2>1. PICK l \in {"lock", "free"} : Goto(t, l) BY <1>13, Zenon DEF Munmap, Mmap, Mremap
  <2>2. pc'[t] # "dead" BY <2>1, Zenon DEF Goto, TypeOK
  <2> QED BY <1>6, <1>13, <2>2, Zenon DEF Munmap, Mmap, Mremap, Idle, maps
<1>14. Counts \subseteq Nat BY PagesAssumption, Zenon
<1> QED BY <1>3, <1>4, <1>5, <1>7, <1>8, <1>9, <1>10, <1>11, <1>12, <1>13, <1>14, Zenon DEF Step, Use
-----------------------------------------------------------------------------
\* The mutex is held from the start of the scan until the bits are set.
LEMMA LockStep ==
  ASSUME OnlyGrowing, TypeOK, PlaceInv, WaitInv, LockInv, NEW t \in Threads, Step(t) \/ Use(t)
  PROVE  LockInv'
<1>1. Start(t) \/ Go(t) \/ GiveUp(t) \/ Grant(t) \/ GrantMove(t) \/ Finish(t) BY Kinds, Zenon
<1>2. Frame(t) BY <1>1, Zenon DEF Start, Go, GiveUp, Grant, GrantMove, Finish
<1>3. ASSUME UNCHANGED mtx, Critical(t)' => Critical(t) PROVE LockInv'
  BY <1>2, <1>3, Zenon DEF LockInv, Critical, Frame
<1>4. ASSUME mtx = t, ~Critical(t)' PROVE LockInv'
  <2> SUFFICES ASSUME NEW u \in Threads, Critical(u)' PROVE FALSE BY Zenon DEF LockInv
  <2> QED BY <1>2, <1>4, Zenon DEF LockInv, Critical, Frame
<1>5. CASE Start(t) BY <1>3, <1>5, Zenon DEF Start, Critical
<1>6. CASE Finish(t) BY <1>3, <1>6, Zenon DEF Finish, Critical
<1>7. CASE GiveUp(t) \/ Grant(t) \/ GrantMove(t)
  BY <1>4, <1>7, Zenon DEF GiveUp, Grant, GrantMove, Critical, LockInv
<1>8. CASE Go(t) /\ ~(Place(t) = "lock" /\ Place(t)' = "scan")
  <2>1. CASE UNCHANGED mtx BY <1>3, <1>8, <2>1, Zenon DEF Go, Critical
  <2>2. CASE Place(t) = "block" /\ Place(t)' = "dead"
    BY <1>4, <2>2, Zenon DEF Critical, LockInv
  <2> QED BY <1>8, <2>1, <2>2, Zenon DEF Go
<1>9. CASE Go(t) /\ Place(t) = "lock" /\ Place(t)' = "scan"
  <2>1. mtx = NoThread /\ mtx' = t BY <1>9, Zenon DEF Go
  <2>2. \A u \in Threads : u # t => ~Critical(u)' BY <1>2, <2>1, PagesAssumption, Zenon DEF LockInv, Critical, Frame
  <2> QED BY <2>1, <2>2, Zenon DEF LockInv
<1> QED BY <1>1, <1>5, <1>6, <1>7, <1>8, <1>9, Zenon

\* The allocation of another thread is not touched.
LEMMA OthersKept ==
  ASSUME OnlyGrowing, TypeOK, PlaceInv, WaitInv, SlotInv, NEW t \in Threads, Step(t) \/ Use(t),
         NEW u \in Threads, u # t, op[u].slot \in Slots
  PROVE  state'[op[u].slot] = state[op[u].slot] /\ alloc'[op[u].slot] = alloc[op[u].slot]
<1>1. Start(t) \/ Go(t) \/ GiveUp(t) \/ Grant(t) \/ GrantMove(t) \/ Finish(t) BY Kinds, Zenon
<1>2. op[u].slot # op[t].slot BY PagesAssumption, Zenon DEF SlotInv, Apart
<1>3. state[op[u].slot] \in {"pending", "moving", "leaving"} BY Zenon DEF SlotInv, SlotOf
<1>4. CASE Start(t) BY <1>3, <1>4, Zenon DEF Start, TypeOK
<1>5. CASE Go(t) BY <1>5, Zenon DEF Go
<1>6. CASE GiveUp(t) BY <1>2, <1>6, Zenon DEF GiveUp, TypeOK
<1>7. CASE Grant(t) BY <1>2, <1>7, Zenon DEF Grant, TypeOK
<1>8. CASE GrantMove(t) BY <1>8, Zenon DEF GrantMove
<1>9. CASE Finish(t) BY <1>2, <1>9, Zenon DEF Finish, TypeOK
<1> QED BY <1>1, <1>4, <1>5, <1>6, <1>7, <1>8, <1>9, Zenon

\* No two threads work on one allocation, which is in the state of the operation.
LEMMA SlotStep ==
  ASSUME OnlyGrowing, TypeOK, PlaceInv, WaitInv, SlotInv, NEW t \in Threads, Step(t) \/ Use(t)
  PROVE  SlotInv'
<1> USE PagesAssumption
<1>1. Start(t) \/ Go(t) \/ GiveUp(t) \/ Grant(t) \/ GrantMove(t) \/ Finish(t) BY Kinds, Zenon
<1>2. Frame(t) BY <1>1, Zenon DEF Start, Go, GiveUp, Grant, GrantMove, Finish
<1>3. \/ op'[t].slot \in {op[t].slot, NoSlot}
      \/ op'[t].slot \in Slots /\ state[op'[t].slot] \in {"none", "live"}
  <2>1. CASE Start(t) BY <2>1, Zenon DEF Start
  <2>2. CASE Go(t) BY <2>2, Zenon DEF Go, SameRequest
  <2>3. CASE GiveUp(t) \/ Grant(t) \/ GrantMove(t) \/ Finish(t)
    BY <2>3, Zenon DEF GiveUp, Grant, GrantMove, Finish
  <2> QED BY <1>1, <2>1, <2>2, <2>3, Zenon
<1>4. Apart'
  <2> SUFFICES ASSUME NEW u \in Threads, u # t, op'[u].slot = op'[t].slot
               PROVE  op'[t].slot = NoSlot
    BY <1>2, ZenonT(60) DEF Apart, SlotInv, Frame
  <2>1. op'[u] = op[u] BY <1>2, Zenon DEF Frame
  <2> QED BY <1>3, <2>1, Zenon DEF SlotInv, SlotOf, Apart
<1>5. ASSUME NEW u \in Threads, u # t PROVE SlotOf(u)'
  <2>1. op'[u] = op[u] /\ pc'[u] = pc[u] /\ Place(u)' = Place(u) BY <1>2, <1>5, Zenon DEF Frame
  <2>2. SlotOf(u) BY Zenon DEF SlotInv
  <2>3. CASE op[u].slot \in Slots
    <3>1. state'[op[u].slot] = state[op[u].slot] /\ alloc'[op[u].slot] = alloc[op[u].slot]
      BY <1>5, <2>3, OthersKept, Zenon
    <3> QED BY <2>1, <2>2, <2>3, <3>1, Zenon DEF SlotOf, Requesting, Critical
  <2>4. CASE op[u].slot \notin Slots
    <3>1. Place(u) \in {"idle", "dead"} BY <2>2, <2>4, Zenon DEF SlotOf
    <3> QED BY <2>1, <2>2, <2>4, <3>1, Zenon DEF SlotOf, Requesting, Critical
  <2> QED BY <2>3, <2>4, Zenon
<1>6. SlotOf(t)'
  <2>1. SlotOf(t) BY Zenon DEF SlotInv
  <2>2. CASE Start(t) BY <2>2, ZenonT(60) DEF Start, SlotOf, Requesting, Critical, TypeOK
  <2>3. CASE Go(t)
    <3>1. op'[t].slot = op[t].slot /\ op'[t].count = op[t].count /\ op'[t].target = op[t].target
      BY <2>3, Zenon DEF Go, SameRequest
    <3>2. alloc' = alloc /\ state' = state BY <2>3, Zenon DEF Go
    <3>3. CASE Place(t)' = Place(t) BY <2>1, <3>1, <3>2, <3>3, Zenon DEF SlotOf, Requesting, Critical
    <3>4. CASE Place(t)' = "dead" BY <2>1, <3>1, <3>2, <3>4, Zenon DEF SlotOf, Requesting, Critical
    <3>5. CASE Requesting(t) /\ Requesting(t)'
      BY <2>1, <3>1, <3>2, <3>5, Zenon DEF SlotOf, Requesting, Critical
    <3>6. CASE Place(t) = "copy" /\ Place(t)' = "free"
      BY <2>1, <3>1, <3>2, <3>6, Zenon DEF SlotOf, Requesting, Critical
    <3> QED BY <2>3, <3>3, <3>4, <3>5, <3>6, Zenon DEF Go, Requesting, Critical
  <2>4. CASE GiveUp(t) BY <2>4, Zenon DEF GiveUp, SlotOf, Requesting, Critical
  <2>5. CASE Grant(t) BY <2>5, Zenon DEF Grant, SlotOf, Requesting, Critical
  <2>6. CASE GrantMove(t)
    <3>1. Found(t).count = op[t].count BY Zenon DEF Found
    <3>2. op[t].slot \in Slots /\ state[op[t].slot] = "moving" /\ op[t].count >= alloc[op[t].slot].count
      BY <2>1, <2>6, Zenon DEF GrantMove, SlotOf, Requesting, Critical
    <3> QED BY <2>6, <3>1, <3>2, Zenon DEF GrantMove, SlotOf, Requesting, Critical
  <2>7. CASE Finish(t) BY <2>7, Zenon DEF Finish, SlotOf, Requesting, Critical
  <2> QED BY <1>1, <2>2, <2>3, <2>4, <2>5, <2>6, <2>7, Zenon
<1> QED BY <1>4, <1>5, <1>6, Zenon DEF SlotInv
-----------------------------------------------------------------------------
\* While a thread is between scan and marking, the bits and the scan are its own.
LEMMA ScanQuiet ==
  ASSUME OnlyGrowing, TypeOK, PlaceInv, WaitInv, LockInv, NEW t \in Threads, Step(t) \/ Use(t),
         NEW u \in Threads, u # t, Critical(u)
  PROVE  scan' = scan /\ used' = used
<1>1. Start(t) \/ Go(t) \/ GiveUp(t) \/ Grant(t) \/ GrantMove(t) \/ Finish(t) BY Kinds, Zenon
<1>2. mtx = u /\ ~Critical(t) /\ mtx # NoThread BY PagesAssumption, Zenon DEF LockInv
<1>3. CASE Start(t) \/ Finish(t) BY <1>2, <1>3, Zenon DEF Start, Finish
<1>4. CASE Go(t)
  <2>1. CASE Place(t) = "lock" /\ ~Acquire(t)
    <3>1. pc[t] = "lock" BY <2>1, Zenon DEF Place, PlaceInv
    <3> QED BY <2>1, <3>1, <1>4, ZenonT(60) DEF Step, Use, RemapMap, RemapStore, ScanFull, ScanEmpty, ScanMixed, ScanUsedBit,
          ScanFreeBit, ScanNext, ScanFails, LargeEnough, Enlarge, Truncate, TruncateThrows, Block, Keep,
          Copy, Free, Receive, Munmap, Write, Mmap, Mremap, At, Idle, Go
  <2>2. CASE Acquire(t) BY <1>2, <2>2, Zenon DEF Acquire
  <2> QED BY <1>2, <1>4, <2>1, <2>2, Zenon DEF Go
<1>5. CASE GiveUp(t) \/ Grant(t) \/ GrantMove(t)
  BY <1>2, <1>5, Zenon DEF GiveUp, Grant, GrantMove, Critical
<1> QED BY <1>1, <1>3, <1>4, <1>5, Zenon

\* The element of the bitset that the scan is at.
LEMMA ElementIs ==
  ASSUME NEW k \in Nat, scan.i = k * Width + 1
  PROVE  Element = k /\ (k < Elements => k * Width + Width <= Width * Elements)
         /\ (k + 1) * Width = k * Width + Width
<1>1. Width \in Nat /\ Width >= 2 /\ Elements \in Nat BY PagesAssumption
<1>2. (k * Width + 1) \div Width = k BY <1>1
<1>3. k < Elements => k * Width + Width <= Width * Elements BY <1>1
<1> QED BY <1>1, <1>2, <1>3 DEF Element

\* The scan goes on over w used pages.
LEMMA OverUsed ==
  ASSUME NEW n \in Nat, NEW p \in Nat, NEW w \in Nat \ {0}, NoRun(n, p),
         \A x \in Nat : p <= x /\ x < p + w => x \in used
  PROVE  NoRun(n, p + w) /\ FreeBefore(0, p + w)
<1>1. NoRun(n, p + w)
  <2> SUFFICES ASSUME NEW k \in Nat, k + n <= p + w, n > 0
               PROVE \E x \in Nat : k <= x /\ x < k + n /\ x \in used
    BY DEF NoRun
  <2>1. CASE k + n <= p BY <2>1, Zenon DEF NoRun
  <2>2. CASE k + n > p BY <2>2, k + n - 1 \in Nat
  <2> QED BY <2>1, <2>2
<1>2. FreeBefore(0, p + w) BY p + w - 1 \in Nat DEF FreeBefore
<1> QED BY <1>1, <1>2, Zenon

\* The scan goes on over w free pages.
LEMMA OverFree ==
  ASSUME NEW n \in Nat, NEW c \in Nat, NEW p \in Nat, NEW w \in Nat, NoRun(n, p), FreeBefore(c, p),
         \A x \in Nat : p <= x /\ x < p + w => x \notin used
  PROVE  FreeBefore(c + w, p + w) /\ (c + w < n => NoRun(n, p + w))
<1>1. FreeBefore(c + w, p + w) BY DEF FreeBefore
<1>2. ASSUME c + w < n PROVE NoRun(n, p + w)
  <2> SUFFICES ASSUME NEW k \in Nat, k + n <= p + w
               PROVE \E x \in Nat : k <= x /\ x < k + n /\ x \in used
    BY Zenon DEF NoRun
  <2>1. CASE k + n <= p BY <2>1, Zenon DEF NoRun
  <2>2. CASE k + n > p
    <3>1. c < p /\ k <= p - c - 1 /\ p - c - 1 < k + n BY <1>2, <2>2 DEF FreeBefore
    <3>2. p - c - 1 \in used /\ p - c - 1 \in Nat BY <3>1 DEF FreeBefore
    <3> QED BY <3>1, <3>2, Zenon
  <2> QED BY <2>1, <2>2
<1> QED BY <1>1, <1>2, Zenon
\* What is left to show when the scan goes on with an element, or inside one.
LEMMA ScanGoesOn ==
  ASSUME NEW t \in Threads, NEW n \in Nat, NEW k \in 0 .. Elements, NEW c \in Nat,
         Place(t)' = "scan", op'[t].count = n, used' = used, scan'.i = k * Width + 1,
         scan'.c = c, c < n, NoRun(n, k * Width), FreeBefore(c, k * Width),
         c > 0 => scan'.last = k * Width - c + 1
  PROVE  ScanOf(t)' /\ FoundOf(t)'
BY Zenon DEF ScanOf, FoundOf, Scanned, NoRun, FreeBefore

\* The scan of an element of the bitset goes on with the next bit.
LEMMA BitsGoOn ==
  ASSUME NEW t \in Threads, NEW n \in Nat, NEW k \in 0 .. Elements - 1, NEW c \in Nat, NEW p,
         Place(t)' = "bits", op'[t].count = n, used' = used, scan'.i = k * Width + 1, scan'.j <= Width,
         k * Width + scan'.j = p, scan'.c = c, c < n, NoRun(n, p), FreeBefore(c, p),
         c > 0 => scan'.last = p - c + 1
  PROVE  ScanOf(t)' /\ FoundOf(t)'
BY Zenon DEF ScanOf, FoundOf, Scanned, NoRun, FreeBefore

\* The scan knows what it has passed, and what it finds is free.
LEMMA ScanStep ==
  ASSUME OnlyGrowing, TypeOK, PlaceInv, WaitInv, LockInv, SlotInv, ScanInv, FoundInv,
         NEW t \in Threads, Step(t) \/ Use(t)
  PROVE  ScanInv' /\ FoundInv'
<1> USE PagesAssumption
<1> DEFINE Good == ScanOf(t)' /\ FoundOf(t)'
<1>p. PICK n \in Nat : n = op[t].count BY Zenon DEF TypeOK, Locals
<1>k. Start(t) \/ Go(t) \/ GiveUp(t) \/ Grant(t) \/ GrantMove(t) \/ Finish(t) BY Kinds, Zenon
<1>f. Frame(t) BY <1>k, Zenon DEF Start, Go, GiveUp, Grant, GrantMove, Finish
<1>o. ASSUME NEW u \in Threads, u # t PROVE ScanOf(u)' /\ FoundOf(u)'
  <2>1. op'[u] = op[u] /\ Place(u)' = Place(u) BY <1>f, <1>o, Zenon DEF Frame
  <2>2. CASE Critical(u)
    <3>1. scan' = scan /\ used' = used BY <1>o, <2>2, ScanQuiet, Zenon
    <3>2. ScanOf(u) /\ FoundOf(u) BY Zenon DEF ScanInv, FoundInv
    <3> QED BY <2>1, <3>1, <3>2, ZenonT(60) DEF ScanOf, FoundOf, Scanned, NoRun, FreeBefore
  <2>3. CASE ~Critical(u) BY <2>1, <2>3, Zenon DEF Critical, ScanOf, FoundOf
  <2> QED BY <2>2, <2>3, Zenon
<1>n. n \in Nat /\ scan \in ScanStates /\ used \subseteq Nat /\ Width \in Nat /\ Elements \in Nat
  BY Zenon DEF TypeOK, Locals, ScanStates
<1>a. Requesting(t) => n > 0 BY <1>p, Zenon DEF SlotInv, SlotOf
<1>t. ScanOf(t) /\ FoundOf(t) BY Zenon DEF ScanInv, FoundInv
<1>q. SUFFICES Good BY <1>o, Zenon DEF ScanInv, FoundInv, Good
<1> HIDE DEF Good
<1>1. ASSUME ~Critical(t)' PROVE Good
  BY <1>1, Zenon DEF Good, Critical, ScanOf, FoundOf
<1>2. ASSUME UNCHANGED <<scan, used>>, op'[t].count = n, Place(t)' \in {Place(t), "dead"}
      PROVE  Good
  BY <1>p, <1>t, <1>2, ZenonT(60) DEF Good, ScanOf, FoundOf, Scanned, NoRun, FreeBefore
<1>3. CASE RemapMap(t) \/ RemapStore(t)
  BY <1>p, <1>2, <1>3, MapView, StoreView, Zenon DEF RemapMap, RemapStore, SameRequest, pages
<1>4. CASE Acquire(t)
  <2>1. Place(t)' = "scan" /\ SameRequest(t) BY <1>4, RemapView, GotoView, Zenon DEF Acquire, PCs
  <2>2. scan' = StartOfScan /\ used' = used BY <1>4, Zenon DEF Acquire, pages
  <2>3. n > 0 BY <1>4, <1>a, Zenon DEF Acquire, At, Requesting, Place
  <2>4. 0 * Width = 0 /\ 0 \in 0 .. Elements BY <1>n
  <2>5. NoRun(n, 0) /\ FreeBefore(0, 0) BY <1>n, <2>3 DEF NoRun, FreeBefore
  <2>6. op'[t].count = n /\ scan'.i = 1 /\ scan'.c = 0 BY <1>p, <2>1, <2>2, Zenon DEF SameRequest, StartOfScan
  <2> QED BY <1>n, <2>1, <2>2, <2>3, <2>4, <2>5, <2>6, ScanGoesOn DEF Good
<1>5. CASE ScanFull(t)
  <2>1. Place(t) = "scan" /\ UNCHANGED <<pc, op, used>> BY <1>5, Zenon DEF ScanFull, At, Place, pages
  <2>2. PICK k \in 0 .. Elements : Scanned(k, k * Width, n) BY <1>p, <1>t, <2>1, Zenon DEF ScanOf
  <2>p. PICK p : p = k * Width BY Zenon
  <2>3. Element = k /\ k + 1 \in 0 .. Elements /\ (k + 1) * Width = p + Width /\ p \in Nat
    BY <2>p, <1>n, <1>5, <2>2, ElementIs DEF ScanFull, Scanned
  <2>4. \A x \in Nat : p <= x /\ x < p + Width => x \in used
    BY <1>n, <1>5, <2>3 DEF ScanFull, ElementPages
  <2>5. NoRun(n, p + Width) /\ FreeBefore(0, p + Width)
    BY <2>p, <1>n, <2>2, <2>3, <2>4, OverUsed, Zenon DEF Scanned
  <2>6. scan'.i = scan.i + Width /\ scan'.c = 0 BY <1>n, <1>5, ScanView, Zenon DEF ScanStates
  <2>7. op'[t].count = n /\ n > 0 /\ Place(t)' = "scan" BY <1>p, <1>a, <2>1, Zenon DEF Place, Requesting, Critical
  <2>8. scan'.i = (k + 1) * Width + 1 BY <1>n, <2>2, <2>3, <2>6, <2>p, SMTT(60) DEF Scanned
  <2> QED BY <1>n, <2>1, <2>3, <2>5, <2>6, <2>7, <2>8, ScanGoesOn, SMTT(60) DEF Good
<1>6. CASE ScanEmpty(t)
  <2>1. Place(t) = "scan" /\ UNCHANGED <<op, used>> BY <1>6, Zenon DEF ScanEmpty, At, Place, pages
  <2>2. PICK k \in 0 .. Elements : Scanned(k, k * Width, n) BY <1>p, <1>t, <2>1, Zenon DEF ScanOf
  <2>p. PICK p : p = k * Width BY Zenon
  <2>3. /\ Element = k /\ k + 1 \in 0 .. Elements /\ (k + 1) * Width = p + Width /\ p \in Nat
        /\ p + Width <= Width * Elements
    BY <2>p, <1>n, <1>6, <2>2, ElementIs, SMTT(60) DEF ScanEmpty, Scanned
  <2>4. \A x \in Nat : p <= x /\ x < p + Width => x \notin used
    BY <1>n, <1>6, <2>3 DEF ScanEmpty, ElementPages
  <2>s. scan.c \in Nat /\ scan.i = p + 1 /\ scan.c < n /\ (scan.c > 0 => scan.last = p - scan.c + 1) /\ scan.c <= p
    BY <2>p, <1>n, <2>2, Zenon DEF Scanned, ScanStates, FreeBefore
  <2>5. FreeBefore(scan.c + Width, p + Width) /\ (scan.c + Width < n => NoRun(n, p + Width))
    BY <2>p, <1>n, <2>2, <2>3, <2>4, <2>s, OverFree, Zenon DEF Scanned
  <2>6. /\ scan'.i = scan.i + Width /\ scan'.c = scan.c + Width
        /\ scan'.last = (IF scan.c = 0 THEN scan.i ELSE scan.last)
    BY <1>6, ScanView
  <2>7. scan'.last = p - scan.c + 1 BY <1>n, <2>3, <2>s, <2>6
  <2>8. CASE scan.c + Width >= n
    <3>1. Goto(t, "found") BY <1>p, <1>6, <2>8, Zenon DEF ScanEmpty, Enough
    <3>2. Place(t)' = "found" BY <2>1, <3>1, GotoView, Zenon DEF PCs
    <3>3. \A x \in Nat : p - scan.c <= x /\ x < p - scan.c + n => x \notin used'
      BY <1>n, <2>1, <2>3, <2>5, <2>8, <2>s, SMTT(60) DEF FreeBefore
    <3>4. scan'.last > 0 /\ scan'.last - 1 + n <= Width * Elements
      BY <1>n, <2>3, <2>7, <2>8, <2>s, SMTT(60)
    <3>5. scan'.last - 1 = p - scan.c BY <1>n, <2>3, <2>7, <2>s
    <3> QED BY <1>p, <2>1, <3>2, <3>3, <3>4, <3>5, Zenon DEF Good, ScanOf, FoundOf
  <2>9. CASE scan.c + Width < n
    <3>1. Goto(t, "scan") BY <1>p, <1>6, <1>n, <2>9, <2>s DEF ScanEmpty, Enough
    <3>2. Place(t)' = "scan" BY <2>1, <3>1, GotoView, Zenon DEF PCs
    <3>3. scan'.i = (k + 1) * Width + 1 /\ scan'.last = p + Width - scan'.c + 1
      BY <1>n, <2>3, <2>6, <2>7, <2>s, SMTT(60)
    <3>4. PICK c \in Nat : c = scan.c + Width BY <1>n, <2>s
    <3>5. NoRun(n, (k + 1) * Width) /\ FreeBefore(c, (k + 1) * Width)
      <4>1. NoRun(n, p + Width) /\ FreeBefore(c, p + Width) BY <2>5, <2>9, <3>4, Zenon
      <4> QED BY <2>3, <4>1, Zenon
    <3>7. scan'.c = c /\ c < n /\ scan'.last = (k + 1) * Width - c + 1
      BY <2>3, <2>6, <2>9, <3>3, <3>4
    <3>6. op'[t].count = n BY <1>p, <2>1, Zenon
    <3> QED BY <2>1, <2>3, <3>2, <3>3, <3>5, <3>6, <3>7, ScanGoesOn, Zenon DEF Good
  <2> QED BY <1>n, <2>8, <2>9, <2>s
<1>7. CASE ScanMixed(t)
  <2>1. Place(t) = "scan" /\ UNCHANGED <<op, used>> BY <1>7, Zenon DEF ScanMixed, At, Place, pages
  <2>2. PICK k \in 0 .. Elements : Scanned(k, k * Width, n) BY <1>p, <1>t, <2>1, Zenon DEF ScanOf
  <2>3. k \in 0 .. Elements - 1 BY <1>n, <1>7, <2>2, ElementIs DEF ScanMixed, Scanned
  <2>4. Place(t)' = "bits" BY <1>7, <2>1, GotoView, Zenon DEF ScanMixed, PCs
  <2>5. scan'.i = scan.i /\ scan'.j = 0 /\ scan'.c = scan.c /\ scan'.last = scan.last
    BY <1>7, <1>n, Zenon DEF ScanMixed, ScanStates
  <2>6. k * Width + scan'.j = k * Width /\ scan.c \in Nat BY <1>n, <2>5 DEF ScanStates
  <2>7. op'[t].count = n BY <1>p, <2>1, Zenon
  <2>8. /\ scan.i = k * Width + 1 /\ NoRun(n, k * Width) /\ FreeBefore(scan.c, k * Width) /\ scan.c < n
        /\ scan.c > 0 => scan.last = k * Width - scan.c + 1
    BY <2>2, Zenon DEF Scanned
  <2> QED BY <1>n, <2>1, <2>3, <2>4, <2>5, <2>6, <2>7, <2>8, BitsGoOn, SMTT(60) DEF Good
<1>8. CASE ScanUsedBit(t)
  <2>1. Place(t) = "bits" /\ UNCHANGED <<pc, op, used>> BY <1>8, Zenon DEF ScanUsedBit, At, Place, pages
  <2>2. PICK k \in 0 .. Elements - 1 : scan.j <= Width /\ Scanned(k, k * Width + scan.j, n)
    BY <1>p, <1>t, <2>1, Zenon DEF ScanOf
  <2>p. PICK p : p = k * Width + scan.j BY Zenon
  <2>3. Element = k /\ p \in Nat /\ scan.j < Width /\ p \in used
    BY <2>p, <1>n, <1>8, <2>2, ElementIs, SMTT(60) DEF ScanUsedBit, Scanned, ScanStates
  <2>4. NoRun(n, p + 1) /\ FreeBefore(0, p + 1)
    BY <2>p, <1>n, <2>2, <2>3, OverUsed DEF Scanned
  <2>5. scan'.i = scan.i /\ scan'.j = scan.j + 1 /\ scan'.c = 0 BY <1>n, <1>8, ScanView, Zenon DEF ScanStates
  <2>6. k * Width + (scan.j + 1) = p + 1 BY <2>p, <1>n DEF ScanStates
  <2>7. /\ op'[t].count = n /\ n > 0 /\ Place(t)' = "bits"
    BY <1>p, <1>a, <2>1, Zenon DEF Place, Requesting, Critical
  <2>8. scan.i = k * Width + 1 /\ scan'.j <= Width BY <1>n, <2>2, <2>3, <2>5 DEF Scanned, ScanStates
  <2> QED BY <1>n, <2>1, <2>2, <2>4, <2>5, <2>6, <2>7, <2>8, BitsGoOn, SMTT(60) DEF Good
<1>9. CASE ScanFreeBit(t)
  <2>1. Place(t) = "bits" /\ UNCHANGED <<op, used>> BY <1>9, Zenon DEF ScanFreeBit, At, Place, pages
  <2>2. PICK k \in 0 .. Elements - 1 : scan.j <= Width /\ Scanned(k, k * Width + scan.j, n)
    BY <1>p, <1>t, <2>1, Zenon DEF ScanOf
  <2>p. PICK p : p = k * Width + scan.j BY Zenon
  <2>3. Element = k /\ p \in Nat /\ scan.j < Width /\ p \notin used /\ p + 1 <= Width * Elements
    BY <2>p, <1>n, <1>9, <2>2, ElementIs, SMTT(60) DEF ScanFreeBit, Scanned, ScanStates
  <2>s. /\ scan.c \in Nat /\ scan.i + scan.j = p + 1 /\ scan.c < n /\ scan.c <= p
        /\ scan.c > 0 => scan.last = p - scan.c + 1
    BY <2>p, <1>n, <2>2, SMTT(60) DEF Scanned, ScanStates, FreeBefore
  <2>5. FreeBefore(scan.c + 1, p + 1) /\ (scan.c + 1 < n => NoRun(n, p + 1))
    BY <2>p, <1>n, <2>2, <2>3, <2>s, OverFree DEF Scanned
  <2>6. /\ scan'.i = scan.i /\ scan'.j = scan.j + 1 /\ scan'.c = scan.c + 1
        /\ scan'.last = (IF scan.c = 0 THEN scan.i + scan.j ELSE scan.last)
    BY <1>9, ScanView
  <2>7. scan'.last = p - scan.c + 1 BY <1>n, <2>3, <2>s, <2>6
  <2>8. CASE scan.c + 1 >= n
    <3>1. Goto(t, "found") BY <1>p, <1>9, <2>8, Zenon DEF ScanFreeBit, Enough
    <3>2. Place(t)' = "found" BY <2>1, <3>1, GotoView, Zenon DEF PCs
    <3>3. \A x \in Nat : p - scan.c <= x /\ x < p - scan.c + n => x \notin used'
      BY <1>n, <2>1, <2>3, <2>5, <2>8, <2>s, SMTT(60) DEF FreeBefore
    <3>4. scan'.last > 0 /\ scan'.last - 1 + n <= Width * Elements
      BY <1>n, <2>3, <2>7, <2>8, <2>s
    <3>5. scan'.last - 1 = p - scan.c BY <1>n, <2>3, <2>7, <2>s
    <3> QED BY <1>p, <2>1, <3>2, <3>3, <3>4, <3>5, Zenon DEF Good, ScanOf, FoundOf
  <2>9. CASE scan.c + 1 < n
    <3>1. Goto(t, "bits") BY <1>p, <1>9, <1>n, <2>9, <2>s DEF ScanFreeBit, Enough
    <3>2. Place(t)' = "bits" BY <2>1, <3>1, GotoView, Zenon DEF PCs
    <3>3. k * Width + (scan.j + 1) = p + 1 BY <2>p, <1>n DEF ScanStates
    <3>4. scan.i = k * Width + 1 BY <2>2, Zenon DEF Scanned
    <3>5. scan'.j <= Width /\ scan'.last = p + 1 - scan'.c + 1
      BY <1>n, <2>3, <2>6, <2>7, <2>s DEF ScanStates
    <3>6. op'[t].count = n BY <1>p, <2>1, Zenon
    <3>7. PICK c \in Nat : c = scan.c + 1 BY <2>s
    <3>8. PICK q \in Nat : q = p + 1 BY <2>3
    <3>9. NoRun(n, q) /\ FreeBefore(c, q) BY <2>5, <2>9, <3>7, <3>8, Zenon
    <3>10. scan'.c = c /\ c < n /\ scan'.last = q - c + 1 BY <2>3, <2>6, <2>7, <2>9, <2>s, <3>7, <3>8, SMTT(60)
    <3>11. k * Width + scan'.j = q BY <2>6, <3>3, <3>8, Zenon
    <3>12. scan'.i = k * Width + 1 BY <2>6, <3>4, Zenon
    <3> QED BY <2>1, <3>2, <3>5, <3>6, <3>9, <3>10, <3>11, <3>12, BitsGoOn, Zenon DEF Good
  <2> QED BY <1>n, <2>8, <2>9, <2>s
<1>10. CASE ScanNext(t)
  <2>1. Place(t) = "bits" /\ UNCHANGED <<op, used>> BY <1>10, Zenon DEF ScanNext, At, Place, pages
  <2>2. PICK k \in 0 .. Elements - 1 : scan.j <= Width /\ Scanned(k, k * Width + scan.j, n)
    BY <1>p, <1>t, <2>1, Zenon DEF ScanOf
  <2>3. k + 1 \in 0 .. Elements /\ (k + 1) * Width = k * Width + Width /\ scan.j = Width
    BY <1>n, <1>10, <2>2, ElementIs DEF ScanNext, Scanned
  <2>4. Place(t)' = "scan" BY <1>10, <2>1, GotoView, Zenon DEF ScanNext, PCs
  <2>5. scan'.i = scan.i + Width /\ scan'.c = scan.c /\ scan'.last = scan.last
    BY <1>10, <1>n, Zenon DEF ScanNext, NextElement, ScanStates
  <2>6. /\ scan.i = k * Width + 1 /\ NoRun(n, (k + 1) * Width) /\ FreeBefore(scan.c, (k + 1) * Width)
        /\ scan.c < n /\ (scan.c > 0 => scan.last = (k + 1) * Width - scan.c + 1)
    BY <2>2, <2>3, Zenon DEF Scanned
  <2>7. scan'.i = (k + 1) * Width + 1 /\ scan.c \in Nat BY <1>n, <2>3, <2>5, <2>6 DEF ScanStates
  <2>8. op'[t].count = n BY <1>p, <2>1, Zenon
  <2> QED BY <1>n, <2>1, <2>3, <2>4, <2>5, <2>6, <2>7, <2>8, ScanGoesOn, Zenon DEF Good
<1>11. CASE LargeEnough(t) \/ Enlarge(t) \/ Truncate(t)
  <2>1. Place(t) \in {"found", "truncate"} BY <1>11, Zenon DEF LargeEnough, Enlarge, Truncate, At, Place
  <2>2. scan' = scan /\ used' = used BY <1>11, Zenon DEF LargeEnough, Enlarge, Truncate, pages
  <2>3. Place(t)' \in {"truncate", "block"} /\ op'[t].count = n
    BY <1>p, <1>11, RemapView, GotoView DEF LargeEnough, Enlarge, Truncate, SameRequest, PCs
  <2> QED BY <1>p, <1>t, <2>1, <2>2, <2>3, Zenon DEF Good, ScanOf, FoundOf
<1>12. CASE GiveUp(t) \/ Grant(t) \/ GrantMove(t) \/ Start(t) \/ Finish(t)
  BY <1>1, <1>12, Zenon DEF GiveUp, Grant, GrantMove, Start, Finish, Critical
<1>13. CASE Copy(t) \/ Receive(t)
  <2>1. Place(t)' \in {"idle", "free"} BY <1>13, RemapView, GotoView, Zenon DEF Copy, Receive, PCs
  <2> QED BY <1>1, <2>1, Zenon DEF Critical
<1>14. ASSUME NEW s \in Slots, Write(t, s) PROVE Good
  BY <1>p, <1>2, <1>14, Zenon DEF Write, Place
<1>15. Good
  <2>1. CASE Go(t)
    <3>1. ScanFails(t) \/ TruncateThrows(t) \/ Block(t) \/ Keep(t) \/ Free(t) => Place(t)' # Place(t) /\ ~Critical(t)'
      BY ReturnView, MoveView, Zenon DEF ScanFails, TruncateThrows, Throw, Block, Keep, Free, Critical, At, Place
    <3>2. ASSUME NEW s \in Slots, NEW m \in Nat, Munmap(t, s) \/ Mmap(t, s, m) \/ Mremap(t, s, m) PROVE ~Critical(t)'
      BY <3>2, StartView, ZenonT(60) DEF Munmap, Mmap, Mremap, Critical
    <3> QED BY <1>1, <1>3, <1>4, <1>5, <1>6, <1>7, <1>8, <1>9, <1>10, <1>11, <1>13, <1>14, <3>1, <3>2, ZenonT(60)
         DEF Step, Use
  <2> QED BY <1>k, <1>12, <2>1, Zenon
<1> QED BY <1>15, Zenon
-----------------------------------------------------------------------------
\* A thread that moves an allocation, by its place.
LEMMA MovingPlace ==
  ASSUME PlaceInv, NEW t \in Threads
  PROVE  Moving(t) <=> Place(t) \in {"copy", "free"} /\ state[op[t].slot] = "moving"
BY Zenon DEF PlaceInv, Moving, Place

\* A block that is in use after a step was in use before it, or was just granted.
LEMMA HeldBefore ==
  ASSUME OnlyGrowing, TypeOK, PlaceInv, PlaceInv', WaitInv, SlotInv, NEW t \in Threads, Step(t) \/ Use(t),
         NEW b, Held(b)'
  PROVE  Held(b) \/ ((Grant(t) \/ GrantMove(t)) /\ b = Found(t))
<1> USE PagesAssumption
<1>1. Start(t) \/ Go(t) \/ GiveUp(t) \/ Grant(t) \/ GrantMove(t) \/ Finish(t) BY Kinds, Zenon
<1>2. Frame(t) BY <1>1, Zenon DEF Start, Go, GiveUp, Grant, GrantMove, Finish
<1>s. SlotOf(t) BY Zenon DEF SlotInv
<1>3. CASE \E s \in Slots : state'[s] \in {"live", "moving", "leaving"} /\ b = alloc'[s]
  <2>1. PICK s \in Slots : state'[s] \in {"live", "moving", "leaving"} /\ b = alloc'[s] BY <1>3, Zenon
  <2>2. ASSUME state[s] \in {"live", "moving", "leaving"}, b = alloc[s] PROVE Held(b)
    BY <2>2, Zenon DEF Held, Occupied
  <2>3. CASE Start(t) BY <2>1, <2>2, <2>3, ZenonT(60) DEF Start, TypeOK
  <2>4. CASE Go(t) BY <2>1, <2>2, <2>4, Zenon DEF Go
  <2>5. CASE GiveUp(t) BY <2>1, <2>2, <2>5, Zenon DEF GiveUp, TypeOK
  <2>6. CASE Grant(t) BY <2>1, <2>2, <2>6, Zenon DEF Grant, TypeOK
  <2>7. CASE GrantMove(t) BY <2>1, <2>2, <2>7, Zenon DEF GrantMove
  <2>8. CASE Finish(t)
    <3>1. CASE s # op[t].slot BY <2>1, <2>2, <2>8, <3>1, Zenon DEF Finish, TypeOK
    <3>2. CASE s = op[t].slot
      <4>1. b = op[t].target /\ Place(t) \in {"copy", "free"} /\ state[op[t].slot] = "moving"
        BY <1>s, <2>1, <2>8, <3>2, ZenonT(60) DEF Finish, TypeOK, SlotOf
      <4> QED BY <4>1, MovingPlace, Zenon DEF Held
    <3> QED BY <3>1, <3>2, Zenon
  <2> QED BY <1>1, <2>3, <2>4, <2>5, <2>6, <2>7, <2>8, Zenon
<1>4. ASSUME NEW u \in Threads, Moving(u)', b = op'[u].target
      PROVE  Held(b) \/ ((Grant(t) \/ GrantMove(t)) /\ b = Found(t))
  <2>1. Place(u)' \in {"copy", "free"} /\ state'[op'[u].slot] = "moving"
    BY <1>4, Zenon DEF Moving, Place
  <2>2. CASE u # t
    <3>1. op'[u] = op[u] /\ Place(u)' = Place(u) BY <1>2, <2>2, Zenon DEF Frame
    <3>2. op[u].slot \in Slots BY <2>1, <3>1, Zenon DEF SlotInv, SlotOf
    <3>3. state'[op[u].slot] = state[op[u].slot] BY <2>2, <3>2, OthersKept, Zenon
    <3> QED BY <1>4, <2>1, <3>1, <3>3, MovingPlace, Zenon DEF Held
  <2>3. CASE u = t
    <3>1. CASE Start(t) BY <2>1, <2>3, <3>1, ZenonT(60) DEF Start, TypeOK
    <3>2. CASE Go(t)
      <4>1. Place(t) \in {"copy", "free"} /\ op[t].target = b /\ state[op[t].slot] = "moving"
        BY <1>4, <2>1, <2>3, <3>2, Zenon DEF Go, SameRequest
      <4> QED BY <4>1, MovingPlace, Zenon DEF Held
    <3>3. CASE GiveUp(t) \/ Grant(t) \/ Finish(t) BY <2>1, <2>3, <3>3, Zenon DEF GiveUp, Grant, Finish
    <3>4. CASE GrantMove(t) BY <1>4, <2>3, <3>4, Zenon DEF GrantMove
    <3> QED BY <1>1, <3>1, <3>2, <3>3, <3>4, Zenon
  <2> QED BY <2>2, <2>3, Zenon
<1> QED BY <1>3, <1>4, Zenon DEF Held, Occupied

\* A block in use stays in use, unless it is the old place of an allocation
\* whose operation ends.
LEMMA HeldAfter ==
  ASSUME OnlyGrowing, TypeOK, PlaceInv, PlaceInv', WaitInv, SlotInv, NEW t \in Threads, Step(t) \/ Use(t),
         NEW b, Held(b)
  PROVE  Held(b)' \/ (Finish(t) /\ b = alloc[op[t].slot])
<1> USE PagesAssumption
<1>1. Start(t) \/ Go(t) \/ GiveUp(t) \/ Grant(t) \/ GrantMove(t) \/ Finish(t) BY Kinds, Zenon
<1>2. Frame(t) BY <1>1, Zenon DEF Start, Go, GiveUp, Grant, GrantMove, Finish
<1>s. SlotOf(t) BY Zenon DEF SlotInv
<1>3. CASE \E s \in Slots : state[s] \in {"live", "moving", "leaving"} /\ b = alloc[s]
  <2>1. PICK s \in Slots : state[s] \in {"live", "moving", "leaving"} /\ b = alloc[s] BY <1>3, Zenon
  <2>3. CASE Start(t)
    <3>1. state'[s] \in {"live", "moving", "leaving"} /\ b = alloc'[s] BY <2>1, <2>3, ZenonT(60) DEF Start, TypeOK
    <3> QED BY <3>1, Zenon DEF Held, Occupied
  <2>4. CASE Go(t)
    <3>1. state'[s] \in {"live", "moving", "leaving"} /\ b = alloc'[s] BY <2>1, <2>4, Zenon DEF Go
    <3> QED BY <3>1, Zenon DEF Held, Occupied
  <2>5. CASE GiveUp(t)
    <3>1. s = op[t].slot => state[s] = "moving"
      BY <1>s, <2>1, <2>5, Zenon DEF GiveUp, SlotOf, Requesting
    <3>2. state'[s] \in {"live", "moving", "leaving"} /\ b = alloc'[s]
      BY <2>1, <2>5, <3>1, Zenon DEF GiveUp, TypeOK
    <3> QED BY <3>2, Zenon DEF Held, Occupied
  <2>6. CASE Grant(t)
    <3>1. s # op[t].slot BY <2>1, <2>6, Zenon DEF Grant
    <3>2. state'[s] \in {"live", "moving", "leaving"} /\ b = alloc'[s]
      BY <2>1, <2>6, <3>1, Zenon DEF Grant, TypeOK
    <3> QED BY <3>2, Zenon DEF Held, Occupied
  <2>7. CASE GrantMove(t)
    <3>1. state'[s] \in {"live", "moving", "leaving"} /\ b = alloc'[s] BY <2>1, <2>7, Zenon DEF GrantMove
    <3> QED BY <3>1, Zenon DEF Held, Occupied
  <2>8. CASE Finish(t) /\ s # op[t].slot
    <3>1. state'[s] \in {"live", "moving", "leaving"} /\ b = alloc'[s] BY <2>1, <2>8, Zenon DEF Finish, TypeOK
    <3> QED BY <3>1, Zenon DEF Held, Occupied
  <2> QED BY <1>1, <2>1, <2>3, <2>4, <2>5, <2>6, <2>7, <2>8, Zenon
<1>4. ASSUME NEW u \in Threads, Moving(u), b = op[u].target
      PROVE  Held(b)' \/ (Finish(t) /\ b = alloc[op[t].slot])
  <2>1. Place(u) \in {"copy", "free"} /\ state[op[u].slot] = "moving" /\ op[u].slot \in Slots
    BY <1>4, MovingPlace, Zenon DEF SlotInv, SlotOf
  <2>3. CASE u # t
    <3>1. op'[u] = op[u] /\ pc'[u] = pc[u] BY <1>2, <2>3, Zenon DEF Frame
    <3>2. state'[op[u].slot] = state[op[u].slot] BY <2>1, <2>3, OthersKept, Zenon
    <3>3. pc[u] \in {"copy", "free"} BY <1>4, Zenon DEF Moving
    <3> QED BY <1>4, <2>1, <3>1, <3>2, <3>3, Zenon DEF Held, Moving
  <2>4. CASE u = t
    <3>1. CASE Start(t) \/ GiveUp(t) \/ Grant(t) \/ GrantMove(t)
      BY <2>1, <2>4, <3>1, Zenon DEF Start, GiveUp, Grant, GrantMove, Critical
    <3>2. CASE Go(t)
      <4>1. /\ op'[t].target = b /\ op'[t].slot = op[t].slot /\ state' = state
            /\ Place(t)' \in {"copy", "free", "dead"}
        BY <1>4, <2>1, <2>4, <3>2, ZenonT(60) DEF Go, SameRequest
      <4>2. pc'[t] # "dead"
        <5>1. pc[t] \in {"copy", "free"} BY <1>4, <2>4, ZenonT(60) DEF Moving
        <5>2. CASE Copy(t) BY <5>2, GotoView DEF Copy, PCs
        <5>3. CASE Keep(t) \/ Free(t) BY <5>3, ReturnView, Zenon DEF Keep, Free
        <5>4. ~Receive(t) BY <5>1, Zenon DEF Receive, Idle, At, WaitInv
        <5> QED BY <5>1, <5>2, <5>3, <5>4, ZenonT(60) DEF Step, Use, RemapMap, RemapStore, Acquire, ScanFull, ScanEmpty,
              ScanMixed, ScanUsedBit, ScanFreeBit, ScanNext, ScanFails, LargeEnough, Enlarge, Truncate,
              TruncateThrows, Block, Munmap, Write, Mmap, Mremap, At, Idle
      <4>3. pc'[t] \in {"copy", "free"} BY <4>1, <4>2, Zenon DEF Place, PlaceInv
      <4> QED BY <2>1, <2>4, <4>1, <4>3, Zenon DEF Held, Moving
    <3>3. CASE Finish(t)
      <4>1. state'[op[t].slot] = "live" /\ alloc'[op[t].slot] = b
        BY <1>4, <2>1, <2>4, <3>3, Zenon DEF Finish, TypeOK
      <4> QED BY <2>1, <2>4, <4>1, Zenon DEF Held, Occupied
    <3> QED BY <1>1, <3>1, <3>2, <3>3, Zenon
  <2> QED BY <2>3, <2>4, Zenon
<1> QED BY <1>3, <1>4, Zenon DEF Held, Occupied
\* The block of thread t that was found.
LEMMA FoundBlock ==
  ASSUME TypeOK, NEW t \in Threads
  PROVE  /\ Found(t) \in Blocks /\ Found(t).pos = scan.last /\ EndOf(Found(t)) = NewEnd(t)
         /\ scan.last \in Nat /\ op[t].count \in Nat /\ NewEnd(t) \in Nat /\ scan.last <= NewEnd(t)
BY DEF TypeOK, Locals, Blocks, Found, EndOf, NewEnd

\* The allocator's own pages stay blocked, and blocked pages have an owner.
LEMMA PagesStep ==
  ASSUME OnlyGrowing, TypeOK, TypeOK', PlaceInv, PlaceInv', WaitInv, SlotInv, FoundInv, Kept, Owned, Above,
         NEW t \in Threads, Step(t) \/ Use(t)
  PROVE  Kept' /\ Owned' /\ Above'
<1> USE PagesAssumption
<1>1. Start(t) \/ Go(t) \/ GiveUp(t) \/ Grant(t) \/ GrantMove(t) \/ Finish(t) BY Kinds, Zenon
<1>s. SlotOf(t) BY Zenon DEF SlotInv
<1>2. ASSUME Grant(t) \/ GrantMove(t)
      PROVE  /\ Found(t).pos >= Reserved /\ used' = used \cup Pages(Found(t))
             /\ \A b \in Blocks : b = Found(t) => Held(b)'
  <2>1. Place(t) = "block" /\ used' = used \cup Pages(Found(t)) BY <1>2, Zenon DEF Grant, GrantMove
  <2>2. op[t].count > 0 /\ op[t].slot \in Slots BY <1>s, <2>1, Zenon DEF SlotOf, Requesting, Critical
  <2>3. scan.last > 0 /\ scan.last - 1 \notin used
    BY <2>1, <2>2, FoundBlock, SMTT(30) DEF FoundInv, FoundOf
  <2>4. scan.last - 1 >= Reserved BY <2>3, FoundBlock, SMTT(60) DEF Kept
  <2>5. CASE Grant(t)
    <3>1. state'[op[t].slot] = "live" /\ alloc'[op[t].slot] = Found(t) BY <2>2, <2>5, ZenonT(60) DEF Grant, TypeOK
    <3> QED BY <2>1, <2>2, <2>4, <3>1, FoundBlock DEF Held, Occupied
  <2>6. CASE GrantMove(t)
    <3>1. op'[t].target = Found(t) /\ state'[op'[t].slot] = "moving" /\ pc'[t] = "copy"
      BY <1>s, <2>6, Zenon DEF GrantMove, SlotOf, Requesting, Critical, Place, PlaceInv
    <3> QED BY <2>1, <2>4, <3>1, FoundBlock DEF Held, Moving
  <2> QED BY <1>2, <2>5, <2>6, Zenon
<1>3. ASSUME Finish(t)
      PROVE  /\ alloc[op[t].slot] \in Blocks /\ alloc[op[t].slot].pos >= Reserved
             /\ used' \in {used, used \ Pages(alloc[op[t].slot])}
  <2>1. op[t].slot \in Slots /\ state[op[t].slot] \in {"moving", "leaving"}
    BY <1>s, <1>3, Zenon DEF Finish, SlotOf
  <2>2. Held(alloc[op[t].slot]) /\ alloc[op[t].slot] \in Blocks BY <2>1, Zenon DEF Held, Occupied, TypeOK
  <2> QED BY <1>3, <2>2, Zenon DEF Above, Finish
<1>4. ASSUME ~Grant(t), ~GrantMove(t), ~Finish(t) PROVE used' = used
  BY <1>1, <1>4, Zenon DEF Start, Go, GiveUp
<1>5. Kept'
  <2> SUFFICES ASSUME NEW x \in Nat, x < Reserved PROVE x \in used' BY Zenon DEF Kept
  <2>1. x \in used BY ZenonT(60) DEF Kept
  <2>2. ASSUME Finish(t) PROVE x \notin Pages(alloc[op[t].slot]) BY <1>3, <2>2 DEF Pages, Blocks
  <2> QED BY <1>2, <1>3, <1>4, <2>1, <2>2, Zenon
<1>6. Above'
  <2> SUFFICES ASSUME NEW b \in Blocks, Held(b)' PROVE b.pos >= Reserved BY Zenon DEF Above
  <2>1. Held(b) \/ ((Grant(t) \/ GrantMove(t)) /\ b = Found(t)) BY HeldBefore, Zenon
  <2> QED BY <1>2, <2>1, Zenon DEF Above
<1>7. Owned'
  <2> SUFFICES ASSUME NEW x \in used', ~(x < Reserved)
               PROVE  \E b \in Blocks : Held(b)' /\ x \in Pages(b)
    BY Zenon DEF Owned
  <2>1. CASE (Grant(t) \/ GrantMove(t)) /\ x \in Pages(Found(t))
    <3>1. PICK b \in Blocks : b = Found(t) BY FoundBlock, Zenon
    <3>2. Held(b)' BY <1>2, <2>1, <3>1, Zenon
    <3> QED BY <2>1, <3>1, <3>2, Zenon
  <2>2. CASE x \in used
    <3>1. PICK b \in Blocks : Held(b) /\ x \in Pages(b) BY <2>2, Zenon DEF Owned
    <3>2. CASE Held(b)' BY <3>1, <3>2, Zenon
    <3>3. CASE Finish(t) /\ b = alloc[op[t].slot]
      <4>1. used' = used BY <1>3, <3>1, <3>3, Zenon
      <4>2. op[t].slot \in Slots BY <1>s, <3>3, Zenon DEF Finish, SlotOf
      <4>3. CASE Place(t) = "copy"
        <5>2. PICK c \in Blocks : c = op[t].target BY Zenon DEF TypeOK, Locals
        <5>1. state'[op[t].slot] = "live" /\ alloc'[op[t].slot] = c /\ c.pos = b.pos /\ c.count >= b.count
          BY <1>s, <3>3, <4>2, <4>3, <5>2, Zenon DEF Finish, SlotOf, TypeOK
        <5>3. Held(c)' BY <4>2, <5>1, ZenonT(60) DEF Held, Occupied
        <5>4. x \in Pages(c) BY <3>1, <5>1, <5>2, SMTT(30) DEF Pages, EndOf, Blocks
        <5> QED BY <5>2, <5>3, <5>4, Zenon
      <4>4. CASE Place(t) # "copy" BY <3>1, <3>3, <4>4, ZenonT(60) DEF Finish
      <4> QED BY <4>3, <4>4, Zenon
    <3> QED BY <3>1, <3>2, <3>3, HeldAfter, Zenon
  <2> QED BY <1>2, <1>3, <1>4, <2>1, <2>2, Zenon
<1> QED BY <1>5, <1>6, <1>7, Zenon
-----------------------------------------------------------------------------
\* The steps that change the sizes, first_unused_page_index or the contents.
LEMMA Quiet ==
  ASSUME NEW t \in Threads, Step(t) \/ Use(t),
         ~Enlarge(t), ~Truncate(t), ~Block(t), ~Copy(t), ~ \E s \in Slots : Write(t, s)
  PROVE  UNCHANGED <<size, fdsize, first, dirty>>
BY ZenonT(60) DEF Step, Use, RemapMap, RemapStore, Acquire, ScanFull, ScanEmpty, ScanMixed, ScanUsedBit,
       ScanFreeBit, ScanNext, ScanFails, LargeEnough, TruncateThrows, Keep, Free, Receive,
       Munmap, Mmap, Mremap, pages, sizes

\* A grant is a Block step.
LEMMA GrantIsBlock ==
  ASSUME TypeOK, PlaceInv, WaitInv, NEW t \in Threads, Step(t) \/ Use(t), Grant(t) \/ GrantMove(t)
  PROVE  Block(t)
<1>1. Place(t) = "block" /\ Place(t)' # "block" BY Zenon DEF Grant, GrantMove, Place
<1>2. Place(t)' # "dead" BY Zenon DEF Grant, GrantMove
<1>3. ~RemapMap(t) BY <1>1, <1>2, MapView, Zenon
<1>4. ~RemapStore(t) BY <1>1, StoreView, Zenon
<1>5. pc[t] = "block" \/ pc[t] \in {"remap", "store"} BY <1>1, Zenon DEF Place
<1>6. ~Receive(t) BY <1>5, Zenon DEF Receive, Idle, At, WaitInv
<1> QED BY <1>3, <1>4, <1>5, <1>6, ZenonT(60) DEF Step, Use, RemapMap, RemapStore, Acquire, ScanFull, ScanEmpty,
      ScanMixed, ScanUsedBit, ScanFreeBit, ScanNext, ScanFails, LargeEnough, Enlarge, Truncate,
      TruncateThrows, Keep, Copy, Free, Munmap, Write, Mmap, Mremap, At, Idle

\* Nothing at first_unused_page_index or above has been handed out or written.
LEMMA FirstStep ==
  ASSUME OnlyGrowing, TypeOK, TypeOK', PlaceInv, PlaceInv', WaitInv, LockInv, SlotInv, FirstInv,
         NEW t \in Threads, Step(t) \/ Use(t)
  PROVE  FirstInv'
<1> USE PagesAssumption
<1>n. size \in Nat /\ first \in Nat /\ size' \in Nat /\ first' \in Nat /\ dirty \subseteq Nat
  BY Zenon DEF TypeOK
<1>f. Found(t) \in Blocks /\ EndOf(Found(t)) = NewEnd(t) /\ NewEnd(t) \in Nat /\ scan.last <= NewEnd(t)
  BY FoundBlock, Zenon
<1>b. Block(t) => NewEnd(t) <= size BY Zenon DEF Block, At, Place, FirstInv
<1>1. size <= size' /\ first <= first' /\ first' <= size' /\ (Block(t) => NewEnd(t) <= first')
  <2>1. CASE Enlarge(t) BY <1>n, <1>f, <2>1 DEF Enlarge, At, pages, FirstInv, Block
  <2>2. CASE Truncate(t) BY <1>n, <2>2, SMTT(60) DEF Truncate, At, FirstInv, Block
  <2>3. CASE Block(t) BY <1>n, <1>f, <1>b, <2>3, SMTT(60) DEF Block, sizes, NewFirst, Larger, FirstInv
  <2>4. CASE Copy(t) \/ \E s \in Slots : Write(t, s)
    BY <1>n, <2>4 DEF Copy, Write, Block, At, Idle, sizes, FirstInv
  <2>5. CASE ~(Enlarge(t) \/ Truncate(t) \/ Block(t) \/ Copy(t) \/ \E s \in Slots : Write(t, s))
    BY <1>n, <2>5, Quiet DEF FirstInv
  <2> QED BY <2>1, <2>2, <2>3, <2>4, <2>5, Zenon
<1>2. ASSUME NEW x \in dirty' PROVE x < first'
  <2>1. CASE x \in dirty BY <1>1, <1>n, <2>1 DEF FirstInv
  <2>2. CASE x \notin dirty
    <3>1. CASE Copy(t)
      <4> DEFINE b == alloc[op[t].slot]  c == op[t].target
      <4>1. Place(t) = "copy" BY <3>1, Zenon DEF Copy, At, Place
      <4>2. op[t].slot \in Slots /\ state[op[t].slot] = "moving" /\ c.count >= b.count
        BY <4>1, Zenon DEF SlotInv, SlotOf
      <4>3. b \in Blocks /\ c \in Blocks BY <4>2, Zenon DEF TypeOK, Locals
      <4>4. Held(c) BY <4>1, <4>2, MovingPlace, Zenon DEF Held
      <4>5. EndOf(c) <= first BY <4>3, <4>4, Zenon DEF FirstInv
      <4>6. PICK k \in dirty \cap Pages(b) : x = c.pos + (k - b.pos) BY <2>2, <3>1, Zenon DEF Copy
      <4> HIDE DEF b, c
      <4>7. k \in Nat /\ b.pos <= k /\ k <= b.pos + b.count - 1
        BY <1>n, <4>3, <4>6, SMTT(60) DEF Pages, EndOf, Blocks
      <4>8. x < c.pos + c.count BY <4>2, <4>3, <4>6, <4>7, SMTT(60) DEF Blocks
      <4> QED BY <1>1, <1>n, <4>3, <4>5, <4>6, <4>7, <4>8, SMTT(60) DEF EndOf, Blocks
    <3>2. CASE \E s \in Slots : Write(t, s)
      <4>1. PICK s \in Slots : Write(t, s) BY <3>2, Zenon
      <4>2. x \in Pages(alloc[s]) /\ state[s] = "live" BY <2>2, <4>1, Zenon DEF Write
      <4>3. Held(alloc[s]) /\ alloc[s] \in Blocks BY <4>2, Zenon DEF Held, Occupied, TypeOK
      <4>4. EndOf(alloc[s]) <= first BY <4>3, Zenon DEF FirstInv
      <4> QED BY <1>1, <1>n, <4>2, <4>3, <4>4, SMTT(60) DEF Pages, EndOf, Blocks
    <3>3. CASE Block(t) BY <2>2, <3>3, Zenon DEF Block
    <3>4. CASE Enlarge(t) \/ Truncate(t) BY <2>2, <3>4, Zenon DEF Enlarge, Truncate, pages
    <3> QED BY <2>2, <3>1, <3>2, <3>3, <3>4, Quiet, Zenon
  <2> QED BY <2>1, <2>2, Zenon
<1>3. ASSUME NEW b \in Blocks, Held(b)' PROVE EndOf(b) <= first'
  <2>0. EndOf(b) \in Nat BY DEF EndOf, Blocks
  <2>1. Held(b) \/ ((Grant(t) \/ GrantMove(t)) /\ b = Found(t)) BY <1>3, HeldBefore, Zenon
  <2>2. CASE Held(b) BY <1>1, <1>n, <2>0, <2>2 DEF FirstInv
  <2>3. CASE (Grant(t) \/ GrantMove(t)) /\ b = Found(t)
    <3>1. Block(t) BY <2>3, GrantIsBlock, Zenon
    <3> QED BY <1>1, <1>f, <2>3, <3>1, Zenon
  <2> QED BY <2>1, <2>2, <2>3, Zenon
<1>4. ASSUME NEW u \in Threads, Place(u)' \in {"truncate", "block"}
      PROVE  scan'.last + op'[u].count <= size'
  <2>1. Start(t) \/ Go(t) \/ GiveUp(t) \/ Grant(t) \/ GrantMove(t) \/ Finish(t) BY Kinds, ZenonT(60)
  <2>2. CASE u # t
    <3>1. op'[u] = op[u] /\ Place(u)' = Place(u)
      BY <2>1, <2>2, Zenon DEF Start, Go, GiveUp, Grant, GrantMove, Finish, Frame
    <3>2. scan' = scan BY <1>4, <2>2, <3>1, ScanQuiet, Zenon DEF Critical
    <3>3. NewEnd(u) <= size /\ NewEnd(u) \in Nat BY <1>4, <3>1, FoundBlock, Zenon DEF FirstInv
    <3> QED BY <1>1, <1>n, <3>1, <3>2, <3>3 DEF NewEnd
  <2>3. CASE u = t
    <3>1. Go(t) /\ op'[t].count = op[t].count
      BY <1>4, <2>1, <2>3, ZenonT(60) DEF Start, Go, GiveUp, Grant, GrantMove, Finish, SameRequest
    <3>2. CASE Enlarge(t) BY <1>n, <1>f, <2>3, <3>1, <3>2, SMTT(60) DEF Enlarge, NewEnd
    <3>3. CASE LargeEnough(t) BY <1>n, <1>f, <2>3, <3>1, <3>3, Zenon DEF LargeEnough, NewEnd, sizes
    <3>4. CASE RemapMap(t) \/ RemapStore(t) \/ Truncate(t)
      <4>1. scan' = scan /\ size' = size BY <3>4, Zenon DEF RemapMap, RemapStore, Truncate, sizes
      <4>2. Place(t) \in {"truncate", "block"}
        BY <1>4, <2>3, <3>4, MapView, StoreView, Zenon DEF Truncate, At, Place
      <4> QED BY <1>n, <2>3, <3>1, <4>1, <4>2, Zenon DEF FirstInv, NewEnd
    <3>5. CASE Acquire(t) \/ ScanFull(t) \/ ScanEmpty(t) \/ ScanMixed(t) \/ ScanUsedBit(t) \/ ScanFreeBit(t) \/ ScanNext(t)
      <4>1. Place(t) \in {"lock", "scan", "bits"}
        BY <3>5, Zenon DEF Acquire, ScanFull, ScanEmpty, ScanMixed, ScanUsedBit, ScanFreeBit, ScanNext, At, Place
      <4> QED BY <1>4, <2>3, <3>1, <4>1, Zenon DEF Go
    <3>6. CASE ScanFails(t) \/ TruncateThrows(t) \/ Keep(t) \/ Free(t)
      <4>1. Return(t) BY <3>6, Zenon DEF ScanFails, TruncateThrows, Keep, Free, Throw
      <4> QED BY <1>4, <2>3, <4>1, ReturnView, Zenon
    <3>7. CASE Block(t) BY <1>4, <2>3, <3>7, ReturnView, MoveView, ZenonT(60) DEF Block
    <3>8. CASE Copy(t) BY <1>4, <2>3, <3>8, GotoView, SMTT(60) DEF Copy, PCs
    <3>9. CASE Use(t)
      <4>1. pc[t] = "idle" BY <3>9, Zenon DEF Use, Receive, Munmap, Write, Mmap, Mremap, Idle, At, WaitInv
      <4> QED BY <1>4, <2>3, <3>1, <4>1, Zenon DEF Go, Place
    <3> QED BY <3>2, <3>3, <3>4, <3>5, <3>6, <3>7, <3>8, <3>9, ZenonT(60) DEF Step
  <2> QED BY <2>2, <2>3, Zenon
<1> QED BY <1>1, <1>2, <1>3, <1>4, Zenon DEF FirstInv, NewEnd
\* ftruncate() does not fail.
Truncates == ~TruncateFails
\* One thread runs at a time: the threads of the program do not call the library
\* concurrently, and the library has one thread.
Turns == ~Concurrent

\* The file grows with the segment, before a page of it is handed out.
LEMMA BackedStep ==
  ASSUME OnlyGrowing, Truncates, TypeOK, TypeOK', PlaceInv, PlaceInv', WaitInv, LockInv, SlotInv,
         FirstInv, BackedInv, NEW t \in Threads, Step(t) \/ Use(t)
  PROVE  BackedInv'
<1>n. size \in Nat /\ fdsize \in Nat /\ size' \in Nat /\ fdsize' \in Nat BY Zenon DEF TypeOK
<1>1. Start(t) \/ Go(t) \/ GiveUp(t) \/ Grant(t) \/ GrantMove(t) \/ Finish(t) BY Kinds, Zenon
<1>2. Frame(t) BY <1>1, Zenon DEF Start, Go, GiveUp, Grant, GrantMove, Finish
<1>3. CASE Enlarge(t)
  <2>1. fdsize' = fdsize /\ size' >= size /\ pc'[t] = "truncate"
    BY <1>n, <1>3, FoundBlock, SMTT(60) DEF Enlarge, Goto, TypeOK
  <2>2. ~Block(t) BY <1>3, Zenon DEF Enlarge, Block, At
  <2>3. \A b \in Blocks : Held(b)' => EndOf(b) <= fdsize'
    BY <2>1, <2>2, HeldBefore, GrantIsBlock, ZenonT(60) DEF BackedInv
  <2> QED BY <1>n, <2>1, <2>3, SMTT(60) DEF BackedInv
<1>4. CASE Truncate(t)
  <2>1. fdsize' = size' /\ fdsize <= fdsize' BY <1>4, Zenon DEF Truncate, BackedInv
  <2>2. ~Block(t) BY <1>4, Zenon DEF Truncate, Block, At
  <2>3. ASSUME NEW b \in Blocks, Held(b)' PROVE EndOf(b) <= fdsize'
    <3>1. Held(b) BY <2>2, <2>3, HeldBefore, GrantIsBlock, Zenon
    <3>2. EndOf(b) \in Nat BY DEF EndOf, Blocks
    <3> QED BY <1>n, <2>1, <3>1, <3>2 DEF BackedInv
  <2> QED BY <1>n, <2>1, <2>3 DEF BackedInv
<1>5. CASE ~Enlarge(t) /\ ~Truncate(t)
  <2>1. size' = size /\ fdsize' = fdsize
    BY <1>5, Quiet, Zenon DEF Block, Copy, Write, sizes
  <2>2. ASSUME NEW u \in Threads, pc[u] = "truncate" PROVE pc'[u] = "truncate"
    <3>1. CASE u # t BY <1>2, <2>2, <3>1, Zenon DEF Frame
    <3>2. CASE u = t
      <4>1. ~Receive(t) BY <2>2, <3>2, Zenon DEF Receive, Idle, At, WaitInv
      <4> QED BY <1>5, <2>2, <3>2, <4>1, ZenonT(60) DEF Truncates, Step, Use, RemapMap, RemapStore, Acquire, ScanFull, ScanEmpty,
            ScanMixed, ScanUsedBit, ScanFreeBit, ScanNext, ScanFails, LargeEnough, TruncateThrows, Block,
            Keep, Copy, Free, Munmap, Write, Mmap, Mremap, At, Idle
    <3> QED BY <3>1, <3>2, Zenon
  <2>3. Block(t) => fdsize = size
    <3> SUFFICES ASSUME Block(t), NEW u \in Threads, pc[u] = "truncate" PROVE FALSE
      BY <1>n DEF BackedInv
    <3>1. Critical(u) /\ Critical(t) BY Zenon DEF Block, At, Critical, Place
    <3>2. u = t BY <3>1, Zenon DEF LockInv
    <3> QED BY <3>2, Zenon DEF Block, At
  <2>4. ASSUME NEW b \in Blocks, Held(b)' PROVE EndOf(b) <= fdsize'
    <3>1. CASE Held(b) BY <2>1, <3>1, Zenon DEF BackedInv
    <3>2. CASE (Grant(t) \/ GrantMove(t)) /\ b = Found(t)
      <4>1. Block(t) BY <3>2, GrantIsBlock, Zenon
      <4>2. NewEnd(t) <= size BY <4>1, Zenon DEF Block, At, Place, FirstInv
      <4> QED BY <2>1, <2>3, <3>2, <4>1, <4>2, FoundBlock, Zenon
    <3> QED BY <2>4, <3>1, <3>2, HeldBefore, Zenon
  <2> QED BY <2>1, <2>2, <2>4, Zenon DEF BackedInv
<1> QED BY <1>3, <1>4, <1>5, Zenon

\* The thread that runs has mapped the whole segment, or is about to.
LEMMA TurnStep ==
  ASSUME OnlyGrowing, Truncates, Turns, TypeOK, TypeOK', PlaceInv, WaitInv, TurnInv,
         NEW t \in Threads, Step(t) \/ Use(t)
  PROVE  TurnInv'
<1> USE PagesAssumption
<1>n. /\ size \in Nat /\ ProcOf[t] \in Procs /\ \A p \in Procs : mapped[p] \in Nat /\ kernel[p] \in Nat
      /\ op[t] \in Locals /\ turn \in Threads /\ mapped \in [Procs -> Nat] /\ kernel \in [Procs -> Nat]
  BY Zenon DEF TypeOK
<1>1. Frame(t) BY Kinds, Zenon DEF Start, Go, GiveUp, Grant, GrantMove, Finish
<1>2. CASE Receive(t)
  <2>1. t # turn /\ pc[turn] = "idle" /\ turn' = t /\ UNCHANGED <<size, mapped, kernel, broken>>
    BY <1>2, Zenon DEF Turns, Receive, Idle, At, maps, sizes
  <2>2. \A u \in Threads : u # t => pc'[u] = "idle" BY <1>1, <2>1, Zenon DEF Frame, TurnInv
  <2>3. CASE size > mapped[ProcOf[t]]
    <3>1. RemapTo(t, "idle") BY <1>2, <2>3, Zenon DEF Receive, RemapIfNeeded
    <3>2. pc'[t] = "remap" /\ op'[t].old = mapped[ProcOf[t]] /\ op'[t].new = size
      BY <1>n, <3>1, SMTT(60) DEF RemapTo, Goto, TypeOK, Locals
    <3> QED BY <1>n, <2>1, <2>2, <3>2, Zenon DEF TurnInv
  <2>4. CASE ~(size > mapped[ProcOf[t]])
    <3>1. pc'[t] = "idle" BY <1>2, <2>4, Zenon DEF Receive, RemapIfNeeded, Goto, TypeOK
    <3> QED BY <1>n, <2>1, <2>2, <2>4, <3>1, SMTT(60) DEF TurnInv
  <2> QED BY <2>3, <2>4, Zenon
<1>3. CASE ~Receive(t)
  <2>1. t = turn
    <3>1. CASE Use(t) BY <1>3, <3>1, Zenon DEF Turns, Use, Munmap, Write, Mmap, Mremap, Idle
    <3>2. CASE Step(t)
      <4>1. pc[t] # "idle" BY <3>2, ZenonT(60) DEF Step, RemapMap, RemapStore, Acquire, ScanFull, ScanEmpty, ScanMixed,
          ScanUsedBit, ScanFreeBit, ScanNext, ScanFails, LargeEnough, Enlarge, Truncate, TruncateThrows,
          Block, Keep, Copy, Free, At
      <4> QED BY <4>1, ZenonT(60) DEF TurnInv
    <3> QED BY <3>1, <3>2, Zenon
  <2>2. turn' = turn
    BY <1>3, ZenonT(60) DEF Step, Use, RemapMap, RemapStore, Acquire, ScanFull, ScanEmpty, ScanMixed,
       ScanUsedBit, ScanFreeBit, ScanNext, ScanFails, LargeEnough, Enlarge, Truncate, TruncateThrows,
       Block, Keep, Copy, Free, Munmap, Write, Mmap, Mremap
  <2>3. \A u \in Threads : u # turn' => pc'[u] = "idle" BY <1>1, <2>1, <2>2, Zenon DEF Frame, TurnInv
  <2>4. CASE RemapMap(t)
    <3>1. pc[t] = "remap" /\ kernel[ProcOf[t]] = op[t].old /\ op[t].new = size
      BY <1>n, <2>1, <2>4, Zenon DEF RemapMap, At, TurnInv
    <3>2. /\ kernel' = [kernel EXCEPT ![ProcOf[t]] = size] /\ pc'[t] = "store" /\ broken' = broken
          /\ UNCHANGED <<size, mapped, op>>
      BY <2>4, <3>1, ZenonT(60) DEF RemapMap, Goto, TypeOK, sizes
    <3> QED BY <1>n, <2>1, <2>2, <2>3, <3>1, <3>2, Zenon DEF TurnInv
  <2>5. CASE RemapStore(t)
    <3>1. pc[t] = "store" /\ kernel[ProcOf[t]] = size BY <2>1, <2>5, Zenon DEF RemapStore, At, TurnInv
    <3>2. /\ mapped' = [mapped EXCEPT ![ProcOf[t]] = size] /\ UNCHANGED <<size, kernel, broken>>
      BY <2>5, Zenon DEF RemapStore, NowMapped, sizes
    <3>3. pc'[t] \in {"idle", "scan", "block"} BY <2>5, <3>1, StoreView, Zenon DEF PlaceInv
    <3> QED BY <1>n, <2>1, <2>2, <2>3, <3>1, <3>2, <3>3 DEF TurnInv
  <2>6. ASSUME pc[t] \notin {"remap", "store", "truncate"}, pc'[t] \notin {"remap", "store", "truncate"},
               UNCHANGED <<size, mapped, kernel, broken>>
        PROVE  TurnInv'
    BY <2>1, <2>2, <2>3, <2>6, Zenon DEF TurnInv
  <2>7. ASSUME NEW l \in {"scan", "block"}, RemapIfNeeded(t, l), mapped[ProcOf[t]] = size
        PROVE  pc'[t] = l
    BY <1>n, <2>7 DEF RemapIfNeeded, Goto, TypeOK
  <2>8. CASE Acquire(t) \/ LargeEnough(t)
    <3>1. mapped[ProcOf[t]] = size /\ pc[t] \in {"lock", "found"}
      BY <2>1, <2>8, Zenon DEF Acquire, LargeEnough, At, TurnInv
    <3>2. pc'[t] \in {"scan", "block"}
      BY <2>7, <2>8, <3>1, GotoView, ZenonT(60) DEF Acquire, LargeEnough, PCs
    <3> QED BY <2>6, <2>8, <3>1, <3>2, Zenon DEF Acquire, LargeEnough, sizes, maps
  <2>9. CASE Enlarge(t)
    <3>1. size' \in Nat /\ size' > size /\ UNCHANGED <<mapped, kernel, broken>> /\ pc'[t] = "truncate"
      BY <1>n, <2>9, FoundBlock, Zenon DEF Enlarge, Goto, TypeOK, maps
    <3>2. pc[t] = "found" BY <2>9, Zenon DEF Enlarge, At
    <3> QED BY <1>n, <2>1, <2>2, <2>3, <3>1, <3>2 DEF TurnInv
  <2>10. CASE Truncate(t)
    <3>1. UNCHANGED <<size, mapped, kernel, broken>> /\ pc'[t] = "remap" /\ pc[t] = "truncate"
      BY <2>10, Zenon DEF Truncate, RemapTo, Goto, At, TypeOK, maps
    <3>2. op'[t].old = mapped[ProcOf[t]] /\ op'[t].new = size
      BY <1>n, <2>10, Zenon DEF Truncate, RemapTo, TypeOK, Locals
    <3> QED BY <1>n, <2>1, <2>2, <2>3, <3>1, <3>2, Zenon DEF TurnInv
  <2>11. CASE ScanFull(t) \/ ScanUsedBit(t) \/ \E s \in Slots : Write(t, s)
    BY <2>6, <2>11, Zenon DEF ScanFull, ScanUsedBit, Write, Idle, At, sizes, maps
  <2>12. CASE ScanEmpty(t) \/ ScanFreeBit(t) \/ ScanMixed(t) \/ ScanNext(t) \/ Copy(t)
    <3>1. PICK l \in {"found", "scan", "bits", "free"} : Goto(t, l)
      BY <2>12, Zenon DEF ScanEmpty, ScanFreeBit, ScanMixed, ScanNext, Copy
    <3>2. pc'[t] \notin {"remap", "store", "truncate"} BY <3>1, Zenon DEF Goto, TypeOK
    <3> QED BY <2>6, <2>12, <3>2, Zenon DEF ScanEmpty, ScanFreeBit, ScanMixed, ScanNext, Copy, At, sizes, maps
  <2>13. CASE ScanFails(t) \/ Keep(t) \/ Free(t)
    <3>1. Return(t) BY <2>13, Zenon DEF ScanFails, Keep, Free, Throw
    <3>2. pc'[t] = "idle" BY <3>1, ReturnView, Zenon
    <3> QED BY <2>6, <2>13, <3>2, Zenon DEF ScanFails, Keep, Free, At, sizes, maps
  <2>14. CASE Block(t)
    <3>1. pc'[t] \in {"idle", "copy"} BY <2>14, ReturnView, MoveView, Zenon DEF Block
    <3> QED BY <2>6, <2>14, <3>1, Zenon DEF Block, At, sizes, maps
  <2>15. ASSUME NEW s \in Slots, NEW m \in Nat, Munmap(t, s) \/ Mmap(t, s, m) \/ Mremap(t, s, m)
         PROVE TurnInv'
    <3>1. PICK l \in {"lock", "free"} : Goto(t, l) BY <2>15, Zenon DEF Munmap, Mmap, Mremap
    <3>2. pc'[t] \in {"lock", "free"} BY <3>1, Zenon DEF Goto, TypeOK
    <3> QED BY <2>6, <2>15, <3>2, Zenon DEF Munmap, Mmap, Mremap, Idle, At, sizes, maps
  <2>16. ~TruncateThrows(t) BY Zenon DEF Truncates, TruncateThrows
  <2> QED BY <1>3, <2>4, <2>5, <2>8, <2>9, <2>10, <2>11, <2>12, <2>13, <2>14, <2>15, <2>16, ZenonT(60) DEF Step, Use
<1> QED BY <1>2, <1>3, Zenon
-----------------------------------------------------------------------------
\* The inductive invariant.
PagesInv == /\ TypeOK /\ PlaceInv /\ WaitInv /\ LockInv /\ SlotInv /\ ScanInv /\ FoundInv
            /\ Kept /\ Owned /\ Above /\ FirstInv

\* The invariants hold when the segment has been set up.
LEMMA InitInv ==
  ASSUME Init
  PROVE  PagesInv /\ BackedInv /\ TurnInv
<1> USE PagesAssumption
<1>0. Reserved \in Nat \ {0} OBVIOUS
<1>1. TypeOK
  <2>1. op \in [Threads -> Locals] /\ alloc \in [Slots -> Blocks] BY NoLocalsType, Zenon DEF Init
  <2>2. pc \in [Threads -> PCs] /\ state \in [Slots -> States] BY Zenon DEF Init, PCs, States
  <2>3. scan \in [i : Nat, j : Nat, c : Nat, last : Nat] BY Zenon DEF Init, StartOfScan
  <2>4. Metadata \subseteq Nat BY <1>0 DEF Metadata
  <2> QED BY <1>0, <2>1, <2>2, <2>3, <2>4, Zenon DEF Init, TypeOK
<1>2. \A t \in Threads : pc[t] = "idle" /\ Place(t) = "idle" /\ op[t].slot = NoSlot
  BY Zenon DEF Init, Place, NoLocals, Operation
<1>3. PlaceInv /\ WaitInv BY <1>2, Zenon DEF PlaceInv, WaitInv
<1>4. LockInv /\ SlotInv BY <1>2, Zenon DEF LockInv, SlotInv, SlotOf, Apart, Requesting, Critical
<1>5. ScanInv /\ FoundInv BY <1>2, Zenon DEF ScanInv, FoundInv, ScanOf, FoundOf
<1>6. \A b : ~Held(b) BY <1>2, Zenon DEF Held, Occupied, Moving, Init
<1>7. Kept /\ Owned /\ Above BY <1>0, <1>6 DEF Kept, Owned, Above, Init, Metadata
<1>8. FirstInv BY <1>0, <1>2, <1>6 DEF FirstInv, Init, Metadata
<1>9. BackedInv BY <1>0, <1>6 DEF BackedInv, Init
<1>10. TurnInv BY <1>0, <1>2 DEF TurnInv, Init
<1> QED BY <1>1, <1>3, <1>4, <1>5, <1>7, <1>8, <1>9, <1>10, Zenon DEF PagesInv

\* Nothing changes in a step that changes no variable.
LEMMA StutterInv ==
  ASSUME PagesInv, UNCHANGED vars
  PROVE  PagesInv' /\ (BackedInv => BackedInv') /\ (TurnInv => TurnInv')
<1> USE DEF vars, pages, sizes, maps, blocks
<1>1. TypeOK' BY Zenon DEF PagesInv, TypeOK
<1>2. PlaceInv' /\ WaitInv' BY Zenon DEF PagesInv, PlaceInv, WaitInv
<1>3. LockInv' BY Zenon DEF PagesInv, LockInv, Critical, Place
<1>a. ASSUME NEW t PROVE Place(t)' = Place(t) BY Zenon DEF Place
<1>4. SlotInv'
  <2>1. Apart' BY Zenon DEF PagesInv, SlotInv, Apart
  <2>2. ASSUME NEW t \in Threads PROVE SlotOf(t)'
    <3>1. SlotOf(t) BY Zenon DEF PagesInv, SlotInv
    <3>2. Requesting(t)' <=> Requesting(t) BY <1>a, Zenon DEF Requesting, Critical
    <3> QED BY <1>a, <3>1, <3>2, Zenon DEF SlotOf
  <2> QED BY <2>1, <2>2, Zenon DEF SlotInv
<1>5. ScanInv'
  <2> SUFFICES ASSUME NEW t \in Threads PROVE ScanOf(t)' BY Zenon DEF ScanInv
  <2>1. ScanOf(t) BY Zenon DEF PagesInv, ScanInv
  <2>2. ASSUME NEW k, NEW q, NEW n PROVE Scanned(k, q, n)' <=> Scanned(k, q, n)
    BY Zenon DEF Scanned, NoRun, FreeBefore
  <2> QED BY <1>a, <2>1, <2>2, Zenon DEF ScanOf
<1>6. FoundInv' BY Zenon DEF PagesInv, FoundInv, FoundOf, Place
<1>7. ASSUME NEW b PROVE Held(b)' <=> Held(b) BY Zenon DEF Held, Occupied, Moving
<1>8. Kept' BY Zenon DEF PagesInv, Kept
<1>9. Owned' BY <1>7, Zenon DEF PagesInv, Owned
<1>10. Above' BY <1>7, Zenon DEF PagesInv, Above
<1>11. FirstInv' BY <1>7, Zenon DEF PagesInv, FirstInv, NewEnd, Place
<1>12. BackedInv => BackedInv' BY <1>7, Zenon DEF BackedInv
<1>13. TurnInv => TurnInv' BY Zenon DEF TurnInv
<1> QED BY <1>1, <1>2, <1>3, <1>4, <1>5, <1>6, <1>8, <1>9, <1>10, <1>11, <1>12, <1>13, Zenon DEF PagesInv

\* The inductive invariant is preserved by every step.
LEMMA PagesInvStep ==
  ASSUME OnlyGrowing, PagesInv, [Next]_vars
  PROVE  PagesInv'
<1>1. CASE UNCHANGED vars BY <1>1, StutterInv, Zenon
<1>2. CASE Next
  <2>1. PICK t \in Threads : Step(t) \/ Use(t) BY <1>2, Zenon DEF Next
  <2>2. TypeOK' /\ PlaceInv' BY <2>1, TypeStep, PlaceStep, Zenon DEF PagesInv
  <2>3. WaitInv' /\ LockInv' /\ SlotInv' BY <2>1, WaitStep, LockStep, SlotStep, Zenon DEF PagesInv
  <2>4. ScanInv' /\ FoundInv' BY <2>1, ScanStep, Zenon DEF PagesInv
  <2>5. Kept' /\ Owned' /\ Above' BY <2>1, <2>2, PagesStep, Zenon DEF PagesInv
  <2>6. FirstInv' BY <2>1, <2>2, FirstStep, Zenon DEF PagesInv
  <2> QED BY <2>2, <2>3, <2>4, <2>5, <2>6, Zenon DEF PagesInv
<1> QED BY <1>1, <1>2, Zenon

\* The inductive invariant, for any number of threads that run concurrently, and
\* with truncations that fail.
THEOREM Invariant == ASSUME OnlyGrowing PROVE Spec => []PagesInv
<1>1. Init => PagesInv BY InitInv, Zenon
<1>2. PagesInv /\ [Next]_vars => PagesInv' BY PagesInvStep, Zenon
<1> QED BY <1>1, <1>2, PTL DEF Spec

\* The allocator's pages are never handed out and never freed.
THEOREM MetadataSafe == ASSUME OnlyGrowing PROVE Spec => []MetadataKept
<1>1. PagesInv => MetadataKept
  <2> SUFFICES ASSUME PagesInv PROVE MetadataKept BY Zenon
  <2>1. Run(0, Reserved) \subseteq used BY PagesAssumption DEF PagesInv, Kept, Run
  <2>2. ASSUME NEW s \in Occupied PROVE alloc[s].pos >= Reserved
    <3>1. s \in Slots /\ alloc[s] \in Blocks BY <2>2, Zenon DEF PagesInv, TypeOK, Occupied
    <3> QED BY <2>2, <3>1, Zenon DEF PagesInv, Above, Held
  <2> QED BY <2>1, <2>2, Zenon DEF MetadataKept
<1> QED BY <1>1, Invariant, PTL

\* Every blocked page is accounted for: exceptions and moves leak none.
THEOREM NothingLeaks == ASSUME OnlyGrowing PROVE Spec => []NoLeak
<1>1. PagesInv => NoLeak
  <2> SUFFICES ASSUME PagesInv PROVE NoLeak BY Zenon
  <2>1. \A x \in used : x < Reserved => x \in Run(0, Reserved)
    BY PagesAssumption DEF Run, PagesInv, TypeOK
  <2>2. ASSUME NEW x \in used, ~(x < Reserved)
        PROVE  \/ \E s \in Occupied : x \in Pages(alloc[s])
               \/ \E t \in Threads : Moving(t) /\ x \in Pages(op[t].target)
    BY <2>2, Zenon DEF PagesInv, Owned, Held
  <2> DEFINE A == UNION {Pages(alloc[s]) : s \in Occupied}
             B == UNION {Pages(op[t].target) : t \in {u \in Threads : Moving(u)}}
  <2>3. ASSUME NEW x, NEW s \in Occupied, x \in Pages(alloc[s]) PROVE x \in A
    BY <2>3, Zenon
  <2>4. ASSUME NEW x, NEW t \in Threads, Moving(t), x \in Pages(op[t].target) PROVE x \in B
    BY <2>4, Zenon
  <2>5. NoLeak <=> used \subseteq Run(0, Reserved) \cup A \cup B BY Zenon DEF NoLeak
  <2> HIDE DEF A, B
  <2>6. ASSUME NEW x \in used PROVE x \in Run(0, Reserved) \cup A \cup B
    <3>1. CASE x < Reserved BY <2>1, <3>1, Zenon
    <3>2. CASE ~(x < Reserved) BY <2>2, <2>3, <2>4, <3>2, Zenon
    <3> QED BY <3>1, <3>2, Zenon
  <2> QED BY <2>5, <2>6, Zenon
<1> QED BY <1>1, Invariant, PTL

\* The scan stops only at free pages, and they are still free when their bits
\* are set: the mutex is held from the scan to the marking.
THEOREM FoundStaysFree == ASSUME OnlyGrowing PROVE Spec => []FoundRunFree
<1>1. PagesInv => FoundRunFree
  <2> SUFFICES ASSUME PagesInv, NEW t \in Threads, HasFound(t)
               PROVE  /\ Run(scan.last - 1, op[t].count) \cap used = {}
                      /\ Run(scan.last - 1, op[t].count) \subseteq Bitset
    BY Zenon DEF FoundRunFree
  <2>1. Place(t) \in {"found", "truncate", "block"} BY Zenon DEF HasFound, Place
  <2>2. scan.last \in Nat /\ op[t].count \in Nat BY FoundBlock, Zenon DEF PagesInv
  <2>3. FoundOf(t) BY Zenon DEF PagesInv, FoundInv
  <2>4. Width * Elements \in Nat BY PagesAssumption
  <2>5. ASSUME NEW x \in Run(scan.last - 1, op[t].count) PROVE x \notin used /\ x \in Bitset
    <3>1. x \in Nat /\ scan.last - 1 <= x /\ x < scan.last - 1 + op[t].count
      BY <2>1, <2>2, <2>3, <2>5 DEF Run, FoundOf
    <3>2. x \notin used BY <2>1, <2>3, <3>1, Zenon DEF FoundOf
    <3>3. x < Width * Elements BY <2>1, <2>2, <2>3, <2>4, <3>1, SMTT(60) DEF FoundOf
    <3> QED BY <2>4, <3>1, <3>2, <3>3 DEF Bitset
  <2> QED BY <2>5, Zenon
<1> QED BY <1>1, Invariant, PTL

\* "Too much memory used!" is thrown only if no run of that many pages is free.
THEOREM ScanFindsAll == ASSUME OnlyGrowing PROVE Spec => []ScanComplete
<1>1. PagesInv => ScanComplete
  <2> SUFFICES ASSUME PagesInv, NEW t \in Threads, pc[t] = "scan", Element >= Elements, NEW a \in Bitset,
                      Run(a, op[t].count) \cap used = {}, Run(a, op[t].count) \subseteq Bitset
               PROVE  FALSE
    BY Zenon DEF ScanComplete
  <2>1. PICK n \in Nat : n = op[t].count BY Zenon DEF PagesInv, TypeOK, Locals
  <2>2. PICK k \in 0 .. Elements : Scanned(k, k * Width, n)
    BY <2>1, Zenon DEF PagesInv, ScanInv, ScanOf, Place
  <2>3. Width \in Nat /\ Elements \in Nat BY PagesAssumption, Zenon
  <2>4. k = Elements BY <2>2, <2>3, ElementIs DEF Scanned
  <2>5. n > 0 BY <2>1, Zenon DEF PagesInv, SlotInv, SlotOf, Requesting, Critical, Place
  <2>6. PICK w \in Nat : w = Width * Elements /\ w = k * Width BY <2>3, <2>4, SMTT(60)
  <2>7. a \in Nat BY <2>6 DEF Bitset
  <2>8. a + n - 1 \in Run(a, n) BY <2>5, <2>7, SMTT(60) DEF Run
  <2>9. a + n <= w BY <2>1, <2>5, <2>6, <2>7, <2>8 DEF Bitset
  <2>10. PICK x \in Nat : a <= x /\ x < a + n /\ x \in used
    BY <2>2, <2>6, <2>7, <2>9, Zenon DEF Scanned, NoRun
  <2> QED BY <2>1, <2>7, <2>10 DEF Run
<1> QED BY <1>1, Invariant, PTL

\* Pages from first_unused_page_index on were never written to.
THEOREM FreshIsZero == ASSUME OnlyGrowing PROVE Spec => []FreshPagesZero
<1>1. PagesInv => FreshPagesZero BY Zenon DEF PagesInv, FirstInv, FreshPagesZero
<1> QED BY <1>1, Invariant, PTL

\* New pages are full of zeros, whoever used them before.
THEOREM GrantsZero == ASSUME OnlyGrowing PROVE Spec => ZeroedWhenGranted
<1> DEFINE Zeroed == \A s \in Slots : state[s] = "pending" /\ state'[s] = "live"
                                      => Pages(alloc'[s]) \cap dirty' = {}
<1>1. ASSUME OnlyGrowing, PagesInv, [Next]_vars PROVE [Zeroed]_vars
  <2> SUFFICES ASSUME Next, NEW s \in Slots, state[s] = "pending", state'[s] = "live"
               PROVE  Pages(alloc'[s]) \cap dirty' = {}
    BY <1>1, Zenon
  <2>1. PICK t \in Threads : Step(t) \/ Use(t) BY Zenon DEF Next
  <2>2. TypeOK /\ PlaceInv /\ WaitInv /\ SlotInv /\ FirstInv BY <1>1, Zenon DEF PagesInv
  <2>3. Start(t) \/ Go(t) \/ GiveUp(t) \/ Grant(t) \/ GrantMove(t) \/ Finish(t) BY <1>1, <2>1, <2>2, Kinds, Zenon
  <2>4. ~Start(t) /\ ~Go(t) /\ ~GiveUp(t) /\ ~GrantMove(t)
    BY <2>2, ZenonT(60) DEF Start, Go, GiveUp, GrantMove, TypeOK
  <2>5. ~Finish(t)
    <3> SUFFICES ASSUME Finish(t) PROVE FALSE BY Zenon
    <3>1. s = op[t].slot BY <2>2, Zenon DEF Finish, TypeOK
    <3> QED BY <2>2, <3>1, Zenon DEF Finish, SlotInv, SlotOf
  <2>6. Grant(t) BY <2>3, <2>4, <2>5, Zenon
  <2>7. s = op[t].slot BY <2>2, <2>6, Zenon DEF Grant, TypeOK
  <2>8. alloc'[s] = Found(t) BY <2>2, <2>6, <2>7, Zenon DEF Grant, TypeOK
  <2>9. Block(t) BY <2>1, <2>2, <2>6, GrantIsBlock, Zenon
  <2>10. CASE UsedBefore(t) BY <2>8, <2>9, <2>10, Zenon DEF Block
  <2>11. CASE ~UsedBefore(t)
    <3>1. dirty' = dirty /\ first <= scan.last /\ first \in Nat
      BY <2>2, <2>9, <2>11, FoundBlock, SMTT(60) DEF Block, UsedBefore, TypeOK
    <3>2. \A x \in dirty : x < scan.last BY <2>2, <3>1, FoundBlock, SMTT(60) DEF FirstInv, TypeOK
    <3>3. \A x \in Pages(Found(t)) : x >= scan.last
      BY <2>2, FoundBlock DEF Pages, Blocks
    <3>4. dirty \subseteq Nat /\ scan.last \in Nat BY <2>2, FoundBlock, Zenon DEF TypeOK
    <3>5. ASSUME NEW x \in Pages(Found(t)), x \in dirty PROVE FALSE BY <3>2, <3>3, <3>4, <3>5
    <3> QED BY <2>8, <3>1, <3>5, Zenon
  <2> QED BY <2>10, <2>11, Zenon
<1> QED BY <1>1, Invariant, PTL DEF ZeroedWhenGranted, Spec

\* Allocations lie inside the file of the segment, so that an access never ends
\* in SIGBUS; false if ftruncate() fails (FailedTruncate.cfg).
THEOREM Backed == ASSUME OnlyGrowing, Truncates PROVE Spec => []GrantsBacked
<1>1. Init => BackedInv BY InitInv, Zenon
<1>2. ASSUME PagesInv, PagesInv', BackedInv, [Next]_vars PROVE BackedInv'
  <2>1. CASE UNCHANGED vars BY <1>2, <2>1, StutterInv, Zenon
  <2>2. CASE Next BY <1>2, <2>2, BackedStep, Zenon DEF PagesInv, Next
  <2> QED BY <1>2, <2>1, <2>2, Zenon
<1>3. PagesInv /\ BackedInv => GrantsBacked
  BY Zenon DEF PagesInv, TypeOK, BackedInv, GrantsBacked, Held, Occupied
<1> QED BY <1>1, <1>2, <1>3, Invariant, PTL DEF Spec

\* With one thread running at a time the mapped sizes are known.
LEMMA TurnAlways == ASSUME OnlyGrowing, Truncates, Turns PROVE Spec => []TurnInv
<1>1. Init => TurnInv BY InitInv, Zenon
<1>2. ASSUME PagesInv, PagesInv', TurnInv, [Next]_vars PROVE TurnInv'
  <2>1. CASE UNCHANGED vars BY <1>2, <2>1, StutterInv, Zenon
  <2>2. CASE Next BY <1>2, <2>2, TurnStep, Zenon DEF PagesInv, Next
  <2> QED BY <1>2, <2>1, <2>2, Zenon
<1> QED BY <1>1, <1>2, Invariant, PTL DEF Spec

\* With one thread running at a time, mremap() gets the right size of the mapping.
THEOREM RemapsSucceed == ASSUME OnlyGrowing, Truncates, Turns PROVE Spec => []RemapSucceeds
<1>1. TurnInv => RemapSucceeds BY Zenon DEF TurnInv, RemapSucceeds
<1> QED BY <1>1, TurnAlways, PTL

\* And the thread that runs has mapped every allocation, also the ones the other
\* process has made since it last ran.
THEOREM AccessWorks == ASSUME OnlyGrowing, Truncates, Turns PROVE Spec => []RunnerCanAccess
<1>1. PagesInv /\ TurnInv => RunnerCanAccess
  <2> SUFFICES ASSUME PagesInv, TurnInv, NEW t \in Threads, Idle(t), NEW s \in Occupied
               PROVE  EndOf(alloc[s]) <= kernel[ProcOf[t]]
    BY Zenon DEF RunnerCanAccess
  <2>1. t = turn /\ pc[t] = "idle" /\ ProcOf[t] \in Procs BY PagesAssumption, Zenon DEF Idle, At, Turns
  <2>2. kernel[ProcOf[t]] = size BY <2>1, Zenon DEF TurnInv
  <2>3. alloc[s] \in Blocks /\ Held(alloc[s]) BY Zenon DEF PagesInv, TypeOK, Occupied, Held
  <2>4. EndOf(alloc[s]) <= first /\ first <= size BY <2>3, Zenon DEF PagesInv, FirstInv
  <2>5. EndOf(alloc[s]) \in Nat /\ first \in Nat /\ size \in Nat BY <2>3 DEF PagesInv, TypeOK, EndOf, Blocks
  <2> QED BY <2>2, <2>4, <2>5
<1> QED BY <1>1, Invariant, TurnAlways, PTL
=============================================================================
