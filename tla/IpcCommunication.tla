-------------------------- MODULE IpcCommunication --------------------------
(***************************************************************************)
(* The rendezvous between the program process and the library process      *)
(* (libipc/ipc_communication.cpp, libipc/shared_lock.h) together with the  *)
(* call stubs and handlers that the linker generates around it             *)
(* (cali-linker/modules/communication_pair.cpp).                           *)
(*                                                                         *)
(* The two processes share two message areas and two SysV semaphores.  A   *)
(* caller fills the area of its peer, posts the peer's semaphore and then  *)
(* serves whatever arrives on its own semaphore until a message with code  *)
(* 1 (return) arrives.  The program may have several threads, which        *)
(* serialise on "sending_lock"; the library process has one thread, and    *)
(* never has a sending_lock: the mutex is created after the fork.          *)
(***************************************************************************)
EXTENDS Integers, Sequences, FiniteSets

CONSTANTS
  Threads,       \* the threads of the program process
  Lib,           \* the single thread of the library process
  Concurrent,    \* program_params.concurrentLibraryCommunication
  Interrupts,    \* may a signal interrupt the semop() of SharedMutex::lock?
  SleepSuffices, \* does the library's usleep(50000) outlast the delivery of code -1?
  Jails,         \* "up": the library may be forked through nsjail, with an
                 \* intermediate process; "none": without it
  Failures,      \* may processes exit, throw or be killed?
  ProgramCodes,  \* codes of the calls the program makes
  LibraryCodes,  \* codes of the calls the library makes
  Errnos,        \* values of errno
  MaxDepth       \* bound on the nesting of the calls of one thread

Actors == Threads \cup {Lib}
Sides == {"program", "library"}

\* Message codes: 1 return, 2 callback, -1 "remote exit requested"; the
\* linker numbers functions from 3 on and gives 3..8 to the internal ones.
RETURN == 1
REMOTE_EXIT == -1

\* The codes for which wait_for_return() keeps the sending_lock, and those
\* whose generated handlers do not acquire it: two tests in two programs.
MutantKeepLockCodes == 3..7
KeepLockCodes == 3..8
NoLockHandlers == 3..8
CallCodes == {n \in Nat : n >= 2}
Codes == CallCodes \cup {RETURN, REMOTE_EXIT}

ASSUME ThreadsAssumption == Lib \notin Threads
ASSUME ModeAssumption ==
  /\ Concurrent \in BOOLEAN /\ Interrupts \in BOOLEAN /\ Jails \subseteq {"up", "none"}
  /\ SleepSuffices \in BOOLEAN /\ Failures \in BOOLEAN
  \* several threads may only be used with the lock (HOWTO.md)
  /\ Concurrent \/ \A t, u \in Threads : t = u
ASSUME CodesAssumption == ProgramCodes \subseteq CallCodes /\ LibraryCodes \subseteq CallCodes
ASSUME BoundAssumption == MaxDepth \in Nat /\ 0 \in Errnos

Side(a) == IF a = Lib THEN "library" ELSE "program"
Peer(s) == IF s = "library" THEN "program" ELSE "library"
CodesOf(a) == IF a = Lib THEN LibraryCodes ELSE ProgramCodes

\* A call is named by its caller and its nesting depth, which identifies it
\* among the outstanding calls.
CallIds == [by : Actors, depth : Nat]
Messages == [code : Codes, id : CallIds, errno : Errnos]
Activations == [code : CallCodes, id : CallIds]
NoMessage == [code |-> RETURN, id |-> [by |-> Lib, depth |-> 0], errno |-> 0]

VARIABLES
  sem,         \* sem[s]: value of the semaphore side s receives on
  removed,     \* have the two semaphores been removed (IPC_RMID)?
  lock,        \* value of sending_lock's semaphore
  lockRemoved, \* has sending_lock's semaphore been removed?
  mail,        \* mail[s]: the receiving_data of side s
  blocked,     \* sending_is_blocked of each process
  pc,          \* where each thread is
  out,         \* the message a thread is about to write
  rcv,         \* the message wait_for_return has received last: its local
               \* variable "code", and (not in the code) whose message it was
  waits,       \* the calls each thread has dispatched and not got back
  acts,        \* the handlers and callbacks each thread is executing
  errno,       \* errno, thread local
  status,      \* "alive", or how the process ended
  inter        \* the intermediate (nsjail) process: "up", "done" or "none"

channel == <<sem, removed, mail, blocked>>
mutex == <<lock, lockRemoved>>
control == <<pc, out, rcv, waits, acts, errno>>
processes == <<status, inter>>
vars == <<sem, removed, lock, lockRemoved, mail, blocked, pc, out, rcv,
          waits, acts, errno, status, inter>>

PCs == {"run", "lock", "fill", "post", "wait", "unlock", "got", "serve",
        "exiting", "dying", "gone"}
Statuses == {"alive", "exit0", "exit1", "killed"}

TypeOK ==
  /\ sem \in [Sides -> Nat]
  /\ removed \in BOOLEAN
  /\ lock \in Nat
  /\ lockRemoved \in BOOLEAN
  /\ mail \in [Sides -> Messages]
  /\ blocked \in [Sides -> BOOLEAN]
  /\ pc \in [Actors -> PCs]
  /\ out \in [Actors -> Messages]
  /\ rcv \in [Actors -> Messages]
  /\ waits \in [Actors -> Seq(CallIds)]
  /\ acts \in [Actors -> Seq(Activations)]
  /\ errno \in [Actors -> Errnos]
  /\ status \in [Sides -> Statuses]
  /\ inter \in {"up", "done", "none"}

-----------------------------------------------------------------------------
\* After the constructor and the fork: the program runs user code, the
\* library is in child_process_main, about to wait for its first request.
Init ==
  /\ sem = [s \in Sides |-> 0]
  /\ removed = FALSE
  /\ lock = 1                       \* SharedMutex(true) unlocks once
  /\ lockRemoved = FALSE
  /\ mail = [s \in Sides |-> NoMessage]
  /\ blocked = [s \in Sides |-> s = "library"]
  /\ pc = [a \in Actors |-> IF a = Lib THEN "wait" ELSE "run"]
  /\ out = [a \in Actors |-> NoMessage]
  /\ rcv = [a \in Actors |-> NoMessage]
  /\ waits = [a \in Actors |-> <<>>]
  /\ acts = [a \in Actors |-> <<>>]
  /\ errno = [a \in Actors |-> 0]
  /\ status = [s \in Sides |-> "alive"]
  /\ inter \in Jails

HasLock(a) == Concurrent /\ a # Lib

Goto(a, l) == pc' = [pc EXCEPT ![a] = l]

\* All threads of process s stop.
End(s, how) ==
  /\ status' = [status EXCEPT ![s] = how]
  /\ pc' = [a \in Actors |-> IF Side(a) = s THEN "gone" ELSE pc[a]]

\* IpcCommunication::terminate() run by a thread of side s.  Only the
\* program process knows the sending_lock.
Terminate(s) ==
  /\ removed' = TRUE
  /\ lockRemoved' = (lockRemoved \/ (s = "program" /\ Concurrent))

\* exit(): the program's exit handlers run ~IpcCommunication, the library's
\* do not (it was forked while the constructor was still running).
ExitProcess(s, how) ==
  /\ End(s, how)
  /\ IF s = "program" THEN Terminate(s) ELSE UNCHANGED <<removed, lockRemoved>>

-----------------------------------------------------------------------------
\* User code in a thread calls a function of the other side: the generated
\* replacement function (codes > 2) or callback trampoline (code 2) starts.
Call(a, c) ==
  /\ pc[a] = "run"
  /\ c \in CodesOf(a)
  /\ Len(waits[a]) < MaxDepth
  /\ LET id == [by |-> a, depth |-> Len(waits[a]) + 1]
     IN /\ out' = [out EXCEPT ![a] = [code |-> c, id |-> id, errno |-> errno[a]]]
        /\ waits' = [waits EXCEPT ![a] = Append(@, id)]
  /\ Goto(a, IF HasLock(a) THEN "lock" ELSE "fill")
  /\ UNCHANGED <<channel, mutex, rcv, acts, errno, processes>>

\* ipc_lock_sending -> SharedMutex::lock.  A failing semop (interrupted, or
\* the semaphore is gone) is only reported; the caller goes on regardless.
LockSending(a) ==
  /\ pc[a] = "lock"
  /\ \/ ~lockRemoved /\ lock > 0 /\ lock' = lock - 1
     \/ (lockRemoved \/ Interrupts) /\ lock' = lock
  /\ Goto(a, "fill")
  /\ UNCHANGED <<channel, lockRemoved, out, rcv, waits, acts, errno, processes>>

\* (mutant) The stub does not copy errno into the message.
MutantFillNoErrno(a) ==
  /\ pc[a] = "fill"
  /\ mail' = [mail EXCEPT ![Peer(Side(a))] = [out[a] EXCEPT !.errno = mail[Peer(Side(a))].errno]]
  /\ Goto(a, "post")
  /\ UNCHANGED <<sem, removed, blocked, mutex, out, rcv, waits, acts, errno, processes>>

\* Parameters, callback number or result, code and errno go into sending_data.
Fill(a) ==
  /\ pc[a] = "fill"
  /\ mail' = [mail EXCEPT ![Peer(Side(a))] = [out[a] EXCEPT !.errno = errno[a]]]
  /\ Goto(a, "post")
  /\ UNCHANGED <<sem, removed, blocked, mutex, out, rcv, waits, acts, errno, processes>>

\* (mutant) The lock is released as soon as the request has been posted.
MutantPostRequestUnlocks(a) ==
  /\ pc[a] = "post" /\ out[a].code # RETURN
  /\ sem' = IF removed THEN sem ELSE [sem EXCEPT ![Peer(Side(a))] = @ + 1]
  /\ blocked' = [blocked EXCEPT ![Side(a)] = TRUE]
  /\ lock' = IF HasLock(a) THEN lock + 1 ELSE lock
  /\ Goto(a, "wait")
  /\ UNCHANGED <<removed, mail, lockRemoved, out, rcv, waits, acts, errno, processes>>

\* A request: trigger_ipc_call() ignores a failing semop.
PostRequest(a) ==
  /\ pc[a] = "post" /\ out[a].code # RETURN
  /\ sem' = IF removed THEN sem ELSE [sem EXCEPT ![Peer(Side(a))] = @ + 1]
  /\ blocked' = [blocked EXCEPT ![Side(a)] = TRUE]
  /\ Goto(a, "wait")
  /\ UNCHANGED <<removed, mail, mutex, out, rcv, waits, acts, errno, processes>>

\* (mutant) A handler's response is written but not posted.
MutantResponseNotPosted(a) ==
  /\ pc[a] = "post" /\ out[a].code = RETURN
  /\ blocked' = [blocked EXCEPT ![Side(a)] = TRUE]
  /\ Goto(a, "wait")
  /\ UNCHANGED <<sem, removed, mail, mutex, out, rcv, waits, acts, errno, processes>>

\* The response at the end of the loop of wait_for_return(): a failing semop
\* ends the process.
PostResponse(a) ==
  /\ pc[a] = "post" /\ out[a].code = RETURN
  /\ blocked' = [blocked EXCEPT ![Side(a)] = TRUE]
  /\ \/ /\ ~removed
        /\ sem' = [sem EXCEPT ![Peer(Side(a))] = @ + 1]
        /\ Goto(a, "wait")
        /\ UNCHANGED <<removed, lockRemoved, status>>
     \/ /\ removed
        /\ \E how \in {"exit0", "exit1"} : ExitProcess(Side(a), how)
        /\ UNCHANGED sem
  /\ UNCHANGED <<mail, lock, out, rcv, waits, acts, errno, inter>>

\* What wait_for_return() does with a message: code and errno are read, an
\* internal function is served without giving up the sending_lock.
TakeMessage(a) ==
  LET s == Side(a) IN
  /\ rcv' = [rcv EXCEPT ![a] = mail[s]]
  /\ errno' = [errno EXCEPT ![a] = mail[s].errno]
  /\ IF mail[s].code \in KeepLockCodes
     THEN /\ acts' = [acts EXCEPT ![a] = Append(@, [code |-> mail[s].code, id |-> mail[s].id])]
          /\ Goto(a, "serve")
     ELSE /\ acts' = acts
          /\ Goto(a, IF HasLock(a) THEN "unlock" ELSE "got")

\* (mutant) The semaphore is tested and not decremented.
MutantReceiveAgain(a) ==
  /\ pc[a] = "wait" /\ ~removed /\ sem[Side(a)] > 0
  /\ blocked' = [blocked EXCEPT ![Side(a)] = FALSE]
  /\ TakeMessage(a)
  /\ UNCHANGED <<sem, removed, mail, mutex, out, waits, processes>>

\* (mutant) sending_is_blocked is not reset.
MutantReceiveBlocked(a) ==
  /\ pc[a] = "wait" /\ ~removed /\ sem[Side(a)] > 0
  /\ sem' = [sem EXCEPT ![Side(a)] = @ - 1]
  /\ TakeMessage(a)
  /\ UNCHANGED <<removed, mail, blocked, mutex, out, waits, processes>>

\* wait_for_return(): the semaphore is decremented and the message taken.
Receive(a) ==
  /\ pc[a] = "wait" /\ ~removed /\ sem[Side(a)] > 0
  /\ sem' = [sem EXCEPT ![Side(a)] = @ - 1]
  /\ blocked' = [blocked EXCEPT ![Side(a)] = FALSE]
  /\ TakeMessage(a)
  /\ UNCHANGED <<removed, mail, mutex, out, waits, processes>>

\* wait_for_return(): semop fails, with EIDRM for a sleeper (exit 0) and with
\* EINVAL for a late comer (exit 1).
ReceiveRemoved(a) ==
  /\ pc[a] = "wait" /\ removed
  /\ \E how \in {"exit0", "exit1"} : ExitProcess(Side(a), how)
  /\ UNCHANGED <<sem, mail, blocked, lock, out, rcv, waits, acts, errno, inter>>

UnlockSending(a) ==
  /\ pc[a] = "unlock"
  /\ lock' = IF lockRemoved THEN lock ELSE lock + 1
  /\ Goto(a, "got")
  /\ UNCHANGED <<channel, lockRemoved, out, rcv, waits, acts, errno, processes>>

\* The stub reads its result from receiving_data only now.  A return nobody
\* waits for would end the library's event loop: child_process_main calls
\* terminate() and the process exits.
ReturnFromCall(a) ==
  /\ pc[a] = "got" /\ rcv[a].code = RETURN
  /\ IF waits[a] # <<>>
     THEN /\ waits' = [waits EXCEPT ![a] = SubSeq(@, 1, Len(@) - 1)]
          /\ Goto(a, "run")
          /\ UNCHANGED <<removed, lockRemoved, status>>
     ELSE /\ Terminate(Side(a))
          /\ End(Side(a), "exit0")
          /\ UNCHANGED waits
  /\ UNCHANGED <<sem, mail, blocked, lock, out, rcv, acts, errno, inter>>

\* A handler or callback starts with the parameters it finds now.
Dispatch(a) ==
  /\ pc[a] = "got" /\ rcv[a].code \in CallCodes
  /\ acts' = [acts EXCEPT ![a] = Append(@, [code |-> rcv[a].code, id |-> rcv[a].id])]
  /\ Goto(a, "run")
  /\ UNCHANGED <<channel, mutex, out, rcv, waits, errno, processes>>

\* "Remote exit requested."
ObeyRemoteExit(a) ==
  /\ pc[a] = "got" /\ rcv[a].code = REMOTE_EXIT
  /\ Terminate(Side(a))
  /\ End(Side(a), "exit1")
  /\ UNCHANGED <<sem, mail, blocked, lock, out, rcv, waits, acts, errno, inter>>

\* (mutant) The oldest active handler is answered instead of the newest.
MutantFinishOldest(a) ==
  /\ pc[a] \in {"run", "serve"} /\ acts[a] # <<>>
  /\ out' = [out EXCEPT ![a] = [code |-> RETURN, id |-> acts[a][1].id, errno |-> errno[a]]]
  /\ acts' = [acts EXCEPT ![a] = Tail(@)]
  /\ Goto(a, IF HasLock(a) /\ acts[a][1].code \notin NoLockHandlers THEN "lock" ELSE "fill")
  /\ UNCHANGED <<channel, mutex, rcv, waits, errno, processes>>

\* A handler or callback returns and its stub prepares the response.
FinishHandler(a) ==
  /\ pc[a] \in {"run", "serve"} /\ acts[a] # <<>>
  /\ out' = [out EXCEPT ![a] =
               [code |-> RETURN, id |-> acts[a][Len(acts[a])].id, errno |-> errno[a]]]
  /\ acts' = [acts EXCEPT ![a] = SubSeq(@, 1, Len(@) - 1)]
  /\ Goto(a, IF HasLock(a) /\ acts[a][Len(acts[a])].code \notin NoLockHandlers
             THEN "lock" ELSE "fill")
  /\ UNCHANGED <<channel, mutex, rcv, waits, errno, processes>>

\* User code or the libc sets errno.
SetErrno(a, e) ==
  /\ pc[a] = "run"
  /\ e # errno[a]
  /\ errno' = [errno EXCEPT ![a] = e]
  /\ UNCHANGED <<channel, mutex, pc, out, rcv, waits, acts, processes>>

-----------------------------------------------------------------------------
\* A program thread calls exit(): ~IpcCommunication terminates first, the
\* other threads go on until the process is gone.
ProgramExit(t) ==
  /\ Failures
  /\ pc[t] = "run"
  /\ Terminate("program")
  /\ Goto(t, "exiting")
  /\ UNCHANGED <<sem, mail, blocked, lock, out, rcv, waits, acts, errno, processes>>

ProgramExited(t) ==
  /\ pc[t] = "exiting"
  /\ End("program", "exit0")
  /\ UNCHANGED <<channel, mutex, out, rcv, waits, acts, errno, inter>>

\* An exception leaves a handler of the library: the catch block of
\* child_process_main posts code -1, sleeps, terminates and exits.
LibraryThrow ==
  /\ Failures
  /\ pc[Lib] \in {"run", "serve"}
  /\ mail' = [mail EXCEPT !["program"].code = REMOTE_EXIT]
  /\ sem' = IF removed THEN sem ELSE [sem EXCEPT !["program"] = @ + 1]
  /\ Goto(Lib, "dying")
  /\ UNCHANGED <<removed, blocked, mutex, out, rcv, waits, acts, errno, processes>>

\* (mutant) The library does not wait before it terminates.
MutantLibraryDiesAtOnce ==
  /\ pc[Lib] = "dying"
  /\ Terminate("library")
  /\ End("library", "exit1")
  /\ UNCHANGED <<sem, mail, blocked, lock, out, rcv, waits, acts, errno, inter>>

LibraryDies ==
  /\ pc[Lib] = "dying"
  /\ SleepSuffices => (removed \/ sem["program"] = 0 \/ status["program"] # "alive")
  /\ Terminate("library")
  /\ End("library", "exit1")
  /\ UNCHANGED <<sem, mail, blocked, lock, out, rcv, waits, acts, errno, inter>>

\* A process is killed, or library code calls exit(): no handler of Cali runs.
Kill(s) ==
  /\ Failures
  /\ status[s] = "alive"
  /\ End(s, "killed")
  /\ UNCHANGED <<channel, mutex, out, rcv, waits, acts, errno, inter>>

\* (mutant) The intermediate process ignores SIGTERM.
MutantParentDeathIgnored == FALSE /\ UNCHANGED vars

\* The intermediate process: SIGTERM when its parent, the program, has died.
IntermediateParentDied ==
  /\ inter = "up" /\ status["program"] # "alive" /\ ~removed
  /\ Terminate("library")
  /\ UNCHANGED <<sem, mail, blocked, lock, control, processes>>

\* (mutant) The intermediate process exits without terminate().
MutantIntermediateExits ==
  /\ inter = "up" /\ status["library"] # "alive"
  /\ inter' = "done"
  /\ UNCHANGED <<channel, mutex, control, status>>

\* The intermediate process: runChild() returns once the library is gone.
IntermediateChildDied ==
  /\ inter = "up" /\ status["library"] # "alive"
  /\ Terminate("library")
  /\ inter' = "done"
  /\ UNCHANGED <<sem, mail, blocked, lock, control, status>>

\* Without nsjail the library is a direct child: PR_SET_PDEATHSIG kills it.
LibraryParentDied ==
  /\ inter = "none"
  /\ status["program"] # "alive" /\ status["library"] = "alive"
  /\ End("library", "killed")
  /\ UNCHANGED <<channel, mutex, out, rcv, waits, acts, errno, inter>>

-----------------------------------------------------------------------------
Step(a) ==
  \/ LockSending(a) \/ Fill(a) \/ PostRequest(a) \/ PostResponse(a)
  \/ Receive(a) \/ ReceiveRemoved(a) \/ UnlockSending(a)
  \/ ReturnFromCall(a) \/ Dispatch(a) \/ ObeyRemoteExit(a)

UserCode(a) ==
  \/ \E c \in CodesOf(a) : Call(a, c)
  \/ FinishHandler(a)
  \/ \E e \in Errnos : SetErrno(a, e)

Ending ==
  \/ \E t \in Threads : ProgramExit(t) \/ ProgramExited(t)
  \/ LibraryThrow \/ LibraryDies
  \/ \E s \in Sides : Kill(s)
  \/ IntermediateParentDied \/ IntermediateChildDied \/ LibraryParentDied

\* Every process is gone.
Over ==
  /\ inter # "up" /\ \A s \in Sides : status[s] # "alive"
  /\ UNCHANGED vars

Next ==
  \/ \E a \in Actors : Step(a) \/ UserCode(a)
  \/ Ending
  \/ Over

Spec == Init /\ [][Next]_vars

\* The scheduler runs every runnable thread; the kernel queues semop() calls
\* in order, so a thread is not passed over forever at the mutex; a death is
\* eventually signalled to the processes that depend on it.
Fairness ==
  /\ \A a \in Actors : WF_vars(Step(a)) /\ SF_vars(LockSending(a))
  /\ \A t \in Threads : WF_vars(ProgramExited(t))
  /\ WF_vars(LibraryDies)
  /\ WF_vars(IntermediateParentDied) /\ WF_vars(IntermediateChildDied)
  /\ WF_vars(LibraryParentDied)

\* The functions and callbacks of the user return at some point.
HandlersReturn ==
  \A a \in Actors, d \in 1 .. MaxDepth * Cardinality(Threads) :
    SF_vars(FinishHandler(a) /\ Len(acts[a]) = d)

FairSpec == Spec /\ Fairness /\ HandlersReturn

-----------------------------------------------------------------------------
\* The threads of the program between acquiring sending_lock and releasing it.
Exchanging(a) == pc[a] \in {"fill", "post", "wait", "unlock", "serve"}

\* The library is executing something on behalf of the program.
LibraryActive == pc[Lib] \in {"run", "lock", "fill", "post", "unlock", "got", "serve"}

\* Mutual exclusion of the program threads: at most one of them is between
\* ipc_lock_sending() and the unlock in wait_for_return(), serving internal
\* functions included ("must not be interrupted").
OneSender ==
  ~removed => \A t, u \in Threads : Exchanging(t) /\ Exchanging(u) => t = u

\* At most one of: a message to the library, a message to the program, and
\* the library at work.  The two processes never run library calls in
\* parallel although nothing but the two semaphores orders them.
OneToken ==
  ~removed =>
    /\ sem["library"] + sem["program"] <= 1
    /\ LibraryActive => sem["library"] = 0 /\ sem["program"] = 0

\* No lost wakeup: while both processes live, a program thread that waits is
\* owed a message: it has been posted, or the library has the request or is
\* working on it.
NoLostWakeup ==
  (~removed /\ status["library"] = "alive" /\ pc[Lib] # "dying") =>
    \A t \in Threads : pc[t] = "wait" =>
      LibraryActive \/ sem["library"] = 1 \/ sem["program"] = 1

\* None of the three [WARN] messages about sending_is_blocked is printed: the
\* flag is clear when a message is posted and set when one is received.
NoBlockedWarning ==
  ~removed => \A a \in Actors :
    /\ pc[a] = "post" => ~blocked[Side(a)]
    /\ pc[a] = "wait" /\ sem[Side(a)] > 0 => blocked[Side(a)]

\* A thread may write to the library's message area only when the library has
\* finished reading the previous message.
RequestsNotOverwritten ==
  ~removed => \A t \in Threads : pc[t] = "fill" =>
    sem["library"] = 0 /\ pc[Lib] \notin {"unlock", "got", "serve"}

\* What a stub reads from receiving_data after wait_for_return() has returned
\* (the result) or dispatched (callback and parameters) still belongs to the
\* message it has received.
DataIntact ==
  ~removed => \A a \in Actors : pc[a] = "got" => mail[Side(a)].id = rcv[a].id

\* "Waits for the last dispatched call to return": the return a thread has
\* just received answers the last call that thread has dispatched.
ReturnIsMine ==
  ~removed => \A a \in Actors :
    pc[a] \in {"unlock", "got"} /\ rcv[a].code = RETURN =>
      waits[a] # <<>> /\ rcv[a].id = waits[a][Len(waits[a])]

\* The inductive strengthening of the invariants above.  A removed mutex
\* comes with removed semaphores; the library never touches the mutex; a
\* process that has ended has no threads; an internal function is served with
\* the mutex held, and only the newest handler can be one; the mutex is taken
\* while a thread is exchanging; a message is under way, or the
\* library at work, only while a program thread waits for it; and
\* sending_is_blocked says whether the process waits.
RemovedInv == lockRemoved => removed

LibraryInv == pc[Lib] \notin {"lock", "unlock", "exiting"}

GoneInv == status["program"] # "alive" => \A t \in Threads : pc[t] = "gone"

HandlerInv ==
  \A t \in Threads :
    /\ pc[t] \in {"unlock", "got"} => rcv[t].code \notin KeepLockCodes
    /\ pc[t] # "gone" =>
         \A k \in 1 .. Len(acts[t]) :
           acts[t][k].code \in NoLockHandlers => k = Len(acts[t]) /\ pc[t] = "serve"

MutexInv ==
  ~removed =>
    /\ \A t, u \in Threads : Exchanging(t) /\ Exchanging(u) => t = u
    /\ Concurrent => lock <= 1 /\ (lock = 1 => \A t \in Threads : ~Exchanging(t))

Owed == LibraryActive \/ sem["library"] = 1 \/ sem["program"] = 1

TokenInv ==
  ~removed =>
    /\ sem["library"] + sem["program"] <= 1
    /\ LibraryActive => sem["library"] = 0 /\ sem["program"] = 0
    /\ Owed => status["program"] # "alive" \/ \E t \in Threads : pc[t] = "wait"
    /\ status["library"] = "alive" /\ pc[Lib] # "dying" =>
         \A t \in Threads : pc[t] = "wait" => Owed

BlockedInv ==
  ~removed =>
    /\ pc[Lib] # "gone" => (blocked["library"] <=> pc[Lib] = "wait")
    /\ status["program"] = "alive" =>
         (blocked["program"] <=> \E t \in Threads : pc[t] = "wait")

RendezvousInv ==
  /\ RemovedInv /\ LibraryInv /\ GoneInv /\ HandlerInv
  /\ MutexInv /\ TokenInv /\ BlockedInv

\* Every call a program thread makes, at any nesting depth, returns to it
\* unless a process ends: calls, callbacks and internal functions in
\* between do not leave anyone waiting for ever.
CallsReturn ==
  \A t \in Threads, d \in 1 .. MaxDepth :
    Len(waits[t]) >= d ~> Len(waits[t]) < d \/ \E s \in Sides : status[s] # "alive"

\* A program thread inside the rendezvous with a library that has died does
\* not hang: it got its answer before, or the intermediate process removes the
\* semaphores and the program exits.
LibraryDeathNoticed ==
  \A t \in Threads :
    inter # "none" /\ status["library"] # "alive" /\ pc[t] # "run" ~> pc[t] \in {"run", "gone"}

\* The library process does not outlive the program.
ProgramDeathNoticed == status["program"] # "alive" ~> status["library"] # "alive"

\* An exception in the library is reported: a program that waits when the
\* library posts "remote exit" ends with exit(1), never with the exit(0) of a
\* removed semaphore, unless the library is killed before it is done.
LibraryExceptionReported ==
  \A t \in Threads :
    (pc[Lib] = "dying" /\ pc[t] = "wait" /\ ~removed)
      ~> (status["program"] \in {"exit1", "killed"} \/ status["library"] = "killed")

\* The message semaphores, which the kernel keeps until they are removed, do
\* not outlive the processes when the library is jailed.
SemaphoresRemoved == inter # "none" /\ (\A s \in Sides : status[s] # "alive") ~> removed
=============================================================================
