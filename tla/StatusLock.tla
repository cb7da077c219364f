----------------------------- MODULE StatusLock -----------------------------
(***************************************************************************)
(* When the semaphores are removed, for programs that fork.  With          *)
(* program_params.is_forking every process of the program holds a read     *)
(* lock on the shared memory file (libipc/shared_memory_locking.cpp), and  *)
(* a process that exits removes the semaphores if nobody else holds one.   *)
(* Without it only the process that has loaded the library removes them.   *)
(* The intermediate process of the jail does so when that process dies,    *)
(* or when the library process has ended.                                  *)
(*                                                                         *)
(* A call of the library is one step to the call and one step back; see    *)
(* IpcCommunication for what happens in between.                           *)
(***************************************************************************)
EXTENDS FiniteSets

CONSTANTS
  Procs,        \* the processes of the program
  Main,         \* the first one, the parent of the intermediate process
  Modes,        \* the values of program_params.is_forking
  SleepSuffices,\* do 10 ms suffice for a forked child to take its lock?
  ExitsOverlap, \* the modes in which two processes may exit at the same time,
  Kills,        \* in which one may end without exit handlers,
  LibraryCrashes\* and in which the library process may end by itself

ASSUME LockAssumption ==
  /\ Main \in Procs
  /\ Modes \subseteq BOOLEAN /\ SleepSuffices \in BOOLEAN

VARIABLES
  forking, \* program_params.is_forking
  state,   \* state[p]: where a process of the program is
  holds,   \* the processes that hold the status lock
  unintended, \* has_unintenden_fork, in the shared segment
  removed, \* have the two message semaphores been removed?
  mutexRemoved, \* has the allocator's mutex been removed?
  library, \* "alive", "exited" (because of a removed semaphore) or "crashed"
  inter,   \* the intermediate process: "up" or "done"
  signal   \* SIGTERM to the intermediate process: "none" or "handled"

vars == <<forking, state, holds, unintended, removed, mutexRemoved, library, inter, signal>>
jail == <<library, inter, signal>>
mode == <<forking, unintended>>
sems == <<removed, mutexRemoved>>

Active == {"forked", "sleeping", "running", "calling"}
States == Active \cup {"unborn", "removing", "leaving", "dead"}

TypeOK ==
  /\ state \in [Procs -> States] /\ holds \subseteq Procs
  /\ {forking, unintended, removed, mutexRemoved} \subseteq BOOLEAN
  /\ library \in {"alive", "exited", "crashed"}
  /\ inter \in {"up", "done"} /\ signal \in {"none", "handled"}

\* After fork_receiving_process() in the parent.
Init ==
  /\ forking \in Modes
  /\ state = [p \in Procs |-> IF p = Main THEN "running" ELSE "unborn"]
  /\ holds = IF forking THEN {Main} ELSE {}
  /\ unintended = FALSE /\ removed = FALSE /\ mutexRemoved = FALSE
  /\ library = "alive" /\ inter = "up" /\ signal = "none"

Become(p, s) == state' = [state EXCEPT ![p] = s]

\* statuslock_is_sole_survivor(): F_GETLK does not see the lock of its caller
\* ({p} for a process of the program, {} for the others).  Mutant: it does.
MutantSoleSurvivor(own) == holds = {}
SoleSurvivor(own) == holds \subseteq own

-----------------------------------------------------------------------------
\* fork() of the program.  Its atfork handlers: the parent sleeps and the child
\* takes the lock; without is_forking the child is only marked as a fork.
Fork(p, c) ==
  /\ state[p] = "running" /\ state[c] = "unborn"
  /\ state' = [state EXCEPT ![p] = IF forking THEN "sleeping" ELSE "running",
                            ![c] = IF forking THEN "forked" ELSE "running"]
  /\ unintended' = (unintended \/ ~forking)
  /\ UNCHANGED <<forking, holds, sems, jail>>

Installed(c) == holds \cup {c}

Install(c) ==
  /\ state[c] = "forked"
  /\ holds' = Installed(c)
  /\ Become(c, "running")
  /\ UNCHANGED <<mode, sems, jail>>

Wake(p) ==
  /\ state[p] = "sleeping"
  /\ SleepSuffices => \A c \in Procs : state[c] # "forked"
  /\ Become(p, "running")
  /\ UNCHANGED <<holds, mode, sems, jail>>

\* A process that uses the library: all with is_forking, else only Main.
User(p) == forking \/ p = Main

Call(p) ==
  /\ state[p] = "running" /\ User(p)
  /\ Become(p, "calling")
  /\ UNCHANGED <<holds, mode, sems, jail>>

Answer(p) ==
  /\ state[p] = "calling" /\ ~removed /\ library = "alive"
  /\ Become(p, "running")
  /\ UNCHANGED <<holds, mode, sems, jail>>

\* ~IpcCommunication(), from exit(): also called by wait_for_return() when it
\* finds the semaphore removed.  Mutant: is_forked is forgotten.
MutantMayTerminate(p) == IF forking THEN SoleSurvivor({p}) ELSE TRUE
MayTerminate(p) == IF forking THEN SoleSurvivor({p}) ELSE p = Main

Exit(p) ==
  /\ \/ state[p] = "running"
     \/ state[p] = "calling" /\ removed
  /\ forking \in ExitsOverlap \/ \A q \in Procs : state[q] \notin {"removing", "leaving"}
  /\ Become(p, IF MayTerminate(p) THEN "removing" ELSE "leaving")
  /\ UNCHANGED <<holds, mode, sems, jail>>

\* SharedMemoryInformation::terminate() decides for the mutex again.
\* Mutant: it does not.
MutantMutexGone(own) == mutexRemoved
MutexGone(own) == mutexRemoved \/ (IF forking THEN SoleSurvivor(own) ELSE ~unintended)

\* IpcCommunication::terminate().
Terminate(own) == removed' = TRUE /\ mutexRemoved' = MutexGone(own)

Remove(p) ==
  /\ state[p] = "removing"
  /\ Terminate({p})
  /\ Become(p, "leaving")
  /\ UNCHANGED <<holds, mode, jail>>

\* The kernel releases the lock of a process that has ended.
End(p) == Become(p, "dead") /\ holds' = holds \ {p}

Die(p) == state[p] = "leaving" /\ End(p) /\ UNCHANGED <<mode, sems, jail>>

Kill(p) ==
  /\ forking \in Kills /\ state[p] \notin {"unborn", "dead"}
  /\ End(p)
  /\ UNCHANGED <<mode, sems, jail>>

-----------------------------------------------------------------------------
\* The library process: its wait_for_return() finds the semaphore removed.
LibraryExits ==
  /\ library = "alive" /\ removed
  /\ library' = "exited"
  /\ UNCHANGED <<state, holds, mode, sems, inter, signal>>

LibraryCrash ==
  /\ forking \in LibraryCrashes /\ library = "alive"
  /\ library' = "crashed"
  /\ UNCHANGED <<state, holds, mode, sems, inter, signal>>

\* An exception in the library: child_process_main() terminates, whoever is left.
LibraryThrow ==
  /\ forking \in LibraryCrashes /\ library = "alive"
  /\ library' = "crashed"
  /\ Terminate({})
  /\ UNCHANGED <<state, holds, mode, inter, signal>>

\* on_parent_exit_callback of the intermediate process, which holds no lock.
\* Mutant: it does nothing.
MutantCleanUp == UNCHANGED sems
CleanUp == IF ~forking \/ SoleSurvivor({}) THEN Terminate({}) ELSE UNCHANGED sems

\* PR_SET_PDEATHSIG, once.
ParentDied ==
  /\ inter = "up" /\ state[Main] = "dead" /\ signal = "none"
  /\ signal' = "handled"
  /\ CleanUp
  /\ UNCHANGED <<state, holds, mode, library, inter>>

\* runChild() has returned.
ChildDied ==
  /\ inter = "up" /\ library # "alive"
  /\ inter' = "done"
  /\ CleanUp
  /\ UNCHANGED <<state, holds, mode, library, signal>>

AllGone == \A p \in Procs : state[p] \in {"unborn", "dead"}
Over == AllGone /\ UNCHANGED vars

Run(p) == Install(p) \/ Wake(p) \/ Answer(p) \/ Remove(p) \/ Die(p)
Jail == LibraryExits \/ ParentDied \/ ChildDied
Next ==
  \/ \E p \in Procs : \/ Run(p) \/ Call(p) \/ Exit(p) \/ Kill(p)
                      \/ \E c \in Procs : Fork(p, c)
  \/ Jail \/ LibraryCrash \/ LibraryThrow \/ Over

Spec == Init /\ [][Next]_vars

\* The kernel runs every process and delivers the signal; a process blocked in a
\* call whose semaphore has been removed exits.  No process has to exit else.
Fairness ==
  /\ \A p \in Procs : WF_vars(Run(p)) /\ WF_vars(Exit(p) /\ state[p] = "calling")
  /\ WF_vars(LibraryExits) /\ WF_vars(ParentDied) /\ WF_vars(ChildDied)
FairSpec == Spec /\ Fairness

-----------------------------------------------------------------------------
\* The semaphores are removed only when no process that uses the library is
\* left but the one that exits, unless the library has ended by itself: the
\* lock tells "when we are allowed to terminate".
NotRemovedInUse ==
  removed /\ library # "crashed" => \A p \in Procs : User(p) => state[p] \notin Active

\* A process that runs holds its lock; a child that has not taken its lock yet
\* has a parent that sleeps.
LockInv ==
  forking =>
    /\ \A p \in Procs : state[p] \in {"sleeping", "running", "calling", "removing", "leaving"}
                        => p \in holds
    /\ (\E c \in Procs : state[c] = "forked") => \E p \in Procs : state[p] = "sleeping"

\* A process that has decided to remove the semaphores is the last user.
RemovingInv ==
  \A p \in Procs : state[p] = "removing" =>
    /\ User(p)
    /\ \A q \in Procs : User(q) /\ q # p => state[q] \notin Active \cup {"removing"}

\* The library exits only because of a removed semaphore, and the first process
\* of the program is never born again.
EndedInv == (library = "exited" => removed) /\ state[Main] # "unborn"

\* The inductive strengthening of NotRemovedInUse.
StatusInv == TypeOK /\ LockInv /\ RemovingInv /\ EndedInv /\ NotRemovedInUse

\* When all processes of the program are gone, the semaphores are removed and
\* with them the library process.
GoneIsRemoved == AllGone ~> removed /\ library # "alive" /\ inter = "done"

\* The mutex of the page allocator does not outlive the program either.  A
\* program that forks without is_forking leaves it.
GoneMutexRemoved == AllGone /\ (unintended => forking) ~> mutexRemoved

\* No process is left blocked in a call: it is answered, or it ends.
CallersReleased == \A p \in Procs : state[p] = "calling" ~> state[p] # "calling"
=============================================================================
