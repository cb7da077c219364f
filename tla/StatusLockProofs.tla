-------------------------- MODULE StatusLockProofs --------------------------
(***************************************************************************)
(* The semaphores are not removed while a process of the program uses the  *)
(* library, for any number of processes.                                   *)
(***************************************************************************)
EXTENDS StatusLock, TLAPS

USE DEF States, Active

\* Every variable keeps its type.
THEOREM TypeCorrect == Spec => []TypeOK
<1>1. Init => TypeOK
  BY LockAssumption, Zenon DEF Init, TypeOK
<1>2. TypeOK /\ [Next]_vars => TypeOK'
  <2> SUFFICES ASSUME TypeOK, [Next]_vars PROVE TypeOK'
    BY Zenon
  <2> USE DEF TypeOK, sems, jail, mode, Become
  <2>1. ASSUME NEW p \in Procs, Run(p) PROVE TypeOK'
    BY <2>1, Zenon DEF Run, Install, Installed, Wake, Answer, Remove, Terminate, MutexGone, SoleSurvivor, Die, End
  <2>2. ASSUME NEW p \in Procs, Call(p) \/ Exit(p) \/ Kill(p) PROVE TypeOK'
    BY <2>2, Zenon DEF Call, Exit, Kill, End
  <2>3. ASSUME NEW p \in Procs, NEW c \in Procs, Fork(p, c) PROVE TypeOK'
    BY <2>3, LockAssumption, Zenon DEF Fork
  <2>4. ASSUME Jail \/ LibraryCrash \/ LibraryThrow PROVE TypeOK'
    BY <2>4, Zenon DEF Jail, LibraryExits, ParentDied, ChildDied, CleanUp, Terminate, MutexGone, SoleSurvivor, LibraryCrash, LibraryThrow
  <2>5. CASE UNCHANGED vars
    BY <2>5, Zenon DEF vars
  <2> QED
    BY <2>1, <2>2, <2>3, <2>4, <2>5, Zenon DEF Next, Over
<1> QED
  BY <1>1, <1>2, PTL DEF Spec

\* The assumption under which the lock tells the last user: without is_forking
\* nothing, with it that the parent's sleep outlasts the child's start and that
\* no process is killed while it sleeps.
Orderly == TRUE \notin Kills /\ SleepSuffices

\* The steps of one process.
LEMMA ProcStep ==
  ASSUME Orderly, StatusInv, NEW p \in Procs,
         Run(p) \/ Call(p) \/ Exit(p) \/ Kill(p) \/ \E c \in Procs : Fork(p, c)
  PROVE  LockInv' /\ RemovingInv' /\ EndedInv' /\ NotRemovedInUse'
<1> USE DEF StatusInv, TypeOK, LockInv, RemovingInv, EndedInv, NotRemovedInUse, User, Become, sems, jail, mode, Orderly
<1>1. CASE \E c \in Procs : Fork(p, c)
  <2> PICK c \in Procs : Fork(p, c)
    BY <1>1, Zenon
  <2> USE LockAssumption DEF Fork
  <2>1. LockInv'
    OBVIOUS
  <2>2. RemovingInv'
    OBVIOUS
  <2>3. EndedInv' /\ NotRemovedInUse'
    OBVIOUS
  <2> QED
    BY <2>1, <2>2, <2>3, Zenon
<1>2. CASE Install(p)
  BY <1>2 DEF Install, Installed
<1>3. CASE Wake(p)
  BY <1>3 DEF Wake
<1>4. CASE Answer(p)
  BY <1>4 DEF Answer
<1>9. CASE Call(p)
  <2> USE <1>9 DEF Call
  <2>1. LockInv'
    BY Zenon
  <2>2. RemovingInv'
    BY Zenon
  <2>3. EndedInv' /\ NotRemovedInUse'
    OBVIOUS
  <2> QED
    BY <2>1, <2>2, <2>3, Zenon
<1>5. CASE Exit(p)
  BY <1>5, LockAssumption DEF Exit, MayTerminate, SoleSurvivor
<1>6. CASE Remove(p)
  BY <1>6 DEF Remove, Terminate
<1>7. CASE Die(p)
  BY <1>7 DEF Die, End
<1>8. CASE Kill(p)
  <2>1. forking \in BOOLEAN
    BY Zenon
  <2>2. ~forking
    BY <1>8, <2>1, Zenon DEF Kill
  <2> QED
    BY <1>8, <2>2 DEF Kill, End
<1> QED
  BY <1>1, <1>2, <1>3, <1>4, <1>5, <1>6, <1>7, <1>8, <1>9, Zenon DEF Run

\* The steps of the library and of the intermediate process.
LEMMA JailStep ==
  ASSUME Orderly, StatusInv, Jail \/ LibraryCrash \/ LibraryThrow
  PROVE  LockInv' /\ RemovingInv' /\ EndedInv' /\ NotRemovedInUse'
<1> USE DEF StatusInv, TypeOK, LockInv, RemovingInv, EndedInv, NotRemovedInUse, User, sems, jail, mode
<1>1. CASE LibraryExits
  BY <1>1, Zenon DEF LibraryExits
<1>2. CASE ParentDied
  BY <1>2, LockAssumption, Zenon DEF ParentDied, CleanUp, SoleSurvivor, Terminate
<1>3. CASE ChildDied
  BY <1>3, Zenon DEF ChildDied, CleanUp, SoleSurvivor, Terminate
<1>4. CASE LibraryCrash
  BY <1>4, Zenon DEF LibraryCrash
<1>5. CASE LibraryThrow
  BY <1>5, Zenon DEF LibraryThrow, Terminate
<1> QED
  BY <1>1, <1>2, <1>3, <1>4, <1>5, Zenon DEF Jail

\* The semaphores outlive every user of the library (unless the library ends by
\* itself): the check of the status lock before terminate() suffices.
THEOREM LastUserRemoves == ASSUME Orderly PROVE Spec => []NotRemovedInUse
<1>1. Init => StatusInv
  BY LockAssumption, Zenon DEF Init, StatusInv, TypeOK, LockInv, RemovingInv, EndedInv, NotRemovedInUse, User
<1>2. StatusInv /\ TypeOK' /\ [Next]_vars => StatusInv'
  <2> SUFFICES ASSUME StatusInv, TypeOK', [Next]_vars PROVE StatusInv'
    BY Zenon
  <2>1. CASE UNCHANGED vars
    BY <2>1, Zenon DEF vars, StatusInv, TypeOK, LockInv, RemovingInv, EndedInv, NotRemovedInUse, User
  <2>2. CASE Next
    BY <2>1, <2>2, ProcStep, JailStep, Zenon DEF Next, Over, StatusInv
  <2> QED
    BY <2>1, <2>2, Zenon
<1>3. StatusInv => NotRemovedInUse
  BY Zenon DEF StatusInv
<1> QED
  BY <1>1, <1>2, <1>3, TypeCorrect, PTL DEF Spec
=============================================================================
