---------------------- MODULE IpcCommunicationProofs ----------------------
(***************************************************************************)
(* Proofs about IpcCommunication.                                          *)
(* For every set of program threads: the only hypothesis of the safety     *)
(* theorems is that no signal interrupts the semop() of                    *)
(* SharedMutex::lock().                                                    *)
(* For a program with one thread, without that hypothesis: the data,       *)
(* results and errno of a call are those of its peer, and the two          *)
(* processes implement LocalCalls.                                         *)
(***************************************************************************)
EXTENDS MCIpcCommunication, TLAPS

\* A function on 1 .. n is a sequence.
LEMMA FunctionIsSeq ==
  ASSUME NEW S, NEW n \in Nat, NEW f \in [1 .. n -> S]
  PROVE  f \in Seq(S)
OBVIOUS

\* Sequences with the same elements in the same places are the same.
LEMMA SameElements ==
  ASSUME NEW S, NEW s \in Seq(S), NEW t \in Seq(S),
         Len(s) = Len(t), \A i \in 1 .. Len(s) : s[i] = t[i]
  PROVE  s = t
OBVIOUS

\* Dropping the last element of a sequence leaves a sequence.
LEMMA FrontType ==
  ASSUME NEW S, NEW s \in Seq(S), s # <<>>
  PROVE  SubSeq(s, 1, Len(s) - 1) \in Seq(S)
OBVIOUS

\* The last element of a sequence is one of its elements.
LEMMA LastType ==
  ASSUME NEW S, NEW s \in Seq(S), s # <<>>
  PROVE  s[Len(s)] \in S
OBVIOUS

\* The elements of a sequence after appending one and after dropping the last.
LEMMA SeqElements ==
  ASSUME NEW S, NEW s \in Seq(S), NEW e \in S
  PROVE  /\ Append(s, e) \in Seq(S) /\ Len(Append(s, e)) = Len(s) + 1
         /\ \A k \in 1 .. Len(s) : Append(s, e)[k] = s[k]
         /\ Append(s, e)[Len(s) + 1] = e
         /\ s # <<>> => /\ Len(SubSeq(s, 1, Len(s) - 1)) = Len(s) - 1
                        /\ \A k \in 1 .. Len(s) - 1 : SubSeq(s, 1, Len(s) - 1)[k] = s[k]
<1>1. /\ Append(s, e) \in Seq(S) /\ Len(Append(s, e)) = Len(s) + 1
      /\ \A k \in 1 .. Len(s) : Append(s, e)[k] = s[k]
      /\ Append(s, e)[Len(s) + 1] = e
  OBVIOUS
<1>2. ASSUME s # <<>>
      PROVE  /\ Len(SubSeq(s, 1, Len(s) - 1)) = Len(s) - 1
             /\ \A k \in 1 .. Len(s) - 1 : SubSeq(s, 1, Len(s) - 1)[k] = s[k]
  <2>1. Len(s) \in Nat /\ Len(s) # 0
    BY <1>2
  <2> DEFINE n == Len(s) - 1
  <2>2. n \in Nat /\ \A i \in 1 .. n : s[i] \in S
    BY <2>1
  <2> HIDE DEF n
  <2>3. /\ Len(SubSeq(s, 1, n)) = IF 1 <= n THEN n - 1 + 1 ELSE 0
        /\ \A i \in 1 .. n - 1 + 1 : SubSeq(s, 1, n)[i] = s[1 + i - 1]
    BY <2>2
  <2>4. Len(SubSeq(s, 1, n)) = n /\ \A i \in 1 .. n : SubSeq(s, 1, n)[i] = s[i]
    BY <2>2, <2>3
  <2> QED BY <2>4, Zenon DEF n
<1> QED BY <1>1, <1>2, Zenon

\* terminate() and the end of a process respect the types.
LEMMA EndTypes ==
  ASSUME TypeOK, NEW s \in Sides
  PROVE  /\ Terminate(s) => removed' \in BOOLEAN /\ lockRemoved' \in BOOLEAN
         /\ \A how \in Statuses :
              End(s, how) => status' \in [Sides -> Statuses] /\ pc' \in [Actors -> PCs]
         /\ \A how \in Statuses :
              ExitProcess(s, how) => /\ removed' \in BOOLEAN /\ lockRemoved' \in BOOLEAN
                                     /\ status' \in [Sides -> Statuses] /\ pc' \in [Actors -> PCs]
<1>1. Terminate(s) => removed' \in BOOLEAN /\ lockRemoved' \in BOOLEAN
  BY Zenon DEF Terminate
<1>2. ASSUME NEW how \in Statuses, End(s, how)
      PROVE  status' \in [Sides -> Statuses] /\ pc' \in [Actors -> PCs]
  BY <1>2, Zenon DEF End, TypeOK, PCs
<1>3. ASSUME NEW how \in Statuses, ExitProcess(s, how)
      PROVE  removed' \in BOOLEAN /\ lockRemoved' \in BOOLEAN
  <2>1. CASE s = "program"
    BY <1>1, <1>3, <2>1, Zenon DEF ExitProcess
  <2>2. CASE s # "program"
    BY <1>3, <2>2, Zenon DEF ExitProcess, TypeOK
  <2> QED BY <2>1, <2>2, Zenon
<1> QED BY <1>1, <1>2, <1>3, Zenon DEF ExitProcess

\* Building messages, activations and calls.
LEMMA RecordTypes ==
  ASSUME TypeOK
  PROVE  /\ \A m \in Messages : m.code \in Codes /\ m.id \in CallIds /\ m.errno \in Errnos
         /\ \A c \in Codes, i \in CallIds, e \in Errnos :
              [code |-> c, id |-> i, errno |-> e] \in Messages
         /\ \A m \in Messages, e \in Errnos : [m EXCEPT !.errno = e] \in Messages
         /\ \A m \in Messages, c \in Codes : [m EXCEPT !.code = c] \in Messages
         /\ \A c \in CallCodes, i \in CallIds : [code |-> c, id |-> i] \in Activations
         /\ \A x \in Activations : x.code \in CallCodes /\ x.id \in CallIds
BY Zenon DEF Messages, Activations

\* The types of the message codes.
LEMMA CodeTypes ==
  /\ RETURN \in Codes /\ REMOTE_EXIT \in Codes
  /\ CallCodes \subseteq Codes /\ KeepLockCodes \subseteq CallCodes
  /\ \A a \in Actors : CodesOf(a) \subseteq CallCodes
BY CodesAssumption, SMTT(30) DEF Codes, CallCodes, KeepLockCodes, RETURN, REMOTE_EXIT, CodesOf

\* Every step of the processes preserves the types of the variables.
LEMMA TypeStep ==
  ASSUME TypeOK, [Next]_vars
  PROVE  TypeOK'
<1> USE ThreadsAssumption DEF Actors, Side, Peer, Sides, PCs, Statuses, TypeOK
<1>1. ASSUME NEW a \in Actors, NEW c \in CodesOf(a), Call(a, c) PROVE TypeOK'
  <2> DEFINE id == [by |-> a, depth |-> Len(waits[a]) + 1]
  <2>1. id \in CallIds
    BY DEF CallIds
  <2>2. out' \in [Actors -> Messages]
    BY <1>1, <2>1, CodeTypes, RecordTypes, Zenon DEF Call
  <2>3. waits' \in [Actors -> Seq(CallIds)]
    BY <1>1, <2>1 DEF Call
  <2>4. pc' \in [Actors -> PCs]
    BY <1>1, Zenon DEF Call, Goto
  <2> QED BY <1>1, <2>2, <2>3, <2>4, Zenon DEF Call, channel, mutex, processes
<1>2. ASSUME NEW a \in Actors, LockSending(a) PROVE TypeOK'
  BY <1>2 DEF LockSending, Goto, channel, processes
<1>3. ASSUME NEW a \in Actors, Fill(a) PROVE TypeOK'
  <2>1. mail' \in [Sides -> Messages]
    BY <1>3, RecordTypes, Zenon DEF Fill
  <2>2. pc' \in [Actors -> PCs]
    BY <1>3, Zenon DEF Fill, Goto
  <2> QED BY <1>3, <2>1, <2>2, Zenon DEF Fill, mutex, processes
<1>4. ASSUME NEW a \in Actors, PostRequest(a) PROVE TypeOK'
  BY <1>4, SMTT(60) DEF PostRequest, Goto, mutex, processes
<1>5. ASSUME NEW a \in Actors, PostResponse(a) PROVE TypeOK'
  <2>1. blocked' \in [Sides -> BOOLEAN]
    BY <1>5, Zenon DEF PostResponse
  <2>2. CASE ~removed
    <3>1. sem' = [sem EXCEPT ![Peer(Side(a))] = @ + 1] /\ Goto(a, "wait")
      BY <1>5, <2>2, Zenon DEF PostResponse
    <3>2. sem' \in [Sides -> Nat] /\ pc' \in [Actors -> PCs]
      BY <3>1 DEF Goto
    <3> QED BY <1>5, <2>1, <2>2, <3>2, Zenon DEF PostResponse
  <2>3. CASE removed
    <3>1. PICK how \in {"exit0", "exit1"} : ExitProcess(Side(a), how)
      BY <1>5, <2>3, Zenon DEF PostResponse
    <3>2. /\ removed' \in BOOLEAN /\ lockRemoved' \in BOOLEAN
          /\ status' \in [Sides -> Statuses] /\ pc' \in [Actors -> PCs]
      BY <3>1, EndTypes, Zenon
    <3> QED BY <1>5, <2>1, <2>3, <3>2, Zenon DEF PostResponse
  <2> QED BY <2>2, <2>3, Zenon
<1>6. ASSUME NEW a \in Actors, Receive(a) PROVE TypeOK'
  <2> DEFINE msg == mail[Side(a)]
  <2>1. msg \in Messages
    BY Zenon
  <2>2. rcv' \in [Actors -> Messages] /\ errno' \in [Actors -> Errnos]
    BY <1>6, <2>1, RecordTypes, Zenon DEF Receive, TakeMessage
  <2>3. acts' \in [Actors -> Seq(Activations)] /\ pc' \in [Actors -> PCs]
    <3>1. CASE msg.code \in KeepLockCodes
      <4>1. [code |-> msg.code, id |-> msg.id] \in Activations
        BY <2>1, <3>1, RecordTypes, CodeTypes, Zenon
      <4>2. Append(acts[a], [code |-> msg.code, id |-> msg.id]) \in Seq(Activations)
        BY <4>1
      <4>3. acts' = [acts EXCEPT ![a] = Append(@, [code |-> msg.code, id |-> msg.id])]
        BY <1>6, <3>1, Zenon DEF Receive, TakeMessage
      <4>4. acts' \in [Actors -> Seq(Activations)]
        BY <4>2, <4>3, Zenon
      <4> QED BY <1>6, <3>1, <4>4, Zenon DEF Receive, TakeMessage, Goto
    <3>2. CASE msg.code \notin KeepLockCodes
      BY <1>6, <3>2, Zenon DEF Receive, TakeMessage, Goto
    <3> QED BY <3>1, <3>2, Zenon
  <2>4. sem' \in [Sides -> Nat] /\ blocked' \in [Sides -> BOOLEAN]
    BY <1>6 DEF Receive
  <2> QED BY <1>6, <2>2, <2>3, <2>4, Zenon DEF Receive, mutex, processes
<1>7. ASSUME NEW a \in Actors, ReceiveRemoved(a) PROVE TypeOK'
  <2>1. PICK how \in {"exit0", "exit1"} : ExitProcess(Side(a), how)
    BY <1>7, Zenon DEF ReceiveRemoved
  <2>2. /\ removed' \in BOOLEAN /\ lockRemoved' \in BOOLEAN
        /\ status' \in [Sides -> Statuses] /\ pc' \in [Actors -> PCs]
    BY <2>1, EndTypes, Zenon
  <2> QED BY <1>7, <2>2, Zenon DEF ReceiveRemoved
<1>8. ASSUME NEW a \in Actors, UnlockSending(a) PROVE TypeOK'
  BY <1>8 DEF UnlockSending, Goto, channel, processes
<1>9. ASSUME NEW a \in Actors, ReturnFromCall(a) PROVE TypeOK'
  <2>1. CASE waits[a] # <<>>
    <3>1. SubSeq(waits[a], 1, Len(waits[a]) - 1) \in Seq(CallIds)
      BY <2>1, FrontType, Zenon
    <3>2. waits' \in [Actors -> Seq(CallIds)]
      BY <1>9, <2>1, <3>1, Zenon DEF ReturnFromCall
    <3> QED BY <1>9, <2>1, <3>2, Zenon DEF ReturnFromCall, Goto
  <2>2. CASE waits[a] = <<>>
    <3>1. /\ removed' \in BOOLEAN /\ lockRemoved' \in BOOLEAN
          /\ status' \in [Sides -> Statuses] /\ pc' \in [Actors -> PCs]
      BY <1>9, <2>2, EndTypes, Zenon DEF ReturnFromCall
    <3> QED BY <1>9, <2>2, <3>1, Zenon DEF ReturnFromCall
  <2> QED BY <2>1, <2>2, Zenon
<1>10. ASSUME NEW a \in Actors, Dispatch(a) PROVE TypeOK'
  <2>1. [code |-> rcv[a].code, id |-> rcv[a].id] \in Activations
    BY <1>10, RecordTypes, Zenon DEF Dispatch
  <2>2. acts' \in [Actors -> Seq(Activations)]
    BY <1>10, <2>1 DEF Dispatch
  <2> QED BY <1>10, <2>2, Zenon DEF Dispatch, Goto, channel, mutex, processes
<1>11. ASSUME NEW a \in Actors, ObeyRemoteExit(a) PROVE TypeOK'
  BY <1>11, Zenon DEF ObeyRemoteExit, End, Terminate
<1>12. ASSUME NEW a \in Actors, FinishHandler(a) PROVE TypeOK'
  <2>1. acts[a][Len(acts[a])] \in Activations
    BY <1>12, LastType, Zenon DEF FinishHandler
  <2>2. out' \in [Actors -> Messages]
    BY <1>12, <2>1, RecordTypes, CodeTypes, Zenon DEF FinishHandler
  <2>3. SubSeq(acts[a], 1, Len(acts[a]) - 1) \in Seq(Activations)
    BY <1>12, FrontType, Zenon DEF FinishHandler
  <2>4. acts' \in [Actors -> Seq(Activations)]
    BY <1>12, <2>3, Zenon DEF FinishHandler
  <2>5. pc' \in [Actors -> PCs]
    BY <1>12, Zenon DEF FinishHandler, Goto
  <2> QED BY <1>12, <2>2, <2>4, <2>5, Zenon DEF FinishHandler, channel, mutex, processes
<1>13. ASSUME NEW a \in Actors, NEW e \in Errnos, SetErrno(a, e) PROVE TypeOK'
  BY <1>13, Zenon DEF SetErrno, channel, mutex, processes
<1>14. ASSUME NEW t \in Threads, ProgramExit(t) PROVE TypeOK'
  BY <1>14, Zenon DEF ProgramExit, Goto, Terminate, processes
<1>15. ASSUME NEW t \in Threads, ProgramExited(t) PROVE TypeOK'
  BY <1>15, Zenon DEF ProgramExited, End, channel, mutex
<1>16. ASSUME LibraryThrow PROVE TypeOK'
  <2>1. mail' \in [Sides -> Messages]
    BY <1>16, RecordTypes, CodeTypes, Zenon DEF LibraryThrow
  <2>2. sem' \in [Sides -> Nat]
    BY <1>16 DEF LibraryThrow
  <2> QED BY <1>16, <2>1, <2>2, Zenon DEF LibraryThrow, Goto, mutex, processes
<1>17. ASSUME LibraryDies PROVE TypeOK'
  BY <1>17, Zenon DEF LibraryDies, End, Terminate
<1>18. ASSUME NEW s \in Sides, Kill(s) PROVE TypeOK'
  BY <1>18, Zenon DEF Kill, End, channel, mutex
<1>19. ASSUME IntermediateParentDied PROVE TypeOK'
  BY <1>19, Zenon DEF IntermediateParentDied, Terminate, control, processes
<1>20. ASSUME IntermediateChildDied PROVE TypeOK'
  BY <1>20, Zenon DEF IntermediateChildDied, Terminate, control
<1>21. ASSUME LibraryParentDied PROVE TypeOK'
  BY <1>21, Zenon DEF LibraryParentDied, End, channel, mutex
<1>22. CASE UNCHANGED vars
  BY <1>22, Zenon DEF vars
<1> QED
  BY <1>1, <1>2, <1>3, <1>4, <1>5, <1>6, <1>7, <1>8, <1>9, <1>10, <1>11, <1>12,
     <1>13, <1>14, <1>15, <1>16, <1>17, <1>18, <1>19, <1>20, <1>21, <1>22, ZenonT(30)
     DEF Next, Step, UserCode, Ending, Over

\* The mutex is never removed without the semaphores.
LEMMA RemovedStep ==
  ASSUME TypeOK, RemovedInv, [Next]_vars
  PROVE  RemovedInv'
<1> USE DEF RemovedInv
<1>1. ASSUME NEW a \in Actors, NEW c \in CodesOf(a), Call(a, c) PROVE RemovedInv'
  BY <1>1, Zenon DEF Call, Goto, HasLock, channel, mutex, processes
<1>2. ASSUME NEW a \in Actors, LockSending(a) PROVE RemovedInv'
  BY <1>2, Zenon DEF LockSending, Goto, channel, processes
<1>3. ASSUME NEW a \in Actors, Fill(a) PROVE RemovedInv'
  BY <1>3, Zenon DEF Fill, Goto, mutex, processes
<1>4. ASSUME NEW a \in Actors, PostRequest(a) PROVE RemovedInv'
  BY <1>4, Zenon DEF PostRequest, Goto, mutex, processes
<1>5. ASSUME NEW a \in Actors, PostResponse(a) PROVE RemovedInv'
  BY <1>5, Zenon DEF PostResponse, Goto, End, ExitProcess, Terminate
<1>6. ASSUME NEW a \in Actors, Receive(a) PROVE RemovedInv'
  BY <1>6, Zenon DEF Receive, TakeMessage, Goto, HasLock, mutex, processes
<1>7. ASSUME NEW a \in Actors, ReceiveRemoved(a) PROVE RemovedInv'
  BY <1>7, Zenon DEF ReceiveRemoved, End, ExitProcess, Terminate
<1>8. ASSUME NEW a \in Actors, UnlockSending(a) PROVE RemovedInv'
  BY <1>8, Zenon DEF UnlockSending, Goto, channel, processes
<1>9. ASSUME NEW a \in Actors, ReturnFromCall(a) PROVE RemovedInv'
  BY <1>9, Zenon DEF ReturnFromCall, Goto, End, Terminate
<1>10. ASSUME NEW a \in Actors, Dispatch(a) PROVE RemovedInv'
  BY <1>10, Zenon DEF Dispatch, Goto, channel, mutex, processes
<1>11. ASSUME NEW a \in Actors, ObeyRemoteExit(a) PROVE RemovedInv'
  BY <1>11, Zenon DEF ObeyRemoteExit, End, Terminate
<1>12. ASSUME NEW a \in Actors, FinishHandler(a) PROVE RemovedInv'
  BY <1>12, Zenon DEF FinishHandler, Goto, HasLock, channel, mutex, processes
<1>13. ASSUME NEW a \in Actors, NEW e \in Errnos, SetErrno(a, e) PROVE RemovedInv'
  BY <1>13, Zenon DEF SetErrno, channel, mutex, processes
<1>14. ASSUME NEW t \in Threads, ProgramExit(t) PROVE RemovedInv'
  BY <1>14, Zenon DEF ProgramExit, Goto, Terminate, processes
<1>15. ASSUME NEW t \in Threads, ProgramExited(t) PROVE RemovedInv'
  BY <1>15, Zenon DEF ProgramExited, End, channel, mutex
<1>16. ASSUME LibraryThrow PROVE RemovedInv'
  BY <1>16, Zenon DEF LibraryThrow, Goto, mutex, processes
<1>17. ASSUME LibraryDies PROVE RemovedInv'
  BY <1>17, Zenon DEF LibraryDies, End, Terminate
<1>18. ASSUME NEW s \in Sides, Kill(s) PROVE RemovedInv'
  BY <1>18, Zenon DEF Kill, End, channel, mutex
<1>19. ASSUME IntermediateParentDied PROVE RemovedInv'
  BY <1>19, Zenon DEF IntermediateParentDied, Terminate, control, processes
<1>20. ASSUME IntermediateChildDied PROVE RemovedInv'
  BY <1>20, Zenon DEF IntermediateChildDied, Terminate, control
<1>21. ASSUME LibraryParentDied PROVE RemovedInv'
  BY <1>21, Zenon DEF LibraryParentDied, End, channel, mutex
<1>22. CASE UNCHANGED vars
  BY <1>22, Zenon DEF vars
<1> QED
  BY <1>1, <1>2, <1>3, <1>4, <1>5, <1>6, <1>7, <1>8, <1>9, <1>10, <1>11, <1>12,
     <1>13, <1>14, <1>15, <1>16, <1>17, <1>18, <1>19, <1>20, <1>21, <1>22, SMTT(30)
     DEF Next, Step, UserCode, Ending, Over

\* The library never gets near the mutex, and never runs exit handlers.
LEMMA LibraryStep ==
  ASSUME TypeOK, LibraryInv, [Next]_vars
  PROVE  LibraryInv'
<1> USE ThreadsAssumption DEF Actors, Side, Peer, Sides, PCs, Statuses, TypeOK, LibraryInv
<1>1. ASSUME NEW a \in Actors, NEW c \in CodesOf(a), Call(a, c) PROVE LibraryInv'
  BY <1>1, Zenon DEF Call, Goto, HasLock, channel, mutex, processes
<1>2. ASSUME NEW a \in Actors, LockSending(a) PROVE LibraryInv'
  BY <1>2, Zenon DEF LockSending, Goto, channel, processes, HasLock
<1>3. ASSUME NEW a \in Actors, Fill(a) PROVE LibraryInv'
  BY <1>3, Zenon DEF Fill, Goto, mutex, processes, HasLock
<1>4. ASSUME NEW a \in Actors, PostRequest(a) PROVE LibraryInv'
  BY <1>4, Zenon DEF PostRequest, Goto, mutex, processes, HasLock
<1>5. ASSUME NEW a \in Actors, PostResponse(a) PROVE LibraryInv'
  BY <1>5, Zenon DEF PostResponse, Goto, End, ExitProcess, Terminate, HasLock
<1>6. ASSUME NEW a \in Actors, Receive(a) PROVE LibraryInv'
  BY <1>6 DEF Receive, TakeMessage, Goto, HasLock, mutex, processes
<1>7. ASSUME NEW a \in Actors, ReceiveRemoved(a) PROVE LibraryInv'
  BY <1>7, Zenon DEF ReceiveRemoved, End, ExitProcess, Terminate, HasLock
<1>8. ASSUME NEW a \in Actors, UnlockSending(a) PROVE LibraryInv'
  BY <1>8, Zenon DEF UnlockSending, Goto, channel, processes, HasLock
<1>9. ASSUME NEW a \in Actors, ReturnFromCall(a) PROVE LibraryInv'
  BY <1>9, Zenon DEF ReturnFromCall, Goto, End, Terminate, HasLock
<1>10. ASSUME NEW a \in Actors, Dispatch(a) PROVE LibraryInv'
  BY <1>10, Zenon DEF Dispatch, Goto, channel, mutex, processes, HasLock
<1>11. ASSUME NEW a \in Actors, ObeyRemoteExit(a) PROVE LibraryInv'
  BY <1>11, Zenon DEF ObeyRemoteExit, End, Terminate, HasLock
<1>12. ASSUME NEW a \in Actors, FinishHandler(a) PROVE LibraryInv'
  BY <1>12, Zenon DEF FinishHandler, Goto, HasLock, channel, mutex, processes
<1>13. ASSUME NEW a \in Actors, NEW e \in Errnos, SetErrno(a, e) PROVE LibraryInv'
  BY <1>13, Zenon DEF SetErrno, channel, mutex, processes, HasLock
<1>14. ASSUME NEW t \in Threads, ProgramExit(t) PROVE LibraryInv'
  BY <1>14, Zenon DEF ProgramExit, Goto, Terminate, processes, HasLock
<1>15. ASSUME NEW t \in Threads, ProgramExited(t) PROVE LibraryInv'
  BY <1>15, Zenon DEF ProgramExited, End, channel, mutex, HasLock
<1>16. ASSUME LibraryThrow PROVE LibraryInv'
  BY <1>16, Zenon DEF LibraryThrow, Goto, mutex, processes, HasLock
<1>17. ASSUME LibraryDies PROVE LibraryInv'
  BY <1>17, Zenon DEF LibraryDies, End, Terminate, HasLock
<1>18. ASSUME NEW s \in Sides, Kill(s) PROVE LibraryInv'
  BY <1>18, Zenon DEF Kill, End, channel, mutex, HasLock
<1>19. ASSUME IntermediateParentDied PROVE LibraryInv'
  BY <1>19, Zenon DEF IntermediateParentDied, Terminate, control, processes, HasLock
<1>20. ASSUME IntermediateChildDied PROVE LibraryInv'
  BY <1>20, Zenon DEF IntermediateChildDied, Terminate, control, HasLock
<1>21. ASSUME LibraryParentDied PROVE LibraryInv'
  BY <1>21, Zenon DEF LibraryParentDied, End, channel, mutex, HasLock
<1>22. CASE UNCHANGED vars
  BY <1>22, ZenonT(60) DEF vars
<1> QED
  BY <1>1, <1>2, <1>3, <1>4, <1>5, <1>6, <1>7, <1>8, <1>9, <1>10, <1>11, <1>12,
     <1>13, <1>14, <1>15, <1>16, <1>17, <1>18, <1>19, <1>20, <1>21, <1>22, SMTT(30)
     DEF Next, Step, UserCode, Ending, Over

\* The threads of a dead program do not come back.
LEMMA GoneStep ==
  ASSUME TypeOK, GoneInv, [Next]_vars
  PROVE  GoneInv'
<1> USE ThreadsAssumption DEF Actors, Side, Peer, Sides, PCs, Statuses, TypeOK, GoneInv
<1>1. ASSUME NEW a \in Actors, NEW c \in CodesOf(a), Call(a, c) PROVE GoneInv'
  BY <1>1, Zenon DEF Call, Goto, HasLock, channel, mutex, processes
<1>2. ASSUME NEW a \in Actors, LockSending(a) PROVE GoneInv'
  BY <1>2, Zenon DEF LockSending, Goto, channel, processes
<1>3. ASSUME NEW a \in Actors, Fill(a) PROVE GoneInv'
  BY <1>3, Zenon DEF Fill, Goto, mutex, processes
<1>4. ASSUME NEW a \in Actors, PostRequest(a) PROVE GoneInv'
  BY <1>4, Zenon DEF PostRequest, Goto, mutex, processes
<1>5. ASSUME NEW a \in Actors, PostResponse(a) PROVE GoneInv'
  BY <1>5, Zenon DEF PostResponse, Goto, End, ExitProcess, Terminate
<1>6. ASSUME NEW a \in Actors, Receive(a) PROVE GoneInv'
  BY <1>6, Zenon DEF Receive, TakeMessage, Goto, HasLock, mutex, processes
<1>7. ASSUME NEW a \in Actors, ReceiveRemoved(a) PROVE GoneInv'
  BY <1>7, Zenon DEF ReceiveRemoved, End, ExitProcess, Terminate
<1>8. ASSUME NEW a \in Actors, UnlockSending(a) PROVE GoneInv'
  BY <1>8, Zenon DEF UnlockSending, Goto, channel, processes
<1>9. ASSUME NEW a \in Actors, ReturnFromCall(a) PROVE GoneInv'
  BY <1>9 DEF ReturnFromCall, Goto, End, Terminate
<1>10. ASSUME NEW a \in Actors, Dispatch(a) PROVE GoneInv'
  BY <1>10, Zenon DEF Dispatch, Goto, channel, mutex, processes
<1>11. ASSUME NEW a \in Actors, ObeyRemoteExit(a) PROVE GoneInv'
  BY <1>11, Zenon DEF ObeyRemoteExit, End, Terminate
<1>12. ASSUME NEW a \in Actors, FinishHandler(a) PROVE GoneInv'
  BY <1>12, Zenon DEF FinishHandler, Goto, HasLock, channel, mutex, processes
<1>13. ASSUME NEW a \in Actors, NEW e \in Errnos, SetErrno(a, e) PROVE GoneInv'
  BY <1>13, Zenon DEF SetErrno, channel, mutex, processes
<1>14. ASSUME NEW t \in Threads, ProgramExit(t) PROVE GoneInv'
  BY <1>14, Zenon DEF ProgramExit, Goto, Terminate, processes
<1>15. ASSUME NEW t \in Threads, ProgramExited(t) PROVE GoneInv'
  BY <1>15, Zenon DEF ProgramExited, End, channel, mutex
<1>16. ASSUME LibraryThrow PROVE GoneInv'
  BY <1>16, Zenon DEF LibraryThrow, Goto, mutex, processes
<1>17. ASSUME LibraryDies PROVE GoneInv'
  BY <1>17, Zenon DEF LibraryDies, End, Terminate
<1>18. ASSUME NEW s \in Sides, Kill(s) PROVE GoneInv'
  BY <1>18, Zenon DEF Kill, End, channel, mutex
<1>19. ASSUME IntermediateParentDied PROVE GoneInv'
  BY <1>19, Zenon DEF IntermediateParentDied, Terminate, control, processes
<1>20. ASSUME IntermediateChildDied PROVE GoneInv'
  BY <1>20, Zenon DEF IntermediateChildDied, Terminate, control
<1>21. ASSUME LibraryParentDied PROVE GoneInv'
  BY <1>21, Zenon DEF LibraryParentDied, End, channel, mutex
<1>22. CASE UNCHANGED vars
  BY <1>22, Zenon DEF vars
<1> QED
  BY <1>1, <1>2, <1>3, <1>4, <1>5, <1>6, <1>7, <1>8, <1>9, <1>10, <1>11, <1>12,
     <1>13, <1>14, <1>15, <1>16, <1>17, <1>18, <1>19, <1>20, <1>21, <1>22, SMTT(30)
     DEF Next, Step, UserCode, Ending, Over

\* Internal functions are served only with the mutex held: the codes for which
\* wait_for_return() keeps it are those whose handlers do not acquire it.
LEMMA HandlerStep ==
  ASSUME TypeOK, HandlerInv, [Next]_vars
  PROVE  HandlerInv'
<1> USE ThreadsAssumption DEF Actors, Side, Peer, Sides, PCs, Statuses, TypeOK
<1>1. ASSUME NEW a \in Actors, NEW c \in CodesOf(a), Call(a, c) PROVE HandlerInv'
  BY <1>1, Zenon DEF Call, Goto, HasLock, channel, mutex, processes, HandlerInv
<1>2. ASSUME NEW a \in Actors, LockSending(a) PROVE HandlerInv'
  BY <1>2, Zenon DEF LockSending, Goto, channel, processes, HandlerInv
<1>3. ASSUME NEW a \in Actors, Fill(a) PROVE HandlerInv'
  BY <1>3, Zenon DEF Fill, Goto, mutex, processes, HandlerInv
<1>4. ASSUME NEW a \in Actors, PostRequest(a) PROVE HandlerInv'
  BY <1>4, Zenon DEF PostRequest, Goto, mutex, processes, HandlerInv
<1>5. ASSUME NEW a \in Actors, PostResponse(a) PROVE HandlerInv'
  BY <1>5 DEF PostResponse, Goto, End, ExitProcess, Terminate, HandlerInv
<1>6. ASSUME NEW a \in Actors, Receive(a) PROVE HandlerInv'
  <2> SUFFICES ASSUME NEW t \in Threads PROVE HandlerInv!(t)'
    BY ZenonT(60) DEF HandlerInv
  <2>1. CASE t # a
    BY <1>6, <2>1, SMTT(60) DEF Receive, TakeMessage, Goto, HasLock, HandlerInv
  <2>2. CASE t = a /\ mail[Side(a)].code \in KeepLockCodes
    <3> DEFINE x == [code |-> mail[Side(a)].code, id |-> mail[Side(a)].id]
    <3>1. x \in Activations
      BY <2>2, RecordTypes, CodeTypes, Zenon
    <3>2. acts'[t] = Append(acts[t], x) /\ pc'[t] = "serve"
      BY <1>6, <2>2, Zenon DEF Receive, TakeMessage, Goto
    <3>3. \A k \in 1 .. Len(acts[t]) : acts[t][k].code \notin NoLockHandlers
      BY <1>6, <2>2, Zenon DEF Receive, HandlerInv
    <3>4. acts[t] \in Seq(Activations)
      BY Zenon
    <3>5. Len(acts'[t]) = Len(acts[t]) + 1 /\ \A k \in 1 .. Len(acts[t]) : acts'[t][k] = acts[t][k]
      BY <3>1, <3>2, <3>4, SeqElements, SMTT(60)
    <3>6. ASSUME NEW k \in 1 .. Len(acts'[t]), acts'[t][k].code \in NoLockHandlers
          PROVE  k = Len(acts'[t])
      <4>1. CASE k \in 1 .. Len(acts[t])
        BY <3>3, <3>5, <3>6, <4>1, Zenon
      <4>2. CASE k \notin 1 .. Len(acts[t])
        <5>1. Len(acts[t]) \in Nat
          BY <3>4
        <5> QED BY <3>5, <4>2, <5>1
      <4> QED BY <4>1, <4>2, Zenon
    <3> QED BY <3>2, <3>6, Zenon
  <2>3. CASE t = a /\ mail[Side(a)].code \notin KeepLockCodes
    BY <1>6, <2>3, Zenon DEF Receive, TakeMessage, Goto, HasLock, HandlerInv
  <2> QED BY <2>1, <2>2, <2>3, Zenon
<1>7. ASSUME NEW a \in Actors, ReceiveRemoved(a) PROVE HandlerInv'
  BY <1>7 DEF ReceiveRemoved, End, ExitProcess, Terminate, HandlerInv
<1>8. ASSUME NEW a \in Actors, UnlockSending(a) PROVE HandlerInv'
  BY <1>8, Zenon DEF UnlockSending, Goto, channel, processes, HandlerInv
<1>9. ASSUME NEW a \in Actors, ReturnFromCall(a) PROVE HandlerInv'
  BY <1>9, SMTT(60) DEF ReturnFromCall, Goto, End, Terminate, HandlerInv
<1>10. ASSUME NEW a \in Actors, Dispatch(a) PROVE HandlerInv'
  <2> SUFFICES ASSUME NEW t \in Threads PROVE HandlerInv!(t)'
    BY Zenon DEF HandlerInv
  <2>1. CASE t # a
    BY <1>10, <2>1, Zenon DEF Dispatch, Goto, HandlerInv
  <2>2. CASE t = a
    <3> DEFINE x == [code |-> rcv[a].code, id |-> rcv[a].id]
    <3>1. x \in Activations
      BY <1>10, RecordTypes, Zenon DEF Dispatch
    <3>2. acts'[t] = Append(acts[t], x) /\ pc'[t] = "run"
      BY <1>10, <2>2, Zenon DEF Dispatch, Goto
    <3>3. /\ x.code \notin NoLockHandlers
          /\ \A k \in 1 .. Len(acts[t]) : acts[t][k].code \notin NoLockHandlers
      BY <1>10, <2>2, Zenon DEF Dispatch, HandlerInv, KeepLockCodes, NoLockHandlers
    <3>4. acts[t] \in Seq(Activations)
      BY Zenon
    <3> HIDE DEF x
    <3>5. /\ Len(acts'[t]) = Len(acts[t]) + 1
          /\ \A k \in 1 .. Len(acts[t]) : acts'[t][k] = acts[t][k]
          /\ acts'[t][Len(acts[t]) + 1] = x
      BY <3>1, <3>2, <3>4, SeqElements
    <3>6. ASSUME NEW k \in 1 .. Len(acts'[t])
          PROVE  acts'[t][k].code \notin NoLockHandlers
      <4>1. CASE k \in 1 .. Len(acts[t])
        BY <3>3, <3>5, <4>1, Zenon
      <4>2. CASE k \notin 1 .. Len(acts[t])
        <5>1. Len(acts[t]) \in Nat
          BY <3>4
        <5>2. k = Len(acts[t]) + 1
          BY <3>5, <4>2, <5>1
        <5> QED BY <3>3, <3>5, <5>2, Zenon
      <4> QED BY <4>1, <4>2, Zenon
    <3> QED BY <3>2, <3>6, Zenon
  <2> QED BY <2>1, <2>2, Zenon
<1>11. ASSUME NEW a \in Actors, ObeyRemoteExit(a) PROVE HandlerInv'
  BY <1>11, Zenon DEF ObeyRemoteExit, End, Terminate, HandlerInv
<1>12. ASSUME NEW a \in Actors, FinishHandler(a) PROVE HandlerInv'
  <2> SUFFICES ASSUME NEW t \in Threads PROVE HandlerInv!(t)'
    BY Zenon DEF HandlerInv
  <2>1. CASE t # a
    BY <1>12, <2>1, Zenon DEF FinishHandler, Goto, HandlerInv, channel, mutex, processes
  <2>2. CASE t = a
    <3> DEFINE s == acts[t]
    <3>1. /\ s \in Seq(Activations) /\ s # <<>>
          /\ acts'[t] = SubSeq(s, 1, Len(s) - 1)
          /\ pc'[t] \in {"lock", "fill"}
      BY <1>12, <2>2, Zenon DEF FinishHandler, Goto
    <3>2. s[Len(s)] \in Activations
      BY <3>1, LastType, Zenon
    <3>3. Len(acts'[t]) = Len(s) - 1 /\ \A k \in 1 .. Len(s) - 1 : acts'[t][k] = s[k]
      BY <3>1, <3>2, SeqElements, SMTT(60)
    <3>4. \A k \in 1 .. Len(s) - 1 : s[k].code \notin NoLockHandlers
      <4>1. pc[t] # "gone"
        BY <1>12, <2>2, Zenon DEF FinishHandler
      <4>2. Len(s) \in Nat
        BY <3>1
      <4>3. \A k \in 1 .. Len(s) : s[k].code \in NoLockHandlers => k = Len(s)
        BY <4>1, Zenon DEF HandlerInv
      <4> HIDE DEF s
      <4> QED BY <4>2, <4>3, SMTT(60)
    <3>5. \A k \in 1 .. Len(acts'[t]) : acts'[t][k].code \notin NoLockHandlers
      BY <3>1, <3>3, <3>4, Zenon
    <3> QED BY <3>1, <3>5, Zenon
  <2> QED BY <2>1, <2>2, Zenon
<1>13. ASSUME NEW a \in Actors, NEW e \in Errnos, SetErrno(a, e) PROVE HandlerInv'
  BY <1>13, Zenon DEF SetErrno, channel, mutex, processes, HandlerInv
<1>14. ASSUME NEW t \in Threads, ProgramExit(t) PROVE HandlerInv'
  BY <1>14, Zenon DEF ProgramExit, Goto, Terminate, processes, HandlerInv
<1>15. ASSUME NEW t \in Threads, ProgramExited(t) PROVE HandlerInv'
  BY <1>15, Zenon DEF ProgramExited, End, channel, mutex, HandlerInv
<1>16. ASSUME LibraryThrow PROVE HandlerInv'
  BY <1>16, Zenon DEF LibraryThrow, Goto, mutex, processes, HandlerInv
<1>17. ASSUME LibraryDies PROVE HandlerInv'
  BY <1>17, Zenon DEF LibraryDies, End, Terminate, HandlerInv
<1>18. ASSUME NEW s \in Sides, Kill(s) PROVE HandlerInv'
  BY <1>18, Zenon DEF Kill, End, channel, mutex, HandlerInv
<1>19. ASSUME IntermediateParentDied PROVE HandlerInv'
  BY <1>19, Zenon DEF IntermediateParentDied, Terminate, control, processes, HandlerInv
<1>20. ASSUME IntermediateChildDied PROVE HandlerInv'
  BY <1>20, Zenon DEF IntermediateChildDied, Terminate, control, HandlerInv
<1>21. ASSUME LibraryParentDied PROVE HandlerInv'
  BY <1>21, Zenon DEF LibraryParentDied, End, channel, mutex, HandlerInv
<1>22. CASE UNCHANGED vars
  BY <1>22, Zenon DEF vars, HandlerInv
<1> QED
  BY <1>1, <1>2, <1>3, <1>4, <1>5, <1>6, <1>7, <1>8, <1>9, <1>10, <1>11, <1>12,
     <1>13, <1>14, <1>15, <1>16, <1>17, <1>18, <1>19, <1>20, <1>21, <1>22, SMTT(30)
     DEF Next, Step, UserCode, Ending, Over

\* What Receive does, without the message.
LEMMA ReceiveFacts ==
  ASSUME NEW a \in Actors, Receive(a)
  PROVE  /\ pc[a] = "wait" /\ ~removed /\ sem[Side(a)] > 0
         /\ sem' = [sem EXCEPT ![Side(a)] = @ - 1]
         /\ blocked' = [blocked EXCEPT ![Side(a)] = FALSE]
         /\ \E l \in {"serve", "unlock", "got"} : pc' = [pc EXCEPT ![a] = l]
         /\ UNCHANGED <<removed, lock, status>>
<1>1. CASE mail[Side(a)].code \in KeepLockCodes
  <2>1. pc' = [pc EXCEPT ![a] = "serve"]
    BY <1>1, Zenon DEF Receive, TakeMessage, Goto
  <2> QED BY <2>1, Zenon DEF Receive, mutex, processes
<1>2. CASE mail[Side(a)].code \notin KeepLockCodes
  <2>1. pc' = [pc EXCEPT ![a] = "unlock"] \/ pc' = [pc EXCEPT ![a] = "got"]
    BY <1>2, Zenon DEF Receive, TakeMessage, Goto
  <2> QED BY <2>1, Zenon DEF Receive, mutex, processes
<1> QED BY <1>1, <1>2, Zenon

\* A step that makes no thread exchange and leaves the mutex alone.
LEMMA MutexKept ==
  ASSUME MutexInv, UNCHANGED <<removed, lock>>,
         \A t \in Threads : Exchanging(t)' => Exchanging(t)
  PROVE  MutexInv'
BY Zenon DEF MutexInv

\* Mutual exclusion of the program threads is preserved.
LEMMA MutexStep ==
  ASSUME ~Interrupts, TypeOK, RemovedInv, LibraryInv, HandlerInv, MutexInv, [Next]_vars
  PROVE  MutexInv'
<1> USE ThreadsAssumption, ModeAssumption DEF Actors, Side, Peer, Sides, PCs, Statuses, TypeOK, RemovedInv, MutexInv, Exchanging
<1>1. ASSUME NEW a \in Actors, NEW c \in CodesOf(a), Call(a, c) PROVE MutexInv'
  BY <1>1, SMTT(60) DEF Call, Goto, HasLock, channel, mutex, processes
<1>2. ASSUME NEW a \in Actors, LockSending(a) PROVE MutexInv'
  BY <1>2 DEF LockSending, Goto, channel, processes, HasLock
<1>3. ASSUME NEW a \in Actors, Fill(a) PROVE MutexInv'
  BY <1>3, Zenon DEF Fill, Goto, mutex, processes, HasLock
<1>4. ASSUME NEW a \in Actors, PostRequest(a) PROVE MutexInv'
  BY <1>4, Zenon DEF PostRequest, Goto, mutex, processes, HasLock
<1>5. ASSUME NEW a \in Actors, PostResponse(a) PROVE MutexInv'
  BY <1>5, ZenonT(60) DEF PostResponse, Goto, End, ExitProcess, Terminate, HasLock
<1>6. ASSUME NEW a \in Actors, Receive(a) PROVE MutexInv'
  <2>1. UNCHANGED <<removed, lock>>
    BY <1>6, ReceiveFacts, Zenon
  <2> PICK l \in {"serve", "unlock", "got"} : pc' = [pc EXCEPT ![a] = l]
    BY <1>6, ReceiveFacts, Zenon
  <2>2. \A t \in Threads : Exchanging(t)' => Exchanging(t)
    BY <1>6, ReceiveFacts, Zenon
  <2> HIDE DEF MutexInv, Exchanging
  <2> QED BY <2>1, <2>2, MutexKept, Zenon
<1>7. ASSUME NEW a \in Actors, ReceiveRemoved(a) PROVE MutexInv'
  BY <1>7, Zenon DEF ReceiveRemoved, End, ExitProcess, Terminate, HasLock
<1>8. ASSUME NEW a \in Actors, UnlockSending(a) PROVE MutexInv'
  <2>1. a \in Threads
    BY <1>8, Zenon DEF UnlockSending, LibraryInv
  <2>2. Exchanging(a)
    BY <1>8, Zenon DEF UnlockSending
  <2>3. \A t \in Threads : Exchanging(t)' => Exchanging(t) /\ t # a
    BY <1>8, Zenon DEF UnlockSending, Goto
  <2>4. ~removed /\ Concurrent => lock = 0
    BY <2>1, <2>2
  <2>5. lock' \in Nat /\ (~removed => lock' = lock + 1) /\ removed' = removed
    BY <1>8 DEF UnlockSending, channel
  <2>6. ASSUME ~removed, NEW t \in Threads PROVE ~Exchanging(t)'
    BY <2>1, <2>2, <2>3, <2>6, Zenon
  <2>7. CASE removed
    BY <2>5, <2>7, Zenon
  <2>8. CASE ~removed
    <3> HIDE DEF Exchanging
    <3> QED BY <2>4, <2>5, <2>6, <2>8
  <2> QED BY <2>7, <2>8, Zenon
<1>9. ASSUME NEW a \in Actors, ReturnFromCall(a) PROVE MutexInv'
  <2>1. CASE waits[a] # <<>>
    <3>1. pc' = [pc EXCEPT ![a] = "run"] /\ UNCHANGED <<removed, lock>>
      BY <1>9, <2>1, Zenon DEF ReturnFromCall, Goto
    <3>2. \A t \in Threads : Exchanging(t)' => Exchanging(t)
      BY <3>1, Zenon
    <3> HIDE DEF MutexInv, Exchanging
    <3> QED BY <3>1, <3>2, MutexKept, Zenon
  <2>2. CASE waits[a] = <<>>
    BY <1>9, <2>2, Zenon DEF ReturnFromCall, Terminate
  <2> QED BY <2>1, <2>2, Zenon
<1>10. ASSUME NEW a \in Actors, Dispatch(a) PROVE MutexInv'
  BY <1>10, Zenon DEF Dispatch, Goto, channel, mutex, processes, HasLock
<1>11. ASSUME NEW a \in Actors, ObeyRemoteExit(a) PROVE MutexInv'
  BY <1>11, Zenon DEF ObeyRemoteExit, End, Terminate, HasLock
<1>12. ASSUME NEW a \in Actors, FinishHandler(a) PROVE MutexInv'
  <2>1. CASE a = Lib
    BY <1>12, <2>1 DEF FinishHandler, Goto, channel, mutex
  <2>2. CASE a \in Threads
    <3>1. pc[a] = "run" => acts[a][Len(acts[a])].code \notin NoLockHandlers
      <4>1. acts[a] \in Seq(Activations) /\ acts[a] # <<>>
        BY <1>12, Zenon DEF FinishHandler
      <4>2. Len(acts[a]) \in 1 .. Len(acts[a])
        BY <4>1
      <4> QED BY <2>2, <4>2, Zenon DEF HandlerInv
    <3>2. \A t \in Threads : Concurrent /\ Exchanging(t)' => Exchanging(t)
      BY <1>12, <2>2, <3>1, Zenon DEF FinishHandler, Goto, HasLock
    <3> QED BY <1>12, <2>2, <3>2, Zenon DEF FinishHandler, channel, mutex
  <2> QED BY <2>1, <2>2, ZenonT(60)
<1>13. ASSUME NEW a \in Actors, NEW e \in Errnos, SetErrno(a, e) PROVE MutexInv'
  BY <1>13, Zenon DEF SetErrno, channel, mutex, processes, HasLock
<1>14. ASSUME NEW t \in Threads, ProgramExit(t) PROVE MutexInv'
  BY <1>14, Zenon DEF ProgramExit, Goto, Terminate, processes, HasLock
<1>15. ASSUME NEW t \in Threads, ProgramExited(t) PROVE MutexInv'
  BY <1>15, Zenon DEF ProgramExited, End, channel, mutex, HasLock
<1>16. ASSUME LibraryThrow PROVE MutexInv'
  BY <1>16, Zenon DEF LibraryThrow, Goto, mutex, processes, HasLock
<1>17. ASSUME LibraryDies PROVE MutexInv'
  BY <1>17, Zenon DEF LibraryDies, End, Terminate, HasLock
<1>18. ASSUME NEW s \in Sides, Kill(s) PROVE MutexInv'
  BY <1>18, Zenon DEF Kill, End, channel, mutex, HasLock
<1>19. ASSUME IntermediateParentDied PROVE MutexInv'
  BY <1>19, Zenon DEF IntermediateParentDied, Terminate, control, processes, HasLock
<1>20. ASSUME IntermediateChildDied PROVE MutexInv'
  BY <1>20, Zenon DEF IntermediateChildDied, Terminate, control, HasLock
<1>21. ASSUME LibraryParentDied PROVE MutexInv'
  BY <1>21, Zenon DEF LibraryParentDied, End, channel, mutex, HasLock
<1>22. CASE UNCHANGED vars
  BY <1>22, Zenon DEF vars
<1> QED
  BY <1>1, <1>2, <1>3, <1>4, <1>5, <1>6, <1>7, <1>8, <1>9, <1>10, <1>11, <1>12,
     <1>13, <1>14, <1>15, <1>16, <1>17, <1>18, <1>19, <1>20, <1>21, <1>22, ZenonT(30)
     DEF Next, Step, UserCode, Ending, Over

\* A library that posts a message hands the token over to the program.
LEMMA LibraryPosts ==
  ASSUME TypeOK, TokenInv, ~removed, LibraryActive, NEW l \in {"wait", "dying"},
         pc' = [pc EXCEPT ![Lib] = l], sem' = [sem EXCEPT !["program"] = @ + 1],
         UNCHANGED <<removed, status>>
  PROVE  TokenInv'
<1>1. pc'[Lib] = l /\ \A t \in Threads : pc'[t] = pc[t]
  BY ThreadsAssumption, Zenon DEF TypeOK, Actors
<1>2. sem'["program"] = 1 /\ sem'["library"] = 0
  BY DEF TypeOK, Sides, TokenInv
<1>3. status["program"] # "alive" \/ \E t \in Threads : pc[t] = "wait"
  BY Zenon DEF TokenInv, Owed
<1> QED BY <1>1, <1>2, <1>3 DEF TokenInv, Owed, LibraryActive

\* A program thread that is about to send finds the library idle.
LEMMA SenderHasToken ==
  ASSUME TypeOK, GoneInv, MutexInv, TokenInv, ~removed,
         NEW a \in Threads, pc[a] \in {"fill", "post"}
  PROVE  sem["library"] = 0 /\ sem["program"] = 0 /\ ~LibraryActive
<1>1. status["program"] = "alive"
  BY Zenon DEF GoneInv
<1>2. \A t \in Threads : pc[t] # "wait"
  BY Zenon DEF MutexInv, Exchanging
<1>3. ~Owed
  BY <1>1, <1>2, Zenon DEF TokenInv
<1>4. sem["library"] \in Nat /\ sem["program"] \in Nat
  BY Zenon DEF TypeOK, Sides
<1> QED BY <1>3, <1>4 DEF TokenInv, Owed

\* A program thread that posts a message hands the token to the library.
LEMMA ThreadPosts ==
  ASSUME TypeOK, GoneInv, MutexInv, TokenInv, ~removed,
         NEW a \in Threads, pc[a] = "post",
         pc' = [pc EXCEPT ![a] = "wait"], sem' = [sem EXCEPT !["library"] = @ + 1],
         UNCHANGED <<removed, status>>
  PROVE  TokenInv'
<1>1. sem["library"] = 0 /\ sem["program"] = 0 /\ ~LibraryActive
  BY SenderHasToken, Zenon
<1>2. sem'["library"] = 1 /\ sem'["program"] = 0
  BY <1>1 DEF TypeOK, Sides
<1>3. pc'[a] = "wait" /\ pc'[Lib] = pc[Lib]
  BY ThreadsAssumption, Zenon DEF TypeOK, Actors
<1>4. ~LibraryActive'
  BY <1>1, <1>3, Zenon DEF LibraryActive
<1> QED BY <1>2, <1>3, <1>4 DEF TokenInv, Owed

\* The library takes the message and becomes active.
LEMMA LibraryReceives ==
  ASSUME TypeOK, TokenInv, Receive(Lib)
  PROVE  TokenInv'
<1> Lib \in Actors
  BY Zenon DEF Actors
<1> PICK l \in {"serve", "unlock", "got"} : pc' = [pc EXCEPT ![Lib] = l]
  BY ReceiveFacts, Zenon
<1>1. /\ pc[Lib] = "wait" /\ ~removed /\ sem["library"] > 0
      /\ sem' = [sem EXCEPT !["library"] = @ - 1]
      /\ UNCHANGED <<removed, status>>
  BY ReceiveFacts, Zenon DEF Side
<1>2. sem["library"] \in Nat /\ sem["program"] \in Nat
  BY Zenon DEF TypeOK, Sides
<1>3. sem["library"] = 1 /\ sem["program"] = 0
  BY <1>1, <1>2 DEF TokenInv
<1>4. sem'["library"] = 0 /\ sem'["program"] = 0
  BY <1>1, <1>3 DEF TypeOK, Sides
<1>5. pc'[Lib] = l /\ \A t \in Threads : pc'[t] = pc[t]
  BY ThreadsAssumption, Zenon DEF TypeOK, Actors
<1>6. status["program"] # "alive" \/ \E t \in Threads : pc[t] = "wait"
  BY <1>1, <1>3, Zenon DEF TokenInv, Owed
<1>7. LibraryActive'
  BY <1>5, Zenon DEF LibraryActive
<1> QED BY <1>1, <1>4, <1>5, <1>6, <1>7 DEF TokenInv, Owed

\* A program thread takes the message: nobody else waits, nothing is owed.
LEMMA ThreadReceives ==
  ASSUME TypeOK, MutexInv, TokenInv, NEW a \in Threads, Receive(a)
  PROVE  TokenInv'
<1> a \in Actors /\ a # Lib
  BY ThreadsAssumption, Zenon DEF Actors
<1> PICK l \in {"serve", "unlock", "got"} : pc' = [pc EXCEPT ![a] = l]
  BY ReceiveFacts, Zenon
<1>1. /\ pc[a] = "wait" /\ ~removed /\ sem["program"] > 0
      /\ sem' = [sem EXCEPT !["program"] = @ - 1]
      /\ UNCHANGED <<removed, status>>
  BY ReceiveFacts, Zenon DEF Side
<1>2. sem["library"] \in Nat /\ sem["program"] \in Nat
  BY Zenon DEF TypeOK, Sides
<1>3. sem["library"] = 0 /\ sem["program"] = 1 /\ ~LibraryActive
  BY <1>1, <1>2 DEF TokenInv
<1>4. sem'["library"] = 0 /\ sem'["program"] = 0
  BY <1>1, <1>3 DEF TypeOK, Sides
<1>5. pc'[Lib] = pc[Lib] /\ \A t \in Threads : pc'[t] # "wait"
  BY <1>1, Zenon DEF TypeOK, Actors, MutexInv, Exchanging
<1>6. ~LibraryActive'
  BY <1>3, <1>5, Zenon DEF LibraryActive
<1> QED BY <1>4, <1>5, <1>6 DEF TokenInv, Owed

\* The token is neither duplicated nor lost.
LEMMA TokenStep ==
  ASSUME TypeOK, LibraryInv, GoneInv, MutexInv, TokenInv, [Next]_vars
  PROVE  TokenInv'
<1> USE ThreadsAssumption DEF Actors, Side, Peer, Sides, PCs, Statuses, TypeOK, LibraryInv, GoneInv,
        MutexInv, TokenInv, Owed, LibraryActive, Exchanging
<1>1. ASSUME NEW a \in Actors, NEW c \in CodesOf(a), Call(a, c) PROVE TokenInv'
  BY <1>1, Zenon DEF Call, Goto, HasLock, channel, mutex, processes
<1>2. ASSUME NEW a \in Actors, LockSending(a) PROVE TokenInv'
  BY <1>2, Zenon DEF LockSending, Goto, channel, processes
<1>3. ASSUME NEW a \in Actors, Fill(a) PROVE TokenInv'
  BY <1>3, Zenon DEF Fill, Goto, mutex, processes
<1>4. ASSUME NEW a \in Actors, PostRequest(a) PROVE TokenInv'
  <2>1. CASE removed
    BY <1>4, <2>1, Zenon DEF PostRequest
  <2>2. CASE ~removed /\ a = Lib
    <3>1. /\ LibraryActive
          /\ pc' = [pc EXCEPT ![Lib] = "wait"]
          /\ sem' = [sem EXCEPT !["program"] = @ + 1]
          /\ UNCHANGED <<removed, status>>
      BY <1>4, <2>2, Zenon DEF PostRequest, Goto, processes
    <3> QED BY <2>2, <3>1, LibraryPosts, Zenon
  <2>3. CASE ~removed /\ a \in Threads
    <3>1. /\ pc[a] = "post"
          /\ pc' = [pc EXCEPT ![a] = "wait"]
          /\ sem' = [sem EXCEPT !["library"] = @ + 1]
          /\ UNCHANGED <<removed, status>>
      BY <1>4, <2>3, ZenonT(60) DEF PostRequest, Goto, processes
    <3> QED BY <2>3, <3>1, ThreadPosts, Zenon
  <2> QED BY <2>1, <2>2, <2>3, Zenon
<1>5. ASSUME NEW a \in Actors, PostResponse(a) PROVE TokenInv'
  <2>1. CASE removed
    BY <1>5, <2>1, Zenon DEF PostResponse, ExitProcess, Terminate
  <2>2. CASE ~removed /\ a = Lib
    <3>1. /\ LibraryActive
          /\ pc' = [pc EXCEPT ![Lib] = "wait"]
          /\ sem' = [sem EXCEPT !["program"] = @ + 1]
          /\ UNCHANGED <<removed, status>>
      BY <1>5, <2>2, Zenon DEF PostResponse, Goto
    <3> QED BY <2>2, <3>1, LibraryPosts, Zenon
  <2>3. CASE ~removed /\ a \in Threads
    <3>1. /\ pc[a] = "post"
          /\ pc' = [pc EXCEPT ![a] = "wait"]
          /\ sem' = [sem EXCEPT !["library"] = @ + 1]
          /\ UNCHANGED <<removed, status>>
      BY <1>5, <2>3, Zenon DEF PostResponse, Goto
    <3> QED BY <2>3, <3>1, ThreadPosts, Zenon
  <2> QED BY <2>1, <2>2, <2>3, Zenon
<1>6. ASSUME NEW a \in Actors, Receive(a) PROVE TokenInv'
  BY <1>6, LibraryReceives, ThreadReceives, Zenon
<1>7. ASSUME NEW a \in Actors, ReceiveRemoved(a) PROVE TokenInv'
  BY <1>7, Zenon DEF ReceiveRemoved, End, ExitProcess, Terminate
<1>8. ASSUME NEW a \in Actors, UnlockSending(a) PROVE TokenInv'
  BY <1>8, Zenon DEF UnlockSending, Goto, channel, processes
<1>9. ASSUME NEW a \in Actors, ReturnFromCall(a) PROVE TokenInv'
  <2>1. CASE waits[a] = <<>>
    BY <1>9, <2>1, Zenon DEF ReturnFromCall, Terminate
  <2>2. CASE waits[a] # <<>>
    <3>1. /\ pc[a] = "got"
          /\ pc' = [pc EXCEPT ![a] = "run"]
          /\ UNCHANGED <<sem, removed, status>>
      BY <1>9, <2>2, Zenon DEF ReturnFromCall, Goto
    <3> QED BY <3>1, Zenon
  <2> QED BY <2>1, <2>2, Zenon
<1>10. ASSUME NEW a \in Actors, Dispatch(a) PROVE TokenInv'
  BY <1>10, Zenon DEF Dispatch, Goto, channel, mutex, processes
<1>11. ASSUME NEW a \in Actors, ObeyRemoteExit(a) PROVE TokenInv'
  BY <1>11, Zenon DEF ObeyRemoteExit, End, Terminate
<1>12. ASSUME NEW a \in Actors, FinishHandler(a) PROVE TokenInv'
  BY <1>12, Zenon DEF FinishHandler, Goto, HasLock, channel, mutex, processes
<1>13. ASSUME NEW a \in Actors, NEW e \in Errnos, SetErrno(a, e) PROVE TokenInv'
  BY <1>13, Zenon DEF SetErrno, channel, mutex, processes
<1>14. ASSUME NEW t \in Threads, ProgramExit(t) PROVE TokenInv'
  BY <1>14, Zenon DEF ProgramExit, Goto, Terminate, processes
<1>15. ASSUME NEW t \in Threads, ProgramExited(t) PROVE TokenInv'
  BY <1>15, Zenon DEF ProgramExited, End, channel, mutex
<1>16. ASSUME LibraryThrow PROVE TokenInv'
  <2>1. CASE removed
    BY <1>16, <2>1, Zenon DEF LibraryThrow
  <2>2. CASE ~removed
    <3>1. /\ LibraryActive
          /\ pc' = [pc EXCEPT ![Lib] = "dying"]
          /\ sem' = [sem EXCEPT !["program"] = @ + 1]
          /\ UNCHANGED <<removed, status>>
      BY <1>16, <2>2, Zenon DEF LibraryThrow, Goto, processes
    <3> QED BY <2>2, <3>1, LibraryPosts, Zenon
  <2> QED BY <2>1, <2>2, Zenon
<1>17. ASSUME LibraryDies PROVE TokenInv'
  BY <1>17, Zenon DEF LibraryDies, End, Terminate
<1>18. ASSUME NEW s \in Sides, Kill(s) PROVE TokenInv'
  BY <1>18, Zenon DEF Kill, End, channel, mutex
<1>19. ASSUME IntermediateParentDied PROVE TokenInv'
  BY <1>19, Zenon DEF IntermediateParentDied, Terminate, control, processes
<1>20. ASSUME IntermediateChildDied PROVE TokenInv'
  BY <1>20, Zenon DEF IntermediateChildDied, Terminate, control
<1>21. ASSUME LibraryParentDied PROVE TokenInv'
  BY <1>21, Zenon DEF LibraryParentDied, End, channel, mutex
<1>22. CASE UNCHANGED vars
  BY <1>22, Zenon DEF vars
<1> QED
  BY <1>1, <1>2, <1>3, <1>4, <1>5, <1>6, <1>7, <1>8, <1>9, <1>10, <1>11, <1>12,
     <1>13, <1>14, <1>15, <1>16, <1>17, <1>18, <1>19, <1>20, <1>21, <1>22, Zenon
     DEF Next, Step, UserCode, Ending, Over

\* sending_is_blocked follows the waiting threads.
LEMMA BlockedStep ==
  ASSUME TypeOK, GoneInv, MutexInv, TokenInv, BlockedInv, [Next]_vars
  PROVE  BlockedInv'
<1> USE ThreadsAssumption DEF Actors, Side, Peer, Sides, PCs, Statuses, TypeOK, GoneInv, MutexInv, BlockedInv, Exchanging
<1>1. ASSUME NEW a \in Actors, NEW c \in CodesOf(a), Call(a, c) PROVE BlockedInv'
  BY <1>1, Zenon DEF Call, Goto, HasLock, channel, mutex, processes
<1>2. ASSUME NEW a \in Actors, LockSending(a) PROVE BlockedInv'
  BY <1>2, Zenon DEF LockSending, Goto, channel, processes
<1>3. ASSUME NEW a \in Actors, Fill(a) PROVE BlockedInv'
  BY <1>3, Zenon DEF Fill, Goto, mutex, processes
<1>4. ASSUME NEW a \in Actors, PostRequest(a) PROVE BlockedInv'
  BY <1>4, Zenon DEF PostRequest, Goto, mutex, processes
<1>5. ASSUME NEW a \in Actors, PostResponse(a) PROVE BlockedInv'
  BY <1>5 DEF PostResponse, Goto, End, ExitProcess, Terminate
<1>6. ASSUME NEW a \in Actors, Receive(a) PROVE BlockedInv'
  <2> PICK l \in {"serve", "unlock", "got"} : pc' = [pc EXCEPT ![a] = l]
    BY <1>6, ReceiveFacts, Zenon
  <2>1. /\ pc[a] = "wait" /\ ~removed
        /\ blocked' = [blocked EXCEPT ![Side(a)] = FALSE]
        /\ UNCHANGED <<removed, status>>
    BY <1>6, ReceiveFacts, Zenon
  <2>2. CASE a = Lib
    BY <2>1, <2>2, Zenon
  <2>3. CASE a \in Threads
    BY <2>1, <2>3, Zenon
  <2> QED BY <2>2, <2>3, Zenon
<1>7. ASSUME NEW a \in Actors, ReceiveRemoved(a) PROVE BlockedInv'
  BY <1>7, Zenon DEF ReceiveRemoved, End, ExitProcess, Terminate
<1>8. ASSUME NEW a \in Actors, UnlockSending(a) PROVE BlockedInv'
  BY <1>8, Zenon DEF UnlockSending, Goto, channel, processes
<1>9. ASSUME NEW a \in Actors, ReturnFromCall(a) PROVE BlockedInv'
  BY <1>9, SMTT(60) DEF ReturnFromCall, Goto, End, Terminate
<1>10. ASSUME NEW a \in Actors, Dispatch(a) PROVE BlockedInv'
  BY <1>10, Zenon DEF Dispatch, Goto, channel, mutex, processes
<1>11. ASSUME NEW a \in Actors, ObeyRemoteExit(a) PROVE BlockedInv'
  BY <1>11, Zenon DEF ObeyRemoteExit, End, Terminate
<1>12. ASSUME NEW a \in Actors, FinishHandler(a) PROVE BlockedInv'
  BY <1>12, Zenon DEF FinishHandler, Goto, HasLock, channel, mutex, processes
<1>13. ASSUME NEW a \in Actors, NEW e \in Errnos, SetErrno(a, e) PROVE BlockedInv'
  BY <1>13, Zenon DEF SetErrno, channel, mutex, processes
<1>14. ASSUME NEW t \in Threads, ProgramExit(t) PROVE BlockedInv'
  BY <1>14, Zenon DEF ProgramExit, Goto, Terminate, processes
<1>15. ASSUME NEW t \in Threads, ProgramExited(t) PROVE BlockedInv'
  BY <1>15, Zenon DEF ProgramExited, End, channel, mutex
<1>16. ASSUME LibraryThrow PROVE BlockedInv'
  BY <1>16, Zenon DEF LibraryThrow, Goto, mutex, processes
<1>17. ASSUME LibraryDies PROVE BlockedInv'
  BY <1>17, Zenon DEF LibraryDies, End, Terminate
<1>18. ASSUME NEW s \in Sides, Kill(s) PROVE BlockedInv'
  BY <1>18, Zenon DEF Kill, End, channel, mutex
<1>19. ASSUME IntermediateParentDied PROVE BlockedInv'
  BY <1>19, Zenon DEF IntermediateParentDied, Terminate, control, processes
<1>20. ASSUME IntermediateChildDied PROVE BlockedInv'
  BY <1>20, Zenon DEF IntermediateChildDied, Terminate, control
<1>21. ASSUME LibraryParentDied PROVE BlockedInv'
  BY <1>21, Zenon DEF LibraryParentDied, End, channel, mutex
<1>22. CASE UNCHANGED vars
  BY <1>22, Zenon DEF vars
<1> QED
  BY <1>1, <1>2, <1>3, <1>4, <1>5, <1>6, <1>7, <1>8, <1>9, <1>10, <1>11, <1>12,
     <1>13, <1>14, <1>15, <1>16, <1>17, <1>18, <1>19, <1>20, <1>21, <1>22, ZenonT(30)
     DEF Next, Step, UserCode, Ending, Over

\* The variables have their types in every reachable state.
THEOREM TypeCorrect == Spec => []TypeOK
<1>1. NoMessage \in Messages
  BY BoundAssumption, Zenon DEF NoMessage, Messages, CallIds, Codes, RETURN, Actors
<1>2. Init => TypeOK
  <2> SUFFICES ASSUME Init PROVE TypeOK
    BY Zenon
  <2>1. sem \in [Sides -> Nat] /\ removed \in BOOLEAN /\ lock \in Nat /\ lockRemoved \in BOOLEAN
    BY Zenon DEF Init
  <2>2. blocked \in [Sides -> BOOLEAN]
    BY Zenon DEF Init
  <2>3. pc \in [Actors -> PCs] /\ status \in [Sides -> Statuses] /\ inter \in {"up", "done", "none"}
    BY ModeAssumption, Zenon DEF Init, PCs, Statuses
  <2>4. waits \in [Actors -> Seq(CallIds)] /\ acts \in [Actors -> Seq(Activations)]
    BY DEF Init
  <2>5. mail \in [Sides -> Messages] /\ out \in [Actors -> Messages] /\ rcv \in [Actors -> Messages]
    BY <1>1, Zenon DEF Init
  <2>6. errno \in [Actors -> Errnos]
    BY BoundAssumption, Zenon DEF Init
  <2> QED BY <2>1, <2>2, <2>3, <2>4, <2>5, <2>6, Zenon DEF TypeOK
<1>3. TypeOK /\ [Next]_vars => TypeOK'
  BY TypeStep, Zenon
<1> QED BY <1>2, <1>3, PTL DEF Spec

\* The strengthened invariant holds for any number of program threads.
THEOREM Rendezvous == ASSUME ~Interrupts PROVE Spec => []RendezvousInv
<1>1. Init => RendezvousInv
  <2> SUFFICES ASSUME Init PROVE RendezvousInv
    BY Zenon
  <2>1. pc[Lib] = "wait" /\ \A t \in Threads : pc[t] = "run" /\ acts[t] = <<>>
    BY ThreadsAssumption, Zenon DEF Init, Actors
  <2>2. /\ sem["library"] = 0 /\ sem["program"] = 0 /\ lock = 1 /\ ~lockRemoved
        /\ blocked["library"] /\ ~blocked["program"]
        /\ status["library"] = "alive" /\ status["program"] = "alive"
    BY Zenon DEF Init, Sides
  <2>3. RemovedInv /\ LibraryInv /\ GoneInv /\ HandlerInv
    BY <2>1, <2>2 DEF RemovedInv, LibraryInv, GoneInv, HandlerInv
  <2>4. MutexInv /\ TokenInv
    BY <2>1, <2>2 DEF MutexInv, TokenInv, Owed, LibraryActive, Exchanging
  <2>5. BlockedInv
    BY <2>1, <2>2, Zenon DEF BlockedInv
  <2> QED BY <2>3, <2>4, <2>5, Zenon DEF RendezvousInv
<1>2. TypeOK /\ RendezvousInv /\ [Next]_vars => RendezvousInv'
  BY RemovedStep, LibraryStep, GoneStep, HandlerStep, MutexStep, TokenStep, BlockedStep, Zenon
     DEF RendezvousInv
<1> QED BY <1>1, <1>2, TypeCorrect, PTL DEF Spec

\* At most one program thread is between taking and releasing sending_lock.
THEOREM MutualExclusion == ASSUME ~Interrupts PROVE Spec => []OneSender
<1>1. RendezvousInv => OneSender
  BY Zenon DEF RendezvousInv, MutexInv, OneSender
<1> QED BY <1>1, Rendezvous, PTL

\* There is at most one message, and none while the library is at work.
THEOREM TokenUnique == ASSUME ~Interrupts PROVE Spec => []OneToken
<1>1. RendezvousInv => OneToken
  BY Zenon DEF RendezvousInv, TokenInv, OneToken
<1> QED BY <1>1, Rendezvous, PTL

\* A waiting program thread is owed a message.
THEOREM WakeupsKept == ASSUME ~Interrupts PROVE Spec => []NoLostWakeup
<1>1. RendezvousInv => NoLostWakeup
  BY Zenon DEF RendezvousInv, TokenInv, NoLostWakeup, Owed
<1> QED BY <1>1, Rendezvous, PTL

\* The warnings about sending_is_blocked are never printed.
THEOREM WarningsSilent == ASSUME ~Interrupts PROVE Spec => []NoBlockedWarning
<1>1. TypeOK /\ RendezvousInv => NoBlockedWarning
  BY ThreadsAssumption, Zenon DEF TypeOK, RendezvousInv, GoneInv, MutexInv, BlockedInv, NoBlockedWarning, Exchanging,
     Actors, Side, Sides
<1> QED BY <1>1, Rendezvous, TypeCorrect, PTL

\* A request is never overwritten before the library has read it.
THEOREM RequestsSafe == ASSUME ~Interrupts PROVE Spec => []RequestsNotOverwritten
<1>1. TypeOK /\ RendezvousInv => RequestsNotOverwritten
  BY DEF TypeOK, RendezvousInv, GoneInv, MutexInv, TokenInv, RequestsNotOverwritten, Exchanging,
     Owed, LibraryActive, Sides, Actors
<1> QED BY <1>1, Rendezvous, TypeCorrect, PTL
-----------------------------------------------------------------------------
(* One program thread *)

\* The two threads and the two sides.
LEMMA TwoThreads ==
  ASSUME Threads = {Main}
  PROVE  /\ Main # Lib /\ Main \in Actors /\ Lib \in Actors
         /\ \A a \in Actors :
              /\ Other(a) \in Actors /\ Other(a) # a /\ Other(Other(a)) = a
              /\ \A x \in Actors : x = a \/ x = Other(a)
              /\ Side(a) \in Sides /\ Side(Other(a)) = Peer(Side(a))
              /\ Side(Other(a)) # Side(a)
BY ThreadsAssumption, Zenon DEF Actors, Other, Side, Peer, Sides

\* Either thread and the other one.
LEMMA Pair ==
  ASSUME Threads = {Main}, NEW a \in Actors
  PROVE  \E b \in Actors :
           /\ b # a /\ Other(a) = b /\ Other(b) = a
           /\ \A x \in Actors : x = a \/ x = b
           /\ (a = Lib /\ b = Main /\ Lib # Main) \/ (a = Main /\ b = Lib /\ Lib # Main)
           /\ Side(a) \in Sides /\ Side(b) \in Sides /\ Side(a) # Side(b)
           /\ Peer(Side(a)) = Side(b)
<1>1. Other(a) \in Actors
  BY TwoThreads, Zenon
<1>2. (a = Lib /\ Other(a) = Main /\ Lib # Main) \/ (a = Main /\ Other(a) = Lib /\ Lib # Main)
  <2>1. a = Lib \/ a = Main
    BY DEF Actors
  <2>2. Main # Lib /\ Lib # Main
    BY TwoThreads, Zenon
  <2>4. CASE a = Lib
    BY <2>2, <2>4 DEF Other
  <2>5. CASE a = Main
    BY <2>2, <2>5, Zenon DEF Other
  <2> QED BY <2>1, <2>4, <2>5, Zenon
<1>3. WITNESS Other(a) \in Actors
<1> QED BY <1>2, TwoThreads, Zenon

\* A handler answers the call it was started for, said of two threads.
LEMMA IdsOf ==
  ASSUME Threads = {Main}, IdInv, NEW a \in Actors, NEW b \in Actors, b = Other(a)
  PROVE  \A k \in 1 .. Len(acts[a]) : k <= Len(waits[b]) => acts[a][k].id = waits[b][k]
BY Zenon DEF IdInv

\* The thread that has the turn goes on.
LEMMA HolderGoesOn ==
  ASSUME Threads = {Main}, TypeOK, OneThreadInv, NEW a \in Actors, Active(a),
         sem' = sem, pc' = [pc EXCEPT ![a] = pc'[a]], Active(a)', HolderInv(a)', IdInv'
  PROVE  OneThreadInv'
<1> DEFINE b == Other(a)
<1>1. /\ a \in Actors /\ b \in Actors /\ b # a /\ Other(b) = a
      /\ \A x \in Actors : x = a \/ x = b
  BY TwoThreads, Zenon
<1>2. ~HasTurn(b) /\ ~(sem[Side(a)] > 0)
  BY <1>1, Zenon DEF OneThreadInv, TurnInv, HasTurn
<1>3. pc'[b] = pc[b]
  BY <1>1, Zenon DEF TypeOK
<1>4. ~Active(b)' /\ ~(sem'[Side(b)] > 0) /\ ~(sem'[Side(a)] > 0)
  BY <1>2, <1>3, Zenon DEF HasTurn, Active
<1>5. TurnInv'
  BY <1>1, <1>4, Zenon DEF TurnInv, HasTurn
<1>6. HolderInv(b)'
  BY <1>4, Zenon DEF HolderInv, Active
<1> QED
  BY <1>1, <1>5, <1>6, Zenon DEF OneThreadInv

\* The thread that has the turn posts a message and waits.
LEMMA TurnPasses ==
  ASSUME Threads = {Main}, TypeOK, OneThreadInv, NEW a \in Actors, Active(a),
         sem' = [sem EXCEPT ![Side(Other(a))] = @ + 1],
         pc' = [pc EXCEPT ![a] = pc'[a]], ~Active(a)', HolderInv(Other(a))', IdInv'
  PROVE  OneThreadInv'
<1> DEFINE b == Other(a)
<1>1. /\ a \in Actors /\ b \in Actors /\ b # a /\ Other(b) = a
      /\ Side(a) \in Sides /\ Side(b) \in Sides /\ Side(a) # Side(b)
      /\ \A x \in Actors : x = a \/ x = b
  BY TwoThreads, Zenon
<1>2. ~HasTurn(b) /\ ~(sem[Side(a)] > 0)
  BY <1>1, Zenon DEF OneThreadInv, TurnInv, HasTurn
<1>3. pc'[b] = pc[b] /\ sem'[Side(a)] = sem[Side(a)] /\ sem'[Side(b)] = sem[Side(b)] + 1
  BY <1>1, Zenon DEF TypeOK
<1>4. sem[Side(b)] \in Nat /\ ~(sem[Side(b)] > 0)
  BY <1>1, <1>2, Zenon DEF TypeOK, HasTurn
<1>5. sem'[Side(b)] = 1
  BY <1>3, <1>4
<1>6. ~Active(b)' /\ ~(sem'[Side(a)] > 0)
  BY <1>2, <1>3, Zenon DEF HasTurn, Active
<1>7. TurnInv'
  BY <1>1, <1>5, <1>6, Zenon DEF TurnInv, HasTurn
<1>8. HolderInv(a)'
  BY <1>6, Zenon DEF HolderInv, Active
<1> QED
  BY <1>1, <1>7, <1>8, Zenon DEF OneThreadInv

\* A thread takes the message that was posted for it.
LEMMA TurnTaken ==
  ASSUME Threads = {Main}, TypeOK, OneThreadInv, NEW a \in Actors, sem[Side(a)] > 0,
         sem' = [sem EXCEPT ![Side(a)] = @ - 1],
         pc' = [pc EXCEPT ![a] = pc'[a]], Active(a)', HolderInv(a)', IdInv'
  PROVE  OneThreadInv'
<1> DEFINE b == Other(a)
<1>1. /\ a \in Actors /\ b \in Actors /\ b # a /\ Other(b) = a
      /\ Side(a) \in Sides /\ Side(b) \in Sides /\ Side(a) # Side(b)
      /\ \A x \in Actors : x = a \/ x = b
  BY TwoThreads, Zenon
<1>2. ~HasTurn(b) /\ sem[Side(a)] = 1
  BY <1>1, Zenon DEF OneThreadInv, TurnInv, HasTurn
<1>3. pc'[b] = pc[b] /\ sem'[Side(b)] = sem[Side(b)] /\ sem'[Side(a)] = sem[Side(a)] - 1
  BY <1>1, Zenon DEF TypeOK
<1>4. ~(sem'[Side(a)] > 0)
  BY <1>2, <1>3
<1>5. ~Active(b)' /\ ~(sem'[Side(b)] > 0)
  BY <1>2, <1>3, Zenon DEF HasTurn, Active
<1>6. TurnInv'
  BY <1>1, <1>4, <1>5, Zenon DEF TurnInv, HasTurn
<1>7. HolderInv(b)'
  BY <1>5, Zenon DEF HolderInv, Active
<1> QED
  BY <1>1, <1>6, <1>7, Zenon DEF OneThreadInv

\* Threads stop, or wait without having posted a message.
LEMMA ThreadsStop ==
  ASSUME Threads = {Main}, TypeOK, OneThreadInv,
         UNCHANGED <<sem, mail, out, rcv, waits, acts, errno>>,
         \A x \in Actors : pc'[x] = pc[x] \/ pc'[x] \in {"wait", "exiting", "dying", "gone"}
  PROVE  OneThreadInv'
<1>1. \A x \in Actors : Active(x)' => Active(x)
  BY Zenon DEF Active
<1>2. \A x \in Actors : Other(x) \in Actors
  BY TwoThreads, Zenon
<1>3. TurnInv'
  BY <1>1, <1>2, Zenon DEF OneThreadInv, TurnInv, HasTurn
<1>4. IdInv'
  BY Zenon DEF OneThreadInv, IdInv
<1>5. ASSUME NEW x \in Actors PROVE HolderInv(x)'
  <2>1. HolderInv(x)
    BY Zenon DEF OneThreadInv
  <2>2. /\ pc'[x] \in {"run", "serve"} => pc[x] = pc'[x]
        /\ pc'[x] \in {"lock", "fill", "post"} => pc[x] = pc'[x]
        /\ pc'[x] = "post" => pc[x] = pc'[x]
        /\ pc'[x] \in {"unlock", "got"} => pc[x] = pc'[x]
    BY Zenon
  <2>3. /\ Balanced(x) => Balanced(x)'
        /\ OnTheWay(x, out[x]) => OnTheWay(x, out[x])'
        /\ OnTheWay(Other(x), rcv[x]) => OnTheWay(Other(x), rcv[x])'
        /\ OnTheWay(Other(x), mail[Side(x)]) => OnTheWay(Other(x), mail[Side(x)])'
    BY Zenon DEF Balanced, OnTheWay, Crossing, Levels
  <2> QED BY <2>1, <2>2, <2>3, Zenon DEF HolderInv
<1> QED BY <1>3, <1>4, <1>5, Zenon DEF OneThreadInv

\* Calls, returns and the request to exit are told apart by their codes.
LEMMA CodeKinds ==
  /\ RETURN # REMOTE_EXIT
  /\ \A c \in CallCodes : c # RETURN /\ c # REMOTE_EXIT
BY DEF CallCodes, RETURN, REMOTE_EXIT

\* What changing one field of a message leaves alone.
LEMMA MessageFields ==
  ASSUME NEW m \in Messages, NEW x
  PROVE  /\ [m EXCEPT !.errno = x].code = m.code /\ [m EXCEPT !.errno = x].id = m.id
         /\ [m EXCEPT !.errno = x].errno = x
         /\ [m EXCEPT !.code = x].code = x
BY DEF Messages

\* A thread makes a call.
LEMMA CallKeeps ==
  ASSUME Threads = {Main}, TypeOK, OneThreadInv, NEW a \in Actors, NEW c \in CodesOf(a), Call(a, c)
  PROVE  OneThreadInv'
<1> DEFINE id == [by |-> a, depth |-> Len(waits[a]) + 1]
<1>1. PICK b \in Actors :
        /\ b # a /\ Other(a) = b /\ Other(b) = a
        /\ \A x \in Actors : x = a \/ x = b
        /\ (a = Lib /\ b = Main /\ Lib # Main) \/ (a = Main /\ b = Lib /\ Lib # Main)
  BY Pair, Zenon
<1>2. pc[a] = "run" /\ Active(a) /\ Balanced(a) /\ ~(sem[Side(a)] > 0)
  BY Zenon DEF Call, Active, OneThreadInv, TurnInv, HolderInv
<1>3. /\ acts' = acts /\ sem' = sem /\ waits' = [waits EXCEPT ![a] = Append(@, id)]
      /\ pc' = [pc EXCEPT ![a] = IF HasLock(a) THEN "lock" ELSE "fill"]
      /\ out' = [out EXCEPT ![a] = [code |-> c, id |-> id, errno |-> errno[a]]]
  BY Zenon DEF Call, Goto, channel
<1>4. pc' = [pc EXCEPT ![a] = pc'[a]] /\ pc'[a] \in {"lock", "fill"}
  BY <1>3, Zenon DEF TypeOK
<1>5. /\ out'[a].code = c /\ out'[a].id = id
      /\ waits'[a] = Append(waits[a], id) /\ waits'[b] = waits[b]
  BY <1>1, <1>3, Zenon DEF TypeOK
<1>6. /\ waits[a] \in Seq(CallIds) /\ id \in CallIds /\ Len(waits[a]) \in Nat
  <2>1. waits[a] \in Seq(CallIds)
    BY Zenon DEF TypeOK
  <2>2. Len(waits[a]) \in Nat /\ Len(waits[a]) + 1 \in Nat
    BY <2>1
  <2> QED BY <2>1, <2>2, Zenon DEF CallIds
<1> HIDE DEF id
<1>7. /\ Len(waits'[a]) = Len(waits[a]) + 1 /\ waits'[a][Len(waits'[a])] = id
      /\ \A k \in 1 .. Len(waits[a]) : waits'[a][k] = waits[a][k]
  BY <1>5, <1>6, SeqElements
<1>8. c # RETURN /\ c # REMOTE_EXIT
  BY CodeTypes, CodeKinds, Zenon
<1>9. OnTheWay(a, out[a])'
  BY <1>1, <1>2, <1>3, <1>5, <1>7, <1>8, ZenonT(60) DEF OnTheWay, Crossing, Balanced, Levels
<1>10. HolderInv(a)'
  BY <1>2, <1>3, <1>4, <1>5, <1>8, <1>9, Zenon DEF HolderInv
<1>11. IdInv'
  <2>0. /\ \A k \in 1 .. Len(acts[a]) : k <= Len(waits[b]) => acts[a][k].id = waits[b][k]
        /\ \A k \in 1 .. Len(acts[b]) : k <= Len(waits[a]) => acts[b][k].id = waits[a][k]
    BY <1>1, IdsOf, Zenon DEF OneThreadInv
  <2>1. Len(acts[b]) = Len(waits[a])
    BY <1>1, <1>2, Zenon DEF Balanced
  <2>2. ASSUME NEW k \in 1 .. Len(acts'[a]), k <= Len(waits'[b]) PROVE acts'[a][k].id = waits'[b][k]
    BY <1>3, <1>5, <2>0, <2>2, Zenon
  <2>3. ASSUME NEW k \in 1 .. Len(acts'[b]), k <= Len(waits'[a]) PROVE acts'[b][k].id = waits'[a][k]
    <3>1. k \in 1 .. Len(waits[a]) /\ k <= Len(waits[a])
      BY <1>3, <1>6, <2>1, <2>3
    <3> QED BY <1>3, <1>7, <2>0, <2>1, <3>1, Zenon
  <2> QED BY <1>1, <2>2, <2>3, Zenon DEF IdInv
<1> QED
  BY <1>2, <1>3, <1>4, <1>10, <1>11, HolderGoesOn, Zenon DEF Active

\* A handler or callback returns.
LEMMA FinishKeeps ==
  ASSUME Threads = {Main}, TypeOK, OneThreadInv, NEW a \in Actors, FinishHandler(a)
  PROVE  OneThreadInv'
<1> DEFINE n == Len(acts[a])
           id == acts[a][n].id
<1>1. PICK b \in Actors :
        /\ b # a /\ Other(a) = b /\ Other(b) = a
        /\ \A x \in Actors : x = a \/ x = b
        /\ (a = Lib /\ b = Main /\ Lib # Main) \/ (a = Main /\ b = Lib /\ Lib # Main)
  BY Pair, Zenon
<1>2. pc[a] \in {"run", "serve"} /\ acts[a] # <<>> /\ Active(a) /\ Balanced(a) /\ ~(sem[Side(a)] > 0)
  BY Zenon DEF FinishHandler, Active, OneThreadInv, TurnInv, HolderInv
<1>3. /\ waits' = waits /\ sem' = sem /\ acts' = [acts EXCEPT ![a] = SubSeq(@, 1, n - 1)]
      /\ pc' = [pc EXCEPT ![a] = pc'[a]] /\ pc'[a] \in {"lock", "fill"}
      /\ out' = [out EXCEPT ![a] = [code |-> RETURN, id |-> id, errno |-> errno[a]]]
  BY Zenon DEF FinishHandler, Goto, channel, TypeOK
<1>4. /\ out'[a].code = RETURN /\ out'[a].id = id
      /\ acts'[a] = SubSeq(acts[a], 1, n - 1) /\ acts'[b] = acts[b]
  BY <1>1, <1>3, Zenon DEF TypeOK
<1>5. acts[a] \in Seq(Activations) /\ acts[b] \in Seq(Activations) /\ n \in Nat /\ n # 0 /\ n \in 1 .. n
  <2>1. acts[a] \in Seq(Activations) /\ acts[b] \in Seq(Activations)
    BY <1>1, Zenon DEF TypeOK
  <2> QED BY <1>2, <2>1
<1>6. /\ Len(acts'[a]) = n - 1
      /\ \A k \in 1 .. n - 1 : acts'[a][k] = acts[a][k]
  BY <1>2, <1>4, <1>5, LastType, SeqElements
<1>7. Len(waits[b]) = n /\ Len(waits[a]) = Len(acts[b]) /\ Levels(a = Lib)
  BY <1>1, <1>2, Zenon DEF Balanced
<1>8. id = waits[b][Len(waits[b])]
  <2>1. n <= Len(waits[b])
    BY <1>5, <1>7
  <2> QED BY <1>1, <1>5, <1>7, <2>1, Zenon DEF OneThreadInv, IdInv
<1> HIDE DEF n, id
<1>9. Len(waits[b]) = Len(acts'[a]) + 1
  BY <1>5, <1>6, <1>7, SMTT(60)
<1>10. Levels(b = Lib)'
  <2>1. CASE a = Lib
    <3>1. b = Main /\ Lib # Main /\ n = Len(acts[Main]) + 1
      BY <1>1, <1>7, <2>1, Zenon DEF Levels, n
    <3>2. Len(acts'[Lib]) = Len(acts'[Main]) + 0
      BY <1>4, <1>5, <1>6, <2>1, <3>1
    <3> QED BY <3>1, <3>2, Zenon DEF Levels
  <2>2. CASE a # Lib
    <3>1. a = Main /\ b = Lib /\ Len(acts[b]) = n + 0
      BY <1>1, <1>7, <2>2, Zenon DEF Levels, n
    <3>2. Len(acts'[Lib]) = Len(acts'[Main]) + 1
      BY <1>4, <1>5, <1>6, <3>1, SMTT(60)
    <3> QED BY <3>1, <3>2, Zenon DEF Levels
  <2> QED BY <2>1, <2>2, Zenon
<1>11. OnTheWay(a, out[a])'
  BY <1>1, <1>3, <1>4, <1>7, <1>8, <1>9, <1>10, CodeKinds, Zenon DEF OnTheWay, Crossing
<1>12. HolderInv(a)'
  BY <1>2, <1>3, <1>4, <1>11, CodeKinds, ZenonT(60) DEF HolderInv
<1>13. IdInv'
  <2>0. /\ \A k \in 1 .. n : k <= Len(waits[b]) => acts[a][k].id = waits[b][k]
        /\ \A k \in 1 .. Len(acts[b]) : k <= Len(waits[a]) => acts[b][k].id = waits[a][k]
    BY <1>1, IdsOf, ZenonT(60) DEF OneThreadInv, n
  <2>1. ASSUME NEW k \in 1 .. Len(acts'[a]), k <= Len(waits'[b]) PROVE acts'[a][k].id = waits'[b][k]
    <3>1. k \in 1 .. n - 1 /\ k \in 1 .. n
      BY <1>5, <1>6
    <3> QED BY <1>3, <1>6, <2>0, <2>1, <3>1, Zenon
  <2>2. ASSUME NEW k \in 1 .. Len(acts'[b]), k <= Len(waits'[a]) PROVE acts'[b][k].id = waits'[a][k]
    BY <1>3, <1>4, <2>0, <2>2, Zenon
  <2> QED BY <1>1, <2>1, <2>2, Zenon DEF IdInv
<1> QED
  BY <1>2, <1>3, <1>12, <1>13, HolderGoesOn, Zenon DEF Active

\* A handler or callback starts.
LEMMA StartKeeps ==
  ASSUME Threads = {Main}, TypeOK, OneThreadInv, NEW a \in Actors, NEW m \in Messages,
         m.code \in CallCodes, OnTheWay(Other(a), m), waits' = waits,
         acts' = [acts EXCEPT ![a] = Append(@, [code |-> m.code, id |-> m.id])]
  PROVE  Balanced(a)' /\ IdInv'
<1> DEFINE n == Len(acts[a])
           act == [code |-> m.code, id |-> m.id]
<1>1. PICK b \in Actors :
        /\ b # a /\ Other(a) = b /\ Other(b) = a
        /\ \A x \in Actors : x = a \/ x = b
        /\ (a = Lib /\ b = Main /\ Lib # Main) \/ (a = Main /\ b = Lib /\ Lib # Main)
  BY Pair, Zenon
<1>2. /\ Len(waits[b]) = n + 1 /\ Len(waits[a]) = Len(acts[b])
      /\ m.id = waits[b][n + 1] /\ Levels(b = Lib)
  BY <1>1, CodeKinds, Zenon DEF OnTheWay, Crossing
<1>3. acts'[a] = Append(acts[a], act) /\ acts'[b] = acts[b]
  BY <1>1, Zenon DEF TypeOK
<1>4. /\ acts[a] \in Seq(Activations) /\ acts[b] \in Seq(Activations) /\ act \in Activations
  BY <1>1, RecordTypes, Zenon DEF TypeOK
<1>5. act.id = m.id
  BY Zenon
<1> HIDE DEF act
<1>6. /\ Len(acts'[a]) = n + 1 /\ n \in Nat /\ acts'[a][n + 1] = act
      /\ \A k \in 1 .. n : acts'[a][k] = acts[a][k]
  BY <1>3, <1>4, SeqElements
<1>7. Len(acts[b]) \in Nat
  BY <1>4
<1>8. Levels(a = Lib)'
  <2>1. CASE a = Lib
    <3>1. b = Main /\ Lib # Main /\ n = Len(acts[Main]) + 0
      BY <1>1, <1>2, <2>1, Zenon DEF Levels
    <3>2. Len(acts'[Lib]) = Len(acts'[Main]) + 1
      BY <1>3, <1>6, <1>7, <2>1, <3>1, SMTT(60)
    <3> QED BY <2>1, <3>2, Zenon DEF Levels
  <2>2. CASE a # Lib
    <3>1. a = Main /\ b = Lib /\ Len(acts[b]) = n + 1
      BY <1>1, <1>2, <2>2, Zenon DEF Levels
    <3>2. Len(acts'[Lib]) = Len(acts'[Main]) + 0
      BY <1>3, <1>6, <1>7, <3>1
    <3> QED BY <2>2, <3>2, Zenon DEF Levels
  <2> QED BY <2>1, <2>2, Zenon
<1> HIDE DEF n
<1>9. Balanced(a)'
  BY <1>1, <1>2, <1>3, <1>6, <1>8, Zenon DEF Balanced
<1>10. IdInv'
  <2>0. /\ \A k \in 1 .. n : k <= Len(waits[b]) => acts[a][k].id = waits[b][k]
        /\ \A k \in 1 .. Len(acts[b]) : k <= Len(waits[a]) => acts[b][k].id = waits[a][k]
    BY <1>1, IdsOf, Zenon DEF OneThreadInv, n
  <2>1. ASSUME NEW k \in 1 .. Len(acts'[a]), k <= Len(waits'[b]) PROVE acts'[a][k].id = waits'[b][k]
    <3>1. CASE k = n + 1
      BY <1>2, <1>5, <1>6, <3>1, Zenon
    <3>2. CASE k # n + 1
      <4>1. k \in 1 .. n
        BY <1>6, <3>2
      <4> QED BY <1>6, <2>0, <2>1, <4>1, Zenon
    <3> QED BY <3>1, <3>2, Zenon
  <2>2. ASSUME NEW k \in 1 .. Len(acts'[b]), k <= Len(waits'[a]) PROVE acts'[b][k].id = waits'[a][k]
    BY <1>3, <2>0, <2>2, Zenon
  <2>3. ASSUME NEW x \in Actors
        PROVE  (\A k \in 1 .. Len(acts[x]) : k <= Len(waits[Other(x)]) => acts[x][k].id = waits[Other(x)][k])'
    <3>1. CASE x = a
      BY <1>1, <2>1, <3>1, Zenon
    <3>2. CASE x = b
      BY <1>1, <2>2, <3>2, Zenon
    <3> QED BY <1>1, <3>1, <3>2, Zenon
  <2> QED BY <2>3, Zenon DEF IdInv
<1> QED BY <1>9, <1>10, Zenon

\* A handler or callback starts when the sending_lock has been released.
LEMMA DispatchKeeps ==
  ASSUME Threads = {Main}, TypeOK, OneThreadInv, NEW a \in Actors, Dispatch(a)
  PROVE  OneThreadInv'
<1>1. /\ pc[a] = "got" /\ rcv[a] \in Messages /\ rcv[a].code \in CallCodes /\ Active(a)
      /\ OnTheWay(Other(a), rcv[a]) /\ ~(sem[Side(a)] > 0)
  BY Zenon DEF Dispatch, Active, OneThreadInv, TurnInv, HolderInv, TypeOK
<1>2. /\ sem' = sem /\ waits' = waits /\ pc' = [pc EXCEPT ![a] = "run"]
      /\ acts' = [acts EXCEPT ![a] = Append(@, [code |-> rcv[a].code, id |-> rcv[a].id])]
  BY Zenon DEF Dispatch, Goto, channel
<1>3. pc' = [pc EXCEPT ![a] = pc'[a]] /\ pc'[a] = "run"
  BY <1>2, Zenon DEF TypeOK
<1>4. Balanced(a)' /\ IdInv'
  BY <1>1, <1>2, StartKeeps, Zenon
<1>5. HolderInv(a)' /\ Active(a)'
  BY <1>1, <1>2, <1>3, <1>4, Zenon DEF HolderInv, Active
<1> QED BY <1>1, <1>2, <1>3, <1>4, <1>5, HolderGoesOn, ZenonT(60)

\* A thread takes the message that was posted for it.
LEMMA ReceiveKeeps ==
  ASSUME Threads = {Main}, TypeOK, OneThreadInv, NEW a \in Actors, Receive(a)
  PROVE  OneThreadInv'
<1> DEFINE m == mail[Side(a)]
<1>1. /\ Side(a) \in Sides /\ m \in Messages /\ sem[Side(a)] > 0 /\ OnTheWay(Other(a), m)
  BY TwoThreads, Zenon DEF Receive, OneThreadInv, HolderInv, TypeOK
<1>2. /\ sem' = [sem EXCEPT ![Side(a)] = @ - 1] /\ waits' = waits /\ mail' = mail
      /\ rcv' = [rcv EXCEPT ![a] = m]
  BY Zenon DEF Receive, TakeMessage
<1>3. sem[Side(a)] = 1 /\ sem'[Side(a)] = sem[Side(a)] - 1
  BY <1>1, <1>2, Zenon DEF OneThreadInv, TurnInv, TypeOK
<1>4. ~(sem'[Side(a)] > 0)
  BY <1>3
<1>5. CASE m.code \in KeepLockCodes
  <2>1. /\ acts' = [acts EXCEPT ![a] = Append(@, [code |-> m.code, id |-> m.id])]
        /\ pc' = [pc EXCEPT ![a] = "serve"]
    BY <1>5, Zenon DEF Receive, TakeMessage, Goto
  <2>2. pc' = [pc EXCEPT ![a] = pc'[a]] /\ pc'[a] = "serve"
    BY <2>1, Zenon DEF TypeOK
  <2>3. Balanced(a)' /\ IdInv'
    BY <1>1, <1>2, <1>5, <2>1, CodeTypes, StartKeeps, Zenon
  <2>4. HolderInv(a)' /\ Active(a)'
    BY <1>4, <2>2, <2>3, Zenon DEF HolderInv, Active
  <2> QED BY <1>1, <1>2, <2>2, <2>3, <2>4, TurnTaken, ZenonT(60)
<1>6. CASE m.code \notin KeepLockCodes
  <2>1. acts' = acts /\ pc' = [pc EXCEPT ![a] = IF HasLock(a) THEN "unlock" ELSE "got"]
    BY <1>6, Zenon DEF Receive, TakeMessage, Goto
  <2>2. pc' = [pc EXCEPT ![a] = pc'[a]] /\ pc'[a] \in {"unlock", "got"}
    BY <2>1, Zenon DEF TypeOK
  <2>3. rcv'[a] = mail[Side(a)]
    BY <1>2, Zenon DEF TypeOK
  <2>4. IdInv'
    BY <1>2, <2>1, Zenon DEF OneThreadInv, IdInv
  <2>5. OnTheWay(Other(a), rcv[a])'
    BY <1>1, <1>2, <2>1, <2>3, Zenon DEF OnTheWay, Crossing, Levels
  <2>6. mail'[Side(a)].id = rcv'[a].id
    BY <1>2, <2>3, Zenon
  <2>7. HolderInv(a)' /\ Active(a)'
    BY <1>4, <2>2, <2>5, <2>6, Zenon DEF HolderInv, Active
  <2> QED BY <1>1, <1>2, <2>2, <2>4, <2>7, TurnTaken, Zenon
<1> QED BY <1>5, <1>6, Zenon

\* A thread gets the answer to its last call.
LEMMA ReturnKeeps ==
  ASSUME Threads = {Main}, TypeOK, OneThreadInv, NEW a \in Actors, ReturnFromCall(a)
  PROVE  OneThreadInv'
<1> DEFINE n == Len(waits[a])
<1>1. PICK b \in Actors :
        /\ b # a /\ Other(a) = b /\ Other(b) = a
        /\ \A x \in Actors : x = a \/ x = b
        /\ (a = Lib /\ b = Main /\ Lib # Main) \/ (a = Main /\ b = Lib /\ Lib # Main)
  BY Pair, Zenon
<1>2. /\ pc[a] = "got" /\ rcv[a].code = RETURN /\ Active(a)
      /\ OnTheWay(b, rcv[a]) /\ ~(sem[Side(a)] > 0)
  BY <1>1, Zenon DEF ReturnFromCall, Active, OneThreadInv, TurnInv, HolderInv
<1>3. n = Len(acts[b]) + 1 /\ Len(waits[b]) = Len(acts[a]) /\ Levels(a = Lib)
  BY <1>1, <1>2, CodeKinds, Zenon DEF OnTheWay, Crossing
<1>4. waits[a] \in Seq(CallIds) /\ n \in Nat /\ Len(acts[b]) \in Nat
  <2>1. waits[a] \in Seq(CallIds) /\ acts[b] \in Seq(Activations)
    BY Zenon DEF TypeOK
  <2> QED BY <2>1
<1>5. waits[a] # <<>>
  BY <1>3, <1>4
<1>6. /\ waits' = [waits EXCEPT ![a] = SubSeq(@, 1, n - 1)] /\ pc' = [pc EXCEPT ![a] = "run"]
      /\ sem' = sem /\ acts' = acts
  BY <1>5, Zenon DEF ReturnFromCall, Goto
<1>7. /\ waits'[a] = SubSeq(waits[a], 1, n - 1) /\ waits'[b] = waits[b]
      /\ pc' = [pc EXCEPT ![a] = pc'[a]] /\ pc'[a] = "run"
  BY <1>1, <1>6, Zenon DEF TypeOK
<1>8. /\ Len(waits'[a]) = n - 1 /\ \A k \in 1 .. n - 1 : waits'[a][k] = waits[a][k]
  BY <1>4, <1>5, <1>7, LastType, SeqElements, SMTT(60)
<1>9. Len(waits'[a]) = Len(acts[b])
  BY <1>3, <1>4, <1>8
<1> HIDE DEF n
<1>10. Levels(a = Lib)'
  BY <1>3, <1>6, Zenon DEF Levels
<1>11. Balanced(a)'
  BY <1>1, <1>3, <1>6, <1>7, <1>9, <1>10, Zenon DEF Balanced
<1>12. HolderInv(a)' /\ Active(a)'
  BY <1>2, <1>6, <1>7, <1>11, Zenon DEF HolderInv, Active
<1>13. IdInv'
  <2>0. /\ \A k \in 1 .. Len(acts[a]) : k <= Len(waits[b]) => acts[a][k].id = waits[b][k]
        /\ \A k \in 1 .. Len(acts[b]) : k <= Len(waits[a]) => acts[b][k].id = waits[a][k]
    BY <1>1, IdsOf, Zenon DEF OneThreadInv
  <2>1. ASSUME NEW k \in 1 .. Len(acts'[a]), k <= Len(waits'[b]) PROVE acts'[a][k].id = waits'[b][k]
    BY <1>6, <1>7, <2>0, <2>1, Zenon
  <2>2. ASSUME NEW k \in 1 .. Len(acts'[b]), k <= Len(waits'[a]) PROVE acts'[b][k].id = waits'[a][k]
    <3>1. k \in 1 .. n - 1 /\ k <= n /\ k \in 1 .. Len(acts[b])
      BY <1>4, <1>6, <1>8, <2>2
    <3> QED BY <1>6, <1>8, <2>0, <3>1, Zenon DEF n
  <2>3. ASSUME NEW x \in Actors
        PROVE  (\A k \in 1 .. Len(acts[x]) : k <= Len(waits[Other(x)]) => acts[x][k].id = waits[Other(x)][k])'
    <3>1. CASE x = a
      BY <1>1, <2>1, <3>1, Zenon
    <3>2. CASE x = b
      BY <1>1, <2>2, <3>2, Zenon
    <3> QED BY <1>1, <3>1, <3>2, Zenon
  <2> QED BY <2>3, Zenon DEF IdInv
<1> QED BY <1>2, <1>6, <1>7, <1>12, <1>13, HolderGoesOn, Zenon

\* The steps that move a message on its way without touching the stacks.
LEMMA MessageKeeps ==
  ASSUME Threads = {Main}, TypeOK, OneThreadInv, NEW a \in Actors,
         LockSending(a) \/ Fill(a) \/ UnlockSending(a) \/ (\E e \in Errnos : SetErrno(a, e))
  PROVE  OneThreadInv'
<1>1. Active(a) /\ HolderInv(a) /\ ~(sem[Side(a)] > 0)
  BY Zenon DEF LockSending, Fill, UnlockSending, SetErrno, Active, OneThreadInv, TurnInv
<1>2. sem' = sem /\ UNCHANGED <<out, rcv, waits, acts>>
  BY Zenon DEF LockSending, Fill, UnlockSending, SetErrno, channel
<1>3. IdInv'
  BY <1>2, Zenon DEF OneThreadInv, IdInv
<1>4. /\ Balanced(a) => Balanced(a)'
      /\ OnTheWay(a, out[a]) => OnTheWay(a, out[a])'
      /\ OnTheWay(Other(a), rcv[a]) => OnTheWay(Other(a), rcv[a])'
  BY <1>2, Zenon DEF Balanced, OnTheWay, Crossing, Levels
<1>5. CASE LockSending(a)
  <2>1. pc[a] = "lock" /\ pc' = [pc EXCEPT ![a] = "fill"]
    BY <1>5, Zenon DEF LockSending, Goto
  <2>2. pc' = [pc EXCEPT ![a] = pc'[a]] /\ pc'[a] = "fill"
    BY <2>1, Zenon DEF TypeOK
  <2>3. HolderInv(a)' /\ Active(a)'
    BY <1>1, <1>2, <1>4, <2>1, <2>2, Zenon DEF HolderInv, Active
  <2> QED BY <1>1, <1>2, <1>3, <2>2, <2>3, HolderGoesOn, Zenon
<1>6. CASE Fill(a)
  <2>1. /\ pc[a] = "fill" /\ pc' = [pc EXCEPT ![a] = "post"] /\ errno' = errno
        /\ mail' = [mail EXCEPT ![Peer(Side(a))] = [out[a] EXCEPT !.errno = errno[a]]]
    BY <1>6, Zenon DEF Fill, Goto
  <2>2. pc' = [pc EXCEPT ![a] = pc'[a]] /\ pc'[a] = "post"
    BY <2>1, Zenon DEF TypeOK
  <2>3. Side(Other(a)) = Peer(Side(a)) /\ Side(Other(a)) \in Sides
    BY TwoThreads, Zenon
  <2>4. mail'[Side(Other(a))] = [out[a] EXCEPT !.errno = errno[a]]
    BY <2>1, <2>3, Zenon DEF TypeOK
  <2>5. HolderInv(a)' /\ Active(a)'
    BY <1>1, <1>2, <1>4, <2>1, <2>2, <2>4, Zenon DEF HolderInv, Active
  <2> QED BY <1>1, <1>2, <1>3, <2>2, <2>5, HolderGoesOn, Zenon
<1>7. CASE UnlockSending(a)
  <2>1. pc[a] = "unlock" /\ pc' = [pc EXCEPT ![a] = "got"] /\ mail' = mail
    BY <1>7, Zenon DEF UnlockSending, Goto, channel
  <2>2. pc' = [pc EXCEPT ![a] = pc'[a]] /\ pc'[a] = "got"
    BY <2>1, Zenon DEF TypeOK
  <2>3. HolderInv(a)' /\ Active(a)'
    BY <1>1, <1>2, <1>4, <2>1, <2>2, Zenon DEF HolderInv, Active
  <2> QED BY <1>1, <1>2, <1>3, <2>2, <2>3, HolderGoesOn, Zenon
<1>8. CASE \E e \in Errnos : SetErrno(a, e)
  <2>1. pc[a] = "run" /\ pc' = pc
    BY <1>8, Zenon DEF SetErrno
  <2>2. pc' = [pc EXCEPT ![a] = pc'[a]] /\ pc'[a] = "run"
    BY <2>1, Zenon DEF TypeOK
  <2>3. HolderInv(a)' /\ Active(a)'
    BY <1>1, <1>2, <1>4, <2>1, <2>2, ZenonT(60) DEF HolderInv, Active
  <2> QED BY <1>1, <1>2, <1>3, <2>2, <2>3, HolderGoesOn, Zenon
<1> QED BY <1>5, <1>6, <1>7, <1>8, Zenon

\* A request or an answer is posted, unless the semaphores are gone.
LEMMA PostKeeps ==
  ASSUME Threads = {Main}, TypeOK, OneThreadInv, NEW a \in Actors, PostRequest(a) \/ PostResponse(a)
  PROVE  OneThreadInv'
<1>1. PICK b \in Actors :
        /\ b # a /\ Other(a) = b /\ Other(b) = a
        /\ \A x \in Actors : x = a \/ x = b
        /\ Side(a) \in Sides /\ Side(b) \in Sides /\ Side(a) # Side(b) /\ Peer(Side(a)) = Side(b)
  BY Pair, Zenon
<1>2. /\ pc[a] = "post" /\ UNCHANGED <<mail, out, rcv, waits, acts, errno>>
  BY Zenon DEF PostRequest, PostResponse
<1>3. CASE removed
  <2>1. sem' = sem
    BY <1>3, Zenon DEF PostRequest, PostResponse
  <2>2. \A x \in Actors : pc'[x] = pc[x] \/ pc'[x] \in {"wait", "exiting", "dying", "gone"}
    BY <1>3, Zenon DEF PostRequest, PostResponse, Goto, ExitProcess, End, TypeOK
  <2> QED BY <1>2, <2>1, <2>2, ThreadsStop, Zenon
<1>4. CASE ~removed
  <2>1. sem' = [sem EXCEPT ![Side(b)] = @ + 1] /\ pc' = [pc EXCEPT ![a] = "wait"]
    BY <1>1, <1>4, Zenon DEF PostRequest, PostResponse, Goto
  <2>2. pc' = [pc EXCEPT ![a] = pc'[a]] /\ pc'[a] = "wait" /\ pc'[b] = pc[b]
    BY <1>1, <2>1, Zenon DEF TypeOK
  <2>3. Active(a) /\ HolderInv(a) /\ ~HasTurn(b)
    BY <1>1, <1>2, Zenon DEF Active, HasTurn, OneThreadInv, TurnInv
  <2>4. /\ OnTheWay(a, out[a]) /\ out[a].code # REMOTE_EXIT
        /\ mail[Side(b)] = [out[a] EXCEPT !.errno = errno[a]]
    BY <1>1, <1>2, <2>3, Zenon DEF HolderInv
  <2>5. /\ mail[Side(b)].code = out[a].code /\ mail[Side(b)].id = out[a].id
        /\ mail[Side(b)].errno = errno[a]
    <3> DEFINE m == [out[a] EXCEPT !.errno = errno[a]]
    <3>1. out[a] \in Messages
      BY Zenon DEF TypeOK
    <3>2. m.code = out[a].code /\ m.id = out[a].id /\ m.errno = errno[a]
      BY <3>1, MessageFields
    <3> HIDE DEF m
    <3>3. mail[Side(b)] = m
      BY <2>4 DEF m
    <3> QED BY <3>2, <3>3, Zenon
  <2>6. OnTheWay(a, mail[Side(b)])'
    BY <1>2, <2>4, <2>5, Zenon DEF OnTheWay, Crossing, Levels
  <2>7. mail'[Side(b)].errno = errno'[a]
    BY <1>2, <2>5, Zenon
  <2>8. pc'[b] \notin {"run", "lock", "fill", "post", "unlock", "got", "serve"}
    BY <2>2, <2>3, Zenon DEF HasTurn, Active
  <2>9. HolderInv(b)'
    BY <1>1, <2>6, <2>7, <2>8, Zenon DEF HolderInv
  <2>10. IdInv'
    BY <1>2, Zenon DEF OneThreadInv, IdInv
  <2> QED BY <1>1, <2>1, <2>2, <2>3, <2>9, <2>10, TurnPasses, Zenon DEF Active
<1> QED BY <1>3, <1>4, Zenon

\* An exception leaves a handler of the library, which asks the program to exit.
LEMMA ThrowKeeps ==
  ASSUME Threads = {Main}, TypeOK, OneThreadInv, LibraryThrow
  PROVE  OneThreadInv'
<1>1. /\ Lib \in Actors /\ Main \in Actors /\ Main # Lib /\ Other(Lib) = Main /\ Other(Main) = Lib
      /\ Side(Lib) = "library" /\ Side(Main) = "program" /\ Sides = {"program", "library"}
      /\ \A x \in Actors : x = Lib \/ x = Main
  BY TwoThreads, Zenon DEF Side, Sides, Other
<1>2. /\ pc[Lib] \in {"run", "serve"} /\ UNCHANGED <<out, rcv, waits, acts, errno>>
      /\ pc' = [pc EXCEPT ![Lib] = "dying"]
      /\ mail' = [mail EXCEPT !["program"].code = REMOTE_EXIT]
  BY Zenon DEF LibraryThrow, Goto
<1>3. pc' = [pc EXCEPT ![Lib] = pc'[Lib]] /\ pc'[Lib] = "dying" /\ pc'[Main] = pc[Main]
  BY <1>1, <1>2, Zenon DEF TypeOK
<1>4. Active(Lib) /\ ~HasTurn(Main) /\ ~(sem["library"] > 0)
  BY <1>1, <1>2, Zenon DEF Active, HasTurn, OneThreadInv, TurnInv
<1>5. IdInv'
  BY <1>2, Zenon DEF OneThreadInv, IdInv
<1>6. pc'[Main] \notin {"run", "lock", "fill", "post", "unlock", "got", "serve"}
  BY <1>3, <1>4, Zenon DEF HasTurn, Active
<1>7. CASE removed
  <2>1. sem' = sem
    BY <1>7, Zenon DEF LibraryThrow
  <2>2. ~HasTurn(Lib)' /\ ~HasTurn(Main)'
    BY <1>1, <1>3, <1>4, <1>6, <2>1, Zenon DEF HasTurn, Active
  <2>3. TurnInv'
    BY <1>1, <2>2, Zenon DEF TurnInv, HasTurn
  <2>4. HolderInv(Lib)'
    BY <2>2, Zenon DEF HolderInv, HasTurn, Active
  <2>5. HolderInv(Main)'
    BY <2>2, Zenon DEF HolderInv, HasTurn, Active
  <2> QED BY <1>1, <1>5, <2>3, <2>4, <2>5, Zenon DEF OneThreadInv
<1>8. CASE ~removed
  <2>1. sem' = [sem EXCEPT ![Side(Other(Lib))] = @ + 1]
    BY <1>1, <1>8, Zenon DEF LibraryThrow
  <2>2. mail'["program"].code = REMOTE_EXIT
    <3>1. mail["program"] \in Messages /\ mail'["program"] = [mail["program"] EXCEPT !.code = REMOTE_EXIT]
      BY <1>1, <1>2, Zenon DEF TypeOK
    <3> DEFINE m == [mail["program"] EXCEPT !.code = REMOTE_EXIT]
    <3>2. m.code = REMOTE_EXIT
      BY <3>1, MessageFields
    <3> QED BY <3>1, <3>2, Zenon
  <2>3. OnTheWay(Lib, mail["program"])'
    BY <2>2, Zenon DEF OnTheWay
  <2>4. HolderInv(Main)'
    BY <1>1, <1>6, <2>2, <2>3, Zenon DEF HolderInv
  <2>5. ~Active(Lib)'
    BY <1>3, Zenon DEF Active
  <2> QED BY <1>1, <1>3, <1>4, <1>5, <2>1, <2>4, <2>5, TurnPasses, Zenon
<1> QED BY <1>7, <1>8, Zenon

\* The ends of the processes only stop threads.
LEMMA EndKeeps ==
  ASSUME Threads = {Main}, TypeOK, OneThreadInv,
         \/ \E a \in Actors : ReceiveRemoved(a) \/ ObeyRemoteExit(a)
         \/ \E t \in Threads : ProgramExit(t) \/ ProgramExited(t)
         \/ LibraryDies \/ (\E s \in Sides : Kill(s))
         \/ IntermediateParentDied \/ IntermediateChildDied \/ LibraryParentDied
         \/ UNCHANGED vars
  PROVE  OneThreadInv'
<1>1. UNCHANGED <<sem, mail, out, rcv, waits, acts, errno>>
  BY Zenon DEF ReceiveRemoved, ObeyRemoteExit, ProgramExit, ProgramExited, LibraryDies, Kill,
     IntermediateParentDied, IntermediateChildDied, LibraryParentDied, channel, control, vars
<1>2. \A x \in Actors : pc'[x] = pc[x] \/ pc'[x] \in {"wait", "exiting", "dying", "gone"}
  <2>1. ASSUME NEW s \in Sides, NEW how, End(s, how)
        PROVE  \A x \in Actors : pc'[x] = pc[x] \/ pc'[x] \in {"wait", "exiting", "dying", "gone"}
    BY <2>1, Zenon DEF End
  <2>2. ASSUME NEW t, Goto(t, "exiting")
        PROVE  \A x \in Actors : pc'[x] = pc[x] \/ pc'[x] \in {"wait", "exiting", "dying", "gone"}
    BY <2>2, Zenon DEF Goto, TypeOK
  <2>3. pc' = pc \/ (\E s \in Sides : \E how : End(s, how)) \/ (\E t : Goto(t, "exiting"))
    BY Zenon DEF ReceiveRemoved, ObeyRemoteExit, ProgramExit, ProgramExited, LibraryDies, Kill,
     IntermediateParentDied, IntermediateChildDied, LibraryParentDied, control, vars, ExitProcess,
     Side, Sides
  <2> QED BY <2>1, <2>2, <2>3, Zenon
<1> QED BY <1>1, <1>2, ThreadsStop, Zenon

\* Every step keeps the invariant.
LEMMA OneThreadStep ==
  ASSUME Threads = {Main}, TypeOK, OneThreadInv, [Next]_vars
  PROVE  OneThreadInv'
<1>1. ASSUME NEW a \in Actors, Step(a) PROVE OneThreadInv'
  BY <1>1, MessageKeeps, PostKeeps, ReceiveKeeps, ReturnKeeps, DispatchKeeps, EndKeeps, Zenon DEF Step
<1>2. ASSUME NEW a \in Actors, UserCode(a) PROVE OneThreadInv'
  BY <1>2, CallKeeps, FinishKeeps, MessageKeeps, Zenon DEF UserCode
<1>3. ASSUME Ending PROVE OneThreadInv'
  BY <1>3, ThrowKeeps, EndKeeps, Zenon DEF Ending
<1>4. CASE UNCHANGED vars
  BY <1>4, EndKeeps, Zenon
<1> QED BY <1>1, <1>2, <1>3, <1>4, Zenon DEF Next, Over

\* In a program with one thread the two threads take turns, and the thread
\* whose turn it is finds the calls nested as in one process.
THEOREM TakeTurns == ASSUME Threads = {Main} PROVE Spec => []OneThreadInv
<1>1. ASSUME Init PROVE OneThreadInv
  <2>1. /\ Lib \in Actors /\ Main \in Actors /\ Main # Lib /\ Other(Lib) = Main /\ Other(Main) = Lib
        /\ Side(Lib) \in Sides /\ Side(Main) \in Sides /\ \A x \in Actors : x = Lib \/ x = Main
    BY TwoThreads, Zenon DEF Other
  <2>2. pc[Lib] = "wait" /\ pc[Main] = "run" /\ sem[Side(Lib)] = 0 /\ sem[Side(Main)] = 0
    BY <1>1, <2>1, Zenon DEF Init
  <2>3. ~(sem[Side(Lib)] > 0) /\ ~(sem[Side(Main)] > 0)
    BY <2>2
  <2>4. \A x \in Actors : waits[x] = <<>> /\ acts[x] = <<>>
    BY <1>1, Zenon DEF Init
  <2>5. TurnInv
    BY <2>1, <2>2, <2>3, Zenon DEF TurnInv, HasTurn, Active
  <2>6. Balanced(Main)
    <3>1. Len(acts[Lib]) = Len(acts[Main]) + 0
      BY <2>1, <2>4
    <3>2. \A x \in Actors : Len(waits[x]) = Len(acts[Other(x)])
      BY <2>1, <2>4, Zenon
    <3> QED BY <2>1, <3>1, <3>2, Zenon DEF Balanced, Levels
  <2>7. HolderInv(Lib) /\ HolderInv(Main)
    BY <2>2, <2>3, <2>6, Zenon DEF HolderInv
  <2>8. IdInv
    <3>1. \A x \in Actors : 1 .. Len(acts[x]) = {}
      BY <2>4
    <3> QED BY <3>1, Zenon DEF IdInv
  <2> QED BY <2>1, <2>5, <2>7, <2>8, Zenon DEF OneThreadInv
<1>2. TypeOK /\ OneThreadInv /\ [Next]_vars => OneThreadInv'
  BY OneThreadStep, Zenon
<1> QED BY <1>1, <1>2, TypeCorrect, PTL DEF Spec

\* With one thread, what a stub reads after wait_for_return() belongs to the
\* message it has received.
THEOREM DataStaysIntact == ASSUME Threads = {Main} PROVE Spec => []DataIntact
<1>1. OneThreadInv => DataIntact
  BY Zenon DEF OneThreadInv, HolderInv, DataIntact
<1> QED BY <1>1, TakeTurns, PTL

\* With one thread, a return answers the last call of the thread that gets it.
THEOREM ReturnsMatch == ASSUME Threads = {Main} PROVE Spec => []ReturnIsMine
<1>1. ASSUME TypeOK, OneThreadInv PROVE ReturnIsMine
  <2> SUFFICES ASSUME NEW a \in Actors, pc[a] \in {"unlock", "got"}, rcv[a].code = RETURN
               PROVE  waits[a] # <<>> /\ rcv[a].id = waits[a][Len(waits[a])]
    BY Zenon DEF ReturnIsMine
  <2>1. Other(a) \in Actors /\ Other(Other(a)) = a
    BY TwoThreads, Zenon
  <2>2. OnTheWay(Other(a), rcv[a])
    BY <1>1, Zenon DEF OneThreadInv, HolderInv
  <2>3. Len(waits[a]) = Len(acts[Other(a)]) + 1 /\ rcv[a].id = waits[a][Len(waits[a])]
    BY <2>1, <2>2, CodeKinds, Zenon DEF OnTheWay, Crossing
  <2>4. acts[Other(a)] \in Seq(Activations)
    BY <1>1, <2>1, Zenon DEF TypeOK
  <2>5. Len(acts[Other(a)]) \in Nat
    BY <2>4
  <2>6. waits[a] # <<>>
    BY <2>3, <2>5
  <2> QED BY <2>3, <2>6, Zenon
<1> QED BY <1>1, TakeTurns, TypeCorrect, PTL

\* With one thread, a call or return carries the errno of its sender.
THEOREM ErrnoKept == ASSUME Threads = {Main} PROVE Spec => []ErrnoTravels
<1>1. ASSUME OneThreadInv PROVE ErrnoTravels
  <2>1. /\ Lib \in Actors /\ Main \in Actors /\ Main # Lib /\ Other(Lib) = Main /\ Other(Main) = Lib
        /\ Side(Lib) = "library" /\ Side(Main) = "program"
    BY TwoThreads, Zenon DEF Other, Side
  <2>2. sem["library"] > 0 => mail["library"].errno = errno[Main]
    BY <1>1, <2>1, ZenonT(60) DEF OneThreadInv, HolderInv, OnTheWay
  <2>3. sem["program"] > 0 /\ mail["program"].code # REMOTE_EXIT => mail["program"].errno = errno[Lib]
    BY <1>1, <2>1, Zenon DEF OneThreadInv, HolderInv
  <2> QED BY <2>2, <2>3, Zenon DEF ErrnoTravels, REMOTE_EXIT
<1> QED BY <1>1, TakeTurns, PTL

-----------------------------------------------------------------------------
(* The refinement of LocalCalls.                                            *)

\* Two stacks of handlers taken in turns, the ones of the library first.
Mix(l, m) ==
  [k \in 1 .. Len(l) + Len(m) |->
     IF k % 2 = 1 THEN l[(k + 1) \div 2].code ELSE m[k \div 2].code]

\* Which position of a stack a position of the mixed one stands for.
LEMMA Positions ==
  ASSUME NEW p \in Nat, NEW q \in Nat, p = q \/ p = q + 1, NEW k \in 1 .. p + q
  PROVE  /\ k % 2 = 1 => (k + 1) \div 2 \in 1 .. p
         /\ k % 2 # 1 => k \div 2 \in 1 .. q
OBVIOUS

\* The position after the last one.
LEMMA NextPosition ==
  ASSUME NEW q \in Nat
  PROVE  /\ (q + q + 1) % 2 = 1 /\ (q + q + 2) \div 2 = q + 1 /\ (q + q) % 2 = 0
         /\ (q + q + 2) % 2 # 1 /\ (q + q + 1) % 2 # 0
OBVIOUS

\* The mixed stack holds the codes of the handlers.
LEMMA MixType ==
  ASSUME NEW l \in Seq(Activations), NEW m \in Seq(Activations),
         Len(l) = Len(m) \/ Len(l) = Len(m) + 1
  PROVE  /\ Mix(l, m) \in Seq(CallCodes) /\ Len(Mix(l, m)) = Len(l) + Len(m)
         /\ \A k \in 1 .. Len(l) + Len(m) :
              Mix(l, m)[k] = IF k % 2 = 1 THEN l[(k + 1) \div 2].code ELSE m[k \div 2].code
<1>1. Len(l) \in Nat /\ Len(m) \in Nat /\ Len(l) + Len(m) \in Nat
  OBVIOUS
<1>2. ASSUME NEW k \in 1 .. Len(l) + Len(m)
      PROVE  (IF k % 2 = 1 THEN l[(k + 1) \div 2].code ELSE m[k \div 2].code) \in CallCodes
  <2>1. \A i \in 1 .. Len(l) : l[i] \in Activations
    OBVIOUS
  <2>2. \A i \in 1 .. Len(m) : m[i] \in Activations
    OBVIOUS
  <2>3. \A x \in Activations : x.code \in CallCodes
    BY Zenon DEF Activations
  <2>4. CASE k % 2 = 1
    <3>1. (k + 1) \div 2 \in 1 .. Len(l)
      BY <1>1, <2>4, Positions, Zenon
    <3> QED BY <2>1, <2>3, <2>4, <3>1, Zenon
  <2>5. CASE k % 2 # 1
    <3>1. k \div 2 \in 1 .. Len(m)
      BY <1>1, <2>5, Positions, Zenon
    <3> QED BY <2>2, <2>3, <2>5, <3>1, Zenon
  <2> QED BY <2>4, <2>5, Zenon
<1>3. Mix(l, m) \in [1 .. Len(l) + Len(m) -> CallCodes]
  BY <1>2, Zenon DEF Mix
<1>4. Mix(l, m) \in Seq(CallCodes)
  BY <1>1, <1>3, FunctionIsSeq, Zenon
<1>5. Len(Mix(l, m)) = Len(l) + Len(m)
  BY <1>1, <1>3, <1>4
<1>6. \A k \in 1 .. Len(l) + Len(m) :
        Mix(l, m)[k] = IF k % 2 = 1 THEN l[(k + 1) \div 2].code ELSE m[k \div 2].code
  BY Zenon DEF Mix
<1> QED BY <1>4, <1>5, <1>6, Zenon

\* The library starts a handler.
LEMMA PushLibrary ==
  ASSUME NEW l \in Seq(Activations), NEW m \in Seq(Activations), NEW x \in Activations, Len(l) = Len(m)
  PROVE  Mix(Append(l, x), m) = Append(Mix(l, m), x.code)
<1> DEFINE q == Len(m)
           n == Append(l, x)
           s == Mix(n, m)
           t == Append(Mix(l, m), x.code)
<1>1. q \in Nat /\ Len(l) = q /\ n \in Seq(Activations) /\ Len(n) = q + 1
  OBVIOUS
<1>2. /\ \A i \in 1 .. q : n[i] = l[i]
      /\ n[q + 1] = x
  BY <1>1, SeqElements
<1>3. x.code \in CallCodes
  BY Zenon DEF Activations
<1>4. /\ Mix(l, m) \in Seq(CallCodes) /\ Len(Mix(l, m)) = q + q
      /\ \A k \in 1 .. q + q :
           Mix(l, m)[k] = IF k % 2 = 1 THEN l[(k + 1) \div 2].code ELSE m[k \div 2].code
  BY <1>1, MixType, ZenonT(60)
<1> HIDE DEF n
<1>5. /\ s \in Seq(CallCodes) /\ Len(s) = q + 1 + q
      /\ \A k \in 1 .. q + 1 + q :
           s[k] = IF k % 2 = 1 THEN n[(k + 1) \div 2].code ELSE m[k \div 2].code
  BY <1>1, MixType, ZenonT(60)
<1>6. /\ t \in Seq(CallCodes) /\ Len(t) = q + q + 1
      /\ \A k \in 1 .. q + q : t[k] = Mix(l, m)[k]
      /\ t[q + q + 1] = x.code
  <2> DEFINE u == Mix(l, m)
             c == x.code
  <2>1. u \in Seq(CallCodes) /\ c \in CallCodes /\ Len(u) = q + q
    BY <1>3, <1>4, Zenon
  <2> HIDE DEF u, c
  <2>2. /\ Append(u, c) \in Seq(CallCodes) /\ Len(Append(u, c)) = Len(u) + 1
        /\ \A k \in 1 .. Len(u) : Append(u, c)[k] = u[k]
        /\ Append(u, c)[Len(u) + 1] = c
    BY <2>1, SeqElements, SMTT(60)
  <2> QED BY <2>1, <2>2, Zenon DEF u, c
<1>7. ASSUME NEW k \in 1 .. Len(s) PROVE s[k] = t[k]
  <2>1. k \in 1 .. q + 1 + q
    BY <1>5, Zenon
  <2>2. CASE k = q + q + 1
    <3>1. k % 2 = 1 /\ (k + 1) \div 2 = q + 1
      BY <1>1, <2>2, NextPosition
    <3> QED BY <1>2, <1>5, <1>6, <2>1, <2>2, <3>1, Zenon
  <2>3. CASE k # q + q + 1
    <3>1. k \in 1 .. q + q
      BY <1>1, <2>1, <2>3
    <3>2. t[k] = IF k % 2 = 1 THEN l[(k + 1) \div 2].code ELSE m[k \div 2].code
      BY <1>4, <1>6, <3>1, Zenon
    <3>3. k % 2 = 1 => n[(k + 1) \div 2] = l[(k + 1) \div 2]
      BY <1>1, <1>2, <3>1, Positions, Zenon
    <3> QED BY <1>5, <2>1, <3>2, <3>3, Zenon
  <2> QED BY <2>2, <2>3, Zenon
<1> HIDE DEF s, t
<1>8. Len(s) = Len(t)
  BY <1>1, <1>5, <1>6
<1>9. s = t
  BY <1>5, <1>6, <1>7, <1>8, SameElements, Zenon
<1> QED BY <1>9, Zenon DEF s, t, n

\* The program starts a handler.
LEMMA PushProgram ==
  ASSUME NEW l \in Seq(Activations), NEW m \in Seq(Activations), NEW x \in Activations, Len(l) = Len(m) + 1
  PROVE  Mix(l, Append(m, x)) = Append(Mix(l, m), x.code)
<1> DEFINE q == Len(m)
           n == Append(m, x)
           s == Mix(l, n)
           t == Append(Mix(l, m), x.code)
<1>1. q \in Nat /\ Len(l) = q + 1 /\ n \in Seq(Activations) /\ Len(n) = q + 1
  OBVIOUS
<1>2. /\ \A i \in 1 .. q : n[i] = m[i]
      /\ n[q + 1] = x
  BY <1>1, SeqElements
<1>3. x.code \in CallCodes
  BY Zenon DEF Activations
<1>4. /\ Mix(l, m) \in Seq(CallCodes) /\ Len(Mix(l, m)) = q + 1 + q
      /\ \A k \in 1 .. q + 1 + q :
           Mix(l, m)[k] = IF k % 2 = 1 THEN l[(k + 1) \div 2].code ELSE m[k \div 2].code
  BY <1>1, MixType, ZenonT(60)
<1> HIDE DEF n
<1>5. /\ s \in Seq(CallCodes) /\ Len(s) = q + 1 + (q + 1)
      /\ \A k \in 1 .. q + 1 + (q + 1) :
           s[k] = IF k % 2 = 1 THEN l[(k + 1) \div 2].code ELSE n[k \div 2].code
  BY <1>1, MixType, ZenonT(60)
<1>6. /\ t \in Seq(CallCodes) /\ Len(t) = q + 1 + q + 1
      /\ \A k \in 1 .. q + 1 + q : t[k] = Mix(l, m)[k]
      /\ t[q + 1 + q + 1] = x.code
  <2> DEFINE u == Mix(l, m)
             c == x.code
  <2>1. u \in Seq(CallCodes) /\ c \in CallCodes /\ Len(u) = q + 1 + q
    BY <1>3, <1>4, Zenon
  <2> HIDE DEF u, c
  <2>2. /\ Append(u, c) \in Seq(CallCodes) /\ Len(Append(u, c)) = Len(u) + 1
        /\ \A k \in 1 .. Len(u) : Append(u, c)[k] = u[k]
        /\ Append(u, c)[Len(u) + 1] = c
    BY <2>1, SeqElements, SMTT(60)
  <2> QED BY <2>1, <2>2, Zenon DEF u, c
<1>7. ASSUME NEW k \in 1 .. Len(s) PROVE s[k] = t[k]
  <2>1. k \in 1 .. q + 1 + (q + 1)
    BY <1>5, Zenon
  <2>2. CASE k = q + 1 + q + 1
    <3>1. k % 2 # 1 /\ k \div 2 = q + 1
      BY <1>1, <2>2, NextPosition
    <3> QED BY <1>2, <1>5, <1>6, <2>1, <2>2, <3>1, Zenon
  <2>3. CASE k # q + 1 + q + 1
    <3>1. k \in 1 .. q + 1 + q
      BY <1>1, <2>1, <2>3, SMTT(60)
    <3>2. t[k] = IF k % 2 = 1 THEN l[(k + 1) \div 2].code ELSE m[k \div 2].code
      BY <1>4, <1>6, <3>1, Zenon
    <3>3. k % 2 # 1 => n[k \div 2] = m[k \div 2]
      <4>1. q + 1 \in Nat
        BY <1>1
      <4> QED BY <1>1, <1>2, <3>1, <4>1, Positions, Zenon
    <3> QED BY <1>5, <2>1, <3>2, <3>3, Zenon
  <2> QED BY <2>2, <2>3, Zenon
<1> HIDE DEF s, t
<1>8. Len(s) = Len(t)
  BY <1>1, <1>5, <1>6
<1>9. s = t
  BY <1>5, <1>6, <1>7, <1>8, SameElements, Zenon
<1> QED BY <1>9, Zenon DEF s, t, n

\* A sequence is what remains without its last element, and that element.
LEMMA FrontAndLast ==
  ASSUME NEW S, NEW s \in Seq(S), s # <<>>
  PROVE  Append(SubSeq(s, 1, Len(s) - 1), s[Len(s)]) = s
<1> DEFINE f == SubSeq(s, 1, Len(s) - 1)
           e == s[Len(s)]
<1>1. e \in S /\ f \in Seq(S)
  BY LastType, FrontType, Zenon
<1>2. Len(s) \in Nat /\ Len(s) # 0
  OBVIOUS
<1>3. Len(f) = Len(s) - 1 /\ \A k \in 1 .. Len(s) - 1 : f[k] = s[k]
  BY <1>1, SeqElements
<1> HIDE DEF f
<1>4. /\ Append(f, e) \in Seq(S) /\ Len(Append(f, e)) = Len(f) + 1
      /\ \A k \in 1 .. Len(f) : Append(f, e)[k] = f[k]
      /\ Append(f, e)[Len(f) + 1] = e
  BY <1>1, SeqElements
<1>5. Len(Append(f, e)) = Len(s) /\ Len(f) + 1 = Len(s)
  BY <1>2, <1>3, <1>4
<1>6. ASSUME NEW k \in 1 .. Len(s) PROVE Append(f, e)[k] = s[k]
  <2>1. CASE k = Len(s)
    BY <1>4, <1>5, <2>1, Zenon
  <2>2. CASE k # Len(s)
    <3>1. k \in 1 .. Len(s) - 1
      BY <1>2, <2>2
    <3> QED BY <1>3, <1>4, <3>1, Zenon
  <2> QED BY <2>1, <2>2, Zenon
<1>7. Append(f, e) = s
  BY <1>4, <1>5, <1>6, SameElements, Zenon
<1> QED BY <1>7, Zenon DEF f

\* Dropping what has been appended.
LEMMA DropAppended ==
  ASSUME NEW S, NEW s \in Seq(S), NEW e \in S
  PROVE  SubSeq(Append(s, e), 1, Len(Append(s, e)) - 1) = s
<1> DEFINE a == Append(s, e)
<1>1. a \in Seq(S) /\ Len(a) = Len(s) + 1 /\ Len(s) \in Nat /\ a # <<>>
      /\ \A k \in 1 .. Len(s) : a[k] = s[k]
  BY SeqElements
<1> HIDE DEF a
<1>2. /\ SubSeq(a, 1, Len(a) - 1) \in Seq(S) /\ Len(SubSeq(a, 1, Len(a) - 1)) = Len(a) - 1
      /\ \A k \in 1 .. Len(a) - 1 : SubSeq(a, 1, Len(a) - 1)[k] = a[k]
  BY <1>1, FrontType, SeqElements
<1>3. Len(a) - 1 = Len(s)
  BY <1>1
<1>4. SubSeq(a, 1, Len(a) - 1) = s
  BY <1>1, <1>2, <1>3, SameElements, Zenon
<1> QED BY <1>4, Zenon DEF a

\* The stacks of the two threads are those the mapping mixes.
LEMMA StackMixes ==
  /\ LocalStack = Mix(acts[Lib], acts[Main])
  /\ LocalStack' = Mix(acts'[Lib], acts'[Main])
BY Zenon DEF LocalStack, Mix

\* A handler or callback that starts is a call of LocalCalls.
LEMMA StartsLocally ==
  ASSUME Threads = {Main}, TypeOK, NEW a \in Actors, NEW msg \in Messages,
         msg.code \in CallCodes, OnTheWay(Other(a), msg),
         acts' = [acts EXCEPT ![a] = Append(@, [code |-> msg.code, id |-> msg.id])]
  PROVE  Local!Next
<1> DEFINE x == [code |-> msg.code, id |-> msg.id]
<1>1. PICK b \in Actors :
        /\ b # a /\ Other(a) = b /\ Other(b) = a
        /\ (a = Lib /\ b = Main /\ Lib # Main) \/ (a = Main /\ b = Lib /\ Lib # Main)
  BY Pair, Zenon
<1>2. msg.code \in CodesOf(b) /\ Levels(b = Lib)
  BY <1>1, CodeKinds, Zenon DEF OnTheWay, Crossing
<1>3. /\ acts[a] \in Seq(Activations) /\ acts[b] \in Seq(Activations) /\ x \in Activations
      /\ acts'[a] = Append(acts[a], x) /\ acts'[b] = acts[b] /\ x.code = msg.code
  BY <1>1, RecordTypes, ZenonT(60) DEF TypeOK
<1> HIDE DEF x
<1>4. Len(acts[a]) \in Nat /\ Len(acts[b]) \in Nat
  BY <1>3
<1>5. LocalStack' = Append(LocalStack, x.code) /\ x.code \in Local!Callable
  <2>1. CASE a = Lib
    <3>1. b = Main /\ Lib # Main /\ Len(acts[a]) = Len(acts[b]) + 0
      BY <1>1, <1>2, <2>1, Zenon DEF Levels
    <3>0. LocalStack = Mix(acts[a], acts[b]) /\ LocalStack' = Mix(Append(acts[a], x), acts[b])
      BY <1>3, <2>1, <3>1, StackMixes, ZenonT(60)
    <3>2. Len(acts[a]) = Len(acts[b])
      BY <1>4, <3>1
    <3>3. LocalStack' = Append(LocalStack, x.code)
      BY <1>3, <3>0, <3>2, PushLibrary, Zenon
    <3>4. Len(LocalStack) = Len(acts[a]) + Len(acts[b])
      BY <1>3, <3>0, <3>2, MixType, ZenonT(30)
    <3>5. Len(LocalStack) % 2 = 0
      BY <1>4, <3>2, <3>4, NextPosition, Zenon
    <3>6. x.code \in ProgramCodes
      BY <1>2, <1>3, <3>1, Zenon DEF CodesOf
    <3> QED BY <3>3, <3>5, <3>6, ZenonT(60) DEF Local!Callable
  <2>2. CASE a # Lib
    <3>1. a = Main /\ b = Lib /\ Len(acts[b]) = Len(acts[a]) + 1
      BY <1>1, <1>2, <2>2, Zenon DEF Levels
    <3>0. LocalStack = Mix(acts[b], acts[a]) /\ LocalStack' = Mix(acts[b], Append(acts[a], x))
      BY <1>3, <3>1, StackMixes, Zenon
    <3>2. LocalStack' = Append(LocalStack, x.code)
      BY <1>3, <3>0, <3>1, PushProgram, Zenon
    <3>3. Len(LocalStack) = Len(acts[b]) + Len(acts[a])
      BY <1>3, <3>0, <3>1, MixType, ZenonT(30)
    <3>4. Len(LocalStack) = Len(acts[a]) + Len(acts[a]) + 1
      BY <1>4, <3>1, <3>3, SMTT(60)
    <3>5. Len(LocalStack) % 2 # 0
      BY <1>4, <3>4, NextPosition, Zenon
    <3>6. x.code \in LibraryCodes
      BY <1>2, <1>3, <3>1, Zenon DEF CodesOf
    <3> QED BY <3>2, <3>5, <3>6, Zenon DEF Local!Callable
  <2> QED BY <2>1, <2>2, Zenon
<1> QED BY <1>5, Zenon DEF Local!Next, Local!Call

\* A handler or callback that returns is a return of LocalCalls.
LEMMA ReturnsLocally ==
  ASSUME Threads = {Main}, TypeOK, OneThreadInv, NEW a \in Actors, FinishHandler(a)
  PROVE  Local!Next
<1> DEFINE x == acts[a][Len(acts[a])]
           f == SubSeq(acts[a], 1, Len(acts[a]) - 1)
<1>1. PICK b \in Actors :
        /\ b # a /\ Other(a) = b /\ Other(b) = a
        /\ (a = Lib /\ b = Main /\ Lib # Main) \/ (a = Main /\ b = Lib /\ Lib # Main)
  BY Pair, Zenon
<1>2. acts[a] # <<>> /\ Levels(a = Lib)
  BY Zenon DEF FinishHandler, OneThreadInv, HolderInv, Balanced
<1>3. /\ acts[a] \in Seq(Activations) /\ acts[b] \in Seq(Activations)
      /\ acts'[a] = f /\ acts'[b] = acts[b]
  BY <1>1, Zenon DEF TypeOK, FinishHandler
<1>4. x \in Activations /\ f \in Seq(Activations) /\ Append(f, x) = acts[a]
  BY <1>2, <1>3, LastType, FrontType, FrontAndLast, ZenonT(60)
<1> HIDE DEF x, f
<1>5. Len(acts[b]) \in Nat /\ Len(f) \in Nat /\ Len(acts[a]) = Len(f) + 1
  <2>1. Len(Append(f, x)) = Len(f) + 1 /\ Len(f) \in Nat
    BY <1>4
  <2>2. Len(acts[b]) \in Nat
    BY <1>3
  <2> QED BY <1>4, <2>1, <2>2, Zenon
<1>6. /\ LocalStack' \in Seq(CallCodes) /\ LocalStack = Append(LocalStack', x.code)
  <2>1. CASE a = Lib
    <3>1. b = Main /\ Lib # Main /\ Len(acts[a]) = Len(acts[b]) + 1
      BY <1>1, <1>2, <2>1, Zenon DEF Levels
    <3>2. Len(f) = Len(acts[b])
      BY <1>5, <3>1
    <3>3. LocalStack' = Mix(f, acts[b]) /\ LocalStack = Mix(Append(f, x), acts[b])
      BY <1>3, <1>4, <2>1, <3>1, StackMixes, Zenon
    <3> QED BY <1>3, <1>4, <3>2, <3>3, PushLibrary, MixType, ZenonT(60)
  <2>2. CASE a # Lib
    <3>1. a = Main /\ b = Lib /\ Len(acts[b]) = Len(acts[a]) + 0
      BY <1>1, <1>2, <2>2, Zenon DEF Levels
    <3>2. Len(acts[b]) = Len(f) + 1
      BY <1>5, <3>1
    <3>3. LocalStack' = Mix(acts[b], f) /\ LocalStack = Mix(acts[b], Append(f, x))
      BY <1>3, <1>4, <3>1, StackMixes, Zenon
    <3> QED BY <1>3, <1>4, <3>2, <3>3, PushProgram, MixType, ZenonT(60)
  <2> QED BY <2>1, <2>2, Zenon
<1>7. x.code \in CallCodes
  BY <1>4, Zenon DEF Activations
<1>8. SubSeq(LocalStack, 1, Len(LocalStack) - 1) = LocalStack'
  BY <1>6, <1>7, DropAppended, Zenon
<1>9. LocalStack # <<>>
  <2>1. Append(LocalStack', x.code) # <<>>
    BY <1>6, <1>7, SMTT(60)
  <2> QED BY <1>6, <2>1, Zenon
<1> QED BY <1>8, <1>9, Zenon DEF Local!Next, Local!Return

\* The other steps do not change the mixed stack.
LEMMA StepsLocally ==
  ASSUME Threads = {Main}, TypeOK, OneThreadInv, [Next]_vars
  PROVE  Local!Next \/ LocalStack' = LocalStack
<1>1. ASSUME acts' = acts PROVE LocalStack' = LocalStack
  BY <1>1, Zenon DEF LocalStack
<1>2. ASSUME NEW a \in Actors, Receive(a) PROVE Local!Next \/ LocalStack' = LocalStack
  <2>1. mail[Side(a)] \in Messages /\ OnTheWay(Other(a), mail[Side(a)])
    BY <1>2, TwoThreads, ZenonT(60) DEF Receive, OneThreadInv, HolderInv, TypeOK
  <2>2. CASE mail[Side(a)].code \in KeepLockCodes
    <3>1. acts' = [acts EXCEPT ![a] = Append(@, [code |-> mail[Side(a)].code, id |-> mail[Side(a)].id])]
      BY <1>2, <2>2, Zenon DEF Receive, TakeMessage
    <3> QED BY <2>1, <2>2, <3>1, CodeTypes, StartsLocally, Zenon
  <2>3. CASE mail[Side(a)].code \notin KeepLockCodes
    BY <1>1, <1>2, <2>3, Zenon DEF Receive, TakeMessage
  <2> QED BY <2>2, <2>3, Zenon
<1>3. ASSUME NEW a \in Actors, Dispatch(a) PROVE Local!Next
  <2>1. /\ rcv[a] \in Messages /\ rcv[a].code \in CallCodes /\ OnTheWay(Other(a), rcv[a])
        /\ acts' = [acts EXCEPT ![a] = Append(@, [code |-> rcv[a].code, id |-> rcv[a].id])]
    BY <1>3, Zenon DEF Dispatch, OneThreadInv, HolderInv, TypeOK
  <2> QED BY <2>1, StartsLocally, Zenon
<1>4. ASSUME NEW a \in Actors, Step(a) PROVE Local!Next \/ LocalStack' = LocalStack
  BY <1>1, <1>2, <1>3, <1>4, ZenonT(60) DEF Step, LockSending, Fill, PostRequest, PostResponse,
     ReceiveRemoved, UnlockSending, ReturnFromCall, ObeyRemoteExit
<1>5. ASSUME NEW a \in Actors, UserCode(a) PROVE Local!Next \/ LocalStack' = LocalStack
  BY <1>1, <1>5, ReturnsLocally, Zenon DEF UserCode, Call, SetErrno
<1>6. ASSUME Ending PROVE LocalStack' = LocalStack
  BY <1>1, <1>6, Zenon DEF Ending, ProgramExit, ProgramExited, LibraryThrow, LibraryDies, Kill,
     IntermediateParentDied, IntermediateChildDied, LibraryParentDied, control
<1>7. CASE UNCHANGED vars
  BY <1>1, <1>7, Zenon DEF vars
<1> QED BY <1>4, <1>5, <1>6, <1>7, Zenon DEF Next, Over

\* A program with one thread that is split in two processes behaves as the
\* original one, as far as it gets when a process ends.
THEOREM Implements == ASSUME Threads = {Main} PROVE Spec => BehavesLocally
<1>1. Init => Local!Init
  <2> SUFFICES ASSUME Init PROVE LocalStack = <<>>
    BY Zenon DEF Local!Init
  <2>1. acts[Lib] = <<>> /\ acts[Main] = <<>>
    BY TwoThreads, Zenon DEF Init
  <2>2. <<>> \in Seq(Activations) /\ Len(<<>>) = 0
    OBVIOUS
  <2>3. LocalStack \in Seq(CallCodes) /\ Len(LocalStack) = Len(<<>>) + Len(<<>>)
    BY <2>1, <2>2, MixType, StackMixes, Zenon
  <2> QED BY <2>2, <2>3
<1>2. TypeOK /\ OneThreadInv /\ [Next]_vars => [Local!Next]_LocalStack
  BY StepsLocally, Zenon
<1> QED BY <1>1, <1>2, TypeCorrect, TakeTurns, PTL DEF Spec, BehavesLocally, Local!Spec
=============================================================================
