------------------------- MODULE MCIpcCommunication -------------------------
(***************************************************************************)
(* Instances of IpcCommunication for TLC, and the refinement mapping of    *)
(* the single-threaded instance to LocalCalls.                             *)
(***************************************************************************)
EXTENDS IpcCommunication, TLC

\* The program calls a function (9) and an internal function (3); the library
\* calls a callback (2) and the last internal function (8).
MCProgramCodes == {3, 9}
MCLibraryCodes == {2, 8}

\* The threads of the program are interchangeable.
ThreadSymmetry == Permutations(Threads)

\* The only program thread of the instances that use the mapping.
Main == CHOOSE t \in Threads : TRUE

\* The handlers of the two processes, interleaved: the program calls first.
LocalStack ==
  [k \in 1 .. Len(acts[Lib]) + Len(acts[Main]) |->
     IF k % 2 = 1 THEN acts[Lib][(k + 1) \div 2].code ELSE acts[Main][k \div 2].code]

Local == INSTANCE LocalCalls WITH stack <- LocalStack

\* A program split in two processes behaves as the original one: a call runs
\* one function of the other side, calls and callbacks nest across the process
\* boundary, and every return ends the function that was called last.
BehavesLocally == Local!Spec

\* A call or return on its way carries the errno its sender had when it posted
\* it, so that there is one errno for the code on both sides, as in one process.
\* "Remote exit" (-1), after which the program exits, carries none.
ErrnoTravels ==
  /\ sem["library"] > 0 => mail["library"].errno = errno[Main]
  /\ sem["program"] > 0 /\ mail["program"].code # -1 => mail["program"].errno = errno[Lib]

-----------------------------------------------------------------------------
\* With one program thread the invariants above follow from whose turn it is:
\* at most one of the two threads executes code or has a message waiting for
\* it.
Other(a) == IF a = Lib THEN Main ELSE Lib
Active(a) == pc[a] \in {"run", "lock", "fill", "post", "unlock", "got", "serve"}
HasTurn(a) == Active(a) \/ sem[Side(a)] > 0

TurnInv ==
  \A a \in Actors :
    /\ HasTurn(a) => ~HasTurn(Other(a))
    /\ sem[Side(a)] > 0 => sem[Side(a)] = 1 /\ ~Active(a)

\* How deep the handlers of the two threads are nested when every call has
\* arrived where "lib" says: in the library, or in the program.
Levels(lib) == Len(acts[Lib]) = Len(acts[Main]) + (IF lib THEN 1 ELSE 0)

\* The calls one thread waits for are those the other one is executing.
Balanced(a) ==
  /\ \A x \in Actors : Len(waits[x]) = Len(acts[Other(x)])
  /\ Levels(a = Lib)

\* The last call of thread w, named id, is not being executed: the request or
\* its answer is on its way.
Crossing(w, id) ==
  /\ Len(waits[w]) = Len(acts[Other(w)]) + 1
  /\ Len(waits[Other(w)]) = Len(acts[w])
  /\ id = waits[w][Len(waits[w])]
  /\ Levels(w = Lib)

\* What b may have sent: a call of its side, the answer to the last call of
\* the other thread, or (the library) the request to exit.
OnTheWay(b, msg) ==
  /\ msg.code \in CodesOf(b) \cup {RETURN, REMOTE_EXIT}
  /\ msg.code = REMOTE_EXIT => b = Lib
  /\ msg.code # REMOTE_EXIT => Crossing(IF msg.code = RETURN THEN Other(b) ELSE b, msg.id)

\* What holds at each place of the thread that has the turn.
HolderInv(a) ==
  /\ pc[a] \in {"run", "serve"} => Balanced(a)
  /\ pc[a] \in {"lock", "fill", "post"} => OnTheWay(a, out[a]) /\ out[a].code # REMOTE_EXIT
  /\ pc[a] = "post" => mail[Side(Other(a))] = [out[a] EXCEPT !.errno = errno[a]]
  /\ pc[a] \in {"unlock", "got"} => OnTheWay(Other(a), rcv[a]) /\ mail[Side(a)].id = rcv[a].id
  /\ sem[Side(a)] > 0 =>
       /\ OnTheWay(Other(a), mail[Side(a)])
       /\ mail[Side(a)].code # REMOTE_EXIT => mail[Side(a)].errno = errno[Other(a)]

\* A handler answers the call it was started for.
IdInv ==
  \A a \in Actors : \A k \in 1 .. Len(acts[a]) :
    k <= Len(waits[Other(a)]) => acts[a][k].id = waits[Other(a)][k]

OneThreadInv == TurnInv /\ (\A a \in Actors : HolderInv(a)) /\ IdInv
=============================================================================
