-------------------------- MODULE FileDescriptors --------------------------
(***************************************************************************)
(* Sharing of file descriptors, libipc/file_descriptor_manager.cpp and     *)
(* file_descriptor_send.h.  Each process keeps a table local_to_remote_fd. *)
(* A descriptor that crosses the boundary for the first time is sent over  *)
(* a socket, received by the internal function receive_fd that runs in the *)
(* other process, and entered in both tables; close() closes both ends.    *)
(*                                                                         *)
(* A call of an internal function (IpcCommunication) is one step here: its *)
(* caller holds the sending direction from the request to the answer, and  *)
(* the internal functions themselves make no calls to the other side.      *)
(***************************************************************************)
EXTENDS Naturals, Sequences

CONSTANTS
  Threads,   \* the threads of both processes
  ProcOf,    \* ProcOf[t]: the process of thread t
  Concurrent,\* do several threads run at the same time?
  Files,     \* the open file descriptions that may come to exist
  NoFile,
  Opener,    \* Opener[f]: the process that opens f
  Std,       \* descriptors 0, 1, 2: those mapped from the start
  MaxFD      \* bound: the highest descriptor number

Procs == {"program", "library"}
FDs == 0 .. MaxFD
NotSet == MaxFD + 1
Peer(p) == IF p = "program" THEN "library" ELSE "program"

ASSUME DescriptorAssumption ==
  /\ ProcOf \in [Threads -> Procs] /\ Concurrent \in BOOLEAN
  /\ NoFile \notin Files /\ Opener \in [Files -> Procs] /\ MaxFD \in Nat /\ Std \subseteq FDs

VARIABLES
  open,   \* open[p][fd]: the file behind a descriptor of process p, or NoFile
  remote, \* remote[p][fd]: local_to_remote_fd of process p
  socket, \* socket[p]: the files sent to process p and not received yet
  pc,     \* pc[t]: where thread t is
  arg,    \* arg[t]: the descriptor thread t shares or closes
  result  \* result[t]: the descriptor of the other process

vars == <<open, remote, socket, pc, arg, result>>

PCs == {"idle", "sent", "unsent", "received", "shared", "closing", "closeRemote"}

TypeOK ==
  /\ open \in [Procs -> [FDs -> Files \cup {NoFile}]]
  /\ remote \in [Procs -> [FDs -> FDs \cup {NotSet}]]
  /\ socket \in [Procs -> Seq(Files)]
  /\ pc \in [Threads -> PCs]
  /\ arg \in [Threads -> FDs] /\ result \in [Threads -> FDs \cup {NotSet}]

\* The library process has inherited the descriptors in Std.
Init ==
  /\ \E f \in [Std -> Files] :
       /\ \A a \in Std : Opener[f[a]] = "program"
       /\ \A a, b \in Std : a # b => f[a] # f[b]
       /\ open = [p \in Procs |-> [d \in FDs |-> IF d \in Std THEN f[d] ELSE NoFile]]
  /\ remote = [p \in Procs |-> [d \in FDs |-> IF d \in Std THEN d ELSE NotSet]]
  /\ socket = [p \in Procs |-> <<>>]
  /\ pc = [t \in Threads |-> "idle"]
  /\ arg = [t \in Threads |-> 0] /\ result = [t \in Threads |-> NotSet]

Mine(t) == ProcOf[t]
Other(t) == Peer(ProcOf[t])
Goto(t, l) == pc' = [pc EXCEPT ![t] = l]
Idle(t) == pc[t] = "idle" /\ (Concurrent \/ \A u \in Threads : pc[u] = "idle")
Done(t) == Goto(t, "idle") /\ arg' = [arg EXCEPT ![t] = 0]
                           /\ result' = [result EXCEPT ![t] = NotSet]

\* The kernel gives out the lowest free number.
Unused(p) == {d \in FDs : open[p][d] = NoFile}
Lowest(p, d) == d \in Unused(p) /\ \A e \in Unused(p) : d <= e
Fresh(f) == \A p \in Procs : /\ \A d \in FDs : open[p][d] # f
                             /\ \A i \in 1 .. Len(socket[p]) : socket[p][i] # f

-----------------------------------------------------------------------------
\* open()
Open(t, f) ==
  /\ Idle(t) /\ Opener[f] = Mine(t) /\ Fresh(f)
  /\ \E d \in FDs : Lowest(Mine(t), d) /\ open' = [open EXCEPT ![Mine(t)][d] = f]
  /\ UNCHANGED <<remote, socket, pc, arg, result>>

\* mapToOtherSide(): a descriptor that is in the table is not sent again.
ShareKnown(t, d) ==
  /\ Idle(t) /\ open[Mine(t)][d] # NoFile /\ remote[Mine(t)][d] # NotSet
  /\ arg' = [arg EXCEPT ![t] = d]
  /\ result' = [result EXCEPT ![t] = remote[Mine(t)][d]]
  /\ Goto(t, "shared")
  /\ UNCHANGED <<open, remote, socket>>

Send(t, d) ==
  /\ Idle(t) /\ open[Mine(t)][d] # NoFile /\ remote[Mine(t)][d] = NotSet
  /\ socket' = [socket EXCEPT ![Other(t)] = Append(@, open[Mine(t)][d])]
  /\ arg' = [arg EXCEPT ![t] = d]
  /\ Goto(t, "sent")
  /\ UNCHANGED <<open, remote, result>>

\* sendfd() fails: the number is passed on as it is.
SendFails(t, d) ==
  /\ Idle(t) /\ open[Mine(t)][d] # NoFile /\ remote[Mine(t)][d] = NotSet
  /\ arg' = [arg EXCEPT ![t] = d]
  /\ result' = [result EXCEPT ![t] = d]
  /\ Goto(t, "unsent")
  /\ UNCHANGED <<open, remote, socket>>

\* Mutant: the receiver does not enter the descriptor in its table.
MutantEntered(p, d, r) == remote
Entered(p, d, r) == [remote EXCEPT ![p][d] = r]

\* The call of internal_receive_fd() -> fromOtherSide() in the other process.
ReceiveFd(t) ==
  LET p == Other(t) IN
  /\ pc[t] = "sent"
  /\ \E d \in FDs :
       /\ Lowest(p, d)
       /\ open' = [open EXCEPT ![p][d] = Head(socket[p])]
       /\ remote' = Entered(p, d, arg[t])
       /\ result' = [result EXCEPT ![t] = d]
  /\ socket' = [socket EXCEPT ![p] = Tail(@)]
  /\ Goto(t, "received")
  /\ UNCHANGED arg

\* The rest of mapToOtherSide().
Record(t) ==
  /\ pc[t] = "received"
  /\ remote' = [remote EXCEPT ![Mine(t)][arg[t]] = result[t]]
  /\ Goto(t, "shared")
  /\ UNCHANGED <<open, socket, arg, result>>

\* The stub passes the result on as parameter or return value.
Pass(t) ==
  /\ pc[t] \in {"shared", "unsent"}
  /\ Done(t)
  /\ UNCHANGED <<open, remote, socket>>

\* A thread of process p is sharing descriptor d.
InUse(p, d) ==
  \E t \in Threads : Mine(t) = p /\ arg[t] = d /\ pc[t] \in {"sent", "unsent", "received", "shared"}

\* close(): the descriptor is closed, and only then taken out of the table.
\* No thread closes a descriptor that another one is passing on.
Close(t, d) ==
  /\ Idle(t) /\ open[Mine(t)][d] # NoFile /\ ~InUse(Mine(t), d)
  /\ open' = [open EXCEPT ![Mine(t)][d] = NoFile]
  /\ arg' = [arg EXCEPT ![t] = d]
  /\ Goto(t, "closing")
  /\ UNCHANGED <<remote, socket, result>>

\* onCloseLocal() with propagation.
OnCloseUnknown(t) ==
  /\ pc[t] = "closing" /\ remote[Mine(t)][arg[t]] = NotSet
  /\ Done(t)
  /\ UNCHANGED <<open, remote, socket>>

\* Mutant: the entry stays in the table.
MutantForget(t) == remote
Forget(t) == [remote EXCEPT ![Mine(t)][arg[t]] = NotSet]

OnClose(t) ==
  /\ pc[t] = "closing" /\ remote[Mine(t)][arg[t]] # NotSet
  /\ result' = [result EXCEPT ![t] = remote[Mine(t)][arg[t]]]
  /\ remote' = Forget(t)
  /\ Goto(t, "closeRemote")
  /\ UNCHANGED <<open, socket, arg>>

\* Mutant: the other process forgets the descriptor and does not close it.
MutantClosed(t) == open
Closed(t) == [open EXCEPT ![Other(t)][result[t]] = NoFile]

\* The call of internal_close_fd() in the other process.
CloseRemote(t) ==
  /\ pc[t] = "closeRemote"
  /\ remote' = [remote EXCEPT ![Other(t)][result[t]] = NotSet]
  /\ open' = Closed(t)
  /\ Done(t)
  /\ UNCHANGED socket

Next ==
  \E t \in Threads :
    \/ \E f \in Files : Open(t, f)
    \/ \E d \in FDs : ShareKnown(t, d) \/ Send(t, d) \/ SendFails(t, d) \/ Close(t, d)
    \/ ReceiveFd(t) \/ Record(t) \/ Pass(t)
    \/ OnCloseUnknown(t) \/ OnClose(t) \/ CloseRemote(t)

Spec == Init /\ [][Next]_vars

-----------------------------------------------------------------------------
Quiet == \A t \in Threads : pc[t] = "idle"

\* The number passed to the other process names the same open file there,
\* unless the socket has failed.
SharedIsSame ==
  \A t \in Threads : pc[t] = "shared" =>
    /\ result[t] # NotSet
    /\ open[Mine(t)][arg[t]] = open[Other(t)][result[t]]

\* Between operations the two tables are inverse to each other, and a pair of
\* descriptors in them is open, at both ends, on the same file.
TablesAgree ==
  Quiet => \A p \in Procs, d \in FDs : remote[p][d] # NotSet =>
             /\ remote[Peer(p)][remote[p][d]] = d
             /\ open[p][d] # NoFile /\ open[p][d] = open[Peer(p)][remote[p][d]]

\* Between operations a descriptor that a process has received is in its
\* table: what one end has closed does not stay open at the other, and no file
\* is in flight.
NoStrayDuplicate ==
  Quiet => \A p \in Procs :
    /\ \A d \in FDs : open[p][d] # NoFile /\ Opener[open[p][d]] # p => remote[p][d] # NotSet
    /\ socket[p] = <<>>
=============================================================================
