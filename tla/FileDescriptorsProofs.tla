----------------------- MODULE FileDescriptorsProofs -----------------------
(***************************************************************************)
(* Sharing of descriptors is correct for any files, descriptor numbers and *)
(* threads, as long as one thread at a time is in an operation.  The       *)
(* inductive invariant says what the tables look like in the middle of one.*)
(***************************************************************************)
EXTENDS FileDescriptors, TLAPS

\* One thread runs at a time.
Turns == ~Concurrent

\* One thread at a time is in an operation.
Alone == \A t, u \in Threads : pc[t] # "idle" /\ pc[u] # "idle" => t = u

\* Descriptor d of process p and e of the other one are a pair that is being
\* entered in the tables, or taken out of them.
Partial(p, d, e) ==
  \E t \in Threads :
    \/ /\ pc[t] = "received"
       /\ p = Other(t) /\ d = result[t] /\ e = arg[t]
    \/ /\ pc[t] = "closing"
       /\ \/ p = Mine(t) /\ d = arg[t] /\ e = remote[p][d]
          \/ p = Other(t) /\ d = remote[Mine(t)][arg[t]] /\ e = arg[t]
    \/ /\ pc[t] = "closeRemote"
       /\ p = Other(t) /\ d = result[t] /\ e = arg[t]

\* Every entry of a table has its counterpart, and the two name one open file,
\* or it is one of a pair in transition.
EntriesInv ==
  \A p \in Procs, d \in FDs : remote[p][d] # NotSet =>
    \/ /\ remote[Peer(p)][remote[p][d]] = d
       /\ open[p][d] # NoFile /\ open[p][d] = open[Peer(p)][remote[p][d]]
    \/ Partial(p, d, remote[p][d])

\* What a thread in the middle of an operation relies on.
ThreadInv ==
  \A t \in Threads :
    /\ pc[t] \in {"sent", "received"} =>
         open[Mine(t)][arg[t]] # NoFile /\ remote[Mine(t)][arg[t]] = NotSet
    /\ pc[t] = "sent" => socket[Other(t)] = <<open[Mine(t)][arg[t]]>> /\ socket[Mine(t)] = <<>>
    /\ pc[t] = "received" =>
         /\ result[t] # NotSet /\ remote[Other(t)][result[t]] = arg[t]
         /\ open[Other(t)][result[t]] = open[Mine(t)][arg[t]]
    /\ pc[t] = "shared" =>
         /\ result[t] # NotSet
         /\ open[Mine(t)][arg[t]] = open[Other(t)][result[t]]
    /\ pc[t] = "closing" =>
         /\ open[Mine(t)][arg[t]] = NoFile
         /\ remote[Mine(t)][arg[t]] # NotSet =>
              /\ remote[Other(t)][remote[Mine(t)][arg[t]]] = arg[t]
              /\ open[Other(t)][remote[Mine(t)][arg[t]]] # NoFile
    /\ pc[t] = "closeRemote" =>
         /\ open[Mine(t)][arg[t]] = NoFile /\ remote[Mine(t)][arg[t]] = NotSet
         /\ result[t] # NotSet /\ remote[Other(t)][result[t]] = arg[t]
         /\ open[Other(t)][result[t]] # NoFile

\* A descriptor of a file that the other process has opened is in the table.
StrayInv ==
  \A p \in Procs, d \in FDs : open[p][d] # NoFile /\ Opener[open[p][d]] # p => remote[p][d] # NotSet

\* Nothing is in flight unless a thread is about to have it received.
SocketInv == (\A t \in Threads : pc[t] # "sent") => \A p \in Procs : socket[p] = <<>>

\* The inductive invariant.
DescriptorInv ==
  TypeOK /\ Alone /\ EntriesInv /\ ThreadInv /\ StrayInv /\ SocketInv
-----------------------------------------------------------------------------
\* There are two processes.
LEMMA Peers ==
  /\ \A p \in Procs : Peer(p) \in Procs /\ Peer(p) # p /\ Peer(Peer(p)) = p
  /\ \A p, q \in Procs : p # q => q = Peer(p)
  /\ \A t \in Threads : Mine(t) \in Procs /\ Other(t) \in Procs /\ Other(t) = Peer(Mine(t))
BY DescriptorAssumption, Zenon DEF Procs, Peer, Mine, Other

\* FileDescriptor_NOTSET is no descriptor.
LEMMA NotSetIsNone == NotSet \notin FDs
BY DescriptorAssumption DEF NotSet, FDs

\* The first state satisfies the invariant.
LEMMA InitInv ==
  ASSUME Init
  PROVE  DescriptorInv
<1> USE DescriptorAssumption, Peers, NotSetIsNone DEF Init
<1>0. PICK f \in [Std -> Files] :
        /\ \A a \in Std : Opener[f[a]] = "program"
        /\ open = [p \in Procs |-> [d \in FDs |-> IF d \in Std THEN f[d] ELSE NoFile]]
  BY Zenon
<1>1. TypeOK
  <2>1. 0 \in FDs BY DEF FDs
  <2>2. open \in [Procs -> [FDs -> Files \cup {NoFile}]] BY <1>0, Zenon
  <2>3. remote \in [Procs -> [FDs -> FDs \cup {NotSet}]] BY Zenon
  <2> QED BY <2>1, <2>2, <2>3 DEF TypeOK, PCs
<1>2. EntriesInv
  BY <1>0 DEF EntriesInv
<1>3. StrayInv
  BY <1>0, ZenonT(60) DEF StrayInv
<1> QED BY <1>1, <1>2, <1>3, Zenon DEF DescriptorInv, Alone, ThreadInv, SocketInv

\* Steps keep the types.
LEMMA TypeStep ==
  ASSUME TypeOK, ThreadInv, [Next]_vars
  PROVE  TypeOK'
<1> USE DescriptorAssumption, Peers, NotSetIsNone DEF TypeOK, PCs
<1>0. 0 \in FDs BY DEF FDs
<1>1. CASE UNCHANGED vars BY <1>1, Zenon DEF vars
<1>2. ASSUME NEW t \in Threads, NEW f \in Files, Open(t, f) PROVE TypeOK'
  BY <1>2 DEF Open
<1>3. ASSUME NEW t \in Threads, NEW d \in FDs,
             ShareKnown(t, d) \/ Send(t, d) \/ SendFails(t, d) \/ Close(t, d)
      PROVE  TypeOK'
  <2>1. CASE ShareKnown(t, d) BY <2>1, SMTT(60) DEF ShareKnown, Goto
  <2>2. CASE Send(t, d)
    <3>1. Append(socket[Other(t)], open[Mine(t)][d]) \in Seq(Files) BY <2>2 DEF Send
    <3> QED BY <2>2, <3>1, Zenon DEF Send, Goto
  <2>3. CASE SendFails(t, d) BY <2>3, Zenon DEF SendFails, Goto
  <2>4. CASE Close(t, d) BY <2>4, ZenonT(60) DEF Close, Goto
  <2> QED BY <1>3, <2>1, <2>2, <2>3, <2>4, Zenon
<1>4. ASSUME NEW t \in Threads, ReceiveFd(t) PROVE TypeOK'
  <2>1. socket[Other(t)] = <<open[Mine(t)][arg[t]]>> /\ open[Mine(t)][arg[t]] \in Files
    BY <1>4 DEF ReceiveFd, ThreadInv
  <2>2. Head(socket[Other(t)]) \in Files /\ Tail(socket[Other(t)]) = <<>> BY <2>1
  <2>3. PICK d \in FDs :
          /\ open' = [open EXCEPT ![Other(t)][d] = Head(socket[Other(t)])]
          /\ remote' = [remote EXCEPT ![Other(t)][d] = arg[t]]
          /\ result' = [result EXCEPT ![t] = d]
    BY <1>4, Zenon DEF ReceiveFd, Entered
  <2>4. open' \in [Procs -> [FDs -> Files \cup {NoFile}]] BY <2>2, <2>3, Zenon
  <2>5. remote' \in [Procs -> [FDs -> FDs \cup {NotSet}]] BY <2>3, Zenon
  <2>6. socket' \in [Procs -> Seq(Files)]
    <3>1. socket' = [socket EXCEPT ![Other(t)] = Tail(socket[Other(t)])] BY <1>4, Zenon DEF ReceiveFd
    <3>2. <<>> \in Seq(Files) OBVIOUS
    <3> QED BY <2>2, <3>1, <3>2, Zenon
  <2> QED BY <1>4, <2>3, <2>4, <2>5, <2>6, Zenon DEF ReceiveFd, Goto
<1>5. ASSUME NEW t \in Threads, Record(t) PROVE TypeOK'
  <2>1. remote' \in [Procs -> [FDs -> FDs \cup {NotSet}]] BY <1>5, Zenon DEF Record
  <2> QED BY <1>5, <2>1, Zenon DEF Record, Goto
<1>6. ASSUME NEW t \in Threads, Pass(t) \/ OnCloseUnknown(t) PROVE TypeOK'
  <2>1. Done(t) /\ UNCHANGED <<open, remote, socket>> BY <1>6, Zenon DEF Pass, OnCloseUnknown
  <2> QED BY <1>0, <2>1, Zenon DEF Done, Goto
<1>7. ASSUME NEW t \in Threads, OnClose(t) PROVE TypeOK'
  <2>1. remote' \in [Procs -> [FDs -> FDs \cup {NotSet}]] BY <1>7 DEF OnClose, Forget
  <2> QED BY <1>7, <2>1 DEF OnClose, Goto
<1>8. ASSUME NEW t \in Threads, CloseRemote(t) PROVE TypeOK'
  <2>1. remote' \in [Procs -> [FDs -> FDs \cup {NotSet}]] BY <1>8, Zenon DEF CloseRemote
  <2>2. open' \in [Procs -> [FDs -> Files \cup {NoFile}]] BY <1>8, Zenon DEF CloseRemote, Closed
  <2> QED BY <1>0, <1>8, <2>1, <2>2, Zenon DEF CloseRemote, Done, Goto
<1> QED BY <1>1, <1>2, <1>3, <1>4, <1>5, <1>6, <1>7, <1>8, Zenon DEF Next

\* A thread takes a step only if the others are idle.
LEMMA OthersIdle ==
  ASSUME Turns, TypeOK, Alone, NEW t \in Threads, pc[t] # "idle" \/ Idle(t)
  PROVE  \A u \in Threads : u # t => pc[u] = "idle"
BY Zenon DEF Turns, Alone, Idle

\* If only t is in an operation, only t makes a pair partial.
LEMMA PartialOf ==
  ASSUME NEW t \in Threads, \A u \in Threads : u # t => pc[u] = "idle",
         NEW p, NEW d, NEW e, Partial(p, d, e)
  PROVE  \/ pc[t] \in {"received", "closeRemote"} /\ p = Other(t) /\ d = result[t] /\ e = arg[t]
         \/ pc[t] = "closing" /\ p = Mine(t) /\ d = arg[t] /\ e = remote[p][d]
         \/ pc[t] = "closing" /\ p = Other(t) /\ d = remote[Mine(t)][arg[t]] /\ e = arg[t]
BY Zenon DEF Partial

\* The two ends of the pair that t is closing.
LEMMA PartialClosing ==
  ASSUME NEW t \in Threads, \A u \in Threads : u # t => pc[u] = "idle", pc[t] = "closing",
         NEW p, NEW d, NEW e, Partial(p, d, e)
  PROVE  (p = Mine(t) /\ d = arg[t]) \/ (p = Other(t) /\ d = remote[Mine(t)][arg[t]])
<1>1. PICK u \in Threads :
        \/ pc[u] \in {"received", "closeRemote"}
        \/ /\ pc[u] = "closing"
           /\ \/ p = Mine(u) /\ d = arg[u]
              \/ p = Other(u) /\ d = remote[Mine(u)][arg[u]]
  BY Zenon DEF Partial
<1>2. u = t BY <1>1, Zenon
<1> QED BY <1>1, <1>2, Zenon

\* What the invariant says when no thread is in an operation, or only t.
LEMMA Entry ==
  ASSUME NEW t \in Threads, \A u \in Threads : u # t => pc[u] = "idle",
         pc[t] \notin {"received", "closing", "closeRemote"}, EntriesInv,
         NEW p \in Procs, NEW d \in FDs, remote[p][d] # NotSet
  PROVE  /\ remote[Peer(p)][remote[p][d]] = d
         /\ open[p][d] # NoFile /\ open[p][d] = open[Peer(p)][remote[p][d]]
BY DEF EntriesInv, Partial

\* Starting an operation.
LEMMA BeginStep ==
  ASSUME Turns, DescriptorInv, TypeOK', NEW t \in Threads, NEW d \in FDs,
         ShareKnown(t, d) \/ Send(t, d) \/ SendFails(t, d) \/ Close(t, d)
  PROVE  DescriptorInv'
<1> USE Peers, NotSetIsNone, DescriptorAssumption DEF DescriptorInv, TypeOK
<1>1. Idle(t) /\ pc[t] = "idle" /\ open[Mine(t)][d] # NoFile
  BY Zenon DEF ShareKnown, Send, SendFails, Close, Idle
<1>2. \A u \in Threads : pc[u] = "idle" BY <1>1, OthersIdle, Zenon
<1>3. \A p \in Procs : socket[p] = <<>> BY <1>2, Zenon DEF SocketInv
<1>4. \A p \in Procs, e \in FDs : remote[p][e] # NotSet =>
         /\ remote[Peer(p)][remote[p][e]] = e
         /\ open[p][e] # NoFile /\ open[p][e] = open[Peer(p)][remote[p][e]]
  BY <1>2, Entry, Zenon
<1>5. arg' = [arg EXCEPT ![t] = d] /\ remote' = remote
  BY Zenon DEF ShareKnown, Send, SendFails, Close
<1>6. \A u \in Threads : u # t => pc'[u] = "idle"
  <2>1. \E l \in PCs : pc' = [pc EXCEPT ![t] = l]
    BY Zenon DEF ShareKnown, Send, SendFails, Close, Goto, PCs
  <2> QED BY <1>2, <2>1
<1>7. Alone' BY <1>6, Zenon DEF Alone
<1>8. CASE Close(t, d)
  <2>1. pc'[t] = "closing" /\ socket' = socket BY <1>8 DEF Close, Goto
  <2>2. open' = [open EXCEPT ![Mine(t)][d] = NoFile] BY <1>8, Zenon DEF Close
  <2>3. EntriesInv'
    <3> SUFFICES ASSUME NEW p \in Procs, NEW e \in FDs, remote[p][e] # NotSet
                 PROVE  \/ /\ remote[Peer(p)][remote[p][e]] = e
                           /\ open'[p][e] # NoFile /\ open'[p][e] = open'[Peer(p)][remote[p][e]]
                        \/ Partial(p, e, remote[p][e])'
      BY <1>5, Zenon DEF EntriesInv
    <3>1. CASE p = Mine(t) /\ e = d BY <1>5, <2>1, <3>1 DEF Partial
    <3>2. CASE p = Other(t) /\ e = remote[Mine(t)][d]
      <4>1. remote[p][e] = d BY <1>4, <3>2, SMTT(60)
      <4> QED BY <1>5, <2>1, <3>2, <4>1, Zenon DEF Partial
    <3>3. CASE ~(p = Mine(t) /\ e = d) /\ ~(p = Other(t) /\ e = remote[Mine(t)][d])
      <4>1. open'[p][e] = open[p][e] BY <2>2, <3>3, SMTT(60)
      <4>2. ~(Peer(p) = Mine(t) /\ remote[p][e] = d) BY <1>4, <3>3, SMTT(60)
      <4> QED BY <1>4, <2>2, <4>1, <4>2, SMTT(60)
    <3> QED BY <3>1, <3>2, <3>3, Zenon
  <2>4. ThreadInv'
    <3>1. remote[Mine(t)][d] # NotSet =>
            remote[Other(t)][remote[Mine(t)][d]] = d /\ open[Other(t)][remote[Mine(t)][d]] # NoFile
      BY <1>1, <1>4
    <3>2. open'[Mine(t)][d] = NoFile BY <2>2
    <3>3. open'[Other(t)] = open[Other(t)] BY <2>2
    <3> QED BY <1>5, <1>6, <2>1, <3>1, <3>2, <3>3, SMTT(60) DEF ThreadInv
  <2>5. StrayInv' BY <1>5, <2>2 DEF StrayInv
  <2>6. SocketInv' BY <1>3, <2>1, Zenon DEF SocketInv
  <2> QED BY <1>7, <2>3, <2>4, <2>5, <2>6, Zenon
<1>9. CASE ShareKnown(t, d) \/ Send(t, d) \/ SendFails(t, d)
  <2>1. pc'[t] \in {"shared", "sent", "unsent"} /\ open' = open
    BY <1>9, SMTT(60) DEF ShareKnown, Send, SendFails, Goto
  <2>2. EntriesInv' BY <1>4, <1>5, <2>1, SMTT(60) DEF EntriesInv
  <2>3. StrayInv' BY <1>5, <2>1, Zenon DEF StrayInv
  <2>4. CASE ShareKnown(t, d)
    <3>1. pc'[t] = "shared" /\ result'[t] = remote[Mine(t)][d] /\ socket' = socket
      BY <2>4 DEF ShareKnown, Goto
    <3>2. remote[Mine(t)][d] # NotSet BY <2>4, ZenonT(60) DEF ShareKnown
    <3>3. ThreadInv' BY <1>4, <1>5, <1>6, <2>1, <3>1, <3>2, SMTT(60) DEF ThreadInv
    <3>4. SocketInv' BY <1>3, <3>1, Zenon DEF SocketInv
    <3> QED BY <1>7, <2>2, <2>3, <3>3, <3>4, Zenon
  <2>5. CASE Send(t, d)
    <3>1. pc'[t] = "sent" /\ remote[Mine(t)][d] = NotSet BY <2>5 DEF Send, Goto
    <3>2. socket' = [socket EXCEPT ![Other(t)] = <<open[Mine(t)][d]>>]
      <4>1. socket' = [socket EXCEPT ![Other(t)] = Append(socket[Other(t)], open[Mine(t)][d])]
        BY <2>5, Zenon DEF Send
      <4>2. Append(<<>>, open[Mine(t)][d]) = <<open[Mine(t)][d]>> BY SMTT(60)
      <4> QED BY <1>3, <4>1, <4>2, Zenon
    <3>3. ThreadInv' BY <1>1, <1>3, <1>5, <1>6, <2>1, <3>1, <3>2, SMTT(60) DEF ThreadInv
    <3>4. SocketInv' BY <3>1, Zenon DEF SocketInv
    <3> QED BY <1>7, <2>2, <2>3, <3>3, <3>4, Zenon
  <2>6. CASE SendFails(t, d)
    <3>1. pc'[t] = "unsent" /\ socket' = socket BY <2>6 DEF SendFails, Goto
    <3>2. ThreadInv' BY <1>6, <3>1, Zenon DEF ThreadInv
    <3>3. SocketInv' BY <1>3, <3>1, Zenon DEF SocketInv
    <3> QED BY <1>7, <2>2, <2>3, <3>2, <3>3, Zenon
  <2> QED BY <1>9, <2>4, <2>5, <2>6, Zenon
<1> QED BY <1>8, <1>9, Zenon

\* The kernel opens a file.
LEMMA OpenStep ==
  ASSUME Turns, DescriptorInv, TypeOK', NEW t \in Threads, NEW f \in Files, Open(t, f)
  PROVE  DescriptorInv'
<1> USE Peers, NotSetIsNone, DescriptorAssumption DEF DescriptorInv, TypeOK
<1>1. Idle(t) /\ pc[t] = "idle" /\ Opener[f] = Mine(t) BY Zenon DEF Open, Idle
<1>2. \A u \in Threads : pc[u] = "idle" BY <1>1, OthersIdle, Zenon
<1>3. PICK d \in FDs : open[Mine(t)][d] = NoFile /\ open' = [open EXCEPT ![Mine(t)][d] = f]
  BY Zenon DEF Open, Lowest, Unused
<1>4. \A p \in Procs, e \in FDs : remote[p][e] # NotSet =>
         /\ remote[Peer(p)][remote[p][e]] = e
         /\ open[p][e] # NoFile /\ open[p][e] = open[Peer(p)][remote[p][e]]
  BY <1>2, Entry, ZenonT(60)
<1>5. UNCHANGED <<remote, socket, pc, arg, result>> BY Zenon DEF Open
<1>6. EntriesInv'
  <2> SUFFICES ASSUME NEW p \in Procs, NEW e \in FDs, remote[p][e] # NotSet
               PROVE  open'[p][e] # NoFile /\ open'[p][e] = open'[Peer(p)][remote[p][e]]
    BY <1>4, <1>5 DEF EntriesInv
  <2>1. ~(p = Mine(t) /\ e = d) /\ ~(Peer(p) = Mine(t) /\ remote[p][e] = d) BY <1>3, <1>4, SMTT(60)
  <2> QED BY <1>3, <1>4, <2>1, SMTT(60)
<1>7. StrayInv' BY <1>1, <1>3, <1>5 DEF StrayInv
<1>8. ThreadInv' BY <1>2, <1>5, Zenon DEF ThreadInv
<1> QED BY <1>5, <1>6, <1>7, <1>8, Zenon DEF Alone, SocketInv

\* Sharing a descriptor: the other process receives it.
LEMMA ReceiveStep ==
  ASSUME Turns, DescriptorInv, TypeOK', NEW t \in Threads, ReceiveFd(t)
  PROVE  DescriptorInv'
<1> USE Peers, NotSetIsNone, DescriptorAssumption DEF DescriptorInv, TypeOK
<1>1. pc[t] = "sent" /\ arg' = arg /\ pc' = [pc EXCEPT ![t] = "received"]
  BY Zenon DEF ReceiveFd, Goto
<1>2. \A u \in Threads : u # t => pc[u] = "idle" BY <1>1, OthersIdle, Zenon
<1>3. /\ open[Mine(t)][arg[t]] # NoFile /\ remote[Mine(t)][arg[t]] = NotSet
      /\ socket[Other(t)] = <<open[Mine(t)][arg[t]]>> /\ socket[Mine(t)] = <<>>
  BY <1>1, Zenon DEF ThreadInv
<1>4. \A p \in Procs, e \in FDs : remote[p][e] # NotSet =>
         /\ remote[Peer(p)][remote[p][e]] = e
         /\ open[p][e] # NoFile /\ open[p][e] = open[Peer(p)][remote[p][e]]
  BY <1>1, <1>2, Entry, Zenon
<1>5. PICK d \in FDs :
        /\ open[Other(t)][d] = NoFile
        /\ open' = [open EXCEPT ![Other(t)][d] = open[Mine(t)][arg[t]]]
        /\ remote' = [remote EXCEPT ![Other(t)][d] = arg[t]]
        /\ result' = [result EXCEPT ![t] = d]
  <2>1. Head(socket[Other(t)]) = open[Mine(t)][arg[t]] BY <1>3
  <2> QED BY <2>1, Zenon DEF ReceiveFd, Lowest, Unused, Entered
<1>6. \A p \in Procs : socket'[p] = <<>>
  <2>1. socket' = [socket EXCEPT ![Other(t)] = Tail(socket[Other(t)])] BY Zenon DEF ReceiveFd
  <2>2. Tail(socket[Other(t)]) = <<>> BY <1>3
  <2> QED BY <1>3, <2>1, <2>2, SMTT(60)
<1>7. remote[Other(t)][d] = NotSet BY <1>4, <1>5, Zenon
<1>8. EntriesInv'
  <2> SUFFICES ASSUME NEW p \in Procs, NEW e \in FDs, remote'[p][e] # NotSet
               PROVE  \/ /\ remote'[Peer(p)][remote'[p][e]] = e
                         /\ open'[p][e] # NoFile /\ open'[p][e] = open'[Peer(p)][remote'[p][e]]
                      \/ Partial(p, e, remote[p][e])'
    BY ZenonT(60) DEF EntriesInv
  <2>1. CASE p = Other(t) /\ e = d
    <3>1. remote'[p][e] = arg[t] BY <1>5, <2>1, SMTT(60)
    <3> QED BY <1>1, <1>5, <2>1, <3>1, SMTT(60) DEF Partial
  <2>2. CASE ~(p = Other(t) /\ e = d)
    <3>1. remote'[p][e] = remote[p][e] /\ open'[p][e] = open[p][e] BY <1>5, <2>2, SMTT(60)
    <3>2. ~(Peer(p) = Other(t) /\ remote[p][e] = d) BY <1>4, <1>5, <3>1, SMTT(60)
    <3>3. /\ remote'[Peer(p)][remote[p][e]] = remote[Peer(p)][remote[p][e]]
          /\ open'[Peer(p)][remote[p][e]] = open[Peer(p)][remote[p][e]]
      BY <1>5, <3>1, <3>2, SMTT(60)
    <3> QED BY <1>4, <3>1, <3>3, SMTT(60)
  <2> QED BY <2>1, <2>2, Zenon
<1>9. StrayInv'
  <2> SUFFICES ASSUME NEW p \in Procs, NEW e \in FDs, open'[p][e] # NoFile, Opener[open'[p][e]] # p
               PROVE  remote'[p][e] # NotSet
    BY Zenon DEF StrayInv
  <2>1. CASE p = Other(t) /\ e = d BY <1>5, <2>1, SMTT(60)
  <2>2. CASE ~(p = Other(t) /\ e = d) BY <1>5, <2>2 DEF StrayInv
  <2> QED BY <2>1, <2>2, Zenon
<1>10. ThreadInv'
  <2>1. open'[Mine(t)] = open[Mine(t)] /\ remote'[Mine(t)] = remote[Mine(t)] BY <1>5, SMTT(60)
  <2>2. result'[t] = d /\ remote'[Other(t)][d] = arg[t] /\ open'[Other(t)][d] = open[Mine(t)][arg[t]]
    BY <1>5, SMTT(60)
  <2>3. pc'[t] = "received" /\ \A u \in Threads : u # t => pc'[u] = "idle" BY <1>1, <1>2
  <2>4. /\ open'[Mine(t)][arg'[t]] # NoFile /\ remote'[Mine(t)][arg'[t]] = NotSet
        /\ result'[t] # NotSet /\ remote'[Other(t)][result'[t]] = arg'[t]
        /\ open'[Other(t)][result'[t]] = open'[Mine(t)][arg'[t]]
    BY <1>1, <1>3, <2>1, <2>2, Zenon
  <2> QED BY <2>3, <2>4, ZenonT(60) DEF ThreadInv
<1> QED BY <1>1, <1>2, <1>6, <1>8, <1>9, <1>10, Zenon DEF Alone, SocketInv

\* Sharing a descriptor: the rest.
LEMMA ShareStep ==
  ASSUME Turns, DescriptorInv, TypeOK', NEW t \in Threads, Record(t) \/ Pass(t)
  PROVE  DescriptorInv'
<1> USE Peers, NotSetIsNone, DescriptorAssumption DEF DescriptorInv, TypeOK
<1>1. pc[t] # "idle" /\ pc[t] # "sent" /\ UNCHANGED <<open, socket>> BY Zenon DEF Record, Pass
<1>2. \A u \in Threads : u # t => pc[u] = "idle" BY <1>1, OthersIdle, Zenon
<1>3. \A p \in Procs : socket[p] = <<>> BY <1>1, <1>2, Zenon DEF SocketInv
<1>4. CASE Record(t)
  <2>1. pc[t] = "received" /\ pc' = [pc EXCEPT ![t] = "shared"] /\ UNCHANGED <<arg, result>>
    BY <1>4, Zenon DEF Record, Goto
  <2>2. remote' = [remote EXCEPT ![Mine(t)][arg[t]] = result[t]] BY <1>4, ZenonT(60) DEF Record
  <2>3. /\ open[Mine(t)][arg[t]] # NoFile /\ remote[Mine(t)][arg[t]] = NotSet
        /\ result[t] \in FDs /\ remote[Other(t)][result[t]] = arg[t]
        /\ open[Other(t)][result[t]] = open[Mine(t)][arg[t]]
    BY <2>1, SMTT(60) DEF ThreadInv
  <2>4. \A p \in Procs, e \in FDs : remote[p][e] # NotSet /\ ~(p = Other(t) /\ e = result[t]) =>
           /\ remote[Peer(p)][remote[p][e]] = e
           /\ open[p][e] # NoFile /\ open[p][e] = open[Peer(p)][remote[p][e]]
    <3> SUFFICES ASSUME NEW p \in Procs, NEW e \in FDs, remote[p][e] # NotSet,
                        ~(p = Other(t) /\ e = result[t])
                 PROVE  /\ remote[Peer(p)][remote[p][e]] = e
                        /\ open[p][e] # NoFile /\ open[p][e] = open[Peer(p)][remote[p][e]]
      BY ZenonT(60)
    <3>1. ~Partial(p, e, remote[p][e]) BY <1>2, <2>1, PartialOf, Zenon
    <3> QED BY <3>1, Zenon DEF EntriesInv
  <2>5. EntriesInv'
    <3> SUFFICES ASSUME NEW p \in Procs, NEW e \in FDs, remote'[p][e] # NotSet
                 PROVE  /\ remote'[Peer(p)][remote'[p][e]] = e
                        /\ open[p][e] # NoFile /\ open[p][e] = open[Peer(p)][remote'[p][e]]
      BY <1>1, SMTT(60) DEF EntriesInv
    <3>1. CASE p = Other(t) /\ e = result[t] BY <2>2, <2>3, <3>1, SMTT(60)
    <3>2. CASE p = Mine(t) /\ e = arg[t] BY <2>2, <2>3, <3>2, SMTT(60)
    <3>3. CASE ~(p = Other(t) /\ e = result[t]) /\ ~(p = Mine(t) /\ e = arg[t])
      <4>1. remote'[p][e] = remote[p][e] BY <2>2, <3>3, SMTT(60)
      <4>2. ~(Peer(p) = Mine(t) /\ remote[p][e] = arg[t]) BY <2>3, <2>4, <3>3, <4>1, SMTT(60)
      <4> QED BY <2>2, <2>4, <3>3, <4>1, <4>2, SMTT(60)
    <3> QED BY <3>1, <3>2, <3>3, Zenon
  <2>6. StrayInv'
    <3> SUFFICES ASSUME NEW p \in Procs, NEW e \in FDs, open[p][e] # NoFile, Opener[open[p][e]] # p
                 PROVE  remote'[p][e] # NotSet
      BY <1>1, Zenon DEF StrayInv
    <3>1. remote[p][e] # NotSet BY Zenon DEF StrayInv
    <3> QED BY <2>2, <2>3, <3>1
  <2>7. ThreadInv'
    <3>1. pc'[t] = "shared" /\ \A u \in Threads : u # t => pc'[u] = "idle" BY <1>2, <2>1
    <3>2. result'[t] # NotSet /\ open'[Mine(t)][arg'[t]] = open'[Other(t)][result'[t]]
      BY <1>1, <2>1, <2>3, Zenon
    <3> QED BY <3>1, <3>2, ZenonT(60) DEF ThreadInv
  <2> QED BY <1>1, <1>2, <1>3, <2>1, <2>5, <2>6, <2>7, ZenonT(60) DEF Alone, SocketInv
<1>5. CASE Pass(t)
  <2>1. pc[t] \in {"shared", "unsent"} /\ pc' = [pc EXCEPT ![t] = "idle"] /\ remote' = remote
    BY <1>5, Zenon DEF Pass, Done, Goto
  <2>2. EntriesInv'
    <3>1. \A p \in Procs, e \in FDs : remote[p][e] # NotSet =>
             /\ remote[Peer(p)][remote[p][e]] = e
             /\ open[p][e] # NoFile /\ open[p][e] = open[Peer(p)][remote[p][e]]
      BY <1>2, <2>1, Entry, Zenon
    <3> QED BY <1>1, <2>1, <3>1 DEF EntriesInv
  <2>3. StrayInv' BY <1>1, <2>1, Zenon DEF StrayInv
  <2>4. ThreadInv'
    <3>1. \A u \in Threads : pc'[u] = "idle" BY <1>2, <2>1
    <3> QED BY <3>1, ZenonT(60) DEF ThreadInv
  <2> QED BY <1>1, <1>2, <1>3, <2>1, <2>2, <2>3, <2>4, ZenonT(60) DEF Alone, SocketInv
<1> QED BY <1>4, <1>5, Zenon

\* Closing a descriptor at both ends.
LEMMA CloseStep ==
  ASSUME Turns, DescriptorInv, TypeOK', NEW t \in Threads,
         OnCloseUnknown(t) \/ OnClose(t) \/ CloseRemote(t)
  PROVE  DescriptorInv'
<1> USE Peers, NotSetIsNone, DescriptorAssumption DEF DescriptorInv, TypeOK
<1>1. pc[t] \in {"closing", "closeRemote"} /\ socket' = socket
  BY Zenon DEF OnCloseUnknown, OnClose, CloseRemote
<1>2. \A u \in Threads : u # t => pc[u] = "idle" BY <1>1, OthersIdle, Zenon
<1>3. \A p \in Procs : socket[p] = <<>> BY <1>1, <1>2, Zenon DEF SocketInv
<1>4. CASE OnCloseUnknown(t)
  <2>1. pc[t] = "closing" /\ remote[Mine(t)][arg[t]] = NotSet BY <1>4, Zenon DEF OnCloseUnknown
  <2>2. pc' = [pc EXCEPT ![t] = "idle"] /\ UNCHANGED <<open, remote>>
    BY <1>4, Zenon DEF OnCloseUnknown, Done, Goto
  <2>3. EntriesInv'
    <3> SUFFICES ASSUME NEW p \in Procs, NEW e \in FDs, remote[p][e] # NotSet
                 PROVE  /\ remote[Peer(p)][remote[p][e]] = e
                        /\ open[p][e] # NoFile /\ open[p][e] = open[Peer(p)][remote[p][e]]
      BY <2>2 DEF EntriesInv
    <3>1. ASSUME Partial(p, e, remote[p][e]) PROVE FALSE
      <4>1. \/ p = Mine(t) /\ e = arg[t]
            \/ p = Other(t) /\ e = remote[Mine(t)][arg[t]]
        BY <1>2, <2>1, <3>1, PartialClosing, ZenonT(60)
      <4> QED BY <2>1, <4>1, Zenon
    <3> QED BY <3>1, ZenonT(60) DEF EntriesInv
  <2>4. StrayInv' BY <2>2, Zenon DEF StrayInv
  <2>5. ThreadInv'
    <3>1. \A u \in Threads : pc'[u] = "idle" BY <1>2, <2>2
    <3> QED BY <3>1, Zenon DEF ThreadInv
  <2> QED BY <1>1, <1>2, <1>3, <2>2, <2>3, <2>4, <2>5, Zenon DEF Alone, SocketInv
<1>5. CASE OnClose(t)
  <2> DEFINE r == remote[Mine(t)][arg[t]]
  <2>1. pc[t] = "closing" /\ r # NotSet BY <1>5, Zenon DEF OnClose
  <2>2. pc' = [pc EXCEPT ![t] = "closeRemote"] /\ UNCHANGED <<open, arg>>
    BY <1>5, Zenon DEF OnClose, Goto
  <2>3. result' = [result EXCEPT ![t] = r] /\ remote' = [remote EXCEPT ![Mine(t)][arg[t]] = NotSet]
    BY <1>5, Zenon DEF OnClose, Forget
  <2>4. /\ open[Mine(t)][arg[t]] = NoFile
        /\ remote[Other(t)][r] = arg[t] /\ open[Other(t)][r] # NoFile
    BY <2>1, Zenon DEF ThreadInv
  <2>5. \A p \in Procs, e \in FDs :
           remote[p][e] # NotSet /\ ~(p = Mine(t) /\ e = arg[t]) /\ ~(p = Other(t) /\ e = r) =>
             /\ remote[Peer(p)][remote[p][e]] = e
             /\ open[p][e] # NoFile /\ open[p][e] = open[Peer(p)][remote[p][e]]
    <3> SUFFICES ASSUME NEW p \in Procs, NEW e \in FDs, remote[p][e] # NotSet,
                        ~(p = Mine(t) /\ e = arg[t]), ~(p = Other(t) /\ e = r)
                 PROVE  /\ remote[Peer(p)][remote[p][e]] = e
                        /\ open[p][e] # NoFile /\ open[p][e] = open[Peer(p)][remote[p][e]]
      OBVIOUS
    <3>1. ASSUME Partial(p, e, remote[p][e]) PROVE FALSE
      <4>1. \/ p = Mine(t) /\ e = arg[t]
            \/ p = Other(t) /\ e = remote[Mine(t)][arg[t]]
        BY <1>2, <2>1, <3>1, PartialClosing, Zenon
      <4> QED BY <2>1, <4>1, Zenon
    <3> QED BY <3>1, Zenon DEF EntriesInv
  <2>6. EntriesInv'
    <3> SUFFICES ASSUME NEW p \in Procs, NEW e \in FDs, remote'[p][e] # NotSet
                 PROVE  \/ /\ remote'[Peer(p)][remote'[p][e]] = e
                           /\ open[p][e] # NoFile /\ open[p][e] = open[Peer(p)][remote'[p][e]]
                        \/ Partial(p, e, remote[p][e])'
      BY <2>2, Zenon DEF EntriesInv
    <3>1. ~(p = Mine(t) /\ e = arg[t]) /\ remote'[p][e] = remote[p][e] BY <2>3, SMTT(60)
    <3>2. CASE p = Other(t) /\ e = r
      <4>1. remote'[p][e] = arg[t] BY <2>4, <3>1, <3>2, ZenonT(60)
      <4>2. pc'[t] = "closeRemote" /\ e = result'[t] /\ arg'[t] = arg[t] BY <2>2, <2>3, <3>2, SMTT(60)
      <4> QED BY <3>2, <4>1, <4>2, Zenon DEF Partial
    <3>3. CASE ~(p = Other(t) /\ e = r)
      <4>1. ~(Peer(p) = Mine(t) /\ remote[p][e] = arg[t]) BY <2>4, <2>5, <3>1, <3>3, SMTT(60)
      <4> QED BY <2>3, <2>5, <3>1, <3>3, <4>1, SMTT(60)
    <3> QED BY <3>2, <3>3, Zenon
  <2>7. StrayInv'
    <3> SUFFICES ASSUME NEW p \in Procs, NEW e \in FDs, open[p][e] # NoFile, Opener[open[p][e]] # p
                 PROVE  remote'[p][e] # NotSet
      BY <2>2, Zenon DEF StrayInv
    <3>1. remote[p][e] # NotSet BY Zenon DEF StrayInv
    <3>2. ~(p = Mine(t) /\ e = arg[t]) BY <2>4, Zenon
    <3> QED BY <2>3, <3>1, <3>2
  <2>8. ThreadInv'
    <3>1. remote'[Mine(t)][arg[t]] = NotSet /\ remote'[Other(t)] = remote[Other(t)] /\ result'[t] = r
      BY <2>3, SMTT(60)
    <3>2. pc'[t] = "closeRemote" /\ \A u \in Threads : u # t => pc'[u] = "idle" BY <1>2, <2>2
    <3>3. /\ open'[Mine(t)][arg'[t]] = NoFile /\ remote'[Mine(t)][arg'[t]] = NotSet
          /\ result'[t] # NotSet /\ remote'[Other(t)][result'[t]] = arg'[t]
          /\ open'[Other(t)][result'[t]] # NoFile
      BY <2>1, <2>2, <2>4, <3>1, Zenon
    <3> QED BY <3>2, <3>3, Zenon DEF ThreadInv
  <2> QED BY <1>1, <1>2, <1>3, <2>2, <2>6, <2>7, <2>8, Zenon DEF Alone, SocketInv
<1>6. CASE CloseRemote(t)
  <2> DEFINE r == result[t]
  <2>1. pc[t] = "closeRemote" /\ pc' = [pc EXCEPT ![t] = "idle"] BY <1>6, Zenon DEF CloseRemote, Done, Goto
  <2>2. /\ remote' = [remote EXCEPT ![Other(t)][r] = NotSet]
        /\ open' = [open EXCEPT ![Other(t)][r] = NoFile]
    BY <1>6, ZenonT(60) DEF CloseRemote, Closed
  <2>3. r \in FDs /\ remote[Mine(t)][arg[t]] = NotSet /\ remote[Other(t)][r] = arg[t]
    BY <2>1 DEF ThreadInv
  <2>4. \A p \in Procs, e \in FDs :
           remote[p][e] # NotSet /\ ~(p = Other(t) /\ e = r) =>
             /\ remote[Peer(p)][remote[p][e]] = e
             /\ open[p][e] # NoFile /\ open[p][e] = open[Peer(p)][remote[p][e]]
    <3> SUFFICES ASSUME NEW p \in Procs, NEW e \in FDs, remote[p][e] # NotSet,
                        ~(p = Other(t) /\ e = r)
                 PROVE  /\ remote[Peer(p)][remote[p][e]] = e
                        /\ open[p][e] # NoFile /\ open[p][e] = open[Peer(p)][remote[p][e]]
      BY ZenonT(60)
    <3>1. ~Partial(p, e, remote[p][e]) BY <1>2, <2>1, PartialOf, Zenon
    <3> QED BY <3>1, Zenon DEF EntriesInv
  <2>5. EntriesInv'
    <3> SUFFICES ASSUME NEW p \in Procs, NEW e \in FDs, remote'[p][e] # NotSet
                 PROVE  /\ remote'[Peer(p)][remote'[p][e]] = e
                        /\ open'[p][e] # NoFile /\ open'[p][e] = open'[Peer(p)][remote'[p][e]]
      BY Zenon DEF EntriesInv
    <3>1. ~(p = Other(t) /\ e = r) BY <2>2, <2>3, SMTT(60)
    <3>2. remote'[p][e] = remote[p][e] /\ open'[p][e] = open[p][e] BY <2>2, <3>1, SMTT(60)
    <3>3. ~(Peer(p) = Other(t) /\ remote[p][e] = r) BY <2>3, <2>4, <3>1, <3>2, SMTT(60)
    <3>4. /\ remote'[Peer(p)][remote[p][e]] = remote[Peer(p)][remote[p][e]]
          /\ open'[Peer(p)][remote[p][e]] = open[Peer(p)][remote[p][e]]
      BY <2>2, <3>2, <3>3, SMTT(60)
    <3> QED BY <2>4, <3>1, <3>2, <3>4
  <2>6. StrayInv'
    <3> SUFFICES ASSUME NEW p \in Procs, NEW e \in FDs, open'[p][e] # NoFile, Opener[open'[p][e]] # p
                 PROVE  remote'[p][e] # NotSet
      BY Zenon DEF StrayInv
    <3>1. ~(p = Other(t) /\ e = r) BY <2>2, <2>3, SMTT(60)
    <3> QED BY <2>2, <3>1, SMTT(60) DEF StrayInv
  <2>7. \A u \in Threads : pc'[u] = "idle" BY <1>2, <2>1
  <2>8. ThreadInv' BY <2>7, Zenon DEF ThreadInv
  <2> QED BY <1>1, <1>2, <1>3, <2>1, <2>5, <2>6, <2>8, Zenon DEF Alone, SocketInv
<1> QED BY <1>4, <1>5, <1>6, Zenon

-----------------------------------------------------------------------------
\* The invariant of the tables, of onCloseLocal(), mapToOtherSide() and
\* fromOtherSide(), if one thread at a time shares or closes descriptors.
THEOREM Invariant == ASSUME Turns PROVE Spec => []DescriptorInv
<1>1. Init => DescriptorInv BY InitInv, Zenon
<1>2. DescriptorInv /\ [Next]_vars => DescriptorInv'
  <2> SUFFICES ASSUME DescriptorInv, [Next]_vars PROVE DescriptorInv' BY Zenon
  <2>1. TypeOK' BY TypeStep, Zenon DEF DescriptorInv
  <2>2. CASE UNCHANGED vars
    <3>1. UNCHANGED <<open, remote, socket, pc, arg, result>> BY <2>2, SMTT(60) DEF vars
    <3>2. \A p, d, e : Partial(p, d, e) => Partial(p, d, e)' BY <3>1 DEF Partial, Mine, Other
    <3>3. EntriesInv' BY <3>1, <3>2, Zenon DEF EntriesInv, DescriptorInv
    <3>4. ThreadInv' BY <3>1, ZenonT(60) DEF ThreadInv, DescriptorInv
    <3> QED BY <2>1, <3>1, <3>3, <3>4, Zenon DEF DescriptorInv, Alone, StrayInv, SocketInv
  <2> QED BY <2>1, <2>2, OpenStep, BeginStep, ReceiveStep, ShareStep, CloseStep, Zenon DEF Next
<1> QED BY <1>1, <1>2, PTL DEF Spec

\* The number that a stub passes on names the same open file in the other
\* process (mapToOtherSide()).
THEOREM SameFile == ASSUME Turns PROVE Spec => []SharedIsSame
<1>1. DescriptorInv => SharedIsSame BY Zenon DEF DescriptorInv, ThreadInv, SharedIsSame
<1> QED BY <1>1, Invariant, PTL

\* Between operations the tables local_to_remote_fd of the two processes are
\* inverse, and pairs are open on one file.
THEOREM TablesInverse == ASSUME Turns PROVE Spec => []TablesAgree
<1>1. DescriptorInv => TablesAgree
  <2> SUFFICES ASSUME DescriptorInv, Quiet, NEW p \in Procs, NEW d \in FDs, remote[p][d] # NotSet
               PROVE  /\ remote[Peer(p)][remote[p][d]] = d
                      /\ open[p][d] # NoFile /\ open[p][d] = open[Peer(p)][remote[p][d]]
    BY Zenon DEF TablesAgree
  <2>1. ~Partial(p, d, remote[p][d]) BY Zenon DEF Partial, Quiet
  <2> QED BY <2>1, Zenon DEF DescriptorInv, EntriesInv
<1> QED BY <1>1, Invariant, PTL

\* What one process has closed does not stay open in the other one (onClose()).
THEOREM NoStray == ASSUME Turns PROVE Spec => []NoStrayDuplicate
<1>1. DescriptorInv => NoStrayDuplicate
  BY Zenon DEF DescriptorInv, NoStrayDuplicate, StrayInv, SocketInv, Quiet
<1> QED BY <1>1, Invariant, PTL
=============================================================================
