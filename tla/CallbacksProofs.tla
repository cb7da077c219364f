--------------------------- MODULE CallbacksProofs ---------------------------
(***************************************************************************)
(* For a program with one thread, any functions, any page size and tables  *)
(* of any length: a function called through trampolines is the one whose   *)
(* pointer was passed on.                                                  *)
(***************************************************************************)
EXTENDS Callbacks, TLAPS

\* The program has one thread.
OneThread == \A t, u \in Threads : t = u

USE DEF Sides

\* Either side has one actor.
LEMMA ActorsOfSide ==
  ASSUME OneThread, NEW a \in Actors, NEW b \in Actors, a # b
  PROVE  Side(b) = Peer(Side(a)) /\ Side(a) = Peer(Side(b)) /\ Side(a) # Side(b)
BY ActorAssumption, Zenon DEF OneThread, Actors, Side, Peer

\* The two sides.
LEMMA SidesAre ==
  /\ \A s \in Sides : Peer(s) \in Sides /\ Peer(s) # s /\ Peer(Peer(s)) = s
  /\ \A a \in Actors : Side(a) \in Sides
BY Zenon DEF Side, Peer, Actors

\* Special values are never wrapped, and functions always are.
LEMMA Addresses ==
  /\ Reserved \in Nat /\ MaxAddress \in Nat /\ TrampolineBytes \in Nat /\ PageBytes \in Nat
  /\ 0 < TrampolineBytes /\ TrampolineBytes <= PageBytes
  /\ \A v \in Specials : v \in Nat /\ ~NeedsWrapping(v)
  /\ \A f \in AllFunctions : f \in Nat /\ NeedsWrapping(f) /\ f \notin Specials /\ f # 0
  /\ \A s \in Sides : Functions[s] \subseteq AllFunctions
BY AddressAssumption DEF NeedsWrapping, AllFunctions

\* A number keeps its meaning when the table and the known pointers grow.
LEMMA NumberKept ==
  ASSUME NEW t \in Seq(Nat), NEW u \in Seq(Nat), NEW k, NEW l, k \subseteq l,
         Len(t) <= Len(u), \A i \in 1 .. Len(t) : u[i] = t[i]
  PROVE  /\ \A n, o : NumberMeans(t, k, n, o) => NumberMeans(u, l, n, o)
         /\ \A n, o : CallbackMeans(t, k, n, o) => CallbackMeans(u, l, n, o)
<1> SUFFICES ASSUME NEW n, NEW o, CallbackMeans(t, k, n, o) PROVE CallbackMeans(u, l, n, o)
  BY Zenon DEF NumberMeans
<1>1. n + 1 \in 1 .. Len(t) /\ n \in Reserved + 1 .. Len(u) - 1
  BY Addresses DEF CallbackMeans
<1>2. <<u[n + 1], o>> \in l
  BY <1>1, Zenon DEF CallbackMeans
<1> QED
  BY <1>1, <1>2, Zenon DEF CallbackMeans

\* So does a pointer, when no trampoline is overwritten.
LEMMA PointerKept ==
  ASSUME NEW t \in Seq(Nat), NEW u \in Seq(Nat), NEW k, NEW l, k \subseteq l,
         Len(t) <= Len(u), \A i \in 1 .. Len(t) : u[i] = t[i],
         NEW c, NEW d, DOMAIN c \subseteq DOMAIN d, \A x \in DOMAIN c : d[x] = c[x]
  PROVE  \A fs, v, o : PointerMeans(fs, c, t, k, v, o) => PointerMeans(fs, d, u, l, v, o)
BY NumberKept, Zenon DEF PointerMeans

\* Before the first call every process knows its own functions.
LEMMA InitInv == OneThread /\ Init => CallbackInv
<1> SUFFICES ASSUME OneThread, Init PROVE CallbackInv
  BY Zenon
<1> USE Addresses, AddressAssumption DEF Init
<1>1. TypeOK
  <2>1. Idle \in Jobs
    BY Zenon DEF Idle, Jobs
  <2>2. \A s \in Sides : {<<f, f>> : f \in Functions[s] \cup Specials} \subseteq Nat \X Nat
    <3>1. \A s \in Sides : \A f \in Functions[s] \cup Specials : f \in Nat
      BY Zenon
    <3> QED
      BY <3>1
  <2> QED
    BY <2>1, <2>2, ActorAssumption DEF TypeOK, Places, Actors
<1>2. KnownInv
  BY DEF KnownInv, PointerMeans
<1>3. TableInv
  <2>1. \A s \in Sides : Len(table[s]) = Reserved + 1
    OBVIOUS
  <2> QED
    BY <2>1 DEF TableInv
<1>4. MailInv
  BY Zenon DEF MailInv
<1>5. MemoryInv
  BY DEF MemoryInv
<1>6. \A a \in Actors : JobInv(a, Side(a), Peer(Side(a)), job[a])
  BY Zenon DEF JobInv
<1> QED
  BY <1>1, <1>2, <1>3, <1>4, <1>5, <1>6, Zenon DEF CallbackInv
-----------------------------------------------------------------------------
(* What a step leaves alone. *)

\* Tables and known pointers grow, trampolines are not overwritten.
Growing ==
  \A s \in Sides :
    /\ known[s] \subseteq known'[s]
    /\ Len(table[s]) <= Len(table'[s]) /\ \A i \in 1 .. Len(table[s]) : table'[s][i] = table[s][i]
    /\ DOMAIN code[s] \subseteq DOMAIN code'[s] /\ \A x \in DOMAIN code[s] : code'[s][x] = code[s][x]

\* Numbers and pointers keep their meaning in a step that only adds to the tables.
LEMMA Kept ==
  ASSUME TypeOK, TypeOK', Growing, NEW s \in Sides
  PROVE  /\ \A n, o : NumberMeans(table[s], known[s], n, o) => NumberMeans(table'[s], known'[s], n, o)
         /\ \A n, o : CallbackMeans(table[s], known[s], n, o) => CallbackMeans(table'[s], known'[s], n, o)
         /\ \A fs, v, o : PointerMeans(fs, code[s], table[Peer(s)], known[Peer(s)], v, o)
              => PointerMeans(fs, code'[s], table'[Peer(s)], known'[Peer(s)], v, o)
<1>1. Peer(s) \in Sides
  BY SidesAre, Zenon
<1>2. \A r \in Sides : table[r] \in Seq(Nat) /\ table'[r] \in Seq(Nat)
  BY Zenon DEF TypeOK
<1>3. /\ \A n, o : NumberMeans(table[s], known[s], n, o) => NumberMeans(table'[s], known'[s], n, o)
      /\ \A n, o : CallbackMeans(table[s], known[s], n, o) => CallbackMeans(table'[s], known'[s], n, o)
  BY <1>2, NumberKept, Zenon DEF Growing
<1>4. \A fs, v, o : PointerMeans(fs, code[s], table[Peer(s)], known[Peer(s)], v, o)
              => PointerMeans(fs, code'[s], table'[Peer(s)], known'[Peer(s)], v, o)
  BY <1>1, <1>2, PointerKept, ZenonT(60) DEF Growing
<1> QED
  BY <1>3, <1>4, Zenon

\* The actor that does not move.
LEMMA OtherJob ==
  ASSUME CallbackInv, TypeOK', Growing, NEW b \in Actors,
         pc'[b] = pc[b], job'[b] = job[b], table'[Side(b)] = table[Side(b)],
         cursor'[Side(b)] = cursor[Side(b)], left'[Side(b)] = left[Side(b)]
  PROVE  JobInv(b, Side(b), Peer(Side(b)), job[b])'
<1> DEFINE s == Side(b)
           p == Peer(s)
<1>1. s \in Sides /\ p \in Sides
  BY SidesAre, Zenon
<1>2. JobInv(b, s, p, job[b]) /\ TypeOK
  BY Zenon DEF CallbackInv
<1>3. /\ \A n, o : NumberMeans(table[s], known[s], n, o) => NumberMeans(table'[s], known'[s], n, o)
      /\ \A n, o : CallbackMeans(table[s], known[s], n, o) => CallbackMeans(table'[s], known'[s], n, o)
      /\ \A n, o : NumberMeans(table[p], known[p], n, o) => NumberMeans(table'[p], known'[p], n, o)
      /\ \A n, o : CallbackMeans(table[p], known[p], n, o) => CallbackMeans(table'[p], known'[p], n, o)
      /\ \A fs, v, o : PointerMeans(fs, code[s], table[p], known[p], v, o)
              => PointerMeans(fs, code'[s], table'[p], known'[p], v, o)
  BY <1>1, <1>2, Kept, Zenon
<1>4. known[s] \subseteq known'[s]
  BY <1>1, Zenon DEF Growing
<1> HIDE DEF s, p
<1>5. JobInv(b, s, p, job[b])'
  BY <1>2, <1>3, <1>4 DEF JobInv, s
<1> QED
  BY <1>5, Zenon DEF s, p

\* The known pointers keep their meaning.
LEMMA KnownKept ==
  ASSUME CallbackInv, TypeOK', Growing, known' = known
  PROVE  KnownInv'
BY Kept, Zenon DEF CallbackInv, KnownInv

\* The numbers in a message keep their meaning.
LEMMA MailKept ==
  ASSUME CallbackInv, TypeOK', Growing, NEW s \in Sides, NEW m \in mail[s]
  PROVE  /\ (m.to = 0 /\ m.goal = 0) \/ CallbackMeans(table'[s], known'[s], m.to, m.goal)
         /\ NumberMeans(table'[Peer(s)], known'[Peer(s)], m.arg, m.of)
BY Kept, SidesAre, Zenon DEF CallbackInv, MailInv

\* A step that does not touch the trampoline pages keeps them in order.
LEMMA MemoryKept ==
  ASSUME CallbackInv, NEW a \in Actors, UNCHANGED memory,
         pc[a] # "advance", \A b \in Actors : b # a => pc'[b] = pc[b]
  PROVE  MemoryInv'
BY DEF CallbackInv, MemoryInv, memory

\* A step of actor a changes only its own process's memory and its own job.
Local(a) ==
  /\ \A b \in Actors : b # a => pc'[b] = pc[b] /\ job'[b] = job[b]
  /\ \A s \in Sides : s # Side(a) =>
       table'[s] = table[s] /\ cursor'[s] = cursor[s] /\ left'[s] = left[s]

\* A step of an actor leaves the job of the other one in order.
LEMMA AllJobs ==
  ASSUME OneThread, CallbackInv, TypeOK', Growing, NEW a \in Actors, Local(a),
         JobInv(a, Side(a), Peer(Side(a)), job[a])'
  PROVE  (\A b \in Actors : JobInv(b, Side(b), Peer(Side(b)), job[b]))'
<1> SUFFICES ASSUME NEW b \in Actors, b # a PROVE JobInv(b, Side(b), Peer(Side(b)), job[b])'
  BY Zenon
<1>1. Side(b) \in Sides /\ Side(b) # Side(a)
  BY ActorsOfSide, SidesAre, Zenon
<1> QED
  BY <1>1, OtherJob, Zenon DEF Local
\* A step that changes nothing but the job of its actor.
LEMMA QuietStep ==
  ASSUME OneThread, CallbackInv, TypeOK', NEW a \in Actors, pc[a] # "advance",
         UNCHANGED <<table, memory, known, mail>>,
         \A b \in Actors : b # a => pc'[b] = pc[b] /\ job'[b] = job[b],
         JobInv(a, Side(a), Peer(Side(a)), job[a])'
  PROVE  CallbackInv'
<1>1. Growing /\ Local(a)
  BY DEF Growing, Local, memory, CallbackInv, TypeOK
<1>2. KnownInv'
  BY <1>1, KnownKept, Zenon
<1>3. TableInv'
  BY Zenon DEF CallbackInv, TableInv
<1>4. MailInv'
  BY <1>1, MailKept, Zenon DEF MailInv
<1>5. MemoryInv'
  BY MemoryKept, Zenon
<1> QED
  BY <1>1, <1>2, <1>3, <1>4, <1>5, AllJobs, Zenon DEF CallbackInv

\* A trampoline is at the address of no function and of no special value.
LEMMA TrampolineAddress ==
  ASSUME TypeOK, MemoryInv, NEW s \in Sides, NEW x \in DOMAIN code[s]
  PROVE  x \in Nat /\ x # 0 /\ x \notin AllFunctions /\ x \notin Specials /\ NeedsWrapping(x)
<1>1. x \in Nat
  BY Zenon DEF TypeOK
<1>2. PICK b \in mapped[s] : b <= x /\ x + TrampolineBytes <= b + PageBytes
  BY Zenon DEF MemoryInv, InPage
<1>3. b \in Pages
  BY Zenon DEF TypeOK
<1>4. x \in b .. b + PageBytes - 1
  BY <1>1, <1>2, <1>3, Addresses, AddressAssumption
<1> QED
  BY <1>1, <1>3, <1>4, Addresses, AddressAssumption DEF NeedsWrapping
-----------------------------------------------------------------------------
(* Sending *)

\* User code calls the other side, with a function pointer it knows.
LEMMA CallStep ==
  ASSUME OneThread, CallbackInv, NEW a \in Actors, Call(a)
  PROVE  CallbackInv'
<1> DEFINE s == Side(a)
           p == Peer(s)
<1>1. s \in Sides /\ p \in Sides
  BY SidesAre, Zenon
<1> HIDE DEF s, p
<1>2. PICK x \in known[s], y \in known[s] \cup {<<0, 0>>} :
        /\ y[1] \in DOMAIN code[s] \/ y = <<0, 0>>
        /\ job' = [job EXCEPT ![a] = [to |-> IF y[1] = 0 THEN 0 ELSE code[s][y[1]],
                                      goal |-> y[2], arg |-> x[1], of |-> x[2]]]
        /\ Goto(a, IF y[1] = 0 /\ a # Lib THEN "lock" ELSE "wrap")
  BY Zenon DEF Call, s
<1>3. x \in Nat \X Nat /\ y \in Nat \X Nat /\ pc \in [Actors -> Places] /\ job \in [Actors -> Jobs]
      /\ code[s] \in [DOMAIN code[s] -> Nat]
  BY <1>1, SMTT(60) DEF CallbackInv, TypeOK
<1>4. TypeOK'
  <2>1. [to |-> IF y[1] = 0 THEN 0 ELSE code[s][y[1]], goal |-> y[2], arg |-> x[1], of |-> x[2]] \in Jobs
    BY <1>2, <1>3 DEF Jobs
  <2>2. job' \in [Actors -> Jobs]
    BY <1>2, <1>3, <2>1, Zenon
  <2>3. pc' \in [Actors -> Places]
    BY <1>2, <1>3, Zenon DEF Goto, Places
  <2> QED
    BY <2>2, <2>3, Zenon DEF CallbackInv, TypeOK, Call, memory
<1>5. Growing /\ Local(a)
  BY <1>2, <1>3 DEF Call, memory, Growing, Local, Goto
<1>6. JobInv(a, s, p, job[a])'
  <2>1. CASE y[1] = 0
    <3>1. y = <<0, 0>>
      <4>1. 0 \notin DOMAIN code[s]
        BY <1>1, TrampolineAddress, Zenon DEF CallbackInv
      <4> QED
        BY <1>2, <2>1, <4>1, Zenon
    <3> QED
      BY <1>2, <1>3, <2>1, <3>1, SMTT(60) DEF JobInv, Call, Goto
  <2>2. CASE y[1] # 0
    <3>1. y[1] \in DOMAIN code[s] /\ y \in known[s]
      BY <1>2, <2>2
    <3>2. CallbackMeans(table[p], known[p], code[s][y[1]], y[2])
      <4>1. PointerMeans(Functions[s], code[s], table[p], known[p], y[1], y[2])
        BY <1>1, <3>1, Zenon DEF CallbackInv, KnownInv, p
      <4>2. y[1] \notin AllFunctions /\ y[1] \notin Specials
        BY <1>1, <3>1, TrampolineAddress, Zenon DEF CallbackInv
      <4> QED
        BY <1>1, <4>1, <4>2, Addresses, Zenon DEF PointerMeans
    <3>3. code[s][y[1]] # 0
      BY <3>2, Addresses DEF CallbackMeans
    <3> QED
      BY <1>2, <1>3, <2>2, <3>2, <3>3, SMTT(60) DEF JobInv, Call, Goto
  <2> QED
    BY <2>1, <2>2, Zenon
<1> QED
  BY <1>4, <1>5, <1>6, QuietStep, Zenon DEF Call, Local, s, p
\* The value that is wrapped: what it stands for after the first half.
LEMMA WrappedValue ==
  ASSUME CallbackInv, NEW s \in Sides, NEW v, NEW o, <<v, o>> \in known[s]
  PROVE  IF NeedsWrapping(v) THEN o \in AllFunctions ELSE v = o /\ v \in Specials
<1>1. PointerMeans(Functions[s], code[s], table[Peer(s)], known[Peer(s)], v, o)
  BY Zenon DEF CallbackInv, KnownInv
<1>2. CASE v = o /\ v \in Functions[s] \cup Specials
  BY <1>2, Addresses, Zenon
<1>3. CASE v \in DOMAIN code[s] /\ o \in AllFunctions
  BY <1>3, TrampolineAddress, Zenon DEF CallbackInv
<1> QED
  BY <1>1, <1>2, <1>3, Zenon DEF PointerMeans, CallbackMeans

\* The sending lock.
LEMMA LockStep ==
  ASSUME OneThread, CallbackInv, NEW a \in Actors, LockSending(a)
  PROVE  CallbackInv'
<1>1. TypeOK'
  BY ActorAssumption, Zenon DEF CallbackInv, TypeOK, LockSending, memory, Goto, Places, Actors
<1>2. JobInv(a, Side(a), Peer(Side(a)), job[a]) /\ JobInv(a, Side(a), Peer(Side(a)), job[a])'
  BY Zenon DEF CallbackInv, TypeOK, LockSending, Goto, memory, JobInv
<1> QED
  BY <1>1, <1>2, QuietStep, Zenon DEF LockSending, Goto, CallbackInv, TypeOK

\* The wrapped callback gets its number.
LEMMA NumberStep ==
  ASSUME OneThread, CallbackInv, NEW a \in Actors, Number(a)
  PROVE  CallbackInv'
<1>1. Side(a) \in Sides
  BY SidesAre, Zenon
<1>2. Len(table[Side(a)]) - 1 \in Nat
  BY <1>1, Addresses DEF CallbackInv, TableInv
<1>3. TypeOK'
  BY <1>2, ZenonT(60) DEF CallbackInv, TypeOK, Number, NewNumber, AfterWrap, memory, Goto, Places, Jobs
<1>4. JobInv(a, Side(a), Peer(Side(a)), job[a])'
  <2>1. JobInv(a, Side(a), Peer(Side(a)), job[a])
    BY Zenon DEF CallbackInv
  <2>2. job'[a].arg = Len(table[Side(a)]) - 1 /\ job'[a].of = job[a].of
        /\ job'[a].to = job[a].to /\ job'[a].goal = job[a].goal
        /\ pc'[a] = AfterWrap(a) /\ UNCHANGED <<table, known>>
    BY DEF Number, NewNumber, Goto, CallbackInv, TypeOK, Jobs
  <2> QED
    BY <2>1, <2>2, Zenon DEF JobInv, AfterWrap, NumberMeans, Number
<1> QED
  BY <1>3, <1>4, QuietStep, Zenon DEF Number, Goto, CallbackInv, TypeOK

\* A callback number leads back to the function that got it.
LEMMA ExecuteStep ==
  ASSUME OneThread, CallbackInv, NEW a \in Actors, Execute(a)
  PROVE  CallbackInv'
<1> DEFINE t == table[Side(a)]
<1>1. Side(a) \in Sides /\ t \in Seq(Nat)
  BY SidesAre, Zenon DEF CallbackInv, TypeOK
<1>2. /\ CallbackMeans(t, known[Side(a)], job[a].to, job[a].goal)
      /\ NumberMeans(table[Peer(Side(a))], known[Peer(Side(a))], job[a].arg, job[a].of)
  BY Zenon DEF CallbackInv, JobInv, Execute
<1>3. /\ job[a].to \in Reserved + 1 .. Len(t) - 1
      /\ <<t[job[a].to + 1], job[a].goal>> \in known[Side(a)] /\ job[a].goal \in AllFunctions
  BY <1>2, Zenon DEF CallbackMeans
<1>0. job[a].to \in Nat /\ job[a].to < Len(t) /\ job[a].to + 1 \in 1 .. Len(t)
  <2>1. Reserved \in Nat /\ Len(t) \in Nat
    BY <1>1, Addresses
  <2> HIDE DEF t
  <2> QED
    BY <1>3, <2>1
<1>4. /\ job' = [job EXCEPT ![a].to = t[@ + 1]] /\ pc' = [pc EXCEPT ![a] = "unwrap"]
      /\ UNCHANGED <<table, memory, known, mail, lock>>
  BY <1>0, Zenon DEF Execute, Goto
<1>5. t[job[a].to + 1] \in Nat
  BY <1>0, <1>1, SMTT(60)
<1> HIDE DEF t
<1>6. TypeOK'
  BY <1>4, <1>5, ZenonT(60) DEF CallbackInv, TypeOK, memory, Places, Jobs
<1>7. JobInv(a, Side(a), Peer(Side(a)), job[a])'
  BY <1>2, <1>3, <1>4 DEF CallbackInv, TypeOK, Jobs, JobInv
<1> QED
  BY <1>4, <1>6, <1>7, QuietStep, Zenon DEF CallbackInv, TypeOK, Execute

\* An outgoing pointer is unwrapped, found in the table, or added to it.
LEMMA WrapOutgoingStep ==
  ASSUME OneThread, CallbackInv, NEW a \in Actors, WrapOutgoing(a)
  PROVE  CallbackInv'
<1> DEFINE s == Side(a)
           p == Peer(s)
<1>1. s \in Sides /\ p \in Sides /\ s # p /\ table[s] \in Seq(Nat) /\ job[a].arg \in Nat
  BY SidesAre, Zenon DEF CallbackInv, TypeOK, Jobs
<1>2. <<job[a].arg, job[a].of>> \in known[s] /\ JobInv(a, s, p, job[a]) /\ pc[a] = "wrap"
  BY Zenon DEF CallbackInv, JobInv, WrapOutgoing
<1>3. IF NeedsWrapping(job[a].arg) THEN job[a].of \in AllFunctions
      ELSE job[a].arg = job[a].of /\ job[a].arg \in Specials
  BY <1>1, <1>2, WrappedValue
<1> HIDE DEF s, p
<1>4. UNCHANGED <<memory, known, lock, job, mail>>
  BY Zenon DEF WrapOutgoing
<1>5. CASE ~NeedsWrapping(job[a].arg)
  <2>1. pc' = [pc EXCEPT ![a] = AfterWrap(a)] /\ table' = table
    BY <1>5, Zenon DEF WrapOutgoing, Goto
  <2>2. TypeOK'
    BY <1>4, <2>1, ZenonT(60) DEF CallbackInv, TypeOK, memory, Places, AfterWrap
  <2>3. JobInv(a, s, p, job[a])'
    BY <1>2, <1>3, <1>4, <1>5, <2>1, ZenonT(60) DEF JobInv, AfterWrap, NumberMeans, CallbackInv, TypeOK
  <2> QED
    BY <1>2, <1>4, <2>1, <2>2, <2>3, QuietStep, Zenon DEF CallbackInv, TypeOK, s, p
<1>6. CASE NeedsWrapping(job[a].arg)
  <2>1. /\ pc' = [pc EXCEPT ![a] = "number"]
        /\ table' = [table EXCEPT ![s] = Append(@, job[a].arg)] /\ Len(table[s]) < MaxAddress
    BY <1>6, Zenon DEF WrapOutgoing, Goto, s
  <2>2. TypeOK'
    BY <1>1, <1>4, <2>1, SMTT(60) DEF CallbackInv, TypeOK, memory, Places
  <2>3. /\ table'[s] = Append(table[s], job[a].arg) /\ \A r \in Sides : r # s => table'[r] = table[r]
        /\ Len(table'[s]) = Len(table[s]) + 1 /\ table'[s][Len(table'[s])] = job[a].arg
        /\ \A i \in 1 .. Len(table[s]) : table'[s][i] = table[s][i]
    BY <1>1, <2>1 DEF CallbackInv, TypeOK
  <2>4. Growing
    <3> SUFFICES ASSUME NEW r \in Sides
                 PROVE  /\ Len(table[r]) <= Len(table'[r])
                        /\ \A i \in 1 .. Len(table[r]) : table'[r][i] = table[r][i]
      BY <1>4, Zenon DEF Growing, memory
    <3>1. Len(table[r]) \in Nat
      BY DEF CallbackInv, TypeOK
    <3> QED
      BY <2>3, <3>1, SMTT(60)
  <2>5. TableInv'
    BY <1>1, <2>1, <2>3, Addresses, SMTT(60) DEF CallbackInv, TableInv
  <2>6. JobInv(a, s, p, job[a])'
    <3>1. CallbackMeans(table'[s], known'[s], Len(table'[s]) - 1, job[a].of)
      <4>1. Len(table[s]) \in Reserved + 1 .. MaxAddress
        BY <1>1, Zenon DEF CallbackInv, TableInv
      <4>2. Len(table'[s]) - 1 + 1 = Len(table'[s]) /\ Len(table'[s]) - 1 \in Reserved + 1 .. Len(table'[s]) - 1
        BY <2>3, <4>1, Addresses
      <4> QED
        BY <1>2, <1>3, <1>4, <1>6, <2>3, <4>2, Zenon DEF CallbackMeans
    <3>2. table'[p] = table[p] /\ known' = known
      BY <1>1, <1>4, <2>3, Zenon
    <3> QED
      BY <1>2, <1>4, <2>1, <2>3, <3>1, <3>2, SMTT(60) DEF JobInv, CallbackInv, TypeOK
  <2>7. Local(a)
    BY <1>4, <2>1, <2>3, Zenon DEF Local, memory, CallbackInv, TypeOK, s
  <2>8. KnownInv' /\ MailInv' /\ MemoryInv'
    <3>1. KnownInv'
      BY <1>4, <2>2, <2>4, KnownKept, Zenon
    <3>2. MailInv'
      BY <1>4, <2>2, <2>4, MailKept, Zenon DEF MailInv
    <3>3. MemoryInv'
      BY <1>2, <1>4, <2>7, MemoryKept, Zenon DEF Local
    <3> QED
      BY <3>1, <3>2, <3>3, Zenon
  <2> QED
    BY <2>2, <2>4, <2>5, <2>6, <2>7, <2>8, AllJobs, Zenon DEF CallbackInv, s, p
<1> QED
  BY <1>5, <1>6, Zenon

\* The message is posted.
LEMMA PostStep ==
  ASSUME OneThread, CallbackInv, NEW a \in Actors, Post(a)
  PROVE  CallbackInv'
<1> DEFINE s == Side(a)
           p == Peer(s)
<1>1. s \in Sides /\ p \in Sides /\ Peer(p) = s
  BY SidesAre, Zenon
<1>2. JobInv(a, s, p, job[a]) /\ pc[a] = "post"
  BY Zenon DEF CallbackInv, Post
<1> HIDE DEF s, p
<1>3. /\ mail' = [mail EXCEPT ![p] = {job[a]}] /\ job' = [job EXCEPT ![a] = Idle]
      /\ pc' = [pc EXCEPT ![a] = "wait"] /\ UNCHANGED <<table, memory, known, lock>>
  BY Zenon DEF Post, Goto, s, p
<1>4. TypeOK'
  <2>1. Idle \in Jobs
    BY Zenon DEF Idle, Jobs
  <2> QED
    BY <1>1, <1>3, <2>1, SMTT(60) DEF CallbackInv, TypeOK, memory, Places
<1>5. Growing /\ Local(a)
  BY <1>3 DEF Growing, Local, memory, CallbackInv, TypeOK
<1>6. JobInv(a, s, p, job[a])'
  BY <1>3, Zenon DEF JobInv, CallbackInv, TypeOK
<1>7. MailInv'
  <2>1. \A m \in mail'[p] : m = job[a]
    BY <1>1, <1>3, Zenon DEF CallbackInv, TypeOK
  <2>2. \A r \in Sides : r # p => mail'[r] = mail[r]
    BY <1>3, Zenon DEF CallbackInv, TypeOK
  <2>3. ASSUME NEW m \in mail'[p]
        PROVE  /\ (m.to = 0 /\ m.goal = 0) \/ CallbackMeans(table'[p], known'[p], m.to, m.goal)
               /\ NumberMeans(table'[s], known'[s], m.arg, m.of)
    BY <1>2, <1>3, <2>1, <2>3, Zenon DEF JobInv
  <2>4. ASSUME NEW r \in Sides, r # p, NEW m \in mail'[r]
        PROVE  /\ (m.to = 0 /\ m.goal = 0) \/ CallbackMeans(table'[r], known'[r], m.to, m.goal)
               /\ NumberMeans(table'[Peer(r)], known'[Peer(r)], m.arg, m.of)
    BY <1>4, <1>5, <2>2, <2>4, MailKept, Zenon
  <2> QED
    BY <1>1, <2>3, <2>4, Zenon DEF MailInv
<1>8. KnownInv' /\ TableInv' /\ MemoryInv'
  <2>1. KnownInv'
    BY <1>3, <1>4, <1>5, KnownKept, Zenon
  <2>2. TableInv'
    BY <1>3, Zenon DEF CallbackInv, TableInv
  <2>3. MemoryInv'
    BY <1>2, <1>3, <1>5, MemoryKept, Zenon DEF Local
  <2> QED
    BY <2>1, <2>2, <2>3, Zenon
<1> QED
  BY <1>4, <1>5, <1>6, <1>7, <1>8, AllJobs, Zenon DEF CallbackInv, s, p
-----------------------------------------------------------------------------
(* Receiving *)

\* The message is taken by the other side.
LEMMA ReceiveStep ==
  ASSUME OneThread, CallbackInv, NEW a \in Actors, Receive(a)
  PROVE  CallbackInv'
<1> DEFINE s == Side(a)
           p == Peer(s)
<1>1. s \in Sides /\ p \in Sides /\ Peer(p) = s
  BY SidesAre, Zenon
<1> HIDE DEF s, p
<1>2. PICK m \in mail[s] : /\ job' = [job EXCEPT ![a] = m]
                           /\ pc' = [pc EXCEPT ![a] = IF m.to = 0 THEN "unwrap" ELSE "execute"]
                           /\ lock' = lock \ {a}
  BY Zenon DEF Receive, Goto, Unlock, s
<1>3. pc[a] = "wait" /\ mail' = [mail EXCEPT ![s] = {}] /\ UNCHANGED <<table, memory, known>>
  BY Zenon DEF Receive, s
<1>4. TypeOK'
  BY <1>1, <1>2, <1>3, Zenon DEF CallbackInv, TypeOK, memory, Places
<1>5. Growing /\ Local(a)
  BY <1>2, <1>3 DEF Growing, Local, memory, CallbackInv, TypeOK
<1>6. JobInv(a, s, p, job[a])'
  <2>1. /\ (m.to = 0 /\ m.goal = 0) \/ CallbackMeans(table[s], known[s], m.to, m.goal)
        /\ NumberMeans(table[p], known[p], m.arg, m.of)
    BY <1>1, <1>2, Zenon DEF CallbackInv, MailInv, p
  <2>2. m.to # 0 => CallbackMeans(table[s], known[s], m.to, m.goal)
    BY <2>1, Zenon
  <2>3. job'[a] = m /\ pc'[a] = IF m.to = 0 THEN "unwrap" ELSE "execute"
    BY <1>2, Zenon DEF CallbackInv, TypeOK
  <2>4. m.to = 0 => m.goal = 0
    BY <2>1, Addresses DEF CallbackMeans
  <2> QED
    BY <1>3, <2>1, <2>2, <2>3, <2>4, Zenon DEF JobInv
<1>7. MailInv'
  <2>1. \A r \in Sides : mail'[r] \subseteq mail[r]
    BY <1>1, <1>3, Zenon DEF CallbackInv, TypeOK
  <2> QED
    BY <1>4, <1>5, <2>1, MailKept, Zenon DEF MailInv
<1>8. KnownInv' /\ TableInv' /\ MemoryInv'
  <2>1. KnownInv'
    BY <1>3, <1>4, <1>5, KnownKept, Zenon
  <2>2. TableInv'
    BY <1>3, Zenon DEF CallbackInv, TableInv
  <2>3. MemoryInv'
    BY <1>3, <1>5, MemoryKept, Zenon DEF Local
  <2> QED
    BY <2>1, <2>2, <2>3, Zenon
<1> QED
  BY <1>4, <1>5, <1>6, <1>7, <1>8, AllJobs, Zenon DEF CallbackInv, s, p
\* The pages and the free bytes once b is chosen for the next trampoline.
NewPages(s, b) == IF NeedsPage(s) THEN mapped[s] \cup {b} ELSE mapped[s]
NewLeft(s) == IF NeedsPage(s) THEN PageBytes ELSE left[s]
NextPlaces(s) == IF NeedsPage(s) THEN Pages \ mapped[s] ELSE {cursor[s]}

\* The place of a new trampoline is free and inside a page.
LEMMA FreePlace ==
  ASSUME CallbackInv, NEW s \in Sides, \A a \in Actors : Side(a) = s => pc[a] # "advance",
         NEW b \in NextPlaces(s)
  PROVE  /\ b \in Nat /\ b # 0 /\ NewLeft(s) \in Nat /\ TrampolineBytes <= NewLeft(s)
         /\ NewPages(s, b) \subseteq Pages
         /\ \E g \in NewPages(s, b) : g <= b /\ b + NewLeft(s) = g + PageBytes
         /\ \A x \in DOMAIN code[s] :
              Apart(x, b) /\ x # b /\ (x + TrampolineBytes <= b \/ b + NewLeft(s) <= x)
<1> DEFINE bs == NewPages(s, b)
           n == NewLeft(s)
<1>0. IF NeedsPage(s) THEN b \in Pages \ mapped[s] /\ bs = mapped[s] \cup {b} /\ n = PageBytes
         ELSE b = cursor[s] /\ bs = mapped[s] /\ n = left[s]
  BY Zenon DEF NewPages, NewLeft, NextPlaces
<1> HIDE DEF bs, n
<1>1. mapped[s] \subseteq Pages /\ cursor[s] \in Nat /\ left[s] \in Nat /\ DOMAIN code[s] \subseteq Nat
  BY Zenon DEF CallbackInv, TypeOK
<1>2. TrampolineBytes \in Nat /\ 0 < TrampolineBytes /\ PageBytes \in Nat /\ TrampolineBytes <= PageBytes
      /\ Reserved \in Nat
  BY Addresses, Zenon
<1>3. CASE NeedsPage(s)
  <2>1. b \in Pages /\ b \notin mapped[s] /\ n = PageBytes
    BY <1>0, <1>3, Zenon
  <2>2. b \in Nat /\ Reserved < b
    BY <2>1, AddressAssumption, Zenon
  <2>3. ASSUME NEW x \in DOMAIN code[s] PROVE x + TrampolineBytes <= b \/ b + n <= x
    <3>1. PICK g \in mapped[s] : g <= x /\ x + TrampolineBytes <= g + PageBytes
      BY Zenon DEF CallbackInv, MemoryInv, InPage
    <3>2. g \in Nat /\ (g + PageBytes <= b \/ b + PageBytes <= g)
      BY <1>1, <2>1, AddressAssumption, Zenon
    <3> QED
      BY <1>1, <1>2, <2>1, <2>2, <3>1, <3>2
  <2>4. ASSUME NEW x \in DOMAIN code[s] PROVE Apart(x, b) /\ x # b
    BY <1>1, <1>2, <2>1, <2>2, <2>3 DEF Apart
  <2>5. bs = mapped[s] \cup {b}
    BY <1>0, <1>3, Zenon
  <2> QED
    BY <1>1, <1>2, <2>1, <2>2, <2>3, <2>4, <2>5 DEF bs, n
<1>4. CASE ~NeedsPage(s)
  <2>1. b = cursor[s] /\ n = left[s] /\ b # 0 /\ TrampolineBytes <= n /\ bs = mapped[s]
    BY <1>0, <1>1, <1>2, <1>4 DEF NeedsPage
  <2>2. ASSUME NEW x \in DOMAIN code[s] PROVE x + TrampolineBytes <= b \/ b + n <= x
    BY <2>1, Zenon DEF CallbackInv, MemoryInv
  <2>3. ASSUME NEW x \in DOMAIN code[s] PROVE Apart(x, b) /\ x # b
    BY <1>1, <1>2, <2>1, <2>2 DEF Apart
  <2>4. \E g \in mapped[s] : g <= b /\ b + n = g + PageBytes
    BY <2>1, Zenon DEF CallbackInv, MemoryInv
  <2> QED
    BY <1>1, <2>1, <2>2, <2>3, <2>4, Zenon DEF bs, n
<1> QED
  BY <1>3, <1>4, Zenon

\* An incoming number is unwrapped or gets a trampoline.
LEMMA WrapIncomingStep ==
  ASSUME OneThread, CallbackInv, NEW a \in Actors, WrapIncoming(a)
  PROVE  CallbackInv'
<1> DEFINE s == Side(a)
           p == Peer(s)
<1>1. s \in Sides /\ p \in Sides /\ s # p /\ table[p] \in Seq(Nat) /\ Len(table[p]) \in Reserved + 1 .. MaxAddress
      /\ job[a] \in Jobs
  BY SidesAre, ZenonT(60) DEF CallbackInv, TypeOK, TableInv
<1>2. JobInv(a, s, p, job[a]) /\ pc[a] = "unwrap" /\ NumberMeans(table[p], known[p], job[a].arg, job[a].of)
  BY Zenon DEF CallbackInv, JobInv, WrapIncoming
<1>3. IF NeedsWrapping(job[a].arg) THEN CallbackMeans(table[p], known[p], job[a].arg, job[a].of)
      ELSE job[a].arg = job[a].of /\ job[a].arg \in Specials
  <2>1. CASE job[a].arg = job[a].of /\ job[a].arg \in Specials
    BY <2>1, Addresses, Zenon
  <2>2. CASE CallbackMeans(table[p], known[p], job[a].arg, job[a].of)
    <3>1. job[a].arg \in Reserved + 1 .. Len(table[p]) - 1
      BY <2>2, Zenon DEF CallbackMeans
    <3>2. Reserved \in Nat /\ MaxAddress \in Nat
      BY Addresses, Zenon
    <3>3. NeedsWrapping(job[a].arg)
      BY <1>1, <3>1, <3>2, SMTT(60) DEF NeedsWrapping
    <3> QED
      BY <2>2, <3>3, Zenon
  <2> QED
    BY <1>2, <2>1, <2>2, Zenon DEF NumberMeans
<1> HIDE DEF s, p
<1>4. UNCHANGED <<table, known, lock, mail>>
  BY Zenon DEF WrapIncoming
<1>5. CASE ~NeedsWrapping(job[a].arg)
  <2>1. pc' = [pc EXCEPT ![a] = "enter"] /\ UNCHANGED <<memory, job>>
    BY <1>5, Zenon DEF WrapIncoming, Goto
  <2>2. TypeOK'
    BY <1>4, <2>1, ZenonT(30) DEF CallbackInv, TypeOK, memory, Places
  <2>3. JobInv(a, s, p, job[a])'
    <3>1. UNCHANGED <<code, cursor, left, job, table, known>>
      BY <1>4, <2>1, Zenon DEF memory
    <3>2. pc'[a] = "enter"
      BY <2>1, Zenon DEF CallbackInv, TypeOK
    <3>3. PointerMeans(Functions[s], code[s], table[p], known[p], job[a].arg, job[a].of)
      BY <1>3, <1>5, Zenon DEF PointerMeans
    <3>4. \/ job[a].to = 0 /\ job[a].goal = 0
          \/ <<job[a].to, job[a].goal>> \in known[s] /\ job[a].goal \in AllFunctions
      BY <1>2, Zenon DEF JobInv
    <3>5. PointerMeans(Functions[s], code[s], table[p], known[p], job[a].arg, job[a].of)'
      BY <3>1, <3>3, Zenon DEF PointerMeans, CallbackMeans
    <3>6. pc'[a] \notin {"invalid", "lock", "wrap", "number", "post", "execute", "unwrap", "advance"}
      BY <3>2
    <3> QED
      BY <3>1, <3>4, <3>5, <3>6, Zenon DEF JobInv
  <2> QED
    BY <1>2, <1>4, <2>1, <2>2, <2>3, QuietStep, Zenon DEF CallbackInv, TypeOK, s, p
<1>6. CASE NeedsWrapping(job[a].arg)
  <2>1. PICK b \in IF NeedsPage(s) THEN Pages \ mapped[s] ELSE {cursor[s]} :
          /\ code' = [code EXCEPT ![s] =
                 [x \in DOMAIN @ \cup {b} |-> IF x = b THEN job[a].arg ELSE @[x]]]
          /\ mapped' = [mapped EXCEPT ![s] = IF NeedsPage(s) THEN @ \cup {b} ELSE @]
          /\ cursor' = [cursor EXCEPT ![s] = b]
          /\ left' = [left EXCEPT ![s] = IF NeedsPage(s) THEN PageBytes ELSE @]
          /\ job' = [job EXCEPT ![a].arg = b]
          /\ pc' = [pc EXCEPT ![a] = "advance"]
    BY <1>6, Zenon DEF WrapIncoming, Goto, s
  <2>2. \A c \in Actors : Side(c) = s => c = a
    BY ActorsOfSide, Zenon DEF s
  <2>3. /\ mapped'[s] = IF NeedsPage(s) THEN mapped[s] \cup {b} ELSE mapped[s]
        /\ left'[s] = IF NeedsPage(s) THEN PageBytes ELSE left[s]
        /\ cursor'[s] = b
        /\ DOMAIN code'[s] = DOMAIN code[s] \cup {b} /\ code'[s][b] = job[a].arg
        /\ \A x \in DOMAIN code[s] : x # b => code'[s][x] = code[s][x]
        /\ code'[s] \in [DOMAIN code'[s] -> Nat]
    BY <1>1, <2>1, ZenonT(60) DEF CallbackInv, TypeOK, Jobs
  <2>4. \A r \in Sides : r # s => /\ mapped'[r] = mapped[r] /\ left'[r] = left[r]
                                  /\ cursor'[r] = cursor[r] /\ code'[r] = code[r]
    BY <2>1, Zenon DEF CallbackInv, TypeOK
  <2>5. /\ b \in Nat /\ b # 0 /\ left'[s] \in Nat /\ TrampolineBytes <= left'[s]
        /\ mapped'[s] \subseteq Pages
        /\ \E g \in mapped'[s] : g <= b /\ b + left'[s] = g + PageBytes
        /\ \A x \in DOMAIN code[s] :
              Apart(x, b) /\ x # b /\ (x + TrampolineBytes <= b \/ b + left'[s] <= x)
    <3>1. \A c \in Actors : Side(c) = s => pc[c] # "advance"
      BY <1>2, <2>2, Zenon
    <3>2. mapped'[s] = NewPages(s, b) /\ left'[s] = NewLeft(s) /\ b \in NextPlaces(s)
      BY <2>1, <2>3, Zenon DEF NewPages, NewLeft, NextPlaces
    <3> QED
      BY <1>1, <3>1, <3>2, FreePlace
  <2>6. /\ job'[a].arg = b /\ job'[a].of = job[a].of /\ job'[a].to = job[a].to
        /\ job'[a].goal = job[a].goal /\ pc'[a] = "advance"
        /\ job' \in [Actors -> Jobs] /\ pc' \in [Actors -> Places]
    <3>1. job \in [Actors -> Jobs] /\ pc \in [Actors -> Places]
      BY Zenon DEF CallbackInv, TypeOK
    <3>2. pc' \in [Actors -> Places] /\ pc'[a] = "advance"
      BY <2>1, <3>1, Zenon DEF Places
    <3>3. job'[a] = [job[a] EXCEPT !.arg = b]
      BY <2>1, <3>1, Zenon
    <3>4. job'[a] \in Jobs
      BY <1>1, <2>5, <3>3, Zenon DEF Jobs
    <3>5. job' \in [Actors -> Jobs]
      BY <2>1, <3>1, <3>3, <3>4, Zenon
    <3> QED
      BY <1>1, <3>2, <3>3, <3>5, Zenon DEF Jobs
  <2>7. TypeOK'
    <3>1. code' = [r \in Sides |-> code'[r]]
      BY <2>1, Zenon DEF CallbackInv, TypeOK
    <3>2. \A r \in Sides : code'[r] \in [DOMAIN code'[r] -> Nat] /\ DOMAIN code'[r] \subseteq Nat
      BY <2>3, <2>4, <2>5, ZenonT(60) DEF CallbackInv, TypeOK
    <3>3. mapped' \in [Sides -> SUBSET Pages] /\ cursor' \in [Sides -> Nat] /\ left' \in [Sides -> Nat]
      <4>1. mapped' = [r \in Sides |-> mapped'[r]] /\ cursor' = [r \in Sides |-> cursor'[r]]
            /\ left' = [r \in Sides |-> left'[r]]
        BY <2>1, Zenon DEF CallbackInv, TypeOK
      <4>2. \A r \in Sides : mapped'[r] \subseteq Pages /\ cursor'[r] \in Nat /\ left'[r] \in Nat
        BY <2>3, <2>4, <2>5, SMTT(60) DEF CallbackInv, TypeOK
      <4> QED
        BY <4>1, <4>2, Zenon
    <3> QED
      BY <1>4, <2>6, <3>1, <3>2, <3>3, ZenonT(60) DEF CallbackInv, TypeOK
  <2>8. Growing
    <3>1. \A r \in Sides : Len(table[r]) <= Len(table'[r])
      BY <1>4 DEF CallbackInv, TypeOK
    <3>2. \A r \in Sides : DOMAIN code[r] \subseteq DOMAIN code'[r] /\ \A x \in DOMAIN code[r] : code'[r][x] = code[r][x]
      BY <2>3, <2>4, <2>5
    <3> QED
      BY <1>4, <3>1, <3>2, Zenon DEF Growing
  <2>9. Local(a)
    BY <1>4, <2>1, <2>4, Zenon DEF Local, CallbackInv, TypeOK, s
  <2>10. JobInv(a, s, p, job[a])'
    <3>1. PointerMeans(Functions[s], code'[s], table'[p], known'[p], b, job[a].of)
      BY <1>3, <1>4, <1>6, <2>3, Zenon DEF PointerMeans
    <3> QED
      BY <1>2, <1>4, <2>3, <2>5, <2>6, <3>1, Zenon DEF JobInv
  <2>11. MemoryInv'
    <3> SUFFICES ASSUME NEW r \in Sides
                 PROVE  (/\ cursor[r] # 0 => \E g \in mapped[r] : g <= cursor[r] /\ cursor[r] + left[r] = g + PageBytes
                         /\ cursor[r] = 0 => DOMAIN code[r] = {}
                         /\ \A x \in DOMAIN code[r] :
                              /\ InPage(x, mapped[r])
                              /\ x + TrampolineBytes <= cursor[r] \/ cursor[r] + left[r] <= x
                                  \/ (x = cursor[r] /\ \E c \in Actors : Side(c) = r /\ pc[c] = "advance")
                              /\ \A y \in DOMAIN code[r] : x = y \/ Apart(x, y))'
      BY ZenonT(60) DEF MemoryInv
    <3>1. CASE r # s
      <4>1. \A c \in Actors : Side(c) = r => pc'[c] = pc[c]
        BY <2>9, <3>1, Zenon DEF Local, s
      <4> QED
        BY <2>4, <3>1, <4>1 DEF CallbackInv, MemoryInv
    <3>2. CASE r = s
      <4>1. ASSUME NEW x \in DOMAIN code[s] PROVE InPage(x, mapped'[s])
        BY <1>1, <2>3, ZenonT(60) DEF CallbackInv, MemoryInv, InPage
      <4>2. InPage(b, mapped'[s])
        <5>1. PICK g \in mapped'[s] : g <= b /\ b + left'[s] = g + PageBytes
          BY <2>5, Zenon
        <5>2. g \in Nat /\ TrampolineBytes \in Nat /\ PageBytes \in Nat
          BY <2>5, Addresses, AddressAssumption, ZenonT(60)
        <5> QED
          BY <2>5, <5>1, <5>2 DEF InPage
      <4>3. \A x, y \in DOMAIN code'[s] : x = y \/ Apart(x, y)
        BY <1>1, <2>3, <2>5 DEF CallbackInv, MemoryInv, Apart
      <4>4. \A x \in DOMAIN code'[s] : x = b \/ x + TrampolineBytes <= b \/ b + left'[s] <= x
        BY <2>3, <2>5, Zenon
      <4> QED
        BY <2>3, <2>5, <2>6, <3>2, <4>1, <4>2, <4>3, <4>4, ZenonT(60) DEF s
    <3> QED
      BY <3>1, <3>2, Zenon
  <2>12. KnownInv' /\ TableInv' /\ MailInv'
    <3>1. KnownInv'
      BY <1>4, <2>7, <2>8, KnownKept, Zenon
    <3>2. TableInv'
      BY <1>4, Zenon DEF CallbackInv, TableInv
    <3>3. MailInv'
      BY <1>4, <2>7, <2>8, MailKept, Zenon DEF MailInv
    <3> QED
      BY <3>1, <3>2, <3>3, Zenon
  <2> QED
    BY <2>7, <2>8, <2>9, <2>10, <2>11, <2>12, AllJobs, Zenon DEF CallbackInv, s, p
<1> QED
  BY <1>5, <1>6, Zenon

\* The place of the next trampoline moves on.
LEMMA AdvanceStep ==
  ASSUME OneThread, CallbackInv, NEW a \in Actors, Advance(a)
  PROVE  CallbackInv'
<1> DEFINE s == Side(a)
           p == Peer(s)
<1>1. s \in Sides /\ p \in Sides /\ cursor[s] \in Nat /\ left[s] \in Nat
      /\ TrampolineBytes \in Nat /\ 0 < TrampolineBytes
  BY SidesAre, Addresses, ZenonT(60) DEF CallbackInv, TypeOK
<1>2. /\ JobInv(a, s, p, job[a]) /\ pc[a] = "advance"
      /\ job[a].arg = cursor[s] /\ cursor[s] # 0 /\ TrampolineBytes <= left[s]
  BY Zenon DEF CallbackInv, JobInv, Advance
<1> HIDE DEF s, p
<1>3. /\ cursor' = [cursor EXCEPT ![s] = cursor[s] + TrampolineBytes]
      /\ left' = [left EXCEPT ![s] = left[s] - TrampolineBytes]
      /\ pc' = [pc EXCEPT ![a] = "enter"]
      /\ UNCHANGED <<table, code, mapped, known, lock, job, mail>>
  BY <1>2, Zenon DEF Advance, Goto, s
<1>4. TypeOK'
  <2>1. cursor[s] + TrampolineBytes \in Nat /\ left[s] - TrampolineBytes \in Nat
    BY <1>1, <1>2
  <2>2. cursor' \in [Sides -> Nat] /\ left' \in [Sides -> Nat]
    BY <1>3, <2>1, Zenon DEF CallbackInv, TypeOK
  <2>3. pc' \in [Actors -> Places]
    BY <1>3, Zenon DEF CallbackInv, TypeOK, Places
  <2> QED
    BY <1>3, <2>2, <2>3, Zenon DEF CallbackInv, TypeOK
<1>5. Growing /\ Local(a)
  BY <1>3, SMTT(60) DEF Growing, Local, CallbackInv, TypeOK, s
<1>6. JobInv(a, s, p, job[a])'
  BY <1>2, <1>3, ZenonT(60) DEF JobInv, CallbackInv, TypeOK
<1>7. MemoryInv'
  <2>1. /\ cursor'[s] = cursor[s] + TrampolineBytes /\ left'[s] = left[s] - TrampolineBytes
        /\ \A r \in Sides : r # s => cursor'[r] = cursor[r] /\ left'[r] = left[r]
    BY <1>1, <1>3, Zenon DEF CallbackInv, TypeOK
  <2>2. \A x \in DOMAIN code[s] : x \in Nat /\ (x + TrampolineBytes <= cursor'[s] \/ cursor'[s] + left'[s] <= x)
    <3> SUFFICES ASSUME NEW x \in DOMAIN code[s]
                 PROVE  x \in Nat /\ (x + TrampolineBytes <= cursor'[s] \/ cursor'[s] + left'[s] <= x)
      BY Zenon
    <3>1. x \in Nat
      BY <1>1, Zenon DEF CallbackInv, TypeOK
    <3>2. x + TrampolineBytes <= cursor[s] \/ cursor[s] + left[s] <= x \/ x = cursor[s]
      BY <1>1, Zenon DEF CallbackInv, MemoryInv
    <3> QED
      BY <1>1, <1>2, <2>1, <3>1, <3>2
  <2>3. \E g \in mapped[s] : g <= cursor'[s] /\ cursor'[s] + left'[s] = g + PageBytes
    <3>1. PICK g \in mapped[s] : g <= cursor[s] /\ cursor[s] + left[s] = g + PageBytes
      BY <1>1, <1>2, Zenon DEF CallbackInv, MemoryInv
    <3>2. g \in Nat /\ PageBytes \in Nat
      BY <1>1, Addresses, AddressAssumption, ZenonT(60) DEF CallbackInv, TypeOK
    <3> QED
      BY <1>1, <1>2, <2>1, <3>1, <3>2
  <2>4. cursor'[s] # 0
    BY <1>1, <1>2, <2>1
  <2>5. \A r \in Sides : r # s => \A c \in Actors : Side(c) = r => pc'[c] = pc[c]
    BY <1>5, Zenon DEF Local, s
  <2> QED
    BY <1>3, <2>1, <2>2, <2>3, <2>4, <2>5, SMTT(60) DEF CallbackInv, MemoryInv
<1>8. KnownInv' /\ TableInv' /\ MailInv'
  <2>1. KnownInv'
    BY <1>3, <1>4, <1>5, KnownKept, Zenon
  <2>2. TableInv'
    BY <1>3, Zenon DEF CallbackInv, TableInv
  <2>3. MailInv'
    BY <1>3, <1>4, <1>5, MailKept, Zenon DEF MailInv
  <2> QED
    BY <2>1, <2>2, <2>3, Zenon
<1> QED
  BY <1>4, <1>5, <1>6, <1>7, <1>8, AllJobs, Zenon DEF CallbackInv, s, p

\* The callback that is entered: a function of the process, or a trampoline
\* whose number stands for the same function.
LEMMA EnteredCallback ==
  ASSUME CallbackInv, NEW s \in Sides, NEW c, NEW g, <<c, g>> \in known[s], g \in AllFunctions
  PROVE  \/ c = g /\ c \in Functions[s]
         \/ /\ c \in DOMAIN code[s] /\ c \notin AllFunctions /\ c # 0
            /\ CallbackMeans(table[Peer(s)], known[Peer(s)], code[s][c], g)
<1>1. PointerMeans(Functions[s], code[s], table[Peer(s)], known[Peer(s)], c, g)
  BY Zenon DEF CallbackInv, KnownInv
<1>2. c \in DOMAIN code[s] => c \notin AllFunctions /\ c # 0
  BY TrampolineAddress, Zenon DEF CallbackInv
<1> QED
  BY <1>1, <1>2, Addresses, Zenon DEF PointerMeans

\* The function that was called runs, with the pointer it was given.
LEMMA EnterStep ==
  ASSUME OneThread, CallbackInv, NEW a \in Actors, Enter(a)
  PROVE  CallbackInv'
<1> DEFINE s == Side(a)
           p == Peer(s)
           c == job[a].to
<1>1. s \in Sides /\ p \in Sides /\ job[a] \in Jobs /\ Peer(s) = p
  BY SidesAre, Zenon DEF CallbackInv, TypeOK
<1>2. /\ pc[a] = "enter" /\ PointerMeans(Functions[s], code[s], table[p], known[p], job[a].arg, job[a].of)
      /\ (c = 0 /\ job[a].goal = 0) \/ (<<c, job[a].goal>> \in known[s] /\ job[a].goal \in AllFunctions)
  BY Zenon DEF CallbackInv, JobInv, Enter
<1> HIDE DEF s, p
<1>3. known' = [known EXCEPT ![s] = @ \cup {<<job[a].arg, job[a].of>>}] /\ UNCHANGED <<table, memory, lock, mail>>
  BY Zenon DEF Enter, s
<1>4. \/ /\ c = 0 \/ c \in AllFunctions
         /\ pc' = [pc EXCEPT ![a] = "run"] /\ job' = [job EXCEPT ![a] = Idle]
      \/ /\ c \in DOMAIN code[s] /\ CallbackMeans(table[p], known[p], code[s][c], job[a].goal)
         /\ pc' = [pc EXCEPT ![a] = "wrap"] /\ job' = [job EXCEPT ![a].to = code[s][c]]
  <2>1. CASE c = 0 \/ c \in AllFunctions
    BY <2>1, Zenon DEF Enter, Goto
  <2>2. CASE ~(c = 0 \/ c \in AllFunctions)
    <3>1. c \in DOMAIN code[s] /\ CallbackMeans(table[p], known[p], code[s][c], job[a].goal)
      BY <1>1, <1>2, <2>2, EnteredCallback, Addresses, Zenon DEF p
    <3> QED
      BY <2>2, <3>1, Zenon DEF Enter, Goto, s
  <2> QED
    BY <2>1, <2>2, Zenon
<1> HIDE DEF c
<1>5. TypeOK'
  <2>1. Idle \in Jobs
    BY Zenon DEF Idle, Jobs
  <2>2. \A n \in Nat : [job EXCEPT ![a].to = n] \in [Actors -> Jobs]
    BY ZenonT(60) DEF CallbackInv, TypeOK, Jobs
  <2>3. c \in DOMAIN code[s] => code[s][c] \in Nat
    BY <1>1, Zenon DEF CallbackInv, TypeOK
  <2>4. job' \in [Actors -> Jobs] /\ pc' \in [Actors -> Places]
    <3>1. job \in [Actors -> Jobs] /\ pc \in [Actors -> Places]
      BY Zenon DEF CallbackInv, TypeOK
    <3>2. pc' \in [Actors -> Places]
      BY <1>4, <3>1, Zenon DEF Places
    <3>3. job' \in [Actors -> Jobs]
      BY <1>4, <2>1, <2>2, <2>3, <3>1
    <3> QED
      BY <3>2, <3>3, Zenon
  <2>5. known' \in [Sides -> SUBSET (Nat \X Nat)]
    <3>1. <<job[a].arg, job[a].of>> \in Nat \X Nat
      BY <1>1, Zenon DEF Jobs
    <3> QED
      BY <1>1, <1>3, <3>1 DEF CallbackInv, TypeOK
  <2> QED
    BY <1>3, <2>4, <2>5, Zenon DEF CallbackInv, TypeOK, memory
<1>6. /\ known'[s] = known[s] \cup {<<job[a].arg, job[a].of>>}
      /\ \A r \in Sides : r # s => known'[r] = known[r]
  BY <1>1, <1>3, Zenon DEF CallbackInv, TypeOK
<1>7. Growing
  <2>1. \A r \in Sides : known[r] \subseteq known'[r]
    BY <1>6, Zenon
  <2>2. \A r \in Sides : Len(table[r]) \in Nat
    BY DEF CallbackInv, TypeOK
  <2> QED
    BY <1>3, <2>1, <2>2 DEF Growing, memory
<1>8. Local(a)
  BY <1>3, <1>4, Zenon DEF Local, memory, CallbackInv, TypeOK
<1>9. KnownInv'
  <2> SUFFICES ASSUME NEW r \in Sides, NEW x \in known'[r]
               PROVE  PointerMeans(Functions[r], code'[r], table'[Peer(r)], known'[Peer(r)], x[1], x[2])
    BY Zenon DEF KnownInv
  <2>1. PointerMeans(Functions[r], code[r], table[Peer(r)], known[Peer(r)], x[1], x[2])
    <3>1. CASE x \in known[r]
      BY <3>1, Zenon DEF CallbackInv, KnownInv
    <3>2. CASE x \notin known[r]
      <4>1. r = s /\ x = <<job[a].arg, job[a].of>>
        BY <1>6, <3>2, Zenon
      <4>2. x[1] = job[a].arg /\ x[2] = job[a].of
        BY <4>1, Zenon
      <4> QED
        BY <1>1, <1>2, <4>1, <4>2, Zenon
    <3> QED
      BY <3>1, <3>2, Zenon
  <2> QED
    BY <1>5, <1>7, <2>1, Kept, Zenon DEF CallbackInv
<1>10. JobInv(a, s, p, job[a])'
  <2>1. CallbackMeans(table[p], known[p], code[s][c], job[a].goal)
          => CallbackMeans(table'[p], known'[p], code[s][c], job[a].goal)
    BY <1>1, <1>5, <1>7, Kept, Zenon DEF CallbackInv
  <2>2. <<job[a].arg, job[a].of>> \in known'[s]
    BY <1>6, ZenonT(60)
  <2>3. CASE pc' = [pc EXCEPT ![a] = "run"]
    BY <2>3, SMTT(60) DEF JobInv, CallbackInv, TypeOK
  <2>4. CASE /\ c \in DOMAIN code[s] /\ CallbackMeans(table[p], known[p], code[s][c], job[a].goal)
             /\ pc' = [pc EXCEPT ![a] = "wrap"] /\ job' = [job EXCEPT ![a].to = code[s][c]]
    <3>1. pc'[a] = "wrap" /\ job'[a].to = code[s][c] /\ job'[a].goal = job[a].goal
          /\ job'[a].arg = job[a].arg /\ job'[a].of = job[a].of
      BY <1>1, <2>4, ZenonT(60) DEF CallbackInv, TypeOK, Jobs
    <3> QED
      BY <2>1, <2>2, <2>4, <3>1, Zenon DEF JobInv
  <2> QED
    BY <1>4, <2>3, <2>4, Zenon
<1>11. TableInv' /\ MailInv' /\ MemoryInv'
  <2>1. TableInv'
    BY <1>3, Zenon DEF CallbackInv, TableInv
  <2>2. MailInv'
    BY <1>3, <1>5, <1>7, MailKept, Zenon DEF MailInv
  <2>3. MemoryInv'
    BY <1>2, <1>3, <1>8, MemoryKept, Zenon DEF Local
  <2> QED
    BY <2>1, <2>2, <2>3, Zenon
<1> QED
  BY <1>5, <1>7, <1>8, <1>9, <1>10, <1>11, AllJobs, Zenon DEF CallbackInv, s, p
-----------------------------------------------------------------------------
\* The inductive invariant.
THEOREM CallbacksInvariant ==
  ASSUME OneThread
  PROVE  Spec => []CallbackInv
<1>1. ASSUME CallbackInv, [Next]_vars PROVE CallbackInv'
  <2>1. ASSUME NEW a \in Actors, Call(a) \/ Runtime(a) PROVE CallbackInv'
    BY <1>1, <2>1, CallStep, LockStep, WrapOutgoingStep, NumberStep, PostStep, ReceiveStep,
       ExecuteStep, WrapIncomingStep, AdvanceStep, EnterStep, Zenon DEF Runtime
  <2>2. CASE UNCHANGED vars
    <3> USE <1>1, <2>2 DEF vars, CallbackInv
    <3>1. TypeOK'
      BY Zenon DEF TypeOK
    <3>2. KnownInv' /\ TableInv' /\ MailInv'
      BY ZenonT(60) DEF KnownInv, TableInv, MailInv
    <3>3. MemoryInv'
      BY SMTT(60) DEF MemoryInv
    <3>4. (\A a \in Actors : JobInv(a, Side(a), Peer(Side(a)), job[a]))'
      BY ZenonT(60) DEF JobInv
    <3> QED
      BY <3>1, <3>2, <3>3, <3>4, Zenon
  <2> QED
    BY <1>1, <2>1, <2>2, Zenon DEF Next
<1> QED
  BY <1>1, InitInv, PTL DEF Spec

\* A function called through trampolines, however long the chain, is the one
\* whose pointer was passed on, and runs in its own process.
THEOREM OriginalCalled ==
  ASSUME OneThread
  PROVE  Spec => []CallsTheOriginal
<1>1. CallbackInv => CallsTheOriginal
  <2> SUFFICES ASSUME CallbackInv, NEW a \in Actors
               PROVE  /\ pc[a] # "invalid"
                      /\ pc[a] = "enter" /\ job[a].to \in AllFunctions =>
                           job[a].to = job[a].goal /\ job[a].to \in Functions[Side(a)]
    BY Zenon DEF CallsTheOriginal
  <2>1. pc[a] # "invalid"
    BY Zenon DEF CallbackInv, JobInv
  <2>2. ASSUME pc[a] = "enter", job[a].to \in AllFunctions
        PROVE  job[a].to = job[a].goal /\ job[a].to \in Functions[Side(a)]
    <3>1. <<job[a].to, job[a].goal>> \in known[Side(a)] /\ job[a].goal \in AllFunctions
      BY <2>2, Addresses, Zenon DEF CallbackInv, JobInv
    <3> QED
      BY <2>2, <3>1, SidesAre, EnteredCallback, Zenon
  <2> QED
    BY <2>1, <2>2, Zenon
<1> QED
  BY <1>1, CallbacksInvariant, PTL

\* Values that are no pointers arrive as they were sent.
THEOREM SpecialsArrive ==
  ASSUME OneThread
  PROVE  Spec => []SpecialsKept
<1>1. CallbackInv => SpecialsKept
  <2> SUFFICES ASSUME CallbackInv, NEW s \in Sides, NEW x \in known[s],
                      x[1] \in Specials \/ x[2] \in Specials
               PROVE  x[1] = x[2]
    BY Zenon DEF SpecialsKept
  <2>1. PointerMeans(Functions[s], code[s], table[Peer(s)], known[Peer(s)], x[1], x[2])
    BY Zenon DEF CallbackInv, KnownInv
  <2> QED
    BY <2>1, TrampolineAddress, Addresses, Zenon DEF PointerMeans, CallbackMeans, CallbackInv
<1> QED
  BY <1>1, CallbacksInvariant, PTL

\* Trampolines stay inside their pages and do not overlap.
THEOREM TrampolinesApart ==
  ASSUME OneThread
  PROVE  Spec => []TrampolinesFit
<1>1. CallbackInv => TrampolinesFit
  BY Zenon DEF CallbackInv, MemoryInv, TrampolinesFit
<1> QED
  BY <1>1, CallbacksInvariant, PTL
=============================================================================
