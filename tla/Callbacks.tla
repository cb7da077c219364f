------------------------------ MODULE Callbacks ------------------------------
(***************************************************************************)
(* Function pointers that cross the process boundary.  A pointer that      *)
(* leaves a process becomes its number in the process's callback table; a  *)
(* number that arrives becomes a trampoline, a piece of code that calls    *)
(* back with that number.  A trampoline that is passed on is wrapped like  *)
(* any other function, so that chains arise.                               *)
(*                                                                         *)
(* Pointers are addresses.  A call, a callback and a return are one kind   *)
(* of message here: each carries one function pointer.  The rendezvous is  *)
(* that of IpcCommunication: a thread that has posted waits, the library   *)
(* serves one message at a time.  What a pointer stands for (fields goal   *)
(* and of, pairs in known) is not in the code.                             *)
(***************************************************************************)
EXTENDS Integers, Sequences, FiniteSets

CONSTANTS
  Threads,          \* threads of the program
  Lib,              \* the thread of the library
  Functions,        \* for each process, the addresses of its functions
  Specials,         \* non-pointers that the processes pass, as SIG_IGN or -1
  Reserved,         \* CALLBACK_MAX_RESERVED
  MaxAddress,       \* (void *) -1
  Pages,            \* where mmap() may place a page
  PageBytes,        \* getpagesize()
  TrampolineBytes,  \* sizeof(trampoline)
  MaxEntries        \* no call begins when a table has grown to this length

Sides == {"program", "library"}
Actors == Threads \cup {Lib}
Side(a) == IF a = Lib THEN "library" ELSE "program"
Peer(s) == IF s = "library" THEN "program" ELSE "library"
AllFunctions == Functions["program"] \cup Functions["library"]

ASSUME ActorAssumption == Lib \notin Threads /\ MaxEntries \in Nat

\* Functions, pages and non-pointers are different addresses.
ASSUME AddressAssumption ==
  /\ Reserved \in Nat /\ MaxAddress \in Nat /\ Reserved < MaxAddress
  /\ TrampolineBytes \in Nat \ {0} /\ PageBytes \in Nat /\ TrampolineBytes <= PageBytes
  /\ Specials \subseteq (0 .. Reserved) \cup {MaxAddress}
  /\ \A s \in Sides : Functions[s] \subseteq Reserved + 1 .. MaxAddress - 1
  /\ \A b \in Pages :
       /\ b \in Nat /\ Reserved < b /\ b + PageBytes <= MaxAddress
       /\ \A f \in AllFunctions : f \notin b .. b + PageBytes - 1
       /\ \A c \in Pages : b = c \/ b + PageBytes <= c \/ c + PageBytes <= b

VARIABLES
  table,     \* callback_functions: the entry of number n is at n + 1
  code,      \* written trampolines: address |-> number
  mapped,    \* pages mapped for trampolines
  cursor,    \* trampolines, 0 before the first page
  left,      \* remainingTrampolinBytes
  known,     \* pairs of a pointer in the process's hands and what it stands for
  lock,      \* threads inside sending_lock (at most one)
  pc, job,   \* where an actor is, and the message it sends or serves
  mail       \* the message area of a process that has been posted

memory == <<code, mapped, cursor, left>>
vars == <<table, code, mapped, cursor, left, known, lock, pc, job, mail>>

\* to: the callback to run (0: a function with a code of its own), as a number
\* and, once looked up, as a pointer; goal: what it stands for; arg: the pointer
\* that is passed, of: what it stands for.
Idle == [to |-> 0, goal |-> 0, arg |-> 0, of |-> 0]

Init ==
  /\ table = [s \in Sides |-> [n \in 1 .. Reserved + 1 |-> n - 1]]
  /\ code = [s \in Sides |-> << >>]
  /\ mapped = [s \in Sides |-> {}]
  /\ cursor = [s \in Sides |-> 0]
  /\ left = [s \in Sides |-> 0]
  /\ known = [s \in Sides |-> {<<f, f>> : f \in Functions[s] \cup Specials}]
  /\ lock = {}
  /\ pc = [a \in Actors |-> IF a = Lib THEN "wait" ELSE "run"]
  /\ job = [a \in Actors |-> Idle]
  /\ mail = [s \in Sides |-> {}]

MutantNeedsWrapping(c) == c # 0 /\ c > Reserved

\* callback_needs_wrapping()
NeedsWrapping(c) == c # 0 /\ c # MaxAddress /\ c > Reserved

Goto(a, place) == pc' = [pc EXCEPT ![a] = place]
-----------------------------------------------------------------------------
(* Sending.  A stub, and a handler that returns, take the lock and then wrap
   the pointer; a trampoline's replacement wraps its arguments first.  The
   library has no lock. *)

\* An actor makes a call or a return (to = 0), or calls a trampoline it knows.
Call(a) ==
  /\ pc[a] = "run"
  /\ \A s \in Sides : Len(table[s]) < MaxEntries
  /\ \E x \in known[Side(a)], y \in known[Side(a)] \cup {<<0, 0>>} :
       /\ y[1] \in DOMAIN code[Side(a)] \/ y = <<0, 0>>
       /\ job' = [job EXCEPT ![a] =
            [to |-> IF y[1] = 0 THEN 0 ELSE code[Side(a)][y[1]], goal |-> y[2],
             arg |-> x[1], of |-> x[2]]]
       /\ Goto(a, IF y[1] = 0 /\ a # Lib THEN "lock" ELSE "wrap")
  /\ UNCHANGED <<table, memory, known, lock, mail>>

LockSending(a) ==
  /\ pc[a] = "lock" /\ lock = {}
  /\ lock' = {a}
  /\ Goto(a, IF job[a].to = 0 THEN "wrap" ELSE "post")
  /\ UNCHANGED <<table, memory, known, job, mail>>

AfterWrap(a) == IF a = Lib \/ job[a].to = 0 THEN "post" ELSE "lock"

\* wrap_outgoing_callback(), up to emplace_back().  callback_numbers is searched
\* before, but nothing is ever put into it.  A table has fewer entries than
\* there are addresses.
WrapOutgoing(a) ==
  /\ pc[a] = "wrap"
  /\ Len(table[Side(a)]) < MaxAddress
  /\ IF NeedsWrapping(job[a].arg)
     THEN /\ table' = [table EXCEPT ![Side(a)] = Append(@, job[a].arg)]
          /\ Goto(a, "number")
     ELSE Goto(a, AfterWrap(a)) /\ UNCHANGED table
  /\ UNCHANGED <<memory, known, lock, job, mail>>

MutantNewNumber(s) == Len(table[s])

NewNumber(s) == Len(table[s]) - 1

\* The rest of wrap_outgoing_callback(): reads the size again.
Number(a) ==
  /\ pc[a] = "number"
  /\ job' = [job EXCEPT ![a].arg = NewNumber(Side(a))]
  /\ Goto(a, AfterWrap(a))
  /\ UNCHANGED <<table, memory, known, lock, mail>>

Post(a) ==
  /\ pc[a] = "post"
  /\ mail' = [mail EXCEPT ![Peer(Side(a))] = {job[a]}]
  /\ job' = [job EXCEPT ![a] = Idle]
  /\ Goto(a, "wait")
  /\ UNCHANGED <<table, memory, known, lock>>
-----------------------------------------------------------------------------
(* Receiving.  The lock is released before the pointer is wrapped. *)

MutantUnlock(a, m) == IF m.to = 0 THEN lock \ {a} ELSE lock

\* The lock after the receipt of m.
Unlock(a, m) == lock \ {a}

Receive(a) ==
  /\ pc[a] = "wait"
  /\ \E m \in mail[Side(a)] :
       /\ job' = [job EXCEPT ![a] = m]
       /\ Goto(a, IF m.to = 0 THEN "unwrap" ELSE "execute")
       /\ lock' = Unlock(a, m)
  /\ mail' = [mail EXCEPT ![Side(a)] = {}]
  /\ UNCHANGED <<table, memory, known>>

\* execute(): an index outside of the table is an exception.
Execute(a) ==
  LET t == table[Side(a)] IN
  /\ pc[a] = "execute"
  /\ IF job[a].to < Len(t)
     THEN Goto(a, "unwrap") /\ job' = [job EXCEPT ![a].to = t[@ + 1]]
     ELSE Goto(a, "invalid") /\ UNCHANGED job
  /\ UNCHANGED <<table, memory, known, lock, mail>>

MutantNeedsPage(s) == cursor[s] = 0

NeedsPage(s) == cursor[s] = 0 \/ left[s] < TrampolineBytes

\* wrap_incoming_callback(), up to the writing of the trampoline at b.
WrapIncoming(a) ==
  LET s == Side(a) IN
  /\ pc[a] = "unwrap"
  /\ IF NeedsWrapping(job[a].arg)
     THEN \E b \in IF NeedsPage(s) THEN Pages \ mapped[s] ELSE {cursor[s]} :
            /\ code' = [code EXCEPT ![s] =
                 [x \in DOMAIN @ \cup {b} |-> IF x = b THEN job[a].arg ELSE @[x]]]
            /\ mapped' = [mapped EXCEPT ![s] = IF NeedsPage(s) THEN @ \cup {b} ELSE @]
            /\ cursor' = [cursor EXCEPT ![s] = b]
            /\ left' = [left EXCEPT ![s] = IF NeedsPage(s) THEN PageBytes ELSE @]
            /\ job' = [job EXCEPT ![a].arg = b]
            /\ Goto(a, "advance")
     ELSE Goto(a, "enter") /\ UNCHANGED <<memory, job>>
  /\ UNCHANGED <<table, known, lock, mail>>

\* The rest of wrap_incoming_callback().
Advance(a) ==
  LET s == Side(a) IN
  /\ pc[a] = "advance"
  /\ cursor' = [cursor EXCEPT ![s] = job[a].arg + TrampolineBytes]
  /\ left' = [left EXCEPT ![s] = @ - TrampolineBytes]
  /\ Goto(a, "enter")
  /\ UNCHANGED <<table, code, mapped, known, lock, job, mail>>

\* The handler calls the function with the pointer.  A callback that is itself
\* a trampoline goes back to the peer at once; anything else is no code.
Enter(a) ==
  LET s == Side(a)
      c == job[a].to IN
  /\ pc[a] = "enter"
  /\ known' = [known EXCEPT ![s] = @ \cup {<<job[a].arg, job[a].of>>}]
  /\ IF c = 0 \/ c \in AllFunctions
     THEN Goto(a, "run") /\ job' = [job EXCEPT ![a] = Idle]
     ELSE IF c \in DOMAIN code[s]
          THEN Goto(a, "wrap") /\ job' = [job EXCEPT ![a].to = code[s][c]]
          ELSE Goto(a, "invalid") /\ UNCHANGED job
  /\ UNCHANGED <<table, memory, lock, mail>>
-----------------------------------------------------------------------------
Runtime(a) ==
  \/ LockSending(a) \/ WrapOutgoing(a) \/ Number(a) \/ Post(a)
  \/ Receive(a) \/ Execute(a) \/ WrapIncoming(a) \/ Advance(a) \/ Enter(a)

Next == \E a \in Actors : Call(a) \/ Runtime(a)
Spec == Init /\ [][Next]_vars
FairSpec == Spec /\ \A a \in Actors : WF_vars(Runtime(a))
-----------------------------------------------------------------------------
Places == {"run", "lock", "wrap", "number", "post", "wait", "execute", "unwrap",
           "advance", "enter", "invalid"}
Jobs == [to : Nat, goal : Nat, arg : Nat, of : Nat]

TypeOK ==
  /\ table \in [Sides -> Seq(Nat)]
  /\ code = [s \in Sides |-> code[s]]
  /\ \A s \in Sides : code[s] \in [DOMAIN code[s] -> Nat] /\ DOMAIN code[s] \subseteq Nat
  /\ mapped \in [Sides -> SUBSET Pages]
  /\ cursor \in [Sides -> Nat] /\ left \in [Sides -> Nat]
  /\ known \in [Sides -> SUBSET (Nat \X Nat)]
  /\ lock \subseteq Actors
  /\ pc \in [Actors -> Places] /\ job \in [Actors -> Jobs]
  /\ mail \in [Sides -> SUBSET Jobs]

\* A function called through any chain of trampolines is the one whose pointer
\* was passed on first, and it runs in its own process; no number outside of
\* the table is executed, no number is called as if it were a function.
CallsTheOriginal ==
  \A a \in Actors :
    /\ pc[a] # "invalid"
    /\ pc[a] = "enter" /\ job[a].to \in AllFunctions =>
         job[a].to = job[a].goal /\ job[a].to \in Functions[Side(a)]

\* Values that are no pointers (0, -1, the reserved small numbers such as
\* SIG_IGN) arrive as they were sent, and nothing else arrives as one of them.
SpecialsKept ==
  \A s \in Sides : \A x \in known[s] : x[1] \in Specials \/ x[2] \in Specials => x[1] = x[2]

Apart(x, y) == x + TrampolineBytes <= y \/ y + TrampolineBytes <= x

InPage(x, bs) == \E b \in bs : b <= x /\ x + TrampolineBytes <= b + PageBytes

\* Every trampoline lies inside a page that was mapped for it, and no two
\* overlap: wrap_incoming_callback() maps a new page in time.
TrampolinesFit ==
  \A s \in Sides : \A x \in DOMAIN code[s] :
    InPage(x, mapped[s]) /\ \A y \in DOMAIN code[s] : x = y \/ Apart(x, y)

(* The inductive invariant of a program with one thread.  It follows a chain
   for one link only: a number stands for what its entry in the table stands
   for, a trampoline for what its number stands for. *)

\* Callback n of the process with table t and known pointers k stands for o.
CallbackMeans(t, k, n, o) ==
  n \in Reserved + 1 .. Len(t) - 1 /\ <<t[n + 1], o>> \in k /\ o \in AllFunctions

\* n, sent by that process in place of a pointer, stands for o.
NumberMeans(t, k, n, o) == (n = o /\ n \in Specials) \/ CallbackMeans(t, k, n, o)

\* v, in a process with functions fs and trampolines c, stands for o; t and k
\* are the peer's.
PointerMeans(fs, c, t, k, v, o) ==
  \/ v = o /\ v \in fs \cup Specials
  \/ v \in DOMAIN c /\ CallbackMeans(t, k, c[v], o)

KnownInv ==
  \A s \in Sides : \A x \in known[s] :
    PointerMeans(Functions[s], code[s], table[Peer(s)], known[Peer(s)], x[1], x[2])

TableInv == \A s \in Sides : Len(table[s]) \in Reserved + 1 .. MaxAddress

MailInv ==
  \A s \in Sides : \A m \in mail[s] :
    /\ (m.to = 0 /\ m.goal = 0) \/ CallbackMeans(table[s], known[s], m.to, m.goal)
    /\ NumberMeans(table[Peer(s)], known[Peer(s)], m.arg, m.of)

JobInv(a, s, p, j) ==
  /\ pc[a] # "invalid"
  /\ pc[a] \in {"lock", "wrap", "number", "post"} =>
       (j.to = 0 /\ j.goal = 0) \/ CallbackMeans(table[p], known[p], j.to, j.goal)
  /\ pc[a] = "wrap" \/ (pc[a] = "lock" /\ j.to = 0) => <<j.arg, j.of>> \in known[s]
  /\ pc[a] = "number" =>
       CallbackMeans(table[s], known[s], Len(table[s]) - 1, j.of) /\ table[s][Len(table[s])] = j.arg
  /\ pc[a] = "post" \/ (pc[a] = "lock" /\ j.to # 0) =>
       NumberMeans(table[s], known[s], j.arg, j.of)
  /\ pc[a] = "execute" => CallbackMeans(table[s], known[s], j.to, j.goal)
  /\ pc[a] \in {"execute", "unwrap"} => NumberMeans(table[p], known[p], j.arg, j.of)
  /\ pc[a] \in {"unwrap", "advance", "enter"} =>
       (j.to = 0 /\ j.goal = 0) \/ (<<j.to, j.goal>> \in known[s] /\ j.goal \in AllFunctions)
  /\ pc[a] \in {"advance", "enter"} =>
       PointerMeans(Functions[s], code[s], table[p], known[p], j.arg, j.of)
  /\ pc[a] = "advance" => j.arg = cursor[s] /\ j.arg # 0 /\ TrampolineBytes <= left[s]

\* The free rest of the current page holds no trampoline, except the one that
\* has just been written.
MemoryInv ==
  \A s \in Sides :
    /\ cursor[s] # 0 => \E b \in mapped[s] : b <= cursor[s] /\ cursor[s] + left[s] = b + PageBytes
    /\ cursor[s] = 0 => DOMAIN code[s] = {}
    /\ \A x \in DOMAIN code[s] :
         /\ InPage(x, mapped[s])
         /\ x + TrampolineBytes <= cursor[s] \/ cursor[s] + left[s] <= x
              \/ (x = cursor[s] /\ \E a \in Actors : Side(a) = s /\ pc[a] = "advance")
         /\ \A y \in DOMAIN code[s] : x = y \/ Apart(x, y)

CallbackInv ==
  /\ TypeOK /\ KnownInv /\ TableInv /\ MailInv /\ MemoryInv
  /\ \A a \in Actors : JobInv(a, Side(a), Peer(Side(a)), job[a])

Invoking ==
  (\E a \in Actors : job[a].goal # 0) \/ (\E s \in Sides : \E m \in mail[s] : m.goal # 0)

\* A chain of trampolines ends in a function.
InvocationEnds == Invoking ~> ~Invoking
=============================================================================
