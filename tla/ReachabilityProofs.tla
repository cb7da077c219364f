-------------------------- MODULE ReachabilityProofs --------------------------
(***************************************************************************)
(* For every program: a search leaves no marked vertex of its component    *)
(* with an unmarked neighbour, and nothing is marked that the data does    *)
(* not reach.  The two are proved with the inductive invariant ReachInv.   *)
(* For every layered program: the summaries, and the marks of what flows   *)
(* into the library, are exactly the data flow over any number of calls.   *)
(* LayeredInv says what is complete for a function once a job of the       *)
(* agenda has been done for it.                                            *)
(***************************************************************************)
EXTENDS Reachability, Integers, TLAPS

\* A search marks what it finds when it finds it; a vertex that has left the
\* queue has been followed.
SearchInv ==
  /\ start # None => Doing("summary")
  /\ \A t \in todo : t[1] \in prog.calls /\ t[2] \in t[1].pairs
  /\ \A k \in Kinds : Doing(k) /\ running =>
       /\ queue \subseteq mark[k]
       /\ queue # {} => \A w \in colored : MayMark(k, w) => w \in mark[k]
       /\ \A v \in mark[k] \ queue : MayMark(k, v) /\ prog.owner[v] \in Component =>
            \A w \in Follow(k, v) : MayMark(k, w) => w \in mark[k]

\* The inductive invariant.
ReachInv == TypeOK /\ SearchInv /\ NothingElseMarked
-----------------------------------------------------------------------------
(* Layered programs: how far the passes are *)

\* The number of components.
N == Len(prog.sccs)

\* The place in the agenda of a job for the i-th component.
At(op, i) ==
  CASE op = "call" -> 4 * i - 1
    [] op = "sink" -> 4 * i
    [] op = "fd" -> 4 * i + 1
    [] op = "summary" -> 4 * i + 2
    [] op = "shared" -> 4 * N + 2 * i + 3
    [] op = "push" -> 4 * N + 2 * i + 4
    [] op = "pull" -> 7 * N + 5 - i

\* The number of jobs done.
Done == 7 * N + 4 - Len(agenda)

\* What is left are the last jobs of the agenda.
AgendaInv ==
  /\ Done \in Nat
  /\ \A k \in DOMAIN agenda : agenda[k] = Agenda(prog.sccs)[Done + k]

\* The job has been done for the component of function g.
Over(op, g) == \E i \in DOMAIN prog.sccs : g \in prog.sccs[i] /\ Done >= At(op, i)
-----------------------------------------------------------------------------
(* Layered programs: edges and summaries *)

\* An edge of one of the types; an edge that the search for sinks follows.
Edge(ts, v, w) == \E t \in ts : <<t, v, w>> \in edges
Step(v, w) == Edge({"Data", "Part"}, v, w)

\* Data flows from a to b along the edges that there are.
Reaches(a, b) ==
  \A T \in SUBSET Vertices :
    a \in T /\ (\A v, w \in Vertices : v \in T /\ Step(v, w) => w \in T) => b \in T

\* Edges stay within the functions and say nothing but what the flow says.
FlowInv ==
  /\ mark["ipc"] = prog.ipc /\ prog.edges \subseteq edges
  /\ \A v, w \in Vertices : Edge(Types, v, w) => prog.owner[v] = prog.owner[w] /\ prog.owner[v] # None
  /\ \A v, w \in Vertices : ~Edge({"Deref"}, v, w)
  /\ \A v, w \in Vertices : Edge({"Summary"}, v, w) =>
       v # w /\ v \in Formals /\ w \in Formals /\ Reaches(v, w)
  /\ \A R \in SUBSET Within : FlowClosed(R) =>
       \A v, w \in Vertices : Edge({"Data", "Part", "Summary"}, v, w) /\ v # w => <<v, w>> \in R

\* The search from a signature node.
NodeInv ==
  /\ Doing("summary") /\ running => nodes \subseteq Signature
  /\ start # None =>
       /\ running /\ start \in Signature /\ start \in colored /\ queue \subseteq colored
       /\ \A w \in colored : Reaches(start, w) /\ prog.owner[w] = prog.owner[start]
       /\ \A v \in colored \ queue : \A w \in Vertices : Step(v, w) => w \in colored

\* The summary edges of a signature node are complete.
Summarized(a) ==
  \A b \in Formals : a # b /\ Reaches(a, b) => Edge({"Summary"}, a, b)

\* Summaries that have been made, of the component at work and of earlier ones.
SummaryInv ==
  /\ Doing("summary") /\ running => \A a \in Signature \ nodes : a # start => Summarized(a)
  /\ \A a \in Formals : Over("summary", prog.owner[a]) => Summarized(a)

\* The calls that have been handled.
CallInv ==
  \A c \in prog.calls : Over("call", c.caller) =>
    /\ \A q \in BothWays(c.joined) : Edge({"Data"}, q[1], q[2])
    /\ \A q, r \in c.pairs : Edge({"Summary"}, q[1], r[1]) => Edge({"Data"}, q[2], r[2])
    /\ \A q \in c.pairs : q[1] \in Sink => q[2] \in Sink

\* A search goes on within its component and starts from all it should.
WithinInv ==
  /\ \A v \in Sink : prog.owner[v] # None
  /\ \A k \in Kinds : Doing(k) /\ running =>
       /\ \A v \in queue : prog.owner[v] \in Component
       /\ k # "fd" => \A v \in Sink : prog.owner[v] \in Component => v \in mark[k]

\* Functions in which the data that flows into the library has been marked.
SinkInv ==
  \A v, w \in Vertices : Over("sink", prog.owner[w]) /\ Step(v, w) /\ w \in Sink => v \in Sink

\* The inductive invariant for layered programs.
LayeredInv ==
  IsLayered =>
    AgendaInv /\ FlowInv /\ NodeInv /\ SummaryInv /\ CallInv /\ WithinInv /\ SinkInv
-----------------------------------------------------------------------------

\* A function on 1 .. m is a sequence.
LEMMA FunctionIsSeq ==
  ASSUME NEW S, NEW m \in Nat, NEW f \in [1 .. m -> S]
  PROVE  f \in Seq(S)
OBVIOUS

\* The agenda of a program consists of jobs.
LEMMA AgendaType ==
  ASSUME NEW sccs \in Seq(SUBSET Functions)
  PROVE  Agenda(sccs) \in Seq(Jobs)
<1> DEFINE n == Len(sccs)
           global == GlobalJobs
           first == <<"call", "sink", "fd", "summary">>
           up == <<"shared", "push">>
           A == [i \in 1 .. 4 * n |-> Job(first[((i - 1) % 4) + 1], sccs[((i - 1) \div 4) + 1])]
           B == [i \in 1 .. 2 * n |-> Job(up[((i - 1) % 2) + 1], sccs[((i - 1) \div 2) + 1])]
           C == [i \in 1 .. n |-> Job("pull", sccs[n + 1 - i])]
<1>0. n \in Nat /\ 4 * n \in Nat /\ 2 * n \in Nat OBVIOUS
<1>1. ASSUME NEW op \in Ops, NEW i \in 1 .. n PROVE Job(op, sccs[i]) \in Jobs
  BY DEF Job, Jobs
<1>2. global \in Seq(Jobs)
  BY DEF GlobalJobs, Job, Jobs, Ops, Kinds
<1>3. A \in Seq(Jobs)
  <2>1. ASSUME NEW i \in 1 .. 4 * n
        PROVE  ((i - 1) % 4) + 1 \in 1 .. 4 /\ ((i - 1) \div 4) + 1 \in 1 .. n
    BY <1>0
  <2>2. \A j \in 1 .. 4 : first[j] \in Ops BY DEF Ops, Kinds
  <2>3. A \in [1 .. 4 * n -> Jobs] BY <2>1, <2>2, <1>1, Zenon
  <2> HIDE DEF A
  <2> QED BY <2>3, <1>0, FunctionIsSeq, Zenon
<1>4. B \in Seq(Jobs)
  <2>1. ASSUME NEW i \in 1 .. 2 * n
        PROVE  ((i - 1) % 2) + 1 \in 1 .. 2 /\ ((i - 1) \div 2) + 1 \in 1 .. n
    BY <1>0
  <2>2. \A j \in 1 .. 2 : up[j] \in Ops BY DEF Ops, Kinds
  <2>3. B \in [1 .. 2 * n -> Jobs] BY <2>1, <2>2, <1>1, Zenon
  <2> HIDE DEF B
  <2> QED BY <2>3, <1>0, FunctionIsSeq, Zenon
<1>5. C \in Seq(Jobs)
  <2>1. ASSUME NEW i \in 1 .. n PROVE n + 1 - i \in 1 .. n BY <1>0
  <2>2. C \in [1 .. n -> Jobs] BY <2>1, <1>1, Zenon DEF Ops
  <2> QED BY <2>2, <1>0
<1>6. Agenda(sccs) = global \o A \o global \o B \o C
  BY Zenon DEF Agenda, ComponentJobs, UpJobs, DownJobs
<1> HIDE DEF global, A, B, C
<1> QED BY <1>2, <1>3, <1>4, <1>5, <1>6

\* The three marks of searches and the "ipc" mark are different.
LEMMA KindsDiffer ==
  Kinds = {"sink", "fd", "shared"} /\ "ipc" \notin Kinds
BY Zenon DEF Kinds

\* The first state satisfies the invariant.
LEMMA InitInv == Init => ReachInv
<1> SUFFICES ASSUME Init PROVE ReachInv BY Zenon
<1> USE DEF Init
<1>1. ProgramType(prog) BY ProgramsAssumption, Zenon
<1>2. agenda \in Seq(Jobs) BY <1>1, AgendaType, Zenon DEF ProgramType
<1>3. mark \in [Kinds \cup {"ipc"} -> SUBSET Vertices] BY <1>1, Zenon DEF ProgramType, Kinds
<1>4. mark["sink"] = {} /\ mark["shared"] = {} BY Zenon DEF Kinds
<1>5. TypeOK BY <1>1, <1>2, <1>3, Zenon DEF TypeOK, ProgramType
<1>6. SearchInv BY Zenon DEF SearchInv
<1>7. NothingElseMarked BY <1>4, Zenon DEF NothingElseMarked
<1> QED BY <1>5, <1>6, <1>7, Zenon DEF ReachInv

\* What is left of the agenda.
LEMMA TailType ==
  ASSUME agenda \in Seq(Jobs), agenda # <<>>
  PROVE  Tail(agenda) \in Seq(Jobs)
OBVIOUS

\* Pairs of vertices make edges.
LEMMA DataType ==
  ASSUME NEW S \in SUBSET (Vertices \X Vertices)
  PROVE  /\ Data(S) \subseteq Types \X Vertices \X Vertices
         /\ Reverse(S) \in SUBSET (Vertices \X Vertices)
BY DEF Data, Reverse, Types

\* What addSubnodeEdges() adds both ways is among the pairs it gets.
LEMMA BothWaysType ==
  ASSUME NEW S \in SUBSET (Vertices \X Vertices)
  PROVE  /\ BothWays(S) \subseteq S \cup Reverse(S)
         /\ BothWays(S) \in SUBSET (Vertices \X Vertices)
<1>1. BothWays(S) \subseteq S \cup Reverse(S) BY Zenon DEF BothWays, Flowing
<1> QED BY <1>1, DataType, Zenon

\* Every step preserves the types.
LEMMA TypeStep ==
  ASSUME TypeOK, SearchInv, [Next]_vars
  PROVE  TypeOK'
<1> USE DEF TypeOK
<1>1. CASE UNCHANGED vars BY <1>1, Zenon DEF vars, ProgramType
<1>2. ASSUME NEW k \in Kinds, BeginSearch(k) PROVE TypeOK'
  <2> USE <1>2 DEF BeginSearch
  <2>1. Sources(k) \subseteq Vertices
    BY Zenon DEF Sources, Sink, Kinds
  <2>2. mark' \in [Kinds \cup {"ipc"} -> SUBSET Vertices] /\ queue' \subseteq Vertices
    BY <2>1, Zenon DEF Discover
  <2>3. colored' \subseteq Vertices BY <2>1, Zenon DEF InitColors
  <2> QED BY <2>2, <2>3, Zenon
<1>3. ASSUME NEW k \in Kinds, Scan(k) PROVE TypeOK'
  <2> USE <1>3 DEF Scan
  <2>1. PICK u \in queue : /\ colored' = colored \cup News(k, u)
                           /\ Discover(k, News(k, u), queue \ {u})
    BY Zenon
  <2>2. News(k, u) \subseteq Vertices BY Zenon DEF News, Follow
  <2>3. mark' \in [Kinds \cup {"ipc"} -> SUBSET Vertices] /\ queue' \subseteq Vertices
    BY <2>1, <2>2, Zenon DEF Discover
  <2> QED BY <2>1, <2>2, <2>3, Zenon
<1>4. ASSUME NEW k \in Kinds, EndSearch(k) PROVE TypeOK'
  BY <1>4, TailType, Zenon DEF EndSearch, Doing
<1>5. CASE HandleCalls
  <2> USE <1>5 DEF HandleCalls
  <2> DEFINE made == {c \in prog.calls : c.caller \in Component}
             inner == {c \in made : c.callee \in Component}
             pairs == UNION {c.pairs : c \in made \ inner}
  <2>1. prog.calls \subseteq Calls BY Zenon DEF ProgramType
  <2>2. \A c \in prog.calls : /\ c.pairs \subseteq Vertices \X Vertices /\ c.joined \subseteq Vertices \X Vertices
                              /\ c.united \subseteq Vertices \X Vertices
    BY <2>1, Zenon DEF Calls
  <2>3. ASSUME NEW c \in prog.calls
        PROVE  /\ Direct(c) \subseteq Types \X Vertices \X Vertices
               /\ Instantiate(c) \subseteq Types \X Vertices \X Vertices
               /\ Data(BothWays(c.joined)) \subseteq Types \X Vertices \X Vertices
    <3> DEFINE E == {<<q[2], q[1]>> : q \in {r \in c.pairs : r[1] \notin c.returns}}
                    \cup {q \in c.pairs : q[1] \in c.returns}
               D == Flowing(E) \cup BothWays(c.united)
               I == {<<x[1][2], x[2][2]>> :
                       x \in {y \in c.pairs \X c.pairs : <<"Summary", y[1][1], y[2][1]>> \in edges}}
               J == BothWays(c.joined)
    <3>e. E \in SUBSET (Vertices \X Vertices) BY <2>2
    <3>1. D \in SUBSET (Vertices \X Vertices)
      <4> HIDE DEF E
      <4>1. Flowing(E) \in SUBSET (Vertices \X Vertices) BY <3>e, Zenon DEF Flowing
      <4>2. BothWays(c.united) \in SUBSET (Vertices \X Vertices) BY <2>2, BothWaysType, Zenon
      <4> QED BY <4>1, <4>2, Zenon
    <3>2. I \in SUBSET (Vertices \X Vertices)
      <4>1. c.pairs \subseteq Vertices \X Vertices BY <2>2, Zenon
      <4> HIDE DEF HandleCalls, TypeOK
      <4>2. \A y \in c.pairs \X c.pairs : y[1][2] \in Vertices /\ y[2][2] \in Vertices BY <4>1, Zenon
      <4>3. ASSUME NEW z \in I PROVE z \in Vertices \X Vertices
        <5>1. PICK x \in c.pairs \X c.pairs : z = <<x[1][2], x[2][2]>> BY <4>3, Zenon
        <5> QED BY <5>1, <4>2, Zenon
      <4> HIDE DEF I
      <4> QED BY <4>3, Zenon
    <3>3. J \in SUBSET (Vertices \X Vertices) BY <2>2, BothWaysType, Zenon
    <3>4. Direct(c) = Data(D) /\ Instantiate(c) = Data(I) BY Zenon DEF Direct, Instantiate
    <3> HIDE DEF D, I, J
    <3>5. Data(D) \subseteq Types \X Vertices \X Vertices BY <3>1, DataType, Zenon
    <3>6. Data(I) \subseteq Types \X Vertices \X Vertices BY <3>2, DataType, Zenon
    <3>7. Data(J) \subseteq Types \X Vertices \X Vertices BY <3>3, DataType, Zenon
    <3> QED BY <3>4, <3>5, <3>6, <3>7, Zenon DEF J
  <2>4. edges' \subseteq Types \X Vertices \X Vertices
    <3>1. UNION {Direct(c) : c \in inner} \subseteq Types \X Vertices \X Vertices BY <2>3, ZenonT(60)
    <3>2. UNION {Instantiate(c) : c \in made \ inner} \subseteq Types \X Vertices \X Vertices BY <2>3, ZenonT(60)
    <3>3. Joins(made \ inner) \subseteq Types \X Vertices \X Vertices BY <2>3, ZenonT(60) DEF Joins
    <3>4. edges' = edges \cup (UNION {Direct(c) : c \in inner})
                         \cup (UNION {Instantiate(c) : c \in made \ inner}) \cup Joins(made \ inner)
      BY Zenon
    <3>5. edges \subseteq Types \X Vertices \X Vertices BY Zenon
    <3> HIDE DEF made, inner, HandleCalls, TypeOK
    <3> QED BY <3>1, <3>2, <3>3, <3>4, <3>5, Zenon
  <2>5. pairs \subseteq Vertices \X Vertices BY <2>2
  <2>6. mark' \in [Kinds \cup {"ipc"} -> SUBSET Vertices]
    BY <2>5 DEF Kinds
  <2>7. agenda' \in Seq(Jobs) BY TailType, Zenon DEF Doing
  <2> QED BY <2>4, <2>6, <2>7, Zenon
<1>6. CASE BeginSummary
  BY <1>6, Zenon DEF BeginSummary, Signature, ProgramType
<1>7. CASE StartNode
  BY <1>7, Zenon DEF StartNode
<1>8. CASE ScanNode
  BY <1>8, Zenon DEF ScanNode
<1>9. CASE FinishNode
  <2> USE <1>9 DEF FinishNode
  <2>1. start \in Vertices BY Zenon
  <2>2. edges' \subseteq Types \X Vertices \X Vertices BY <2>1 DEF Types, Signature
  <2>3. \A x : MarkedWith(x) \subseteq Vertices BY Zenon DEF MarkedWith
  <2>4. mark' \in [Kinds \cup {"ipc"} -> SUBSET Vertices] BY <2>3
  <2> QED BY <2>2, <2>4, Zenon
<1>10. CASE EndSummary
  BY <1>10, TailType, Zenon DEF EndSummary, Doing
<1>11. ASSUME NEW op \in {"push", "pull"}, BeginPropagation(op) PROVE TypeOK'
  <2> USE <1>11 DEF BeginPropagation
  <2>1. \A c \in prog.calls : c.pairs \subseteq Vertices \X Vertices /\ c.joined \subseteq Vertices \X Vertices
    BY Zenon DEF ProgramType, Calls
  <2>2. CallsIn \subseteq prog.calls BY Zenon DEF CallsIn
  <2>3. edges' \subseteq Types \X Vertices \X Vertices
    <3>1. \A c \in CallsIn : Data(BothWays(c.joined)) \subseteq Types \X Vertices \X Vertices
      BY <2>1, <2>2, BothWaysType, DataType, Zenon
    <3>2. edges' = edges \cup Joins(CallsIn) /\ edges \subseteq Types \X Vertices \X Vertices BY Zenon
    <3> HIDE <1>11 DEF TypeOK, BeginPropagation
    <3>3. Joins(CallsIn) \subseteq Types \X Vertices \X Vertices BY <3>1, ZenonT(60) DEF Joins
    <3> QED BY <3>2, <3>3, Zenon
  <2>4. todo' \subseteq prog'.calls \X (Vertices \X Vertices)
    BY <2>1, <2>2
  <2> QED BY <2>3, <2>4, Zenon
<1>12. ASSUME NEW op \in {"push", "pull"}, Propagate(op) PROVE TypeOK'
  BY <1>12 DEF Propagate, Target, Kinds
<1>13. ASSUME NEW op \in {"push", "pull"}, EndPropagation(op) PROVE TypeOK'
  <2>1. agenda' = <<>> \o Tail(agenda) BY <1>13, Zenon DEF EndPropagation, AnyMarkPropagated
  <2>2. agenda' \in Seq(Jobs) BY <1>13, <2>1, TailType DEF EndPropagation, Doing
  <2> QED BY <1>13, <2>2, Zenon DEF EndPropagation
<1> QED BY <1>1, <1>2, <1>3, <1>4, <1>5, <1>6, <1>7, <1>8, <1>9, <1>10, <1>11, <1>12, <1>13, Zenon DEF Next

\* The invariant of the searches when none is under way.
LEMMA NoSearch ==
  ASSUME SearchInv, running' = FALSE \/ \A k \in Kinds : ~Doing(k)',
         start' # None => Doing("summary")',
         \A t \in todo' : t[1] \in prog'.calls /\ t[2] \in t[1].pairs
  PROVE  SearchInv'
BY Zenon DEF SearchInv

\* Every step preserves the invariant of the searches.
LEMMA SearchStep ==
  ASSUME TypeOK, SearchInv, [Next]_vars
  PROVE  SearchInv'
<1>1. CASE UNCHANGED vars
  <2> USE <1>1 DEF vars
  <2>1. \A k, v : Follow(k, v)' = Follow(k, v) BY Zenon DEF Follow
  <2>2. \A k, v : MayMark(k, v)' <=> MayMark(k, v) BY Zenon DEF MayMark
  <2>3. \A k : Doing(k)' <=> Doing(k) BY Zenon DEF Doing
  <2>4. Component' = Component BY Zenon DEF Component
  <2> QED BY <2>1, <2>2, <2>3, <2>4, Zenon DEF SearchInv
<1>2. ASSUME NEW k \in Kinds, BeginSearch(k) PROVE SearchInv'
  <2> USE <1>2 DEF BeginSearch
  <2> DEFINE found == {v \in Sources(k) : MayMark(k, v)}
  <2>1. /\ mark'[k] = mark[k] \cup found
        /\ queue' = {v \in found : Inside(v)}
    BY Zenon DEF Discover, TypeOK
  <2>2. {v \in mark[k] : prog.owner[v] \in Component} \subseteq Sources(k)
    <3>1. CASE k = "sink" BY <3>1, Zenon DEF Sources, Sink
    <3>2. CASE k = "fd" BY <3>2, Zenon DEF Sources
    <3>3. CASE k = "shared" BY <3>3, Zenon DEF Sources
    <3> QED BY <3>1, <3>2, <3>3, Zenon DEF Kinds
  <2>3. \A v \in Sources(k) : Inside(v) BY Zenon DEF Sources, Inside
  <2>4. queue' = found BY <2>1, <2>3, Zenon
  <2>5. \A j \in Kinds : Doing(j)' => j = k BY Zenon DEF Doing
  <2>6. queue' # {} => colored' = Sources(k) BY <2>1, Zenon DEF InitColors
  <2>7. ASSUME NEW v \in mark'[k] \ queue', MayMark(k, v), prog.owner[v] \in Component
        PROVE  FALSE
    BY <2>1, <2>2, <2>4, <2>7, Zenon
  <2>8. start' # None => Doing("summary")' BY Zenon DEF SearchInv, Doing
  <2>9. \A v : MayMark(k, v)' <=> MayMark(k, v) BY Zenon DEF MayMark
  <2>10. Component' = Component BY Zenon DEF Component
  <2> HIDE DEF BeginSearch
  <2>11. prog' = prog /\ todo' = todo BY Zenon DEF BeginSearch
  <2> HIDE <1>2
  <2>12. queue' \subseteq mark'[k] BY <2>1, <2>4, Zenon
  <2>13. queue' # {} => \A w \in colored' : MayMark(k, w) => w \in mark'[k] BY <2>1, <2>6, Zenon
  <2> HIDE DEF found
  <2> QED BY <2>5, <2>7, <2>8, <2>9, <2>10, <2>11, <2>12, <2>13, Zenon DEF SearchInv
<1>3. ASSUME NEW k \in Kinds, Scan(k) PROVE SearchInv'
  <2> USE <1>3 DEF Scan
  <2>1. PICK u \in queue : /\ colored' = colored \cup News(k, u)
                           /\ Discover(k, News(k, u), queue \ {u})
    BY Zenon
  <2> DEFINE found == {v \in News(k, u) : MayMark(k, v)}
  <2>2. /\ mark'[k] = mark[k] \cup found
        /\ queue' = (queue \ {u}) \cup {v \in found : Inside(v)}
    BY <2>1, Zenon DEF Discover, TypeOK
  <2>3. /\ queue \subseteq mark[k]
        /\ \A w \in colored : MayMark(k, w) => w \in mark[k]
        /\ \A v \in mark[k] \ queue : MayMark(k, v) /\ prog.owner[v] \in Component =>
             \A w \in Follow(k, v) : MayMark(k, w) => w \in mark[k]
    BY <2>1, Zenon DEF SearchInv
  <2>4. \A j \in Kinds : Doing(j)' => j = k BY Zenon DEF Doing
  <2>5. start' # None => Doing("summary")' BY Zenon DEF SearchInv, Doing
  <2>6. /\ Component' = Component
        /\ \A v : MayMark(k, v)' <=> MayMark(k, v)
        /\ \A v : Follow(k, v)' = Follow(k, v)
    BY Zenon DEF Component, MayMark, Follow
  <2>7. prog' = prog /\ todo' = todo BY Zenon
  <2>8. Follow(k, u) \subseteq News(k, u) \cup colored BY Zenon DEF News
  <2>9. \A v \in found : prog.owner[v] \in Component => v \in queue' BY <2>2, Zenon DEF Inside
  <2> HIDE <1>3
  <2> HIDE DEF Scan
  <2>10. queue' \subseteq mark'[k] BY <2>2, <2>3, Zenon
  <2>11. \A w \in colored' : MayMark(k, w) => w \in mark'[k] BY <2>1, <2>2, <2>3, Zenon
  <2>12. ASSUME NEW v \in mark'[k] \ queue', MayMark(k, v), prog.owner[v] \in Component,
                NEW w \in Follow(k, v), MayMark(k, w)
         PROVE  w \in mark'[k]
    <3>1. v \in mark[k] BY <2>2, <2>9, <2>12, Zenon
    <3>2. CASE v = u BY <3>2, <2>8, <2>2, <2>3, <2>12, Zenon
    <3>3. CASE v # u BY <3>1, <3>3, <2>2, <2>3, <2>12, Zenon
    <3> QED BY <3>2, <3>3, Zenon
  <2> HIDE DEF found
  <2> QED BY <2>4, <2>5, <2>6, <2>7, <2>10, <2>11, <2>12, Zenon DEF SearchInv
<1>4. ASSUME NEW k \in Kinds, EndSearch(k) PROVE SearchInv'
  <2>1. start = None BY <1>4, Zenon DEF EndSearch, SearchInv, Doing, Kinds
  <2> QED BY <1>4, <2>1, NoSearch, Zenon DEF EndSearch, SearchInv
<1>5. CASE HandleCalls
  <2>1. start = None BY <1>5, Zenon DEF HandleCalls, SearchInv, Doing
  <2>2. running' = FALSE /\ start' = start /\ todo' = todo /\ prog' = prog
    BY <1>5, Zenon DEF HandleCalls, TypeOK
  <2> QED BY <2>1, <2>2, NoSearch, Zenon DEF SearchInv
<1>6. CASE BeginSummary \/ StartNode \/ ScanNode \/ FinishNode
  <2>1. Doing("summary")
    BY <1>6, Zenon DEF BeginSummary, StartNode, ScanNode, FinishNode, SearchInv
  <2>2. agenda' = agenda /\ todo' = todo /\ prog' = prog
    BY <1>6, Zenon DEF BeginSummary, StartNode, ScanNode, FinishNode
  <2>3. Doing("summary")' /\ \A k \in Kinds : ~Doing(k)' BY <2>1, <2>2, Zenon DEF Doing, Kinds
  <2> QED BY <2>2, <2>3, NoSearch, Zenon DEF SearchInv
<1>7. CASE EndSummary
  BY <1>7, NoSearch, Zenon DEF EndSummary, SearchInv
<1>8. ASSUME NEW op \in {"push", "pull"},
             BeginPropagation(op) \/ Propagate(op) \/ EndPropagation(op)
      PROVE  SearchInv'
  <2>1. Doing(op) BY <1>8, Zenon DEF BeginPropagation, Propagate, EndPropagation
  <2>2. start = None BY <2>1, <1>8, Zenon DEF SearchInv, Doing
  <2>3. start' = None /\ prog' = prog BY <2>2, <1>8, Zenon DEF BeginPropagation, Propagate, EndPropagation
  <2>4. running' = FALSE \/ agenda' = agenda
    BY <1>8, Zenon DEF BeginPropagation, Propagate, EndPropagation
  <2>5. running' = FALSE \/ \A k \in Kinds : ~Doing(k)'
    BY <2>1, <2>4, Zenon DEF Doing, Kinds
  <2>6. \A t \in todo' : t[1] \in prog'.calls /\ t[2] \in t[1].pairs
    <3>1. CASE BeginPropagation(op)
      BY <3>1 DEF BeginPropagation, CallsIn
    <3>2. CASE Propagate(op) \/ EndPropagation(op)
      BY <3>2, Zenon DEF Propagate, EndPropagation, SearchInv
    <3> QED BY <3>1, <3>2, <1>8, Zenon
  <2> QED BY <2>3, <2>5, <2>6, NoSearch, Zenon
<1> QED BY <1>1, <1>2, <1>3, <1>4, <1>5, <1>6, <1>7, <1>8, Zenon DEF Next

\* A set that is closed after a step was so before: edges and marks only grow.
LEMMA ClosedBefore ==
  ASSUME TypeOK, NEW S \in SUBSET Vertices, prog' = prog, edges \subseteq edges',
         mark["ipc"] \subseteq mark'["ipc"], mark["sink"] \subseteq mark'["sink"]
  PROVE  (SinkClosed(S)' => SinkClosed(S)) /\ (SharedClosed(S)' => SharedClosed(S))
BY Zenon DEF SinkClosed, SharedClosed, Sink

\* Edges and marks only grow.
LEMMA Grows ==
  ASSUME TypeOK, [Next]_vars
  PROVE  /\ prog' = prog /\ edges \subseteq edges'
         /\ mark["ipc"] \subseteq mark'["ipc"] /\ mark["sink"] \subseteq mark'["sink"]
<1>1. CASE UNCHANGED vars BY <1>1, Zenon DEF vars
<1>2. ASSUME NEW k \in Kinds, BeginSearch(k) \/ Scan(k) \/ EndSearch(k)
      PROVE  /\ prog' = prog /\ edges = edges'
             /\ mark["ipc"] \subseteq mark'["ipc"] /\ mark["sink"] \subseteq mark'["sink"]
  BY <1>2 DEF BeginSearch, Scan, EndSearch, Discover, TypeOK, Kinds
<1>3. CASE HandleCalls BY <1>3, Zenon DEF HandleCalls, TypeOK, Kinds
<1>4. CASE BeginSummary \/ StartNode \/ ScanNode \/ EndSummary
  BY <1>4, Zenon DEF BeginSummary, StartNode, ScanNode, EndSummary
<1>5. CASE FinishNode BY <1>5, Zenon DEF FinishNode, TypeOK, Kinds
<1>6. ASSUME NEW op \in {"push", "pull"},
             BeginPropagation(op) \/ Propagate(op) \/ EndPropagation(op)
      PROVE  /\ prog' = prog /\ edges \subseteq edges'
             /\ mark["ipc"] = mark'["ipc"] /\ mark["sink"] = mark'["sink"]
  BY <1>6, Zenon DEF BeginPropagation, Propagate, EndPropagation, TypeOK, Kinds
<1> QED BY <1>1, <1>2, <1>3, <1>4, <1>5, <1>6, Zenon DEF Next

\* Every step marks only what the data reaches.
LEMMA PreciseStep ==
  ASSUME TypeOK, SearchInv, NothingElseMarked, [Next]_vars
  PROVE  NothingElseMarked'
<1> SUFFICES ASSUME NEW S \in SUBSET Vertices
             PROVE  /\ SinkClosed(S)' => mark'["sink"] \subseteq S
                    /\ SharedClosed(S)' => mark'["shared"] \subseteq S
  BY Zenon DEF NothingElseMarked
<1>a. (SinkClosed(S)' => SinkClosed(S)) /\ (SharedClosed(S)' => SharedClosed(S))
  BY Grows, ClosedBefore, Zenon
<1>b. /\ SinkClosed(S) => mark["sink"] \subseteq S
      /\ SharedClosed(S) => mark["shared"] \subseteq S
  BY Zenon DEF NothingElseMarked
<1>c. SUFFICES /\ SinkClosed(S) /\ mark["sink"] \subseteq S => mark'["sink"] \subseteq S
               /\ SharedClosed(S) /\ mark["shared"] \subseteq S => mark'["shared"] \subseteq S
  BY <1>a, <1>b, Zenon
<1>1. CASE UNCHANGED vars BY <1>1, Zenon DEF vars
<1>2. ASSUME NEW k \in Kinds, BeginSearch(k) PROVE <1>c!1
  <2>1. mark' = [mark EXCEPT ![k] = @ \cup {v \in Sources(k) : MayMark(k, v)}]
    BY <1>2, Zenon DEF BeginSearch, Discover
  <2>2. CASE k = "sink"
    <3>1. Sources(k) \subseteq Sink BY <2>2, Zenon DEF Sources
    <3> QED BY <3>1, <2>1, <2>2, Zenon DEF SinkClosed, Sink, TypeOK, Kinds
  <2>3. CASE k = "fd" BY <2>1, <2>3, Zenon DEF TypeOK, Kinds
  <2>4. CASE k = "shared"
    <3>1. Sources(k) \subseteq mark["shared"] \cup Sink BY <2>4, Zenon DEF Sources
    <3> QED BY <3>1, <2>1, <2>4, Zenon DEF SharedClosed, TypeOK, Kinds
  <2> QED BY <2>2, <2>3, <2>4, Zenon DEF Kinds
<1>3. ASSUME NEW k \in Kinds, Scan(k) PROVE <1>c!1
  <2>1. PICK u \in queue : Discover(k, News(k, u), queue \ {u})
    BY <1>3, Zenon DEF Scan
  <2>2. mark' = [mark EXCEPT ![k] = @ \cup {v \in News(k, u) : MayMark(k, v)}]
    BY <2>1, Zenon DEF Discover
  <2>3. u \in mark[k] BY <1>3, Zenon DEF Scan, SearchInv
  <2>4. News(k, u) \subseteq Follow(k, u) BY Zenon DEF News
  <2>5. CASE k = "sink"
    <3>1. \A w \in Follow(k, u) : \E t \in {"Data", "Part"} : <<t, w, u>> \in edges
      BY <2>5, Zenon DEF Follow, Followed
    <3>2. SinkClosed(S) /\ mark["sink"] \subseteq S => Follow(k, u) \subseteq S
      BY <3>1, <2>3, <2>5, Zenon DEF SinkClosed
    <3> QED BY <3>2, <2>2, <2>4, <2>5, Zenon DEF TypeOK, Kinds
  <2>6. CASE k = "fd" BY <2>2, <2>6, Zenon DEF TypeOK, Kinds
  <2>7. CASE k = "shared"
    <3>1. \A w \in Follow(k, u) : \E t \in Types \ {"Control"} : <<t, u, w>> \in edges
      BY <2>7, Zenon DEF Follow, Followed, Types
    <3>2. SharedClosed(S) /\ mark["shared"] \subseteq S => Follow(k, u) \subseteq S
      BY <3>1, <2>3, <2>7, Zenon DEF SharedClosed
    <3> QED BY <3>2, <2>2, <2>4, <2>7, Zenon DEF TypeOK, Kinds
  <2> QED BY <2>5, <2>6, <2>7, Zenon DEF Kinds
<1>4. ASSUME NEW k \in Kinds, EndSearch(k) PROVE <1>c!1 BY <1>4, Zenon DEF EndSearch
<1>5. CASE HandleCalls
  <2> DEFINE made == {c \in prog.calls : c.caller \in Component}
             inner == {c \in made : c.callee \in Component}
             pairs == UNION {c.pairs : c \in made \ inner}
  <2>1. /\ mark'["sink"] = mark["sink"] \cup {q[2] : q \in {r \in pairs : r[1] \in Sink}}
        /\ mark'["shared"] = mark["shared"]
    BY <1>5, Zenon DEF HandleCalls, TypeOK, Kinds
  <2>2. \A q \in pairs : \E c \in prog.calls : q \in c.pairs BY Zenon
  <2> HIDE DEF pairs
  <2>3. SinkClosed(S) /\ mark["sink"] \subseteq S => \A q \in pairs : q[1] \in Sink => q[2] \in S
    BY <2>2, Zenon DEF SinkClosed, Sink
  <2> QED BY <2>1, <2>3, Zenon
<1>6. CASE BeginSummary \/ StartNode \/ ScanNode \/ EndSummary
  BY <1>6, Zenon DEF BeginSummary, StartNode, ScanNode, EndSummary
<1>7. CASE FinishNode BY <1>7, Zenon DEF FinishNode, TypeOK, Kinds
<1>8. ASSUME NEW op \in {"push", "pull"}, BeginPropagation(op) \/ EndPropagation(op) PROVE <1>c!1
  BY <1>8, Zenon DEF BeginPropagation, EndPropagation
<1>9. ASSUME NEW op \in {"push", "pull"}, Propagate(op) PROVE <1>c!1
  <2>1. PICK t \in todo : mark' = [mark EXCEPT !["shared"] =
            @ \cup (IF Shared(Origin(op, t[2])) THEN {Target(op, t[2])} ELSE {})]
    BY <1>9, Zenon DEF Propagate
  <2>2. t[1] \in prog.calls /\ t[2] \in t[1].pairs BY Zenon DEF SearchInv
  <2>3. SharedClosed(S) /\ mark["shared"] \subseteq S =>
          (Shared(Origin(op, t[2])) => Target(op, t[2]) \in S)
    BY <2>2, Zenon DEF SharedClosed, Shared, Origin, Target
  <2> QED BY <2>1, <2>3, Zenon DEF TypeOK, Kinds
<1> QED BY <1>1, <1>2, <1>3, <1>4, <1>5, <1>6, <1>7, <1>8, <1>9, Zenon DEF Next

\* ReachInv holds always.
THEOREM Invariant == Spec => []ReachInv
<1>1. ReachInv /\ [Next]_vars => ReachInv'
  BY TypeStep, SearchStep, PreciseStep, Zenon DEF ReachInv
<1> QED BY InitInv, <1>1, PTL DEF Spec

\* For every program, nothing is marked as flowing into the library, or as
\* influenced by it, unless the data flow and the calls say so.
THEOREM OnlyReached == Spec => []NothingElseMarked
<1>1. ReachInv => NothingElseMarked BY Zenon DEF ReachInv
<1> QED BY Invariant, <1>1, PTL

\* For every program, a search of breadth_first_search_forward() or _twoway()
\* over a component ends only when all marks of the component are followed.
THEOREM SearchesComplete == Spec => []SearchComplete
<1>1. ReachInv => SearchComplete BY Zenon DEF ReachInv, SearchInv, SearchComplete
<1> QED BY Invariant, <1>1, PTL

(***************************************************************************)
(* Layered programs.  First where the jobs stand in the agenda.            *)
(***************************************************************************)

\* The elements of a concatenation.
LEMMA Concat ==
  ASSUME NEW S, NEW s \in Seq(S), NEW t \in Seq(S)
  PROVE  /\ s \o t \in Seq(S)
         /\ Len(s \o t) = Len(s) + Len(t)
         /\ \A p \in 1 .. Len(s) + Len(t) : (s \o t)[p] = IF p <= Len(s) THEN s[p] ELSE t[p - Len(s)]
OBVIOUS

\* The job at each place of the agenda.
LEMMA AgendaPlace ==
  ASSUME NEW sccs \in Seq(SUBSET Functions)
  PROVE  LET n == Len(sccs)
             A == Agenda(sccs) IN
         /\ Len(A) = 7 * n + 4
         /\ \A p \in 1 .. 7 * n + 4 :
              \/ A[p].fs = {None} /\ A[p].op = "sink" /\ p \in {1, 4 * n + 3}
              \/ A[p].fs = {None} /\ A[p].op = "fd" /\ p \in {2, 4 * n + 4}
              \/ \E i \in 1 .. n : A[p].fs = sccs[i] /\
                   \/ A[p].op = "call" /\ p = 4 * i - 1
                   \/ A[p].op = "sink" /\ p = 4 * i
                   \/ A[p].op = "fd" /\ p = 4 * i + 1
                   \/ A[p].op = "summary" /\ p = 4 * i + 2
                   \/ A[p].op = "shared" /\ p = 4 * n + 2 * i + 3
                   \/ A[p].op = "push" /\ p = 4 * n + 2 * i + 4
                   \/ A[p].op = "pull" /\ p = 7 * n + 5 - i
<1> DEFINE n == Len(sccs)
           global == GlobalJobs
           first == <<"call", "sink", "fd", "summary">>
           up == <<"shared", "push">>
           B == [i \in 1 .. 4 * n |-> Job(first[((i - 1) % 4) + 1], sccs[((i - 1) \div 4) + 1])]
           C == [i \in 1 .. 2 * n |-> Job(up[((i - 1) % 2) + 1], sccs[((i - 1) \div 2) + 1])]
           D == [i \in 1 .. n |-> Job("pull", sccs[n + 1 - i])]
           A == Agenda(sccs)
<1>0. n \in Nat /\ 4 * n \in Nat /\ 2 * n \in Nat OBVIOUS
<1>n. sccs \in [1 .. n -> SUBSET Functions] OBVIOUS
<1> n \in Nat BY <1>0, Zenon
<1>1. A = (((global \o B) \o global) \o C) \o D
  BY Zenon DEF Agenda, ComponentJobs, UpJobs, DownJobs
<1> HIDE DEF n
<1>g. /\ Len(global) = 2
      /\ global[1].op = "sink" /\ global[1].fs = {None}
      /\ global[2].op = "fd" /\ global[2].fs = {None}
  BY DEF GlobalJobs, Job
<1>b. ASSUME NEW k \in 1 .. 4 * n
      PROVE  \E i \in 1 .. n : B[k].fs = sccs[i] /\
               \/ B[k].op = "call" /\ k = 4 * i - 3
               \/ B[k].op = "sink" /\ k = 4 * i - 2
               \/ B[k].op = "fd" /\ k = 4 * i - 1
               \/ B[k].op = "summary" /\ k = 4 * i
  <2> DEFINE i == ((k - 1) \div 4) + 1
             r == (k - 1) % 4
  <2>1. i \in 1 .. n /\ r \in 0 .. 3 /\ k = 4 * i - 3 + r BY <1>0
  <2>2. B[k].fs = sccs[i] /\ B[k].op = first[r + 1] BY Zenon DEF Job
  <2>3. /\ first[1] = "call" /\ first[2] = "sink" /\ first[3] = "fd" /\ first[4] = "summary" OBVIOUS
  <2> HIDE DEF B, first
  <2>4. PICK j \in 1 .. n, m \in 0 .. 3 : k = 4 * j - 3 + m /\ B[k].fs = sccs[j] /\ B[k].op = first[m + 1]
    BY <2>1, <2>2, Zenon
  <2> HIDE DEF i, r
  <2>5. \/ m = 0 /\ k = 4 * j - 3
        \/ m = 1 /\ k = 4 * j - 2
        \/ m = 2 /\ k = 4 * j - 1
        \/ m = 3 /\ k = 4 * j
    <3>1. k = 4 * j - 3 + m BY <2>4, Zenon
    <3> QED BY <3>1
  <2> QED BY <2>3, <2>4, <2>5
<1>c. ASSUME NEW k \in 1 .. 2 * n
      PROVE  \E i \in 1 .. n : C[k].fs = sccs[i] /\
               \/ C[k].op = "shared" /\ k = 2 * i - 1
               \/ C[k].op = "push" /\ k = 2 * i
  <2> DEFINE i == ((k - 1) \div 2) + 1
             r == (k - 1) % 2
  <2>1. i \in 1 .. n /\ r \in 0 .. 1 /\ k = 2 * i - 1 + r BY <1>0
  <2>2. C[k].fs = sccs[i] /\ C[k].op = up[r + 1] BY Zenon DEF Job
  <2>3. up[1] = "shared" /\ up[2] = "push" OBVIOUS
  <2> HIDE DEF C, up
  <2>4. PICK j \in 1 .. n, m \in 0 .. 1 : k = 2 * j - 1 + m /\ C[k].fs = sccs[j] /\ C[k].op = up[m + 1]
    BY <2>1, <2>2, Zenon
  <2> HIDE DEF i, r
  <2>5. \/ m = 0 /\ k = 2 * j - 1
        \/ m = 1 /\ k = 2 * j
    <3>1. k = 2 * j - 1 + m BY <2>4, Zenon
    <3> QED BY <3>1
  <2> QED BY <2>3, <2>4, <2>5
<1>d. ASSUME NEW k \in 1 .. n
      PROVE  \E i \in 1 .. n : D[k].fs = sccs[i] /\ D[k].op = "pull" /\ k = n + 1 - i
  <2>1. n + 1 - k \in 1 .. n /\ k = n + 1 - (n + 1 - k) BY <1>0
  <2>2. D[k].fs = sccs[n + 1 - k] /\ D[k].op = "pull" BY Zenon DEF Job
  <2> QED BY <2>1, <2>2, Zenon
<1>2. /\ \E S : global \in Seq(S) /\ B \in Seq(S) /\ C \in Seq(S) /\ D \in Seq(S)
      /\ Len(B) = 4 * n /\ Len(C) = 2 * n /\ Len(D) = n
  <2>1. B \in [1 .. 4 * n -> {B[i] : i \in 1 .. 4 * n}] BY Zenon
  <2>2. C \in [1 .. 2 * n -> {C[i] : i \in 1 .. 2 * n}] BY Zenon
  <2>3. D \in [1 .. n -> {D[i] : i \in 1 .. n}] BY Zenon
  <2> DEFINE all == {B[i] : i \in 1 .. 4 * n} \cup {C[i] : i \in 1 .. 2 * n}
                    \cup {D[i] : i \in 1 .. n} \cup {global[1], global[2]}
  <2> HIDE DEF B, C, D
  <2>4. B \in [1 .. 4 * n -> all] /\ C \in [1 .. 2 * n -> all] /\ D \in [1 .. n -> all]
    BY <2>1, <2>2, <2>3, Zenon
  <2>5. global \in Seq(all) BY DEF GlobalJobs
  <2> HIDE DEF all, global
  <2>6. B \in Seq(all) /\ C \in Seq(all) /\ D \in Seq(all) BY <2>4, <1>0, FunctionIsSeq, Zenon
  <2>7. Len(B) = 4 * n /\ Len(C) = 2 * n /\ Len(D) = n BY <2>4, <1>0
  <2> QED BY <2>5, <2>6, <2>7, Zenon
<1> HIDE DEF global, B, C, D
<1>3. /\ Len(A) = 7 * n + 4
      /\ \A p \in 1 .. 7 * n + 4 :
           A[p] = IF p <= 2 THEN global[p]
                  ELSE IF p <= 4 * n + 2 THEN B[p - 2]
                  ELSE IF p <= 4 * n + 4 THEN global[p - (4 * n + 2)]
                  ELSE IF p <= 6 * n + 4 THEN C[p - (4 * n + 4)]
                  ELSE D[p - (6 * n + 4)]
  <2>1. PICK S : global \in Seq(S) /\ B \in Seq(S) /\ C \in Seq(S) /\ D \in Seq(S) BY <1>2, Zenon
  <2>0. /\ 4 * n + 2 \in Nat /\ 4 * n + 4 \in Nat /\ 6 * n + 4 \in Nat /\ 7 * n + 4 \in Nat
        /\ 2 + 4 * n = 4 * n + 2 /\ 4 * n + 2 + 2 = 4 * n + 4
        /\ 4 * n + 4 + 2 * n = 6 * n + 4 /\ 6 * n + 4 + n = 7 * n + 4
    OBVIOUS
  <2> DEFINE gB == global \o B
             gBg == gB \o global
             gBgC == gBg \o C
             all == gBgC \o D
  <2>2. /\ gB \in Seq(S) /\ Len(gB) = 4 * n + 2
        /\ \A p \in 1 .. 4 * n + 2 : gB[p] = IF p <= 2 THEN global[p] ELSE B[p - 2]
    <3>1. /\ gB \in Seq(S) /\ Len(gB) = Len(global) + Len(B)
          /\ \A p \in 1 .. Len(global) + Len(B) : gB[p] = IF p <= Len(global) THEN global[p] ELSE B[p - Len(global)]
      BY <2>1, Concat, Zenon
    <3> HIDE DEF gB
    <3> QED BY <3>1, <2>1, <2>0, <1>2, <1>g, <1>0
  <2> HIDE DEF gB
  <2>3. /\ gBg \in Seq(S) /\ Len(gBg) = 4 * n + 4
        /\ \A p \in 1 .. 4 * n + 4 : gBg[p] = IF p <= 4 * n + 2 THEN gB[p] ELSE global[p - (4 * n + 2)]
    <3>1. /\ gBg \in Seq(S) /\ Len(gBg) = Len(gB) + Len(global)
          /\ \A p \in 1 .. Len(gB) + Len(global) : gBg[p] = IF p <= Len(gB) THEN gB[p] ELSE global[p - Len(gB)]
      BY <2>1, <2>2, Concat, Zenon
    <3> HIDE DEF gBg
    <3> QED BY <3>1, <2>1, <2>0, <2>2, <1>g, <1>0
  <2> HIDE DEF gBg
  <2>4. /\ gBgC \in Seq(S) /\ Len(gBgC) = 6 * n + 4
        /\ \A p \in 1 .. 6 * n + 4 : gBgC[p] = IF p <= 4 * n + 4 THEN gBg[p] ELSE C[p - (4 * n + 4)]
    <3>1. /\ gBgC \in Seq(S) /\ Len(gBgC) = Len(gBg) + Len(C)
          /\ \A p \in 1 .. Len(gBg) + Len(C) : gBgC[p] = IF p <= Len(gBg) THEN gBg[p] ELSE C[p - Len(gBg)]
      BY <2>1, <2>3, Concat, Zenon
    <3> HIDE DEF gBgC
    <3> QED BY <3>1, <2>1, <2>0, <2>3, <1>2, <1>0, SMTT(60)
  <2> HIDE DEF gBgC
  <2>5. /\ Len(all) = 7 * n + 4
        /\ \A p \in 1 .. 7 * n + 4 : all[p] = IF p <= 6 * n + 4 THEN gBgC[p] ELSE D[p - (6 * n + 4)]
    <3>1. /\ all \in Seq(S) /\ Len(all) = Len(gBgC) + Len(D)
          /\ \A p \in 1 .. Len(gBgC) + Len(D) : all[p] = IF p <= Len(gBgC) THEN gBgC[p] ELSE D[p - Len(gBgC)]
      BY <2>1, <2>4, Concat, Zenon
    <3> HIDE DEF all
    <3> QED BY <3>1, <2>1, <2>0, <2>4, <1>2, <1>0, ZenonT(60)
  <2>6. A = all BY <1>1, Zenon DEF all, gBgC, gBg, gB
  <2> HIDE DEF A, all
  <2>7. ASSUME NEW p \in 1 .. 7 * n + 4
        PROVE  A[p] = IF p <= 2 THEN global[p]
                      ELSE IF p <= 4 * n + 2 THEN B[p - 2]
                      ELSE IF p <= 4 * n + 4 THEN global[p - (4 * n + 2)]
                      ELSE IF p <= 6 * n + 4 THEN C[p - (4 * n + 4)]
                      ELSE D[p - (6 * n + 4)]
    <3>1. A[p] = IF p <= 6 * n + 4 THEN gBgC[p] ELSE D[p - (6 * n + 4)] BY <2>5, <2>6, Zenon
    <3>2. p <= 6 * n + 4 => gBgC[p] = IF p <= 4 * n + 4 THEN gBg[p] ELSE C[p - (4 * n + 4)]
      <4>1. p <= 6 * n + 4 => p \in 1 .. 6 * n + 4 OBVIOUS
      <4> QED BY <4>1, <2>4, Zenon
    <3>3. p <= 4 * n + 4 => gBg[p] = IF p <= 4 * n + 2 THEN gB[p] ELSE global[p - (4 * n + 2)]
      <4>1. p <= 4 * n + 4 => p \in 1 .. 4 * n + 4 OBVIOUS
      <4> QED BY <4>1, <2>3, Zenon
    <3>4. p <= 4 * n + 2 => gB[p] = IF p <= 2 THEN global[p] ELSE B[p - 2]
      <4>1. p <= 4 * n + 2 => p \in 1 .. 4 * n + 2 OBVIOUS
      <4> QED BY <4>1, <2>2, Zenon
    <3>5. (p <= 2 => p <= 4 * n + 2) /\ (p <= 4 * n + 2 => p <= 4 * n + 4) /\ (p <= 4 * n + 4 => p <= 6 * n + 4)
      OBVIOUS
    <3> QED BY <3>1, <3>2, <3>3, <3>4, <3>5, Zenon
  <2> QED BY <2>5, <2>6, <2>7, Zenon
<1> HIDE DEF A
<1>4. ASSUME NEW p \in 1 .. 7 * n + 4
      PROVE  \/ A[p].fs = {None} /\ A[p].op = "sink" /\ p \in {1, 4 * n + 3}
             \/ A[p].fs = {None} /\ A[p].op = "fd" /\ p \in {2, 4 * n + 4}
             \/ \E i \in 1 .. n : A[p].fs = sccs[i] /\
                  \/ A[p].op = "call" /\ p = 4 * i - 1
                  \/ A[p].op = "sink" /\ p = 4 * i
                  \/ A[p].op = "fd" /\ p = 4 * i + 1
                  \/ A[p].op = "summary" /\ p = 4 * i + 2
                  \/ A[p].op = "shared" /\ p = 4 * n + 2 * i + 3
                  \/ A[p].op = "push" /\ p = 4 * n + 2 * i + 4
                  \/ A[p].op = "pull" /\ p = 7 * n + 5 - i
  <2>1. CASE p <= 2
    <3>1. A[p] = global[p] BY <2>1, <1>3, Zenon
    <3>2. p = 1 \/ p = 2 BY <2>1
    <3> QED BY <3>1, <3>2, <1>g, Zenon
  <2>2. CASE p > 2 /\ p <= 4 * n + 2
    <3>1. ~(p <= 2) /\ p <= 4 * n + 2 /\ p - 2 \in 1 .. 4 * n BY <2>2
    <3>3. A[p] = B[p - 2] BY <3>1, <1>3, Zenon
    <3>2. PICK i \in 1 .. n : B[p - 2].fs = sccs[i] /\
               \/ B[p - 2].op = "call" /\ p - 2 = 4 * i - 3
               \/ B[p - 2].op = "sink" /\ p - 2 = 4 * i - 2
               \/ B[p - 2].op = "fd" /\ p - 2 = 4 * i - 1
               \/ B[p - 2].op = "summary" /\ p - 2 = 4 * i
      BY <3>1, <1>b, Zenon
    <3>4. /\ p - 2 = 4 * i - 3 => p = 4 * i - 1
          /\ p - 2 = 4 * i - 2 => p = 4 * i
          /\ p - 2 = 4 * i - 1 => p = 4 * i + 1
          /\ p - 2 = 4 * i => p = 4 * i + 2
      OBVIOUS
    <3> QED BY <3>2, <3>3, <3>4, Zenon
  <2>3. CASE p > 4 * n + 2 /\ p <= 4 * n + 4
    <3>1. ~(p <= 2) /\ ~(p <= 4 * n + 2) /\ p <= 4 * n + 4 BY <2>3
    <3>3. A[p] = global[p - (4 * n + 2)] BY <3>1, <1>3, Zenon
    <3>2. p = 4 * n + 3 \/ p = 4 * n + 4 BY <2>3, <1>0
    <3> QED BY <3>2, <3>3, <1>g
  <2>4. CASE p > 4 * n + 4 /\ p <= 6 * n + 4
    <3>1. /\ ~(p <= 2) /\ ~(p <= 4 * n + 2) /\ ~(p <= 4 * n + 4) /\ p <= 6 * n + 4
          /\ p - (4 * n + 4) \in 1 .. 2 * n
      BY <2>4
    <3>3. A[p] = C[p - (4 * n + 4)] BY <3>1, <1>3, Zenon
    <3>2. PICK i \in 1 .. n : C[p - (4 * n + 4)].fs = sccs[i] /\
               \/ C[p - (4 * n + 4)].op = "shared" /\ p - (4 * n + 4) = 2 * i - 1
               \/ C[p - (4 * n + 4)].op = "push" /\ p - (4 * n + 4) = 2 * i
      BY <3>1, <1>c, Zenon
    <3>4. /\ p - (4 * n + 4) = 2 * i - 1 => p = 4 * n + 2 * i + 3
          /\ p - (4 * n + 4) = 2 * i => p = 4 * n + 2 * i + 4
      BY <1>0
    <3> QED BY <3>2, <3>3, <3>4, Zenon
  <2>5. CASE p > 6 * n + 4
    <3>1. /\ ~(p <= 2) /\ ~(p <= 4 * n + 2) /\ ~(p <= 4 * n + 4) /\ ~(p <= 6 * n + 4)
          /\ p - (6 * n + 4) \in 1 .. n
      BY <2>5
    <3>3. A[p] = D[p - (6 * n + 4)] BY <3>1, <1>3, Zenon
    <3>2. PICK i \in 1 .. n : D[p - (6 * n + 4)].fs = sccs[i] /\ D[p - (6 * n + 4)].op = "pull"
                               /\ p - (6 * n + 4) = n + 1 - i
      BY <3>1, <1>d, Zenon
    <3>4. p - (6 * n + 4) = n + 1 - i BY <3>2, Zenon
    <3>5. p = 7 * n + 5 - i BY <3>4
    <3> QED BY <3>2, <3>3, <3>5, Zenon
  <2> QED BY <2>1, <2>2, <2>3, <2>4, <2>5, <1>0
<1> HIDE DEF A
<1> QED BY <1>3, <1>4, Zenon DEF A, n

\* The components of a program are numbered.
LEMMA Numbered ==
  ASSUME TypeOK
  PROVE  N \in Nat /\ DOMAIN prog.sccs = 1 .. N /\ prog.sccs \in Seq(SUBSET Functions)
BY DEF TypeOK, ProgramType, N

\* Jobs are in the order of their components.
LEMMA AtIs ==
  ASSUME NEW i
  PROVE  /\ At("call", i) = 4 * i - 1 /\ At("sink", i) = 4 * i /\ At("fd", i) = 4 * i + 1
         /\ At("summary", i) = 4 * i + 2
         /\ At("shared", i) = 4 * N + 2 * i + 3
         /\ At("push", i) = 4 * N + 2 * i + 4
         /\ At("pull", i) = 7 * N + 5 - i
BY DEF At

\* The first job of what is left.
LEMMA Place ==
  ASSUME TypeOK, AgendaInv, NEW op, Doing(op)
  PROVE  /\ op \in Ops
         /\ \/ \E i \in DOMAIN prog.sccs : Component = prog.sccs[i] /\ Done + 1 = At(op, i)
            \/ op = "sink" /\ Component = {None} /\ Done + 1 \in {1, 4 * N + 3}
            \/ op = "fd" /\ Component = {None} /\ Done + 1 \in {2, 4 * N + 4}
<1> DEFINE A == Agenda(prog.sccs)
           p == Done + 1
<1>1. N \in Nat /\ DOMAIN prog.sccs = 1 .. N /\ prog.sccs \in Seq(SUBSET Functions) BY Numbered, Zenon
<1>2. agenda \in Seq(Jobs) /\ agenda # <<>> /\ agenda[1].op = op BY Zenon DEF Doing, TypeOK
<1>3. 1 \in DOMAIN agenda /\ Len(agenda) \in Nat /\ Len(agenda) >= 1 /\ op \in Ops
  <2>1. 1 \in DOMAIN agenda /\ Len(agenda) \in Nat /\ Len(agenda) >= 1 /\ agenda[1] \in Jobs BY <1>2
  <2> QED BY <2>1, <1>2, Zenon DEF Jobs
<1>4. agenda[1] = A[p] /\ p \in 1 .. 7 * N + 4
  <2>1. agenda[1] = A[p] BY <1>3, Zenon DEF AgendaInv
  <2>2. Done \in Nat /\ Done = 7 * N + 4 - Len(agenda) BY Zenon DEF AgendaInv, Done
  <2>3. p \in 1 .. 7 * N + 4 BY <2>2, <1>1, <1>3
  <2> QED BY <2>1, <2>3, Zenon
<1>5. A[p].op = op /\ A[p].fs = Component BY <1>2, <1>4, Zenon DEF Component
<1> HIDE DEF p
<1>6. \/ A[p].fs = {None} /\ A[p].op = "sink" /\ p \in {1, 4 * N + 3}
      \/ A[p].fs = {None} /\ A[p].op = "fd" /\ p \in {2, 4 * N + 4}
      \/ \E i \in 1 .. N : A[p].fs = prog.sccs[i] /\
           \/ A[p].op = "call" /\ p = 4 * i - 1
           \/ A[p].op = "sink" /\ p = 4 * i
           \/ A[p].op = "fd" /\ p = 4 * i + 1
           \/ A[p].op = "summary" /\ p = 4 * i + 2
           \/ A[p].op = "shared" /\ p = 4 * N + 2 * i + 3
           \/ A[p].op = "push" /\ p = 4 * N + 2 * i + 4
           \/ A[p].op = "pull" /\ p = 7 * N + 5 - i
  BY <1>1, <1>4, AgendaPlace, Zenon DEF N
<1> HIDE DEF A
<1>7. \/ Component = {None} /\ op = "sink" /\ p \in {1, 4 * N + 3}
      \/ Component = {None} /\ op = "fd" /\ p \in {2, 4 * N + 4}
      \/ \E i \in 1 .. N : Component = prog.sccs[i] /\ p = At(op, i)
  <2>1. ASSUME NEW i \in 1 .. N, A[p].fs = prog.sccs[i],
           \/ A[p].op = "call" /\ p = 4 * i - 1
           \/ A[p].op = "sink" /\ p = 4 * i
           \/ A[p].op = "fd" /\ p = 4 * i + 1
           \/ A[p].op = "summary" /\ p = 4 * i + 2
           \/ A[p].op = "shared" /\ p = 4 * N + 2 * i + 3
           \/ A[p].op = "push" /\ p = 4 * N + 2 * i + 4
           \/ A[p].op = "pull" /\ p = 7 * N + 5 - i
        PROVE  Component = prog.sccs[i] /\ p = At(op, i)
    BY <2>1, <1>5, AtIs, Zenon
  <2> QED BY <2>1, <1>5, <1>6, Zenon
<1> QED BY <1>1, <1>3, <1>7, Zenon DEF p

\* A job is done.
LEMMA Advance ==
  ASSUME TypeOK, AgendaInv, NEW o, Doing(o), agenda' = Tail(agenda), prog' = prog
  PROVE  /\ AgendaInv' /\ Done' = Done + 1
         /\ \A op \in Ops : \A g : Over(op, g)' => Over(op, g) \/ (op = o /\ g \in Component)
<1>1. N \in Nat /\ DOMAIN prog.sccs = 1 .. N BY Numbered, Zenon
<1>2. agenda \in Seq(Jobs) /\ agenda # <<>> BY Zenon DEF Doing, TypeOK
<1>3. /\ Len(agenda) \in Nat /\ Len(agenda') = Len(agenda) - 1 /\ DOMAIN agenda' = 1 .. Len(agenda) - 1
      /\ DOMAIN agenda = 1 .. Len(agenda)
      /\ \A k \in DOMAIN agenda' : agenda'[k] = agenda[k + 1]
  BY <1>2
<1>4. Done \in Nat /\ Done = 7 * N + 4 - Len(agenda) BY Zenon DEF AgendaInv, Done
<1>5. Done' = 7 * N + 4 - Len(agenda') BY Zenon DEF Done, N
<1>6. Done' = Done + 1 BY <1>1, <1>3, <1>4, <1>5
<1>7. AgendaInv'
  <2>1. ASSUME NEW k \in DOMAIN agenda' PROVE agenda'[k] = Agenda(prog.sccs)[Done' + k]
    <3>1. k + 1 \in DOMAIN agenda BY <1>3
    <3>2. Done' + k = Done + (k + 1) BY <1>3, <1>4, <1>6
    <3> QED BY <3>1, <3>2, <1>3, Zenon DEF AgendaInv
  <2>2. Done' \in Nat BY <1>4, <1>6
  <2> QED BY <2>1, <2>2, Zenon DEF AgendaInv
<1>8. ASSUME NEW op \in Ops, NEW g, Over(op, g)', ~Over(op, g)
      PROVE  op = o /\ g \in Component
  <2>1. \A i : At(op, i)' = At(op, i) BY Zenon DEF At, N
  <2>2. PICK i \in 1 .. N : g \in prog.sccs[i] /\ Done' >= At(op, i) BY <1>1, <1>8, <2>1, Zenon DEF Over
  <2>3. ~(Done >= At(op, i)) BY <1>1, <1>8, <2>2, Zenon DEF Over
  <2>0. ASSUME NEW x \in Ops, NEW a \in 1 .. N
        PROVE  \/ x = "call" /\ At(x, a) = 4 * a - 1
               \/ x = "sink" /\ At(x, a) = 4 * a
               \/ x = "fd" /\ At(x, a) = 4 * a + 1
               \/ x = "summary" /\ At(x, a) = 4 * a + 2
               \/ x = "shared" /\ At(x, a) = 4 * N + 2 * a + 3
               \/ x = "push" /\ At(x, a) = 4 * N + 2 * a + 4
               \/ x = "pull" /\ At(x, a) = 7 * N + 5 - a
    BY AtIs, Zenon DEF Ops, Kinds
  <2>4. At(op, i) \in Int BY <1>1, <2>0
  <2>5. At(op, i) = Done + 1 BY <1>4, <1>6, <2>2, <2>3, <2>4
  <2>6. \/ \E j \in 1 .. N : Component = prog.sccs[j] /\ Done + 1 = At(o, j)
        \/ o = "sink" /\ Component = {None} /\ Done + 1 \in {1, 4 * N + 3}
        \/ o = "fd" /\ Component = {None} /\ Done + 1 \in {2, 4 * N + 4}
    BY <1>1, Place, Zenon
  <2>7. o \in Ops BY Place, Zenon
  <2>8. ASSUME NEW x \in Ops, NEW y \in Ops, NEW a \in 1 .. N, NEW b \in 1 .. N, At(x, a) = At(y, b)
        PROVE  x = y /\ a = b
    <3>1. CASE x = "call"
      <4>1. At(x, a) = 4 * a - 1 BY <3>1, AtIs, Zenon
      <4>2. y # "call" => ~(At(y, b) = 4 * a - 1) BY <2>0, <1>1
      <4>3. y = "call" => At(y, b) = 4 * b - 1 BY AtIs, Zenon
      <4> QED BY <3>1, <4>1, <4>2, <4>3, <2>8
    <3>2. CASE x = "sink" BY <3>2, <2>0, <2>8, <1>1, SMTT(60)
    <3>3. CASE x = "fd" BY <3>3, <2>0, <2>8, <1>1, SMTT(60)
    <3>4. CASE x = "summary" BY <3>4, <2>0, <2>8, <1>1, SMTT(60)
    <3>5. CASE x = "shared" BY <3>5, <2>0, <2>8, <1>1, SMTT(60)
    <3>6. CASE x = "push" BY <3>6, <2>0, <2>8, <1>1, SMTT(60)
    <3>7. CASE x = "pull" BY <3>7, <2>0, <2>8, <1>1, SMTT(60)
    <3> QED BY <3>1, <3>2, <3>3, <3>4, <3>5, <3>6, <3>7, Zenon DEF Ops, Kinds
  <2>9. ASSUME NEW x \in Ops, NEW a \in 1 .. N
        PROVE  At(x, a) \notin {1, 2, 4 * N + 3, 4 * N + 4}
    BY <2>0, <1>1, SMTT(60)
  <2> QED BY <2>2, <2>5, <2>6, <2>7, <2>8, <2>9, ZenonT(60)
<1> QED BY <1>6, <1>7, <1>8, Zenon

\* No job is done.
LEMMA Stay ==
  ASSUME agenda' = agenda, prog' = prog
  PROVE  /\ AgendaInv' <=> AgendaInv
         /\ Done' = Done
         /\ \A op, g : Over(op, g)' <=> Over(op, g)
BY ZenonT(60) DEF AgendaInv, Done, Over, At, N

\* The component of a job that is not one of the two for the globals.
LEMMA PlaceOf ==
  ASSUME TypeOK, AgendaInv, NEW op \in {"call", "summary", "shared", "push", "pull"}, Doing(op)
  PROVE  \E i \in 1 .. N : Component = prog.sccs[i] /\ Done + 1 = At(op, i)
<1>1. op # "sink" /\ op # "fd" BY Zenon
<1>2. DOMAIN prog.sccs = 1 .. N BY Numbered, Zenon
<1> QED BY <1>1, <1>2, Place, Zenon

\* A function is in one component, so a job is over for it or is not.
LEMMA OverIs ==
  ASSUME TypeOK, IsLayered, NEW i \in 1 .. N, NEW g \in prog.sccs[i]
  PROVE  /\ \A j \in 1 .. N : g \in prog.sccs[j] => j = i
         /\ Over("call", g) <=> Done >= 4 * i - 1
         /\ Over("sink", g) <=> Done >= 4 * i
         /\ Over("summary", g) <=> Done >= 4 * i + 2
         /\ Over("shared", g) <=> Done >= 4 * N + 2 * i + 3
         /\ Over("push", g) <=> Done >= 4 * N + 2 * i + 4
         /\ Over("pull", g) <=> Done >= 7 * N + 5 - i
<1>0. DOMAIN prog.sccs = 1 .. N BY Numbered, Zenon
<1>1. \A j \in 1 .. N : g \in prog.sccs[j] => j = i BY <1>0, Zenon DEF IsLayered
<1>2. \A op : Over(op, g) <=> Done >= At(op, i) BY <1>0, <1>1, Zenon DEF Over
<1> QED BY <1>1, <1>2, AtIs, Zenon

\* Callees come before callers.
LEMMA CallOrder ==
  ASSUME TypeOK, IsLayered, NEW c \in prog.calls
  PROVE  \E i, j \in 1 .. N : i < j /\ c.callee \in prog.sccs[i] /\ c.caller \in prog.sccs[j]
BY Numbered, Zenon DEF IsLayered

\* What has not been done when a component's calls are handled.
LEMMA OrderCall ==
  ASSUME TypeOK, IsLayered, AgendaInv, Doing("call")
  PROVE  /\ \A g \in Component : ~Over("call", g) /\ ~Over("sink", g) /\ ~Over("summary", g)
         /\ \A g : ~Over("shared", g) /\ ~Over("push", g) /\ ~Over("pull", g)
         /\ \A c \in prog.calls : Over("call", c.caller) \/ c.caller \in Component => c.callee \notin Component
         /\ Done + 1 < 6 * N + 4
<1>1. N \in Nat /\ DOMAIN prog.sccs = 1 .. N BY Numbered, Zenon
<1>2. PICK p \in 1 .. N : Component = prog.sccs[p] /\ Done + 1 = At("call", p) BY PlaceOf, Zenon
<1>3. Done + 1 = 4 * p - 1 /\ Done \in Nat /\ N \in Nat BY <1>1, <1>2, AtIs, Zenon DEF AgendaInv
<1>4. \A g \in Component : ~Over("call", g) /\ ~Over("sink", g) /\ ~Over("summary", g)
  <2>1. ~(Done >= 4 * p - 1) /\ ~(Done >= 4 * p) /\ ~(Done >= 4 * p + 2) BY <1>3
  <2> QED BY <2>1, <1>1, <1>2, OverIs, Zenon
<1>5. \A g : ~Over("shared", g) /\ ~Over("push", g) /\ ~Over("pull", g)
  <2>1. ASSUME NEW i \in 1 .. N
        PROVE  ~(Done >= 4 * N + 2 * i + 3) /\ ~(Done >= 4 * N + 2 * i + 4) /\ ~(Done >= 7 * N + 5 - i)
    BY <1>3
  <2> QED BY <2>1, <1>1, AtIs, Zenon DEF Over
<1>6. ASSUME NEW c \in prog.calls, Over("call", c.caller) \/ c.caller \in Component, c.callee \in Component
      PROVE  FALSE
  <2>1. PICK i, j \in 1 .. N : i < j /\ c.callee \in prog.sccs[i] /\ c.caller \in prog.sccs[j]
    BY <1>1, CallOrder, Zenon
  <2>2. i = p BY <2>1, <1>1, <1>2, <1>6, OverIs, Zenon
  <2>3. Done >= 4 * j - 1 \/ j = p BY <2>1, <1>1, <1>2, <1>6, OverIs, Zenon
  <2>4. i < j BY <2>1, Zenon
  <2> QED BY <2>2, <2>3, <2>4, <1>3
<1>7. Done + 1 < 6 * N + 4 BY <1>3
<1> QED BY <1>1, <1>4, <1>5, <1>6, <1>7, Zenon

\* What has and has not been done when the sinks of a component are searched.
LEMMA OrderSink ==
  ASSUME TypeOK, IsLayered, AgendaInv, Doing("sink")
  PROVE  /\ \A g \in Component : ~Over("sink", g)
         /\ \A g : ~Over("shared", g) /\ ~Over("push", g) /\ ~Over("pull", g)
         /\ \A c \in prog.calls : Over("call", c.caller) => c.callee \notin Component
         /\ Done + 1 < 6 * N + 4
<1>1. N \in Nat /\ DOMAIN prog.sccs = 1 .. N BY Numbered, Zenon
<1>2. \/ \E p \in 1 .. N : Component = prog.sccs[p] /\ Done + 1 = 4 * p
      \/ Component = {None} /\ Done + 1 \in {1, 4 * N + 3}
  <2>1. "sink" # "fd" OBVIOUS
  <2>2. \/ \E i \in DOMAIN prog.sccs : Component = prog.sccs[i] /\ Done + 1 = At("sink", i)
        \/ Component = {None} /\ Done + 1 \in {1, 4 * N + 3}
    BY <2>1, Place, Zenon
  <2> QED BY <2>2, <1>1, AtIs, Zenon
<1>3. Done \in Nat /\ N \in Nat /\ Done + 1 <= 4 * N + 3
  <2>1. Done \in Nat /\ N \in Nat BY <1>1, Zenon DEF AgendaInv
  <2>2. (\E p \in 1 .. N : Done + 1 = 4 * p) \/ Done + 1 \in {1, 4 * N + 3} BY <1>2, Zenon
  <2> QED BY <2>1, <2>2
<1>5. \A g : ~Over("shared", g) /\ ~Over("push", g) /\ ~Over("pull", g)
  <2>1. ASSUME NEW i \in 1 .. N
        PROVE  ~(Done >= 4 * N + 2 * i + 3) /\ ~(Done >= 4 * N + 2 * i + 4) /\ ~(Done >= 7 * N + 5 - i)
    BY <1>3
  <2> QED BY <2>1, <1>1, AtIs, Zenon DEF Over
<1>7. Done + 1 < 6 * N + 4 BY <1>3
<1>8. CASE Component = {None}
  <2>1. \A i \in 1 .. N : None \notin prog.sccs[i] BY <1>1, Numbered, FunctionsAssumption
  <2>2. \A c \in prog.calls : c.callee \notin Component BY <2>1, <1>8, <1>1, CallOrder, Zenon
  <2>3. \A g \in Component : ~Over("sink", g) BY <2>1, <1>1, <1>8, Zenon DEF Over
  <2> QED BY <2>2, <2>3, <1>1, <1>5, <1>7, Zenon
<1>9. ASSUME NEW p \in 1 .. N, Component = prog.sccs[p], Done + 1 = 4 * p
      PROVE  /\ \A g \in Component : ~Over("sink", g)
             /\ \A c \in prog.calls : Over("call", c.caller) => c.callee \notin Component
  <2>1. ~(Done >= 4 * p) BY <1>3, <1>9
  <2>2. \A g \in Component : ~Over("sink", g) BY <2>1, <1>1, <1>9, OverIs, Zenon
  <2>3. ASSUME NEW c \in prog.calls, Over("call", c.caller), c.callee \in Component PROVE FALSE
    <3>1. PICK i, j \in 1 .. N : i < j /\ c.callee \in prog.sccs[i] /\ c.caller \in prog.sccs[j]
      BY <1>1, CallOrder, Zenon
    <3>2. i = p BY <3>1, <1>1, <1>9, <2>3, OverIs, Zenon
    <3>3. Done >= 4 * j - 1 BY <3>1, <1>1, <2>3, OverIs, Zenon
    <3>4. i < j BY <3>1, Zenon
    <3> QED BY <3>2, <3>3, <3>4, <1>3, <1>9
  <2> QED BY <2>2, <2>3, Zenon
<1> QED BY <1>1, <1>2, <1>5, <1>7, <1>8, <1>9, Zenon

\* A component is summarized before its callers' calls are handled.
LEMMA OrderSummary ==
  ASSUME TypeOK, IsLayered, AgendaInv, Doing("summary")
  PROVE  /\ \A c \in prog.calls : c.callee \in Component => ~Over("call", c.caller) /\ c.caller \notin Component
         /\ \A g : ~Over("shared", g) /\ ~Over("push", g) /\ ~Over("pull", g)
         /\ Done + 1 < 6 * N + 4
         /\ None \notin Component
<1>1. N \in Nat /\ DOMAIN prog.sccs = 1 .. N BY Numbered, Zenon
<1>2. PICK p \in 1 .. N : Component = prog.sccs[p] /\ Done + 1 = At("summary", p) BY PlaceOf, Zenon
<1>3. Done + 1 = 4 * p + 2 /\ Done \in Nat /\ N \in Nat BY <1>1, <1>2, AtIs, Zenon DEF AgendaInv
<1>4. ASSUME NEW c \in prog.calls, c.callee \in Component
      PROVE  ~Over("call", c.caller) /\ c.caller \notin Component
  <2>1. PICK i, j \in 1 .. N : i < j /\ c.callee \in prog.sccs[i] /\ c.caller \in prog.sccs[j]
    BY <1>1, CallOrder, Zenon
  <2>2. i = p BY <2>1, <1>1, <1>2, <1>4, OverIs, Zenon
  <2>3. i < j BY <2>1, Zenon
  <2>4. ~(Done >= 4 * j - 1) /\ j # p BY <2>2, <2>3, <1>3
  <2> QED BY <2>1, <2>4, <1>1, <1>2, OverIs, Zenon
<1>5. \A g : ~Over("shared", g) /\ ~Over("push", g) /\ ~Over("pull", g)
  <2>1. ASSUME NEW i \in 1 .. N
        PROVE  ~(Done >= 4 * N + 2 * i + 3) /\ ~(Done >= 4 * N + 2 * i + 4) /\ ~(Done >= 7 * N + 5 - i)
    BY <1>3
  <2> QED BY <2>1, <1>1, AtIs, Zenon DEF Over
<1>7. Done + 1 < 6 * N + 4 BY <1>3
<1>8. None \notin Component BY <1>1, <1>2, Numbered, FunctionsAssumption
<1> QED BY <1>1, <1>4, <1>5, <1>7, <1>8, Zenon

\* Influence is searched for in a component before it is passed on from there.
LEMMA OrderShared ==
  ASSUME TypeOK, IsLayered, AgendaInv, Doing("shared")
  PROVE  /\ \A g \in Component : ~Over("shared", g) /\ ~Over("push", g)
         /\ \A g : ~Over("pull", g)
         /\ Done + 1 < 6 * N + 4
<1>1. N \in Nat /\ DOMAIN prog.sccs = 1 .. N BY Numbered, Zenon
<1>2. PICK p \in 1 .. N : Component = prog.sccs[p] /\ Done + 1 = At("shared", p) BY PlaceOf, Zenon
<1>3. Done + 1 = 4 * N + 2 * p + 3 /\ Done \in Nat /\ N \in Nat BY <1>1, <1>2, AtIs, Zenon DEF AgendaInv
<1>4. ~(Done >= 4 * N + 2 * p + 3) /\ ~(Done >= 4 * N + 2 * p + 4) BY <1>3
<1>5. \A g \in Component : ~Over("shared", g) /\ ~Over("push", g) BY <1>4, <1>1, <1>2, OverIs, Zenon
<1>6. \A g : ~Over("pull", g)
  <2>1. ASSUME NEW i \in 1 .. N PROVE ~(Done >= 7 * N + 5 - i) BY <1>3
  <2> QED BY <2>1, <1>1, AtIs, Zenon DEF Over
<1>7. Done + 1 < 6 * N + 4 BY <1>3
<1> QED BY <1>1, <1>5, <1>6, <1>7, Zenon

\* Marks are passed up, to components whose turn has not come.
LEMMA OrderPush ==
  ASSUME TypeOK, IsLayered, AgendaInv, Doing("push")
  PROVE  /\ \A c \in prog.calls : Over("call", c.caller)
         /\ \A c \in prog.calls : c.callee \in Component =>
              ~Over("shared", c.caller) /\ ~Over("push", c.caller) /\ c.caller \notin Component
         /\ \A g : ~Over("pull", g)
         /\ Done + 1 <= 6 * N + 4
<1>1. N \in Nat /\ DOMAIN prog.sccs = 1 .. N BY Numbered, Zenon
<1>2. PICK p \in 1 .. N : Component = prog.sccs[p] /\ Done + 1 = At("push", p) BY PlaceOf, Zenon
<1>3. Done + 1 = 4 * N + 2 * p + 4 /\ Done \in Nat /\ N \in Nat BY <1>1, <1>2, AtIs, Zenon DEF AgendaInv
<1>4. ASSUME NEW c \in prog.calls
      PROVE  /\ Over("call", c.caller)
             /\ c.callee \in Component =>
                  ~Over("shared", c.caller) /\ ~Over("push", c.caller) /\ c.caller \notin Component
  <2>1. PICK i, j \in 1 .. N : i < j /\ c.callee \in prog.sccs[i] /\ c.caller \in prog.sccs[j]
    BY <1>1, CallOrder, Zenon
  <2>2. Done >= 4 * j - 1 BY <1>3
  <2>3. Over("call", c.caller) BY <2>1, <2>2, <1>1, OverIs, Zenon
  <2>4. ASSUME c.callee \in Component
        PROVE  ~Over("shared", c.caller) /\ ~Over("push", c.caller) /\ c.caller \notin Component
    <3>1. i = p BY <2>1, <1>1, <1>2, <2>4, OverIs, Zenon
    <3>2. i < j BY <2>1, Zenon
    <3>3. ~(Done >= 4 * N + 2 * j + 3) /\ ~(Done >= 4 * N + 2 * j + 4) /\ j # p BY <3>1, <3>2, <1>3
    <3> QED BY <2>1, <3>3, <1>1, <1>2, OverIs, Zenon
  <2> QED BY <2>3, <2>4, Zenon
<1>6. \A g : ~Over("pull", g)
  <2>1. ASSUME NEW i \in 1 .. N PROVE ~(Done >= 7 * N + 5 - i) BY <1>3
  <2> QED BY <2>1, <1>1, AtIs, Zenon DEF Over
<1>7. Done + 1 <= 6 * N + 4 BY <1>3
<1> QED BY <1>1, <1>4, <1>6, <1>7, Zenon

\* Marks are passed down when all have been passed up, callers first.
LEMMA OrderPull ==
  ASSUME TypeOK, IsLayered, AgendaInv, Doing("pull")
  PROVE  /\ \A c \in prog.calls : Over("call", c.caller)
         /\ \A c \in prog.calls : c.caller \in Component => ~Over("pull", c.callee) /\ c.callee \notin Component
         /\ Done >= 6 * N + 4
<1>1. N \in Nat /\ DOMAIN prog.sccs = 1 .. N BY Numbered, Zenon
<1>2. PICK p \in 1 .. N : Component = prog.sccs[p] /\ Done + 1 = At("pull", p) BY PlaceOf, Zenon
<1>3. Done + 1 = 7 * N + 5 - p /\ Done \in Nat /\ N \in Nat BY <1>1, <1>2, AtIs, Zenon DEF AgendaInv
<1>4. ASSUME NEW c \in prog.calls
      PROVE  /\ Over("call", c.caller)
             /\ c.caller \in Component => ~Over("pull", c.callee) /\ c.callee \notin Component
  <2>1. PICK i, j \in 1 .. N : i < j /\ c.callee \in prog.sccs[i] /\ c.caller \in prog.sccs[j]
    BY <1>1, CallOrder, Zenon
  <2>2. Done >= 4 * j - 1 BY <1>3
  <2>3. Over("call", c.caller) BY <2>1, <2>2, <1>1, OverIs, Zenon
  <2>4. ASSUME c.caller \in Component PROVE ~Over("pull", c.callee) /\ c.callee \notin Component
    <3>1. j = p BY <2>1, <1>1, <1>2, <2>4, OverIs, Zenon
    <3>2. i < j BY <2>1, Zenon
    <3>3. ~(Done >= 7 * N + 5 - i) /\ i # p BY <3>1, <3>2, <1>3
    <3> QED BY <2>1, <3>3, <1>1, <1>2, OverIs, Zenon
  <2> QED BY <2>3, <2>4, Zenon
<1>7. Done >= 6 * N + 4 BY <1>3
<1> QED BY <1>1, <1>4, <1>7, Zenon

\* What has been done after a number of jobs.
LEMMA OrderAfter ==
  ASSUME TypeOK, IsLayered, AgendaInv, NEW i \in 1 .. N, NEW g \in prog.sccs[i]
  PROVE  /\ Done >= 4 * N + 4 => Over("call", g) /\ Over("sink", g) /\ Over("summary", g)
         /\ Done >= 6 * N + 4 => Over("shared", g) /\ Over("push", g)
         /\ Done >= 7 * N + 4 => Over("pull", g)
<1>1. N \in Nat /\ DOMAIN prog.sccs = 1 .. N BY Numbered, Zenon
<1>2. Done \in Nat /\ N \in Nat BY <1>1, Zenon DEF AgendaInv
<1>3. /\ Done >= 4 * N + 4 => Done >= 4 * i - 1 /\ Done >= 4 * i /\ Done >= 4 * i + 2
      /\ Done >= 6 * N + 4 => Done >= 4 * N + 2 * i + 3 /\ Done >= 4 * N + 2 * i + 4
      /\ Done >= 7 * N + 4 => Done >= 7 * N + 5 - i
  BY <1>2
<1> QED BY <1>1, <1>3, OverIs, Zenon

(***************************************************************************)
(* Layered programs: the edges that a step adds.                           *)
(***************************************************************************)

\* Whose values a call relates.
LEMMA CallType ==
  ASSUME TypeOK, NEW c \in prog.calls
  PROVE  /\ c.caller \in Functions /\ c.callee \in Functions
         /\ c.pairs \subseteq Vertices \X Vertices
         /\ \A q \in c.pairs : q[1] \in Vertices /\ q[2] \in Vertices /\ q = <<q[1], q[2]>>
         /\ \A q \in BothWays(c.joined) : q[1] \in Vertices /\ q[2] \in Vertices /\ q = <<q[1], q[2]>>
<1>1. /\ c.caller \in Functions /\ c.callee \in Functions
      /\ c.pairs \subseteq Vertices \X Vertices /\ c.joined \subseteq Vertices \X Vertices
  BY Zenon DEF TypeOK, ProgramType, Calls
<1>2. \A q \in Vertices \X Vertices : q[1] \in Vertices /\ q[2] \in Vertices /\ q = <<q[1], q[2]>> OBVIOUS
<1>3. BothWays(c.joined) \subseteq Vertices \X Vertices BY <1>1, BothWaysType, Zenon
<1> QED BY <1>1, <1>2, <1>3, Zenon

\* In a layered program callees and callers are functions of their own.
LEMMA CallOwner ==
  ASSUME TypeOK, IsLayered, NEW c \in prog.calls
  PROVE  /\ \A q \in c.pairs : prog.owner[q[1]] = c.callee /\ prog.owner[q[2]] = c.caller
         /\ \A q \in BothWays(c.joined) : prog.owner[q[1]] = c.caller /\ prog.owner[q[2]] = c.caller
         /\ c.callee # None /\ c.caller # None
<1>1. \A q \in Reverse(c.joined) : \E r \in c.joined : q[1] = r[2] /\ q[2] = r[1] BY DEF Reverse
<1>2. c.callee # None /\ c.caller # None BY CallType, FunctionsAssumption, Zenon
<1>3. /\ \A q \in c.pairs : prog.owner[q[1]] = c.callee /\ prog.owner[q[2]] = c.caller
      /\ \A q \in c.joined : prog.owner[q[1]] = c.caller /\ prog.owner[q[2]] = c.caller
  BY Zenon DEF IsLayered
<1>4. \A q \in Reverse(c.joined) : prog.owner[q[1]] = c.caller /\ prog.owner[q[2]] = c.caller BY <1>1, <1>3
<1>5. BothWays(c.joined) \subseteq c.joined \cup Reverse(c.joined) BY Zenon DEF BothWays, Flowing
<1> QED BY <1>2, <1>3, <1>4, <1>5, Zenon

\* The edges that handleCall() adds for a call.
Handed(c, v, w) ==
  \/ <<v, w>> \in BothWays(c.joined)
  \/ \E q, r \in c.pairs : Edge({"Summary"}, q[1], r[1]) /\ v = q[2] /\ w = r[2]

\* handleCall() adds the edges that its calls hand to the caller, and no others.
LEMMA CallEdges ==
  ASSUME TypeOK, IsLayered, AgendaInv, HandleCalls, NEW ts, NEW v, NEW w
  PROVE  Edge(ts, v, w)' <=> \/ Edge(ts, v, w)
                             \/ "Data" \in ts /\ \E c \in prog.calls : c.caller \in Component /\ Handed(c, v, w)
<1> DEFINE made == {c \in prog.calls : c.caller \in Component}
           inner == {c \in made : c.callee \in Component}
           New(c) == Instantiate(c) \cup Data(BothWays(c.joined))
<1>1. \A c \in prog.calls : c.caller \in Component => c.callee \notin Component
  BY OrderCall, Zenon DEF HandleCalls
<1>2. inner = {} BY <1>1, Zenon
<1>3. edges' = edges \cup (UNION {Direct(c) : c \in inner})
                     \cup (UNION {Instantiate(c) : c \in made \ inner}) \cup Joins(made \ inner)
  BY Zenon DEF HandleCalls
<1>5. ASSUME NEW S, NEW t, NEW a, NEW b, \A y \in S : y = <<y[1], y[2]>>
      PROVE  <<t, a, b>> \in Data(S) <=> t = "Data" /\ <<a, b>> \in S
  BY <1>5 DEF Data
<1>6. ASSUME NEW c \in prog.calls, NEW t
      PROVE  <<t, v, w>> \in New(c) <=> t = "Data" /\ Handed(c, v, w)
  <2> DEFINE I == {<<x[1][2], x[2][2]>> :
                     x \in {y \in c.pairs \X c.pairs : <<"Summary", y[1][1], y[2][1]>> \in edges}}
             J == BothWays(c.joined)
  <2>1. \A y \in J : y = <<y[1], y[2]>> BY CallType, Zenon
  <2>2. ASSUME NEW y \in I PROVE y = <<y[1], y[2]>>
    <3>1. PICK x : y = <<x[1][2], x[2][2]>> BY <2>2, Zenon
    <3> QED BY <3>1
  <2>3. <<v, w>> \in I <=> \E q, r \in c.pairs : Edge({"Summary"}, q[1], r[1]) /\ v = q[2] /\ w = r[2]
    <3>1. ASSUME <<v, w>> \in I
          PROVE  \E q, r \in c.pairs : <<"Summary", q[1], r[1]>> \in edges /\ v = q[2] /\ w = r[2]
      BY <3>1, Zenon
    <3>2. ASSUME NEW q \in c.pairs, NEW r \in c.pairs, <<"Summary", q[1], r[1]>> \in edges, v = q[2], w = r[2]
          PROVE  <<v, w>> \in I
      <4>1. <<q, r>> \in {y \in c.pairs \X c.pairs : <<"Summary", y[1][1], y[2][1]>> \in edges} BY <3>2
      <4>2. <<v, w>> = <<<<q, r>>[1][2], <<q, r>>[2][2]>> BY <3>2
      <4> QED BY <4>1, <4>2, Zenon
    <3> HIDE DEF I
    <3> QED BY <3>1, <3>2, Zenon DEF Edge
  <2>4. Instantiate(c) = Data(I) BY Zenon DEF Instantiate
  <2> HIDE DEF I, J
  <2>5. <<t, v, w>> \in Data(I) <=> t = "Data" /\ <<v, w>> \in I BY <1>5, <2>2
  <2>6. <<t, v, w>> \in Data(J) <=> t = "Data" /\ <<v, w>> \in J BY <1>5, <2>1
  <2> QED BY <2>3, <2>4, <2>5, <2>6, Zenon DEF Handed, J
<1>7. ASSUME NEW t
      PROVE  <<t, v, w>> \in edges' <=>
               \/ <<t, v, w>> \in edges
               \/ \E c \in made : <<t, v, w>> \in New(c)
  <2>1. made \ inner = made BY <1>2, Zenon
  <2>2. UNION {Direct(c) : c \in inner} = {} BY <1>2, Zenon
  <2>3. edges' = edges \cup (UNION {Instantiate(c) : c \in made}) \cup Joins(made)
    <3> HIDE DEF made, inner
    <3> QED BY <1>3, <2>1, <2>2, Zenon
  <2> HIDE DEF made
  <2> QED BY <2>3, Zenon DEF Joins
<1>8. Edge(ts, v, w)' <=> \E t \in ts : <<t, v, w>> \in edges' BY Zenon DEF Edge
<1>9. \A t : <<t, v, w>> \in edges' <=>
        <<t, v, w>> \in edges \/ (t = "Data" /\ \E c \in prog.calls : c.caller \in Component /\ Handed(c, v, w))
  <2> SUFFICES ASSUME NEW t
               PROVE  <<t, v, w>> \in edges' <=>
                        \/ <<t, v, w>> \in edges
                        \/ t = "Data" /\ \E c \in prog.calls : c.caller \in Component /\ Handed(c, v, w)
    BY Zenon
  <2>1. \A c \in prog.calls : <<t, v, w>> \in New(c) <=> t = "Data" /\ Handed(c, v, w) BY <1>6, Zenon
  <2>2. <<t, v, w>> \in edges' <=> <<t, v, w>> \in edges \/ \E c \in made : <<t, v, w>> \in New(c) BY <1>7, Zenon
  <2>3. \A c : c \in made <=> c \in prog.calls /\ c.caller \in Component BY Zenon
  <2> HIDE DEF New, made
  <2> QED BY <2>1, <2>2, <2>3, Zenon
<1> QED BY <1>8, <1>9, Zenon DEF Edge

\* The edges that finished() adds.
LEMMA SummaryEdges ==
  ASSUME FinishNode, NEW ts, NEW v, NEW w
  PROVE  Edge(ts, v, w)' <=> \/ Edge(ts, v, w)
                             \/ "Summary" \in ts /\ v = start /\ w \in (colored \cap Signature) \ {start}
<1> DEFINE S == {<<"Summary", start, b>> : b \in (colored \cap Signature) \ {start}}
<1>1. edges' = edges \cup S BY Zenon DEF FinishNode
<1>2. \A t : <<t, v, w>> \in S <=> t = "Summary" /\ v = start /\ w \in (colored \cap Signature) \ {start}
  OBVIOUS
<1> HIDE DEF S
<1> QED BY <1>1, <1>2, Zenon DEF Edge

\* Values that stand for one value have been joined already.
LEMMA JoinEdges ==
  ASSUME TypeOK, IsLayered, AgendaInv, CallInv, NEW op \in {"push", "pull"}, BeginPropagation(op)
  PROVE  edges' = edges
<1>1. \A c \in prog.calls : Over("call", c.caller) BY OrderPush, OrderPull, Zenon DEF BeginPropagation
<1>2. ASSUME NEW c \in prog.calls, NEW e \in Data(BothWays(c.joined)) PROVE e \in edges
  <2>1. PICK q \in BothWays(c.joined) : e = <<"Data", q[1], q[2]>> BY <1>2, Zenon DEF Data
  <2>2. Edge({"Data"}, q[1], q[2]) BY <1>1, Zenon DEF CallInv
  <2> QED BY <2>1, <2>2, Zenon DEF Edge
<1>3. Joins(CallsIn) \subseteq edges BY <1>2, Zenon DEF Joins, CallsIn
<1>4. edges' = edges \cup Joins(CallsIn) BY Zenon DEF BeginPropagation
<1> QED BY <1>3, <1>4, Zenon
-----------------------------------------------------------------------------
\* What is reached.
LEMMA ReachesStep ==
  ASSUME NEW a, NEW b \in Vertices, NEW c \in Vertices, Reaches(a, b), Step(b, c)
  PROVE  Reaches(a, c)
BY Zenon DEF Reaches

\* Flows can be joined.
LEMMA ReachesOn ==
  ASSUME NEW a, NEW b \in Vertices, NEW c \in Vertices, Reaches(a, b), Reaches(b, c)
  PROVE  Reaches(a, c)
BY Zenon DEF Reaches

\* Data stays within its function.
LEMMA ReachesWithin ==
  ASSUME FlowInv, NEW a \in Vertices, NEW b \in Vertices, Reaches(a, b)
  PROVE  prog.owner[b] = prog.owner[a]
<1> DEFINE T == {v \in Vertices : prog.owner[v] = prog.owner[a]}
<1>1. \A v, w \in Vertices : Step(v, w) => prog.owner[v] = prog.owner[w]
  BY Zenon DEF FlowInv, Step, Edge, Types
<1>2. a \in T /\ (\A v, w \in Vertices : v \in T /\ Step(v, w) => w \in T) BY <1>1, Zenon
<1>3. b \in T BY <1>2, Zenon DEF Reaches
<1> QED BY <1>3, Zenon

\* What is reached along the edges is reached by the flow.
LEMMA ReachesFlow ==
  ASSUME FlowInv, NEW a \in Vertices, NEW b \in Vertices, a # b, Reaches(a, b),
         NEW R \in SUBSET Within, FlowClosed(R)
  PROVE  <<a, b>> \in R
<1> DEFINE T == {v \in Vertices : v = a \/ <<a, v>> \in R}
<1>1. ASSUME NEW v \in T, NEW w \in Vertices, Step(v, w) PROVE w \in T
  <2>1. v # w => <<v, w>> \in R BY <1>1, Zenon DEF FlowInv, Step, Edge
  <2>2. \A x, y, z : <<x, y>> \in R /\ <<y, z>> \in R /\ x # z => <<x, z>> \in R
    <3>1. \A x, y \in R : x[2] = y[1] /\ x[1] # y[2] => <<x[1], y[2]>> \in R BY Zenon DEF FlowClosed
    <3> QED BY <3>1
  <2> QED BY <2>1, <2>2, Zenon
<1>2. a \in T BY Zenon
<1> HIDE DEF T
<1>3. b \in T BY <1>1, <1>2, Zenon DEF Reaches, T
<1> QED BY <1>3, Zenon DEF T

\* More edges, more is reached; edges of other functions do not matter.
LEMMA ReachesMore ==
  ASSUME NEW a, NEW b, \A v, w \in Vertices : Step(v, w) => Step(v, w)', Reaches(a, b)
  PROVE  Reaches(a, b)'
BY Zenon DEF Reaches

\* Without new edges nothing more is reached.
LEMMA ReachesSame ==
  ASSUME NEW a, NEW b, \A v, w \in Vertices : Step(v, w)' => Step(v, w), Reaches(a, b)'
  PROVE  Reaches(a, b)
BY Zenon DEF Reaches

\* New edges in other functions do not change what is reached.
LEMMA ReachesLocal ==
  ASSUME NEW a \in Vertices, NEW b \in Vertices, Reaches(a, b)',
         \A v, w \in Vertices : Step(v, w)' => prog.owner[v] = prog.owner[w],
         \A v, w \in Vertices : prog.owner[v] = prog.owner[a] /\ Step(v, w)' => Step(v, w)
  PROVE  Reaches(a, b)
<1> SUFFICES ASSUME NEW T \in SUBSET Vertices, a \in T,
                    \A v, w \in Vertices : v \in T /\ Step(v, w) => w \in T
             PROVE  b \in T
  BY Zenon DEF Reaches
<1> DEFINE U == {v \in Vertices : v \in T /\ prog.owner[v] = prog.owner[a]}
<1>1. ASSUME NEW v \in U, NEW w \in Vertices, Step(v, w)' PROVE w \in U
  BY <1>1, Zenon
<1>2. a \in U /\ U \in SUBSET Vertices BY Zenon
<1> HIDE DEF U
<1>3. b \in U BY <1>1, <1>2, Zenon DEF Reaches, U
<1> QED BY <1>3, Zenon DEF U
-----------------------------------------------------------------------------
\* The program does not change.
LEMMA ProgSame ==
  ASSUME prog' = prog
  PROVE  /\ Within' = Within /\ Formals' = Formals /\ Considered' = Considered /\ N' = N
         /\ IsLayered' <=> IsLayered
         /\ \A R : FlowClosed(R)' <=> FlowClosed(R)
<1>1. Within' = Within BY Zenon DEF Within
<1>2. Formals' = Formals BY Zenon DEF Formals, HasSummary
<1>3. Considered' = Considered BY Zenon DEF Considered
<1>4. N' = N BY Zenon DEF N
<1>5. IsLayered' <=> IsLayered BY DEF IsLayered
<1>6. \A R : FlowClosed(R)' <=> FlowClosed(R) BY Zenon DEF FlowClosed, HasSummary, BothWays, Flowing
<1> QED BY <1>1, <1>2, <1>3, <1>4, <1>5, <1>6, Zenon

\* Which steps change edges and the values that are handed to the library.
LEMMA EdgeSteps ==
  ASSUME TypeOK, [Next]_vars
  PROVE  /\ prog' = prog
         /\ \/ edges' = edges /\ mark'["ipc"] = mark["ipc"]
            \/ HandleCalls
            \/ FinishNode
            \/ \E op \in {"push", "pull"} : BeginPropagation(op)
<1>1. CASE UNCHANGED vars BY <1>1, Zenon DEF vars
<1>2. ASSUME NEW k \in Kinds, BeginSearch(k) \/ Scan(k) \/ EndSearch(k)
      PROVE  /\ prog' = prog /\ edges = edges' /\ mark["ipc"] = mark'["ipc"]
  BY <1>2 DEF BeginSearch, Scan, EndSearch, Discover, TypeOK, Kinds
<1>3. CASE HandleCalls BY <1>3, Zenon DEF HandleCalls
<1>4. CASE BeginSummary \/ StartNode \/ ScanNode \/ EndSummary
  BY <1>4, Zenon DEF BeginSummary, StartNode, ScanNode, EndSummary
<1>5. CASE FinishNode BY <1>5, Zenon DEF FinishNode
<1>6. ASSUME NEW op \in {"push", "pull"}, Propagate(op) \/ EndPropagation(op)
      PROVE  /\ prog' = prog /\ edges = edges' /\ mark["ipc"] = mark'["ipc"]
  BY <1>6, Zenon DEF Propagate, EndPropagation, TypeOK, Kinds
<1>7. ASSUME NEW op \in {"push", "pull"}, BeginPropagation(op) PROVE prog' = prog
  BY <1>7, Zenon DEF BeginPropagation
<1> QED BY <1>1, <1>2, <1>3, <1>4, <1>5, <1>6, <1>7, Zenon DEF Next

\* Nothing is added to what is handed to the library.
LEMMA IpcSame ==
  ASSUME TypeOK, FlowInv, FinishNode
  PROVE  mark' = mark
<1>1. start \in Vertices BY Zenon DEF FinishNode, TypeOK
<1>2. Deref(start) = {} BY <1>1, Zenon DEF Deref, FlowInv, Edge
<1> DEFINE targets == (colored \cap Signature) \ {start}
           shared == {x \in Deref(start) \ mark["sink"] : \E b \in targets : Deref(b) \cap Sink # {}}
<1>3. shared = {} BY <1>2, Zenon
<1>4. mark' = [mark EXCEPT !["ipc"] = @ \cup UNION {MarkedWith(x) : x \in shared}] BY Zenon DEF FinishNode
<1>5. UNION {MarkedWith(x) : x \in shared} = {} BY <1>3, Zenon
<1> HIDE DEF shared
<1> QED BY <1>4, <1>5 DEF TypeOK, Kinds

\* The graph is as it was.
LEMMA EdgesSame ==
  ASSUME edges' = edges
  PROVE  /\ \A ts, v, w : Edge(ts, v, w)' <=> Edge(ts, v, w)
         /\ \A v, w : Step(v, w)' <=> Step(v, w)
         /\ \A a, b : Reaches(a, b)' <=> Reaches(a, b)
BY Zenon DEF Edge, Step, Reaches

\* The values of a function's signature.
LEMMA SignatureIs ==
  ASSUME TypeOK, IsLayered, AgendaInv, Doing("summary"), NEW v
  PROVE  v \in Signature <=> v \in Formals /\ prog.owner[v] \in Component
<1>1. \A c \in prog.calls : c.callee \in Component => c.caller \notin Component BY OrderSummary, Zenon
<1>2. ASSUME v \in Signature PROVE v \in Formals /\ prog.owner[v] \in Component
  BY <1>2, Zenon DEF Signature, NeedsSummary, Formals, HasSummary
<1>3. ASSUME v \in Formals, prog.owner[v] \in Component PROVE v \in Signature
  <2>1. PICK c \in prog.calls : c.considered /\ c.callee = prog.owner[v] BY <1>3, Zenon DEF Formals, HasSummary
  <2>2. NeedsSummary(c) BY <1>1, <1>3, <2>1, SMT DEF NeedsSummary
  <2> QED BY <1>3, <2>1, <2>2, Zenon DEF Signature, Formals
<1> QED BY <1>2, <1>3, Zenon

\* The edges of a step follow the flow.
LEMMA FlowStep ==
  ASSUME TypeOK, SearchInv, IsLayered, AgendaInv, FlowInv, NodeInv, CallInv, [Next]_vars
  PROVE  FlowInv'
<1>0. prog' = prog BY EdgeSteps, Zenon
<1>e. prog'.edges \subseteq edges' BY <1>0, Grows, Zenon DEF FlowInv
<1>1. ASSUME edges' = edges, mark'["ipc"] = mark["ipc"] PROVE FlowInv'
  BY <1>0, <1>1, <1>e, ProgSame, EdgesSame, ZenonT(60) DEF FlowInv
<1>2. CASE HandleCalls
  <2>1. mark'["ipc"] = mark["ipc"] BY <1>2, Zenon DEF HandleCalls, TypeOK, Kinds
  <2> DEFINE Carried(x, y) == \A R \in SUBSET Within : FlowClosed(R) /\ x # y => <<x, y>> \in R
  <2>2. ASSUME NEW c \in prog.calls, NEW v \in Vertices, NEW w \in Vertices, Handed(c, v, w)
        PROVE  prog.owner[v] = c.caller /\ prog.owner[w] = c.caller /\ c.caller # None /\ Carried(v, w)
    <3>1. CASE <<v, w>> \in BothWays(c.joined)
      <4>1. <<v, w>>[1] = v /\ <<v, w>>[2] = w OBVIOUS
      <4>2. prog.owner[v] = c.caller /\ prog.owner[w] = c.caller /\ c.caller # None
        BY <3>1, <4>1, CallOwner
      <4>3. \A R : FlowClosed(R) => BothWays(c.joined) \subseteq R
        BY Zenon DEF FlowClosed
      <4> QED BY <3>1, <4>1, <4>2, <4>3, Zenon
    <3>2. ASSUME NEW q \in c.pairs, NEW r \in c.pairs, Edge({"Summary"}, q[1], r[1]), v = q[2], w = r[2]
          PROVE  /\ prog.owner[v] = c.caller /\ prog.owner[w] = c.caller /\ c.caller # None
                 /\ \A R \in SUBSET Within : FlowClosed(R) /\ v # w => <<v, w>> \in R
      <4>1. prog.owner[v] = c.caller /\ prog.owner[w] = c.caller /\ c.caller # None BY <3>2, CallOwner, Zenon
      <4>2. q[1] \in Vertices /\ r[1] \in Vertices BY CallType, Zenon
      <4>3. q[1] # r[1] BY <3>2, <4>2, Zenon DEF FlowInv
      <4>4. Edge({"Data", "Part", "Summary"}, q[1], r[1]) BY <3>2, Zenon DEF Edge
      <4>5. \A R \in SUBSET Within : FlowClosed(R) => <<q[1], r[1]>> \in R BY <4>2, <4>3, <4>4, Zenon DEF FlowInv
      <4>h. q[1] \in Formals /\ prog.owner[q[1]] = c.callee BY <3>2, <4>2, CallOwner, Zenon DEF FlowInv
      <4>s. HasSummary(c.callee) BY <4>h, SMT DEF Formals
      <4>6. \A R \in SUBSET Within : FlowClosed(R) /\ q[2] # r[2] => <<q[2], r[2]>> \in R
        BY <4>5, <4>s, Zenon DEF FlowClosed
      <4> QED BY <3>2, <4>1, <4>6, Zenon
    <3> QED BY <2>2, <3>1, <3>2, Zenon DEF Handed
  <2> HIDE DEF Carried
  <2>3. \A v, w \in Vertices : Edge(Types, v, w)' => prog.owner[v] = prog.owner[w] /\ prog.owner[v] # None
    <3> SUFFICES ASSUME NEW v \in Vertices, NEW w \in Vertices, Edge(Types, v, w)'
                 PROVE  prog.owner[v] = prog.owner[w] /\ prog.owner[v] # None
      BY Zenon
    <3>1. Edge(Types, v, w) \/ \E c \in prog.calls : Handed(c, v, w) BY <1>2, CallEdges, Zenon
    <3>2. CASE Edge(Types, v, w) BY <3>2, Zenon DEF FlowInv
    <3>3. CASE \E c \in prog.calls : Handed(c, v, w) BY <3>3, <2>2, Zenon
    <3> QED BY <3>1, <3>2, <3>3, Zenon
  <2>4. \A v, w \in Vertices : ~Edge({"Deref"}, v, w)'
    <3>1. "Data" \notin {"Deref"} BY Zenon
    <3> QED BY <3>1, <1>2, CallEdges, Zenon DEF FlowInv
  <2>5. \A v, w \in Vertices : Edge({"Summary"}, v, w)' =>
          v # w /\ v \in Formals /\ w \in Formals /\ Reaches(v, w)'
    <3>1. "Data" \notin {"Summary"} BY Zenon
    <3>2. \A v, w \in Vertices : Step(v, w) => Step(v, w)' BY <1>2, CallEdges, Zenon DEF Step
    <3> QED BY <3>1, <3>2, <1>2, CallEdges, ReachesMore, Zenon DEF FlowInv
  <2>6. \A R \in SUBSET Within : FlowClosed(R) =>
          \A v, w \in Vertices : Edge({"Data", "Part", "Summary"}, v, w)' /\ v # w => <<v, w>> \in R
    <3> SUFFICES ASSUME NEW R \in SUBSET Within, FlowClosed(R), NEW v \in Vertices, NEW w \in Vertices,
                        Edge({"Data", "Part", "Summary"}, v, w)', v # w
                 PROVE  <<v, w>> \in R
      BY Zenon
    <3>1. Edge({"Data", "Part", "Summary"}, v, w) \/ \E c \in prog.calls : Handed(c, v, w) BY <1>2, CallEdges, Zenon
    <3>2. CASE Edge({"Data", "Part", "Summary"}, v, w) BY <3>2, Zenon DEF FlowInv
    <3>3. CASE \E c \in prog.calls : Handed(c, v, w)
      <4>1. PICK c \in prog.calls : Handed(c, v, w) BY <3>3, Zenon
      <4>2. Carried(v, w) BY <4>1, <2>2, Zenon
      <4> QED BY <4>2, Zenon DEF Carried
    <3> QED BY <3>1, <3>2, <3>3, Zenon
  <2>7. mark'["ipc"] = prog'.ipc BY <1>0, <2>1, Zenon DEF FlowInv
  <2> QED BY <1>0, <1>e, <2>3, <2>4, <2>5, <2>6, <2>7, ProgSame, Zenon DEF FlowInv
<1>3. CASE FinishNode
  <2>1. mark' = mark BY <1>3, IpcSame, Zenon
  <2>2. start # None /\ Doing("summary") BY <1>3, Zenon DEF FinishNode, SearchInv
  <2>3. start \in Vertices /\ start \in Signature /\ Signature \subseteq Vertices
    BY <2>2, Zenon DEF TypeOK, ProgramType, NodeInv, Signature
  <2>4. ASSUME NEW w \in (colored \cap Signature) \ {start}
        PROVE  /\ w \in Vertices /\ start # w /\ start \in Formals /\ w \in Formals /\ Reaches(start, w)
               /\ prog.owner[start] = prog.owner[w] /\ prog.owner[start] # None
               /\ \A R \in SUBSET Within : FlowClosed(R) => <<start, w>> \in R
    <3>1. w \in Vertices /\ start # w /\ start \in Formals /\ w \in Formals BY <2>2, <2>3, SignatureIs, Zenon
    <3>2. Reaches(start, w) /\ prog.owner[start] = prog.owner[w] BY <2>2, Zenon DEF NodeInv
    <3>3. prog.owner[start] # None BY <2>2, <2>3, SignatureIs, OrderSummary, Zenon
    <3>4. \A R \in SUBSET Within : FlowClosed(R) => <<start, w>> \in R BY <2>3, <3>1, <3>2, ReachesFlow, Zenon
    <3> QED BY <3>1, <3>2, <3>3, <3>4, Zenon
  <2>5. \A v, w \in Vertices : Edge(Types, v, w)' => prog.owner[v] = prog.owner[w] /\ prog.owner[v] # None
    BY <1>3, <2>4, SummaryEdges, ZenonT(60) DEF FlowInv
  <2>6. \A v, w \in Vertices : ~Edge({"Deref"}, v, w)'
    <3>1. "Summary" \notin {"Deref"} BY Zenon
    <3> QED BY <3>1, <1>3, SummaryEdges, Zenon DEF FlowInv
  <2>7. \A v, w \in Vertices : Edge({"Summary"}, v, w)' =>
          v # w /\ v \in Formals /\ w \in Formals /\ Reaches(v, w)'
    <3>1. \A v, w \in Vertices : Step(v, w) => Step(v, w)' BY <1>3, SummaryEdges, Zenon DEF Step
    <3> SUFFICES ASSUME NEW v \in Vertices, NEW w \in Vertices, Edge({"Summary"}, v, w)'
                 PROVE  v # w /\ v \in Formals /\ w \in Formals /\ Reaches(v, w)
      BY <3>1, ReachesMore, Zenon
    <3>2. Edge({"Summary"}, v, w) \/ (v = start /\ w \in (colored \cap Signature) \ {start})
      BY <1>3, SummaryEdges, Zenon
    <3>3. CASE Edge({"Summary"}, v, w) BY <3>3, Zenon DEF FlowInv
    <3>4. CASE v = start /\ w \in (colored \cap Signature) \ {start} BY <3>4, <2>4, Zenon
    <3> QED BY <3>2, <3>3, <3>4, Zenon
  <2>8. \A R \in SUBSET Within : FlowClosed(R) =>
          \A v, w \in Vertices : Edge({"Data", "Part", "Summary"}, v, w)' /\ v # w => <<v, w>> \in R
    <3> SUFFICES ASSUME NEW R \in SUBSET Within, FlowClosed(R), NEW v \in Vertices, NEW w \in Vertices,
                        Edge({"Data", "Part", "Summary"}, v, w)', v # w
                 PROVE  <<v, w>> \in R
      BY Zenon
    <3>1. Edge({"Data", "Part", "Summary"}, v, w) \/ (v = start /\ w \in (colored \cap Signature) \ {start})
      BY <1>3, SummaryEdges, Zenon
    <3>2. CASE Edge({"Data", "Part", "Summary"}, v, w) BY <3>2, Zenon DEF FlowInv
    <3>3. CASE v = start /\ w \in (colored \cap Signature) \ {start} BY <3>3, <2>4, Zenon
    <3> QED BY <3>1, <3>2, <3>3, Zenon
  <2>9. mark'["ipc"] = prog'.ipc BY <1>0, <2>1, Zenon DEF FlowInv
  <2> QED BY <1>0, <1>e, <2>5, <2>6, <2>7, <2>8, <2>9, ProgSame, Zenon DEF FlowInv
<1>4. ASSUME NEW op \in {"push", "pull"}, BeginPropagation(op) PROVE FlowInv'
  <2>1. edges' = edges BY <1>4, JoinEdges, Zenon
  <2>2. mark'["ipc"] = mark["ipc"] BY <1>4, Zenon DEF BeginPropagation
  <2> QED BY <2>1, <2>2, <1>1, Zenon
<1> QED BY <1>1, <1>2, <1>3, <1>4, EdgeSteps, Zenon
-----------------------------------------------------------------------------
\* Steps of the second pass and of the summaries, seen from the first pass: they
\* leave edges and marks alone and finish no job for calls or sinks.
Calm ==
  /\ prog' = prog /\ edges' = edges
  /\ mark'["sink"] = mark["sink"] /\ mark'["ipc"] = mark["ipc"]
  /\ \/ UNCHANGED vars
     \/ agenda' = agenda /\ \E o \in {"summary", "push", "pull"} : Doing(o)
     \/ agenda' = Tail(agenda) /\ running' = FALSE /\ \E o \in {"summary", "push", "pull"} : Doing(o)

\* The steps, as far as edges and sink marks are concerned.
LEMMA Cases ==
  ASSUME TypeOK, SearchInv, IsLayered, AgendaInv, CallInv, [Next]_vars
  PROVE  \/ \E k \in Kinds : BeginSearch(k) \/ Scan(k)
         \/ \E k \in Kinds : EndSearch(k)
         \/ HandleCalls
         \/ FinishNode
         \/ Calm
<1>1. CASE UNCHANGED vars BY <1>1, Zenon DEF vars, Calm
<1>2. CASE BeginSummary \/ StartNode \/ EndSummary
  BY <1>2, Zenon DEF BeginSummary, StartNode, EndSummary, Calm
<1>3. CASE ScanNode BY <1>3, Zenon DEF ScanNode, Calm, SearchInv
<1>4. ASSUME NEW op \in {"push", "pull"}, BeginPropagation(op) PROVE Calm
  <2>1. edges' = edges BY <1>4, JoinEdges, Zenon
  <2> QED BY <1>4, <2>1, Zenon DEF BeginPropagation, Calm
<1>5. ASSUME NEW op \in {"push", "pull"}, Propagate(op) PROVE Calm
  <2>1. mark'["sink"] = mark["sink"] /\ mark'["ipc"] = mark["ipc"]
    BY <1>5, Zenon DEF Propagate, TypeOK, Kinds
  <2> QED BY <1>5, <2>1, Zenon DEF Propagate, Calm
<1>6. ASSUME NEW op \in {"push", "pull"}, EndPropagation(op) PROVE Calm
  <2>1. agenda' = <<>> \o Tail(agenda) BY <1>6, Zenon DEF EndPropagation, AnyMarkPropagated
  <2>2. Tail(agenda) \in Seq(Jobs) BY <1>6, TailType, Zenon DEF EndPropagation, Doing, TypeOK
  <2>3. agenda' = Tail(agenda) BY <2>1, <2>2
  <2> QED BY <1>6, <2>3, Zenon DEF EndPropagation, Calm
<1> QED BY <1>1, <1>2, <1>3, <1>4, <1>5, <1>6, Zenon DEF Next

\* In a calm step no call is handled and nothing flows into the library that did not.
LEMMA CalmSteps ==
  ASSUME TypeOK, AgendaInv, Calm
  PROVE  /\ Sink' = Sink
         /\ \A g : (Over("call", g)' => Over("call", g)) /\ (Over("sink", g)' => Over("sink", g))
<1>1. Sink' = Sink BY Zenon DEF Calm, Sink
<1>2. ASSUME agenda' = agenda PROVE \A op, g : Over(op, g)' => Over(op, g) BY <1>2, Stay, Zenon DEF Calm
<1>3. ASSUME agenda' = Tail(agenda), NEW o \in {"summary", "push", "pull"}, Doing(o)
      PROVE  \A g : (Over("call", g)' => Over("call", g)) /\ (Over("sink", g)' => Over("sink", g))
  <2>1. "call" \in Ops /\ "sink" \in Ops /\ o # "call" /\ o # "sink" BY Zenon DEF Ops, Kinds
  <2>2. \A op \in Ops : \A g : Over(op, g)' => Over(op, g) \/ (op = o /\ g \in Component)
    BY <1>3, Advance, Zenon DEF Calm
  <2> QED BY <2>1, <2>2, Zenon
<1> QED BY <1>1, <1>2, <1>3, Zenon DEF Calm, vars

\* A search adds marks in its component only.
LEMMA SearchMarks ==
  ASSUME TypeOK, SearchInv, FlowInv, WithinInv, NEW k \in Kinds, BeginSearch(k) \/ Scan(k)
  PROVE  /\ prog' = prog /\ agenda' = agenda /\ edges' = edges /\ todo' = todo
         /\ running' = TRUE /\ Doing(k)
         /\ \A j \in Kinds \cup {"ipc"} : j # k => mark'[j] = mark[j]
         /\ mark[k] \subseteq mark'[k]
         /\ \A v \in mark'[k] : v \in mark[k] \/ prog.owner[v] \in Component
         /\ Sink \subseteq Sink'
         /\ \A v \in Sink' : \/ v \in Sink
                             \/ k = "sink" /\ prog.owner[v] \in Component /\ prog.owner[v] # None
         /\ \A v \in queue' : prog.owner[v] \in Component
         /\ k # "fd" => \A v \in Sink' : prog.owner[v] \in Component => v \in mark'[k]
<1>0. /\ prog' = prog /\ agenda' = agenda /\ edges' = edges /\ todo' = todo
      /\ running' = TRUE /\ Doing(k)
  BY Zenon DEF BeginSearch, Scan, TypeOK
<1>k. "ipc" # k /\ (k = "sink" \/ k = "fd" \/ k = "shared") BY Zenon DEF Kinds
<1>1. CASE BeginSearch(k)
  <2> DEFINE found == {v \in Sources(k) : MayMark(k, v)}
  <2>1. mark' = [mark EXCEPT ![k] = @ \cup found] /\ queue' = {} \cup {v \in found : Inside(v)}
    BY <1>1, Zenon DEF BeginSearch, Discover
  <2>2. \A v \in found : prog.owner[v] \in Component BY Zenon DEF Sources
  <2>3. k = "sink" => found \subseteq Sink BY Zenon DEF Sources
  <2>4. k # "fd" => \A v \in Sink : prog.owner[v] \in Component => v \in found
    BY <1>k, Zenon DEF Sources, MayMark
  <2> HIDE DEF found
  <2>5. /\ \A j \in Kinds \cup {"ipc"} : j # k => mark'[j] = mark[j]
        /\ mark'[k] = mark[k] \cup found
    BY <2>1, Zenon DEF TypeOK
  <2>6. Sink' = Sink BY <1>k, <2>3, <2>5, Zenon DEF Sink, Kinds
  <2> QED BY <1>0, <2>1, <2>2, <2>4, <2>5, <2>6, Zenon
<1>2. CASE Scan(k)
  <2>1. PICK u \in queue : Discover(k, News(k, u), queue \ {u}) BY <1>2, Zenon DEF Scan
  <2> DEFINE found == {v \in News(k, u) : MayMark(k, v)}
  <2>2. mark' = [mark EXCEPT ![k] = @ \cup found] /\ queue' = (queue \ {u}) \cup {v \in found : Inside(v)}
    BY <2>1, Zenon DEF Discover
  <2>3. running /\ u \in Vertices BY <1>2, Zenon DEF Scan, TypeOK
  <2>4. prog.owner[u] \in Component BY <1>0, <2>3, Zenon DEF WithinInv
  <2>5. ASSUME NEW v \in found PROVE prog.owner[v] \in Component /\ prog.owner[v] # None
    <3>1. v \in Vertices /\ v \in Follow(k, u) BY Zenon DEF News, Follow
    <3>2. \A x \in Followed(k) : x \in Types BY <1>k, Zenon DEF Followed, Types
    <3>3. Edge(Types, v, u) \/ Edge(Types, u, v) BY <3>1, <3>2, Zenon DEF Follow, Edge
    <3>4. prog.owner[v] = prog.owner[u] /\ prog.owner[v] # None BY <3>1, <3>3, <2>3, Zenon DEF FlowInv
    <3> QED BY <3>4, <2>4, Zenon
  <2> HIDE DEF found
  <2>6. /\ \A j \in Kinds \cup {"ipc"} : j # k => mark'[j] = mark[j]
        /\ mark'[k] = mark[k] \cup found
    BY <2>2, Zenon DEF TypeOK
  <2>7. \A v \in queue' : prog.owner[v] \in Component BY <1>0, <2>2, <2>3, <2>5, Zenon DEF WithinInv
  <2>8. k = "sink" => Sink' = Sink \cup found BY <2>6, Zenon DEF Sink, Kinds
  <2>9. k # "sink" => Sink' = Sink BY <2>6, <1>k, Zenon DEF Sink, Kinds
  <2>10. k # "fd" => \A v \in Sink : prog.owner[v] \in Component => v \in mark[k]
    BY <1>0, <2>3, Zenon DEF WithinInv
  <2>11. k # "fd" => \A v \in Sink' : prog.owner[v] \in Component => v \in mark'[k]
    BY <2>6, <2>8, <2>9, <2>10, Zenon
  <2>12. \A v \in Sink' : v \in Sink \/ (k = "sink" /\ prog.owner[v] \in Component /\ prog.owner[v] # None)
    BY <2>5, <2>8, <2>9, Zenon
  <2>13. Sink \subseteq Sink' BY <2>8, <2>9, Zenon
  <2> QED BY <1>0, <2>5, <2>6, <2>7, <2>11, <2>12, <2>13, Zenon
<1> QED BY <1>1, <1>2, Zenon

\* handleCall() marks values of the callers.
LEMMA CallMarks ==
  ASSUME TypeOK, IsLayered, AgendaInv, HandleCalls
  PROVE  /\ Sink \subseteq Sink'
         /\ \A v \in Sink' : v \in Sink \/ (prog.owner[v] \in Component /\ prog.owner[v] # None)
         /\ \A c \in prog.calls : c.caller \in Component => \A q \in c.pairs : q[1] \in Sink => q[2] \in Sink'
<1> DEFINE made == {c \in prog.calls : c.caller \in Component}
           inner == {c \in made : c.callee \in Component}
           pairs == UNION {c.pairs : c \in made \ inner}
           M == {q[2] : q \in {r \in pairs : r[1] \in Sink}}
<1>1. \A c \in prog.calls : c.caller \in Component => c.callee \notin Component
  BY OrderCall, Zenon DEF HandleCalls
<1>2. mark'["sink"] = mark["sink"] \cup M /\ mark'["ipc"] = mark["ipc"] BY Zenon DEF HandleCalls, TypeOK, Kinds
<1>3. Sink' = Sink \cup M
  <2> HIDE DEF M
  <2> QED BY <1>2, Zenon DEF Sink
<1>4. ASSUME NEW v \in M PROVE prog.owner[v] \in Component /\ prog.owner[v] # None
  <2>1. PICK q \in pairs : v = q[2] BY Zenon
  <2>2. PICK c \in prog.calls : c.caller \in Component /\ q \in c.pairs BY <2>1, Zenon
  <2>3. prog.owner[q[2]] = c.caller /\ c.caller # None BY <2>2, CallOwner, Zenon
  <2> QED BY <2>1, <2>2, <2>3, Zenon
<1>5. ASSUME NEW c \in prog.calls, c.caller \in Component, NEW q \in c.pairs, q[1] \in Sink PROVE q[2] \in M
  <2>1. q \in pairs BY <1>1, <1>5, Zenon
  <2> QED BY <2>1, <1>5, Zenon
<1> HIDE DEF M
<1> QED BY <1>3, <1>4, <1>5, Zenon
-----------------------------------------------------------------------------
\* The search from a signature node stays in the function and finds what is reached.
LEMMA NodeStep ==
  ASSUME TypeOK, SearchInv, IsLayered, AgendaInv, FlowInv, NodeInv, [Next]_vars
  PROVE  NodeInv'
<1>s. start # None => Doing("summary") /\ running BY Zenon DEF SearchInv, NodeInv
<1>g. ASSUME prog' = prog, agenda' = agenda
      PROVE  Signature' = Signature /\ Component' = Component /\ (Doing("summary")' <=> Doing("summary"))
  BY <1>g DEF Signature, NeedsSummary, Component, Doing
<1>1. CASE UNCHANGED vars
  <2>1. edges' = edges /\ prog' = prog /\ agenda' = agenda /\ nodes' = nodes /\ start' = start
        /\ colored' = colored /\ queue' = queue /\ running' = running
    BY <1>1, Zenon DEF vars
  <2>2. \A v, w : (Step(v, w)' <=> Step(v, w)) /\ (Reaches(v, w)' <=> Reaches(v, w)) BY <2>1, EdgesSame, Zenon
  <2> QED BY <1>g, <2>1, <2>2, SMT DEF NodeInv
<1>2. ASSUME ~(Doing("summary")' /\ running'), start' = None PROVE NodeInv' BY <1>2, Zenon DEF NodeInv
<1>3. ASSUME NEW k \in Kinds, BeginSearch(k) \/ Scan(k) \/ EndSearch(k) PROVE NodeInv'
  <2>1. Doing(k) /\ k # "summary" BY <1>3, Zenon DEF BeginSearch, Scan, EndSearch, Kinds
  <2>2. ~Doing("summary") BY <2>1, Zenon DEF Doing
  <2>3. start' = None BY <1>3, <1>s, <2>2, Zenon DEF BeginSearch, Scan, EndSearch
  <2>4. ~(Doing("summary")' /\ running')
    <3>1. CASE agenda' = agenda BY <2>2, <3>1, Zenon DEF Doing
    <3>2. CASE running' = FALSE BY <3>2, Zenon
    <3> QED BY <1>3, <3>1, <3>2, Zenon DEF BeginSearch, Scan, EndSearch
  <2> QED BY <1>2, <2>3, <2>4, Zenon
<1>4. CASE HandleCalls
  <2>1. ~Doing("summary") /\ running' = FALSE BY <1>4, Zenon DEF HandleCalls, Doing, TypeOK
  <2>2. start' = None BY <1>4, <1>s, <2>1, Zenon DEF HandleCalls
  <2> QED BY <1>2, <2>1, <2>2, Zenon
<1>5. CASE BeginSummary
  <2>1. start = None /\ start' = start BY <1>5, <1>s, Zenon DEF BeginSummary
  <2>2. Signature' = Signature BY <1>5, <1>g, Zenon DEF BeginSummary
  <2>3. nodes' = Signature BY <1>5, Zenon DEF BeginSummary
  <2> QED BY <2>1, <2>2, <2>3, Zenon DEF NodeInv
<1>6. CASE StartNode
  <2>1. PICK a \in nodes : nodes' = nodes \ {a} /\ start' = a /\ colored' = {a} /\ queue' = {a}
    BY <1>6, Zenon DEF StartNode
  <2>2. Signature' = Signature /\ a \in Signature /\ nodes \subseteq Signature /\ prog' = prog
    BY <1>6, <1>g, Zenon DEF StartNode, NodeInv
  <2>3. Reaches(a, a)' BY Zenon DEF Reaches
  <2>4. \A w \in colored' : w = a BY <2>1, Zenon
  <2>5. (\A w \in colored : Reaches(start, w) /\ prog.owner[w] = prog.owner[start])' BY <2>1, <2>3, <2>4, Zenon
  <2>6. \A v \in colored' \ queue' : FALSE BY <2>1, Zenon
  <2>7. /\ running' /\ start' \in Signature' /\ start' \in colored' /\ queue' \subseteq colored'
        /\ nodes' \subseteq Signature'
    BY <1>6, <2>1, <2>2, SMT DEF StartNode
  <2> QED BY <2>5, <2>6, <2>7, Zenon DEF NodeInv
<1>7. CASE ScanNode
  <2>1. PICK u \in queue :
          /\ colored' = colored \cup {w \in Vertices \ colored : \E t \in {"Data", "Summary", "Part"} : <<t, u, w>> \in edges}
          /\ queue' = (queue \ {u}) \cup
               {x \in {w \in Vertices \ colored : \E t \in {"Data", "Summary", "Part"} : <<t, u, w>> \in edges} :
                  x \in Signature \/ Inside(x)}
    BY <1>7, Zenon DEF ScanNode
  <2> DEFINE found == {w \in Vertices \ colored : Edge({"Data", "Summary", "Part"}, u, w)}
  <2>2. colored' = colored \cup found /\ queue' = (queue \ {u}) \cup {x \in found : x \in Signature \/ Inside(x)}
    BY <2>1 DEF Edge
  <2>3. /\ start # None /\ start' = start /\ prog' = prog /\ edges' = edges /\ agenda' = agenda
        /\ nodes' = nodes /\ running' = running
    BY <1>7, Zenon DEF ScanNode
  <2>4. /\ start \in Signature /\ start \in colored /\ queue \subseteq colored
        /\ \A w \in colored : Reaches(start, w) /\ prog.owner[w] = prog.owner[start]
        /\ \A v \in colored \ queue : \A w \in Vertices : Step(v, w) => w \in colored
    BY <2>3, Zenon DEF NodeInv
  <2>5. u \in Vertices /\ u \in colored BY <2>4, Zenon DEF TypeOK
  <2>6. prog.owner[start] \in Component BY <1>s, <2>3, <2>4, SignatureIs, Zenon
  <2>7. ASSUME NEW w \in found PROVE Reaches(start, w) /\ prog.owner[w] = prog.owner[start] /\ Inside(w)
    <3>1. w \in Vertices /\ Edge({"Data", "Summary", "Part"}, u, w) BY Zenon
    <3>2. Edge(Types, u, w) BY <3>1, Zenon DEF Edge, Types
    <3>3. prog.owner[w] = prog.owner[start] BY <2>4, <2>5, <3>1, <3>2, SMT DEF FlowInv
    <3>4. Step(u, w) \/ Edge({"Summary"}, u, w) BY <3>1, Zenon DEF Step, Edge
    <3>5. ASSUME Step(u, w) PROVE Reaches(start, w) BY <3>1, <3>5, <2>4, <2>5, ReachesStep, Zenon
    <3>6. ASSUME Edge({"Summary"}, u, w) PROVE Reaches(start, w)
      <4>1. Reaches(u, w) BY <3>1, <3>6, <2>5, Zenon DEF FlowInv
      <4> QED BY <3>1, <4>1, <2>4, <2>5, ReachesOn, Zenon
    <3>7. Inside(w) BY <2>6, <3>3, SMT DEF Inside
    <3> QED BY <3>3, <3>4, <3>5, <3>6, <3>7, Zenon
  <2>8. \A w \in Vertices : Step(u, w) => w \in colored \/ w \in found
    <3>1. ASSUME NEW w \in Vertices, Step(u, w) PROVE Edge({"Data", "Summary", "Part"}, u, w)
      BY <3>1, Zenon DEF Step, Edge
    <3> QED BY <3>1, Zenon
  <2> HIDE DEF found
  <2>9. queue' = (queue \ {u}) \cup found BY <2>2, <2>7, Zenon
  <2>10. \A w \in colored' : Reaches(start, w) /\ prog.owner[w] = prog.owner[start] BY <2>2, <2>4, <2>7, Zenon
  <2>11. \A v \in colored' \ queue' : \A w \in Vertices : Step(v, w) => w \in colored'
    BY <2>2, <2>4, <2>8, <2>9, Zenon
  <2>12. queue' \subseteq colored' /\ start \in colored' BY <2>2, <2>4, <2>9, Zenon
  <2>13. \A v, w : (Step(v, w)' <=> Step(v, w)) /\ (Reaches(v, w)' <=> Reaches(v, w)) BY <2>3, EdgesSame, Zenon
  <2> QED BY <1>g, <2>3, <2>4, <2>10, <2>11, <2>12, <2>13, SMT DEF NodeInv
<1>8. CASE FinishNode
  <2>1. start' = None /\ prog' = prog /\ agenda' = agenda /\ nodes' = nodes /\ running' = running
    BY <1>8, Zenon DEF FinishNode
  <2> QED BY <1>g, <2>1 DEF NodeInv
<1>9. CASE EndSummary
  <2>1. start' = None /\ running' = FALSE BY <1>9, Zenon DEF EndSummary
  <2> QED BY <1>2, <2>1, Zenon
<1>10. ASSUME NEW op \in {"push", "pull"}, BeginPropagation(op) \/ Propagate(op) \/ EndPropagation(op) PROVE NodeInv'
  <2>1. Doing(op) /\ op # "summary" BY <1>10, Zenon DEF BeginPropagation, Propagate, EndPropagation
  <2>2. ~Doing("summary") BY <2>1, Zenon DEF Doing
  <2>3. start' = None BY <1>10, <1>s, <2>2, Zenon DEF BeginPropagation, Propagate, EndPropagation
  <2>4. ~(Doing("summary")' /\ running')
    <3>1. CASE agenda' = agenda BY <2>2, <3>1, Zenon DEF Doing
    <3>2. CASE running' = FALSE BY <3>2, Zenon
    <3> QED BY <1>10, <3>1, <3>2, Zenon DEF BeginPropagation, Propagate, EndPropagation
  <2> QED BY <1>2, <2>3, <2>4, Zenon
<1> QED BY <1>1, <1>3, <1>4, <1>5, <1>6, <1>7, <1>8, <1>9, <1>10, Zenon DEF Next
\* A summary that is complete stays so.
LEMMA SummarizedKept ==
  ASSUME prog' = prog, NEW a, Summarized(a),
         \A b \in Formals : Reaches(a, b)' => Reaches(a, b),
         \A b \in Formals : Edge({"Summary"}, a, b) => Edge({"Summary"}, a, b)'
  PROVE  Summarized(a)'
<1>1. Formals' = Formals BY ProgSame, Zenon
<1> QED BY <1>1, Zenon DEF Summarized

\* Signature nodes are vertices.
LEMMA FormalsType ==
  ASSUME TypeOK
  PROVE  Formals \subseteq Vertices
BY Zenon DEF TypeOK, ProgramType, Formals

\* Summaries are complete, node by node and component by component.
LEMMA SummaryStep ==
  ASSUME TypeOK, SearchInv, IsLayered, AgendaInv, FlowInv, FlowInv', NodeInv, SummaryInv, CallInv, [Next]_vars
  PROVE  SummaryInv'
<1>p. prog' = prog BY EdgeSteps, Zenon
<1>f. Formals' = Formals /\ Formals \subseteq Vertices BY <1>p, ProgSame, FormalsType, Zenon
<1>o. "summary" \in Ops BY Zenon DEF Ops
\* no job is done for a summary
<1>a. ASSUME agenda' = agenda \/ \E o : Doing(o) /\ agenda' = Tail(agenda) /\ o # "summary"
      PROVE  \A g : Over("summary", g)' => Over("summary", g)
  <2>1. CASE agenda' = agenda BY <2>1, <1>p, Stay, Zenon
  <2>2. ASSUME NEW o, Doing(o), agenda' = Tail(agenda), o # "summary"
        PROVE \A g : Over("summary", g)' => Over("summary", g)
    BY <2>2, <1>p, <1>o, Advance, Zenon
  <2> QED BY <1>a, <2>1, <2>2, Zenon
<1>e. ASSUME edges' = edges PROVE \A a \in Formals : Summarized(a) => Summarized(a)'
  BY <1>e, <1>p, EdgesSame, SummarizedKept, Zenon
<1>g. ASSUME agenda' = agenda PROVE Signature' = Signature
  BY <1>g, <1>p DEF Signature, NeedsSummary, Component
<1>q. ASSUME edges' = edges, ~(Doing("summary")' /\ running'),
             agenda' = agenda \/ \E o : Doing(o) /\ agenda' = Tail(agenda) /\ o # "summary"
      PROVE  SummaryInv'
  BY <1>q, <1>a, <1>e, <1>f, <1>p, Zenon DEF SummaryInv
<1>1. CASE UNCHANGED vars
  <2>1. edges' = edges /\ agenda' = agenda /\ nodes' = nodes /\ start' = start /\ running' = running
    BY <1>1, Zenon DEF vars
  <2>2. Signature' = Signature /\ (Doing("summary")' <=> Doing("summary")) BY <2>1, <1>g, Zenon DEF Doing
  <2>3. \A a \in Formals : Summarized(a) => Summarized(a)' BY <2>1, <1>e, Zenon
  <2>4. \A g : Over("summary", g)' => Over("summary", g) BY <2>1, <1>a, Zenon
  <2>5. ASSUME Doing("summary")', running', NEW a \in Signature, a \notin nodes, a # start PROVE Summarized(a)'
    <3>1. Doing("summary") /\ running BY <2>1, <2>2, <2>5, Zenon
    <3>2. a \in Formals BY <3>1, <2>5, SignatureIs, Zenon
    <3> QED BY <2>3, <2>5, <3>1, <3>2, Zenon DEF SummaryInv
  <2> QED BY <1>f, <1>p, <2>1, <2>2, <2>3, <2>4, <2>5, Zenon DEF SummaryInv
<1>2. ASSUME NEW k \in Kinds, BeginSearch(k) \/ Scan(k) \/ EndSearch(k) PROVE SummaryInv'
  <2>1. Doing(k) /\ k # "summary" BY <1>2, Zenon DEF BeginSearch, Scan, EndSearch, Kinds
  <2>2. edges' = edges /\ (agenda' = agenda \/ (agenda' = Tail(agenda) /\ running' = FALSE))
    BY <1>2, Zenon DEF BeginSearch, Scan, EndSearch
  <2>3. agenda' = agenda => ~Doing("summary")' BY <2>1, Zenon DEF Doing
  <2> QED BY <1>q, <2>1, <2>2, <2>3, Zenon
<1>3. CASE HandleCalls
  <2>1. Doing("call") /\ agenda' = Tail(agenda) /\ running' = FALSE BY <1>3, Zenon DEF HandleCalls, TypeOK
  <2>2. \A g : Over("summary", g)' => Over("summary", g) BY <1>a, <2>1, Zenon
  <2>3. ASSUME NEW a \in Formals, Over("summary", prog.owner[a]) PROVE Summarized(a)'
    <3>1. Summarized(a) BY <2>3, Zenon DEF SummaryInv
    <3>2. prog.owner[a] \notin Component BY <2>1, <2>3, OrderCall, Zenon
    <3>3. ASSUME NEW v \in Vertices, NEW w \in Vertices, Step(v, w)' PROVE prog.owner[v] = prog.owner[w]
      <4>1. Edge(Types, v, w)' BY <3>3, Zenon DEF Step, Edge, Types
      <4> QED BY <4>1, <1>p, Zenon DEF FlowInv
    <3>4. ASSUME NEW v \in Vertices, NEW w \in Vertices, prog.owner[v] = prog.owner[a], Step(v, w)' PROVE Step(v, w)
      <4>1. SUFFICES ASSUME ~Edge({"Data", "Part"}, v, w) PROVE FALSE BY Zenon DEF Step
      <4>2. Edge({"Data", "Part"}, v, w)' BY <3>4, Zenon DEF Step
      <4>3. PICK c \in prog.calls : c.caller \in Component /\ Handed(c, v, w) BY <1>3, <4>1, <4>2, CallEdges, Zenon
      <4>4. prog.owner[v] = c.caller
        <5>1. CASE <<v, w>> \in BothWays(c.joined)
          <6> DEFINE q == <<v, w>>
          <6>1. q \in BothWays(c.joined) /\ q[1] = v BY <5>1
          <6> QED BY <6>1, CallOwner, SMT
        <5>2. CASE \E q, r \in c.pairs : Edge({"Summary"}, q[1], r[1]) /\ v = q[2] /\ w = r[2]
          BY <5>2, CallOwner, SMT
        <5> QED BY <4>3, <5>1, <5>2, Zenon DEF Handed
      <4> QED BY <3>2, <3>4, <4>3, <4>4, SMT
    <3>5. \A b \in Formals : Reaches(a, b)' => Reaches(a, b) BY <1>f, <3>3, <3>4, ReachesLocal, Zenon
    <3>6. \A b \in Formals : Edge({"Summary"}, a, b) => Edge({"Summary"}, a, b)' BY <1>3, CallEdges, Zenon
    <3> QED BY <1>p, <3>1, <3>5, <3>6, SummarizedKept, Zenon
  <2> QED BY <1>f, <1>p, <2>1, <2>2, <2>3, Zenon DEF SummaryInv
<1>4. CASE BeginSummary \/ StartNode \/ ScanNode
  <2>1. edges' = edges /\ agenda' = agenda /\ Doing("summary")
    BY <1>4, Zenon DEF BeginSummary, StartNode, ScanNode, SearchInv
  <2>2. Signature' = Signature BY <2>1, <1>g, Zenon
  <2>3. \A a \in Formals : Summarized(a) => Summarized(a)' BY <2>1, <1>e, Zenon
  <2>4. \A g : Over("summary", g)' => Over("summary", g) BY <2>1, <1>a, Zenon
  <2>5. \A a \in Signature : a \in Formals /\ a # None
    BY <2>1, <1>f, SignatureIs, VerticesAssumption, Zenon
  <2>6. ASSUME NEW a \in Signature, a \notin nodes', a # start' PROVE Summarized(a)
    <3>1. CASE BeginSummary BY <2>6, <3>1, Zenon DEF BeginSummary
    <3>2. CASE StartNode
      <4>1. PICK x \in nodes : nodes' = nodes \ {x} /\ start' = x BY <3>2, Zenon DEF StartNode
      <4>2. a \notin nodes /\ a # start BY <2>5, <2>6, <3>2, <4>1, Zenon DEF StartNode
      <4> QED BY <2>6, <3>2, <4>2, Zenon DEF StartNode, SummaryInv
    <3>3. CASE ScanNode
      <4>1. running /\ nodes' = nodes /\ start' = start BY <3>3, Zenon DEF ScanNode, NodeInv
      <4> QED BY <2>1, <2>6, <4>1, Zenon DEF SummaryInv
    <3> QED BY <1>4, <3>1, <3>2, <3>3, Zenon
  <2> QED BY <1>f, <1>p, <2>2, <2>3, <2>4, <2>5, <2>6, Zenon DEF SummaryInv
<1>5. CASE FinishNode
  <2>1. /\ start # None /\ start' = None /\ queue = {} /\ agenda' = agenda /\ nodes' = nodes
        /\ running' = running /\ Doing("summary") /\ running
    BY <1>5, Zenon DEF FinishNode, SearchInv, NodeInv
  <2>2. Signature' = Signature BY <2>1, <1>g, Zenon
  <2>3. \A v, w \in Vertices : Step(v, w)' => Step(v, w) BY <1>5, SummaryEdges, Zenon DEF Step
  <2>4. \A a, b : Reaches(a, b)' => Reaches(a, b) BY <2>3, ReachesSame, Zenon
  <2>5. \A a, b : Edge({"Summary"}, a, b) => Edge({"Summary"}, a, b)' BY <1>5, SummaryEdges, Zenon
  <2>6. \A a : Summarized(a) => Summarized(a)' BY <1>p, <2>4, <2>5, SummarizedKept, Zenon
  <2>7. \A g : Over("summary", g)' => Over("summary", g) BY <2>1, <1>a, Zenon
  <2>8. ASSUME NEW a, a = start PROVE Summarized(a)'
    <3>1. ASSUME NEW b \in Formals, a # b, Reaches(a, b) PROVE Edge({"Summary"}, a, b)'
      <4>1. a \in Signature /\ a \in Vertices BY <2>1, <2>8, SMT DEF NodeInv, TypeOK
      <4>2. b \in colored
        <5>1. colored \in SUBSET Vertices BY Zenon DEF TypeOK
        <5>2. start \in colored /\ \A v, w \in Vertices : v \in colored /\ Step(v, w) => w \in colored
          BY <2>1, Zenon DEF NodeInv
        <5>3. a \in colored BY <2>8, <5>2, SMT
        <5> QED BY <3>1, <5>1, <5>2, <5>3, Zenon DEF Reaches
      <4>3. prog.owner[b] = prog.owner[a] BY <1>f, <3>1, <4>1, ReachesWithin, Zenon
      <4>4. prog.owner[b] \in Component BY <2>1, <4>1, <4>3, SignatureIs, Zenon
      <4>5. b \in Signature BY <2>1, <4>4, SignatureIs, Zenon
      <4>6. b \in (colored \cap Signature) \ {start} BY <2>8, <3>1, <4>2, <4>5, SMT
      <4>7. \A ts, v, w : "Summary" \in ts /\ v = start /\ w \in (colored \cap Signature) \ {start} => Edge(ts, v, w)'
        BY <1>5, SummaryEdges, SMT
      <4> QED BY <2>8, <4>6, <4>7, SMT
    <3> QED BY <1>f, <2>4, <3>1, Zenon DEF Summarized
  <2>9. ASSUME NEW a \in Signature, a \notin nodes PROVE Summarized(a)'
    <3>1. CASE a = start BY <2>8, <3>1, Zenon
    <3>2. CASE a # start BY <2>1, <2>6, <2>9, <3>2, Zenon DEF SummaryInv
    <3> QED BY <3>1, <3>2, Zenon
  <2> QED BY <1>f, <1>p, <2>1, <2>2, <2>6, <2>7, <2>9, Zenon DEF SummaryInv
<1>6. CASE EndSummary
  <2>1. /\ Doing("summary") /\ running /\ start = None /\ nodes = {} /\ edges' = edges
        /\ agenda' = Tail(agenda) /\ running' = FALSE
    BY <1>6, Zenon DEF EndSummary
  <2>2. \A a \in Formals : Summarized(a) => Summarized(a)' BY <2>1, <1>e, Zenon
  <2>3. \A g : Over("summary", g)' => Over("summary", g) \/ g \in Component BY <2>1, <1>p, <1>o, Advance, Zenon
  <2>4. ASSUME NEW a \in Formals, prog.owner[a] \in Component PROVE Summarized(a)
    <3>1. a \in Signature /\ a # None BY <1>f, <2>1, <2>4, SignatureIs, VerticesAssumption, Zenon
    <3> QED BY <2>1, <3>1, Zenon DEF SummaryInv
  <2> QED BY <1>f, <1>p, <2>1, <2>2, <2>3, <2>4, Zenon DEF SummaryInv
<1>7. ASSUME NEW op \in {"push", "pull"}, BeginPropagation(op) \/ Propagate(op) \/ EndPropagation(op) PROVE SummaryInv'
  <2>1. Doing(op) /\ op # "summary" BY <1>7, Zenon DEF BeginPropagation, Propagate, EndPropagation
  <2>2. CASE BeginPropagation(op) \/ Propagate(op)
    <3>1. edges' = edges BY <2>2, JoinEdges, Zenon DEF Propagate
    <3>2. agenda' = agenda BY <2>2, Zenon DEF BeginPropagation, Propagate
    <3>3. ~Doing("summary")' BY <2>1, <3>2, Zenon DEF Doing
    <3> QED BY <1>q, <3>1, <3>2, <3>3, Zenon
  <2>3. CASE EndPropagation(op)
    <3>1. agenda' = <<>> \o Tail(agenda) /\ edges' = edges /\ running' = FALSE
      BY <2>3, Zenon DEF EndPropagation, AnyMarkPropagated
    <3>2. Tail(agenda) \in Seq(Jobs) BY <2>1, TailType, Zenon DEF Doing, TypeOK
    <3>3. agenda' = Tail(agenda) BY <3>1, <3>2
    <3> QED BY <1>q, <2>1, <3>1, <3>3, Zenon
  <2> QED BY <1>7, <2>2, <2>3, Zenon
<1> QED BY <1>1, <1>2, <1>3, <1>4, <1>5, <1>6, <1>7, Zenon DEF Next
\* What has been handed to callers stays complete: nothing is added to a summary or
\* marked in a callee once its callers have been handled.
LEMMA CallStep ==
  ASSUME TypeOK, SearchInv, IsLayered, AgendaInv, FlowInv, NodeInv, WithinInv, CallInv, [Next]_vars
  PROVE  CallInv'
<1>p. prog' = prog BY EdgeSteps, Zenon
<1>o. "call" \in Ops BY Zenon DEF Ops
<1>1. SUFFICES ASSUME NEW c \in prog.calls, Over("call", c.caller)'
               PROVE  /\ \A q \in BothWays(c.joined) : Edge({"Data"}, q[1], q[2])'
                      /\ \A q, r \in c.pairs : Edge({"Summary"}, q[1], r[1])' => Edge({"Data"}, q[2], r[2])'
                      /\ \A q \in c.pairs : q[1] \in Sink' => q[2] \in Sink'
  BY <1>p, Zenon DEF CallInv, BothWays, Flowing, Reverse
<1> DEFINE Goal == /\ \A q \in BothWays(c.joined) : Edge({"Data"}, q[1], q[2])'
                   /\ \A q, r \in c.pairs : Edge({"Summary"}, q[1], r[1])' => Edge({"Data"}, q[2], r[2])'
                   /\ \A q \in c.pairs : q[1] \in Sink' => q[2] \in Sink'
<1>i. ASSUME Over("call", c.caller)
      PROVE  /\ \A q \in BothWays(c.joined) : Edge({"Data"}, q[1], q[2])
             /\ \A q, r \in c.pairs : Edge({"Summary"}, q[1], r[1]) => Edge({"Data"}, q[2], r[2])
             /\ \A q \in c.pairs : q[1] \in Sink => q[2] \in Sink
  BY <1>i, Zenon DEF CallInv
<1>c. \A q \in c.pairs : prog.owner[q[1]] = c.callee BY CallOwner, Zenon
<1>2. ASSUME NEW k \in Kinds, BeginSearch(k) \/ Scan(k) PROVE Goal
  <2>1. prog' = prog /\ agenda' = agenda /\ edges' = edges /\ Doing(k) BY <1>2, SearchMarks, Zenon
  <2>2. Over("call", c.caller) BY <1>1, <2>1, Stay, Zenon
  <2>3. Sink \subseteq Sink' /\ \A v \in Sink' : v \in Sink \/ (k = "sink" /\ prog.owner[v] \in Component)
    BY <1>2, SearchMarks, Zenon
  <2>4. k = "sink" => c.callee \notin Component BY <2>1, <2>2, OrderSink, Zenon
  <2>5. \A q \in c.pairs : q[1] \in Sink' => q[1] \in Sink BY <1>c, <2>3, <2>4, Zenon
  <2>6. \A ts, v, w : Edge(ts, v, w)' <=> Edge(ts, v, w) BY <2>1, EdgesSame, Zenon
  <2> QED BY <1>i, <2>2, <2>3, <2>5, <2>6, Zenon
<1>3. ASSUME NEW k \in Kinds, EndSearch(k) PROVE Goal
  <2>1. prog' = prog /\ agenda' = Tail(agenda) /\ edges' = edges /\ Doing(k) /\ mark' = mark /\ k # "call"
    BY <1>3, Zenon DEF EndSearch, Kinds
  <2>2. Over("call", c.caller) BY <1>1, <1>o, <2>1, Advance, Zenon
  <2>3. Sink' = Sink BY <2>1, Zenon DEF Sink
  <2>6. \A ts, v, w : Edge(ts, v, w)' <=> Edge(ts, v, w) BY <2>1, EdgesSame, Zenon
  <2> QED BY <1>i, <2>2, <2>3, <2>6, Zenon
<1>4. CASE HandleCalls
  <2>1. Doing("call") /\ agenda' = Tail(agenda) BY <1>4, Zenon DEF HandleCalls
  <2>2. Over("call", c.caller) \/ c.caller \in Component BY <1>1, <1>o, <1>p, <2>1, Advance, Zenon
  <2>3. c.callee \notin Component BY <2>1, <2>2, OrderCall, Zenon
  <2>4. Sink \subseteq Sink' /\ \A v \in Sink' : v \in Sink \/ prog.owner[v] \in Component BY <1>4, CallMarks, Zenon
  <2>5. \A q \in c.pairs : q[1] \in Sink' => q[1] \in Sink BY <1>c, <2>3, <2>4, Zenon
  <2>d. "Data" \notin {"Summary"} BY Zenon
  <2>6. \A v, w : Edge({"Summary"}, v, w)' => Edge({"Summary"}, v, w) BY <1>4, <2>d, CallEdges, Zenon
  <2>7. \A v, w : Edge({"Data"}, v, w) => Edge({"Data"}, v, w)' BY <1>4, CallEdges, Zenon
  <2>8. CASE Over("call", c.caller) BY <1>i, <2>4, <2>5, <2>6, <2>7, <2>8, Zenon
  <2>9. CASE c.caller \in Component
    <3>1. \A v, w : Handed(c, v, w) => Edge({"Data"}, v, w)' BY <1>4, <2>9, CallEdges, Zenon
    <3>2. ASSUME NEW q \in BothWays(c.joined) PROVE Handed(c, q[1], q[2])
      <4>1. q = <<q[1], q[2]>> BY CallType, Zenon
      <4>2. <<q[1], q[2]>> \in BothWays(c.joined) BY <4>1, SMT
      <4> QED BY <4>2, Zenon DEF Handed
    <3>3. \A q, r \in c.pairs : Edge({"Summary"}, q[1], r[1]) => Handed(c, q[2], r[2]) BY Zenon DEF Handed
    <3>4. \A q \in c.pairs : q[1] \in Sink => q[2] \in Sink' BY <1>4, <2>9, CallMarks, Zenon
    <3> QED BY <2>5, <2>6, <3>1, <3>2, <3>3, <3>4, Zenon
  <2> QED BY <2>2, <2>8, <2>9, Zenon
<1>5. CASE FinishNode
  <2>1. mark' = mark /\ agenda' = agenda /\ Doing("summary") /\ start \in Signature
    BY <1>5, IpcSame, Zenon DEF FinishNode, SearchInv, NodeInv
  <2>2. Over("call", c.caller) BY <1>1, <1>p, <2>1, Stay, Zenon
  <2>3. Sink' = Sink BY <2>1, Zenon DEF Sink
  <2>4. c.callee \notin Component BY <2>1, <2>2, OrderSummary, Zenon
  <2>5. prog.owner[start] \in Component BY <2>1, SignatureIs, Zenon
  <2>6. \A q \in c.pairs : q[1] # start BY <1>c, <2>4, <2>5, SMT
  <2>7. \A q, r \in c.pairs : Edge({"Summary"}, q[1], r[1])' => Edge({"Summary"}, q[1], r[1])
    BY <1>5, <2>6, SummaryEdges, Zenon
  <2>8. \A v, w : Edge({"Data"}, v, w) => Edge({"Data"}, v, w)' BY <1>5, SummaryEdges, Zenon
  <2> QED BY <1>i, <2>2, <2>3, <2>7, <2>8, Zenon
<1>6. CASE Calm
  <2>1. Sink' = Sink /\ Over("call", c.caller) BY <1>1, <1>6, CalmSteps, Zenon
  <2>2. \A ts, v, w : Edge(ts, v, w)' <=> Edge(ts, v, w) BY <1>6, EdgesSame, Zenon DEF Calm
  <2> QED BY <1>i, <2>1, <2>2, Zenon
<1> QED BY Cases, <1>2, <1>3, <1>4, <1>5, <1>6, Zenon

\* Searches stay within their components.
LEMMA WithinStep ==
  ASSUME TypeOK, SearchInv, IsLayered, AgendaInv, FlowInv, NodeInv, WithinInv, CallInv, [Next]_vars
  PROVE  WithinInv'
<1>p. prog' = prog BY EdgeSteps, Zenon
<1>1. ASSUME NEW k \in Kinds, BeginSearch(k) \/ Scan(k) PROVE WithinInv'
  <2>1. agenda' = agenda /\ Doing(k) BY <1>1, SearchMarks, Zenon
  <2>2. \A v \in Sink' : v \in Sink \/ prog.owner[v] # None BY <1>1, SearchMarks, Zenon
  <2>3. \A v \in Sink' : prog.owner[v] # None BY <2>2, Zenon DEF WithinInv
  <2>4. \A v \in queue' : prog.owner[v] \in Component BY <1>1, SearchMarks, Zenon
  <2>5. k # "fd" => \A v \in Sink' : prog.owner[v] \in Component => v \in mark'[k] BY <1>1, SearchMarks, Zenon
  <2>6. Component' = Component BY <2>1, Zenon DEF Component
  <2>7. ASSUME NEW j \in Kinds, Doing(j)' PROVE j = k BY <2>1, <2>7, Zenon DEF Doing
  <2> QED BY <1>p, <2>3, <2>4, <2>5, <2>6, <2>7, Zenon DEF WithinInv
<1>2. ASSUME \A v \in Sink' : prog.owner[v] # None, running' = FALSE \/ \A k \in Kinds : ~Doing(k)'
      PROVE  WithinInv'
  BY <1>2, <1>p, Zenon DEF WithinInv
<1>3. ASSUME NEW k \in Kinds, EndSearch(k) PROVE WithinInv'
  <2>1. running' = FALSE /\ mark' = mark BY <1>3, Zenon DEF EndSearch
  <2>2. Sink' = Sink BY <2>1, Zenon DEF Sink
  <2> QED BY <1>2, <2>1, <2>2, Zenon DEF WithinInv
<1>4. CASE HandleCalls
  <2>1. running' = FALSE BY <1>4, Zenon DEF HandleCalls, TypeOK
  <2>2. \A v \in Sink' : v \in Sink \/ prog.owner[v] # None BY <1>4, CallMarks, Zenon
  <2> QED BY <1>2, <2>1, <2>2, Zenon DEF WithinInv
<1>5. CASE FinishNode
  <2>1. mark' = mark /\ agenda' = agenda /\ Doing("summary") BY <1>5, IpcSame, Zenon DEF FinishNode, SearchInv
  <2>2. Sink' = Sink BY <2>1, Zenon DEF Sink
  <2>3. \A k \in Kinds : ~Doing(k)' BY <2>1, Zenon DEF Doing, Kinds
  <2> QED BY <1>2, <2>2, <2>3, Zenon DEF WithinInv
<1>6. CASE Calm
  <2>1. Sink' = Sink BY <1>6, CalmSteps, Zenon
  <2>2. CASE UNCHANGED vars
    <3>1. agenda' = agenda /\ running' = running /\ queue' = queue /\ mark' = mark BY <2>2, Zenon DEF vars
    <3>2. Component' = Component /\ \A k : Doing(k)' <=> Doing(k) BY <3>1, Zenon DEF Component, Doing
    <3> QED BY <1>p, <2>1, <3>1, <3>2, SMT DEF WithinInv
  <2>3. ASSUME agenda' = agenda, NEW o \in {"summary", "push", "pull"}, Doing(o) PROVE WithinInv'
    <3>1. \A k \in Kinds : ~Doing(k)' BY <2>3, Zenon DEF Doing, Kinds
    <3> QED BY <1>2, <2>1, <3>1, Zenon DEF WithinInv
  <2>4. CASE running' = FALSE BY <1>2, <2>1, <2>4, Zenon DEF WithinInv
  <2> QED BY <1>6, <2>2, <2>3, <2>4, Zenon DEF Calm
<1> QED BY Cases, <1>1, <1>3, <1>4, <1>5, <1>6, Zenon

\* The marks of a component are complete when its search is over and stay so.
LEMMA SinkStep ==
  ASSUME TypeOK, SearchInv, IsLayered, AgendaInv, FlowInv, NodeInv, WithinInv, CallInv, SinkInv, [Next]_vars
  PROVE  SinkInv'
<1>p. prog' = prog BY EdgeSteps, Zenon
<1>o. "sink" \in Ops BY Zenon DEF Ops, Kinds
<1>0. SUFFICES ASSUME NEW v \in Vertices, NEW w \in Vertices, NEW g, g = prog.owner[w],
                      Over("sink", g)', Step(v, w)', w \in Sink'
               PROVE  v \in Sink'
  BY <1>p, Zenon DEF SinkInv
<1>i. ASSUME Over("sink", g), Step(v, w), w \in Sink, Sink \subseteq Sink' PROVE v \in Sink'
  BY <1>0, <1>i, Zenon DEF SinkInv
<1>1. ASSUME NEW k \in Kinds, BeginSearch(k) \/ Scan(k) PROVE v \in Sink'
  <2>1. agenda' = agenda /\ edges' = edges /\ Doing(k) /\ Sink \subseteq Sink' BY <1>1, SearchMarks, Zenon
  <2>2. Over("sink", g) BY <1>0, <1>p, <2>1, Stay, Zenon
  <2>3. k = "sink" => prog.owner[w] \notin Component BY <1>0, <2>1, <2>2, OrderSink, Zenon
  <2>4. w \in Sink BY <1>0, <1>1, <2>3, SearchMarks, Zenon
  <2>5. Step(v, w) BY <1>0, <2>1, EdgesSame, Zenon
  <2> QED BY <1>i, <2>1, <2>2, <2>4, <2>5, Zenon
<1>2. ASSUME NEW k \in Kinds, EndSearch(k) PROVE v \in Sink'
  <2>1. edges' = edges /\ mark' = mark /\ agenda' = Tail(agenda) /\ Doing(k) /\ running /\ queue = {}
    BY <1>2, Zenon DEF EndSearch
  <2>2. Sink' = Sink BY <2>1, Zenon DEF Sink
  <2>3. Step(v, w) /\ w \in Sink BY <1>0, <2>1, <2>2, EdgesSame, Zenon
  <2>4. Over("sink", g) \/ (k = "sink" /\ prog.owner[w] \in Component)
    BY <1>0, <1>p, <1>o, <2>1, Advance, Zenon
  <2>5. CASE k = "sink" /\ prog.owner[w] \in Component
    <3>1. Doing("sink") /\ "sink" \in Kinds /\ "sink" # "fd" BY <2>1, <2>5, Zenon DEF Kinds
    <3>2. w \in mark["sink"] BY <2>1, <2>3, <2>5, <3>1, Zenon DEF WithinInv
    <3>3. v \in Follow("sink", w) BY <2>3, Zenon DEF Follow, Followed, Step, Edge
    <3>4. MayMark("sink", w) /\ MayMark("sink", v) BY <3>1, Zenon DEF MayMark
    <3>5. v \in mark["sink"] BY <2>1, <2>5, <3>1, <3>2, <3>3, <3>4, Zenon DEF SearchInv
    <3> QED BY <2>2, <3>5, Zenon DEF Sink
  <2> QED BY <1>i, <2>2, <2>3, <2>4, <2>5, Zenon
<1>3. CASE HandleCalls
  <2>1. Doing("call") /\ agenda' = Tail(agenda) BY <1>3, Zenon DEF HandleCalls
  <2>2. Over("sink", g) \/ ("sink" = "call" /\ g \in Component) BY <1>0, <1>o, <1>p, <2>1, Advance, Zenon
  <2>6. Over("sink", g) BY <2>2, Zenon
  <2>3. prog.owner[w] \notin Component BY <1>0, <2>1, <2>6, OrderCall, Zenon
  <2>4. w \in Sink /\ Sink \subseteq Sink' BY <1>0, <1>3, <2>3, CallMarks, Zenon
  <2>5. Step(v, w)
    <3>1. SUFFICES ASSUME ~Edge({"Data", "Part"}, v, w) PROVE FALSE BY Zenon DEF Step
    <3>2. Edge({"Data", "Part"}, v, w)' BY <1>0, Zenon DEF Step
    <3>3. PICK c \in prog.calls : c.caller \in Component /\ Handed(c, v, w) BY <1>3, <3>1, <3>2, CallEdges, Zenon
    <3>4. prog.owner[w] = c.caller
      <4>1. CASE <<v, w>> \in BothWays(c.joined)
        <5> DEFINE q == <<v, w>>
        <5>1. q \in BothWays(c.joined) /\ q[2] = w BY <4>1
        <5> QED BY <5>1, CallOwner, SMT
      <4>2. CASE \E q, r \in c.pairs : Edge({"Summary"}, q[1], r[1]) /\ v = q[2] /\ w = r[2]
        BY <4>2, CallOwner, SMT
      <4> QED BY <3>3, <4>1, <4>2, Zenon DEF Handed
    <3> QED BY <2>3, <3>3, <3>4, SMT
  <2> QED BY <1>i, <2>6, <2>4, <2>5, Zenon
<1>4. CASE FinishNode
  <2>1. mark' = mark /\ agenda' = agenda BY <1>4, IpcSame, Zenon DEF FinishNode
  <2>2. Sink' = Sink BY <2>1, Zenon DEF Sink
  <2>3. Over("sink", g) BY <1>0, <1>p, <2>1, Stay, Zenon
  <2>4. Step(v, w) BY <1>0, <1>4, SummaryEdges, Zenon DEF Step
  <2> QED BY <1>0, <1>i, <2>2, <2>3, <2>4, Zenon
<1>5. CASE Calm
  <2>1. Sink' = Sink /\ Over("sink", g) BY <1>0, <1>5, CalmSteps, Zenon
  <2>2. Step(v, w) BY <1>0, <1>5, EdgesSame, Zenon DEF Calm
  <2> QED BY <1>0, <1>i, <2>1, <2>2, Zenon
<1> QED BY Cases, <1>1, <1>2, <1>3, <1>4, <1>5, Zenon
\* A step is one of the first job, and ends it or not.
LEMMA JobStep ==
  ASSUME TypeOK, SearchInv, NodeInv, [Next]_vars
  PROVE  /\ prog' = prog
         /\ \/ UNCHANGED vars
            \/ \E o : /\ Doing(o)
                      /\ \/ agenda' = agenda /\ running' = TRUE
                         \/ agenda' = Tail(agenda) /\ running' = FALSE /\ (running \/ o = "call")
<1>p. prog' = prog BY EdgeSteps, Zenon
<1> DEFINE G == \E o : /\ Doing(o)
                       /\ \/ agenda' = agenda /\ running' = TRUE
                          \/ agenda' = Tail(agenda) /\ running' = FALSE /\ (running \/ o = "call")
<1>t. running => running = TRUE BY Zenon DEF TypeOK
<1>1. ASSUME NEW k \in Kinds, BeginSearch(k) \/ Scan(k) \/ EndSearch(k) PROVE G
  BY <1>1, <1>t, Zenon DEF BeginSearch, Scan, EndSearch
<1>2. CASE HandleCalls BY <1>2, Zenon DEF HandleCalls, TypeOK
<1>3. CASE BeginSummary \/ StartNode \/ EndSummary
  BY <1>3, <1>t, Zenon DEF BeginSummary, StartNode, EndSummary
<1>4. CASE ScanNode \/ FinishNode BY <1>4, <1>t, Zenon DEF ScanNode, FinishNode, SearchInv, NodeInv
<1>5. ASSUME NEW op \in {"push", "pull"}, BeginPropagation(op) \/ Propagate(op) PROVE G
  BY <1>5, <1>t, Zenon DEF BeginPropagation, Propagate
<1>6. ASSUME NEW op \in {"push", "pull"}, EndPropagation(op) PROVE G
  <2>1. agenda' = <<>> \o Tail(agenda) BY <1>6, Zenon DEF EndPropagation, AnyMarkPropagated
  <2>2. Tail(agenda) \in Seq(Jobs) BY <1>6, TailType, Zenon DEF EndPropagation, Doing, TypeOK
  <2>3. agenda' = Tail(agenda) BY <2>1, <2>2
  <2> QED BY <1>6, <2>3, Zenon DEF EndPropagation
<1> QED BY <1>p, <1>1, <1>2, <1>3, <1>4, <1>5, <1>6, Zenon DEF Next

-----------------------------------------------------------------------------
(* The inductive invariant of layered programs *)

\* When the passes begin no job has been done.
LEMMA NothingOver ==
  ASSUME Init
  PROVE  AgendaInv /\ Done = 0 /\ \A op \in Ops : \A g : ~Over(op, g)
<1>t. TypeOK BY InitInv, Zenon DEF ReachInv
<1>1. N \in Nat /\ DOMAIN prog.sccs = 1 .. N /\ prog.sccs \in Seq(SUBSET Functions) BY <1>t, Numbered, Zenon
<1>2. agenda = Agenda(prog.sccs) BY Zenon DEF Init
<1>4. Len(agenda) = 7 * N + 4 BY <1>1, <1>2, AgendaPlace, Zenon DEF N
<1>5. Done = 0 BY <1>1, <1>4 DEF Done
<1>6. AgendaInv
  <2>1. \A k \in DOMAIN agenda : k \in Nat BY <1>t DEF TypeOK
  <2>2. \A k \in DOMAIN agenda : Done + k = k BY <1>5, <2>1
  <2>3. Done \in Nat BY <1>5
  <2> QED BY <1>2, <2>2, <2>3, Zenon DEF AgendaInv
<1>7. ASSUME NEW op \in Ops, NEW g PROVE ~Over(op, g)
  <2>1. ASSUME NEW i \in 1 .. N
        PROVE  /\ ~(Done >= 4 * i - 1) /\ ~(Done >= 4 * i) /\ ~(Done >= 4 * i + 1) /\ ~(Done >= 4 * i + 2)
               /\ ~(Done >= 4 * N + 2 * i + 3) /\ ~(Done >= 4 * N + 2 * i + 4) /\ ~(Done >= 7 * N + 5 - i)
    BY <1>1, <1>5
  <2>2. ASSUME NEW i \in 1 .. N PROVE ~(Done >= At(op, i)) BY <2>1, AtIs, ZenonT(60) DEF Ops, Kinds
  <2> QED BY <1>1, <2>2, Zenon DEF Over
<1> QED BY <1>5, <1>6, <1>7, Zenon

\* LayeredInv holds when the passes begin.
LEMMA InitLayered == Init => LayeredInv
<1> SUFFICES ASSUME Init, IsLayered
             PROVE  AgendaInv /\ FlowInv /\ NodeInv /\ SummaryInv /\ CallInv /\ WithinInv /\ SinkInv
  BY Zenon DEF LayeredInv
<1>t. TypeOK BY InitInv, Zenon DEF ReachInv
<1>2. agenda = Agenda(prog.sccs) /\ edges = prog.edges /\ running = FALSE /\ start = None /\ todo = {} BY Zenon DEF Init
<1>3. mark["ipc"] = prog.ipc /\ mark["sink"] = {} /\ mark["shared"] = {} BY Zenon DEF Init, Kinds
<1>7. AgendaInv /\ \A op \in Ops : \A g : ~Over(op, g) BY NothingOver, Zenon
<1>9. ASSUME NEW ts, NEW v, NEW w, Edge(ts, v, w)
      PROVE  \E t \in ts : /\ <<t, v, w>> \in prog.edges /\ t \notin {"Deref", "Summary"}
                           /\ prog.owner[v] = prog.owner[w] /\ prog.owner[v] # None
  <2>1. PICK t \in ts : <<t, v, w>> \in prog.edges BY <1>2, <1>9, Zenon DEF Edge
  <2> DEFINE e == <<t, v, w>>
  <2>2. e \in prog.edges /\ e[1] = t /\ e[2] = v /\ e[3] = w BY <2>1
  <2>3. e[1] \notin {"Deref", "Summary"} /\ prog.owner[e[2]] = prog.owner[e[3]] /\ prog.owner[e[2]] # None
    BY <2>2, Zenon DEF IsLayered
  <2>4. t \notin {"Deref", "Summary"} /\ prog.owner[v] = prog.owner[w] /\ prog.owner[v] # None BY <2>2, <2>3, SMT
  <2> QED BY <2>1, <2>4, Zenon
<1>10. FlowInv
  <2>1. \A v, w \in Vertices : ~Edge({"Deref"}, v, w) /\ ~Edge({"Summary"}, v, w) BY <1>9, Zenon
  <2>2. ASSUME NEW R \in SUBSET Within, FlowClosed(R), NEW v \in Vertices, NEW w \in Vertices,
               Edge({"Data", "Part", "Summary"}, v, w), v # w
        PROVE  <<v, w>> \in R
    <3>1. PICK t \in {"Data", "Part", "Summary"} : <<t, v, w>> \in prog.edges /\ t \notin {"Deref", "Summary"}
      BY <1>9, <2>2, Zenon
    <3> DEFINE e == <<t, v, w>>
    <3>2. e \in prog.edges /\ e[1] \in {"Data", "Part"} /\ e[2] = v /\ e[3] = w BY <3>1
    <3>3. e[2] # e[3] => <<e[2], e[3]>> \in R BY <2>2, <3>2, Zenon DEF FlowClosed
    <3> QED BY <2>2, <3>2, <3>3, SMT
  <2> QED BY <1>2, <1>3, <1>9, <2>1, <2>2, ZenonT(60) DEF FlowInv
<1>11. NodeInv BY <1>2, Zenon DEF NodeInv
<1>o. "call" \in Ops /\ "sink" \in Ops /\ "summary" \in Ops /\ "shared" \in Ops /\ "push" \in Ops /\ "pull" \in Ops
  BY Zenon DEF Ops, Kinds
<1>12. SummaryInv BY <1>2, <1>7, <1>o, Zenon DEF SummaryInv
<1>13. CallInv BY <1>7, <1>o, Zenon DEF CallInv
<1>14. WithinInv
  <2>1. Sink = prog.ipc BY <1>3 DEF Sink
  <2> QED BY <1>2, <2>1, Zenon DEF WithinInv, IsLayered
<1>15. SinkInv BY <1>7, <1>o, Zenon DEF SinkInv
<1> QED BY <1>7, <1>10, <1>11, <1>12, <1>13, <1>14, <1>15, Zenon

\* Every step preserves LayeredInv.
LEMMA LayeredStep == ReachInv /\ ReachInv' /\ LayeredInv /\ [Next]_vars => LayeredInv'
<1> SUFFICES ASSUME ReachInv, ReachInv', LayeredInv, [Next]_vars PROVE LayeredInv' BY Zenon
<1>1. prog' = prog /\ TypeOK /\ TypeOK' /\ SearchInv BY EdgeSteps, Zenon DEF ReachInv
<1>2. SUFFICES ASSUME IsLayered'
               PROVE  AgendaInv' /\ FlowInv' /\ NodeInv' /\ SummaryInv' /\ CallInv' /\ WithinInv' /\ SinkInv'
  BY Zenon DEF LayeredInv
<1>3. IsLayered BY <1>1, <1>2, ProgSame, Zenon
<1>4. AgendaInv /\ FlowInv /\ NodeInv /\ SummaryInv /\ CallInv /\ WithinInv /\ SinkInv
  BY <1>3, Zenon DEF LayeredInv
<1>5. AgendaInv'
  <2>1. CASE UNCHANGED vars
    <3>1. agenda' = agenda BY <2>1, Zenon DEF vars
    <3> QED BY <1>1, <1>4, <3>1, Stay, Zenon
  <2> QED BY <1>1, <1>4, <2>1, JobStep, Stay, Advance, Zenon
<1>6. FlowInv' BY <1>1, <1>3, <1>4, FlowStep, Zenon
<1>7. NodeInv' BY <1>1, <1>3, <1>4, NodeStep, Zenon
<1>8. SummaryInv' BY <1>1, <1>3, <1>4, <1>6, SummaryStep, Zenon
<1>9. CallInv' BY <1>1, <1>3, <1>4, CallStep, Zenon
<1>10. WithinInv' BY <1>1, <1>3, <1>4, WithinStep, Zenon
<1>11. SinkInv' BY <1>1, <1>3, <1>4, SinkStep, Zenon
<1> QED BY <1>5, <1>6, <1>7, <1>8, <1>9, <1>10, <1>11, Zenon

\* For every layered program: the jobs are done in the order of runOnModule(), the
\* summaries of a component are complete when its callers are handled, and a mark
\* of what flows into the library is complete in the components whose turn has been.
THEOREM LayeredInvariant == Spec => []LayeredInv
<1>1. LayeredInv /\ ReachInv /\ ReachInv' /\ [Next]_vars => LayeredInv' BY LayeredStep, Zenon
<1> QED BY InitLayered, <1>1, Invariant, PTL DEF Spec
-----------------------------------------------------------------------------
(* What the passes have marked in the end *)

\* After the first pass all functions have been dealt with.
LEMMA FirstPassOver ==
  ASSUME TypeOK, IsLayered, AgendaInv, Len(agenda) = 3 * N
  PROVE  /\ \A v \in Vertices : prog.owner[v] # None => Over("sink", prog.owner[v])
         /\ \A c \in prog.calls : Over("call", c.caller) /\ Over("summary", c.callee)
<1>1. N \in Nat /\ DOMAIN prog.sccs = 1 .. N BY Numbered, Zenon
<1>2. Done >= 4 * N + 4 BY <1>1 DEF Done
<1>3. ASSUME NEW v \in Vertices, prog.owner[v] # None PROVE Over("sink", prog.owner[v])
  <2>1. PICK i \in 1 .. N : prog.owner[v] \in prog.sccs[i] BY <1>1, <1>3, Zenon DEF IsLayered
  <2> QED BY <1>2, <2>1, OrderAfter, Zenon
<1>4. ASSUME NEW c \in prog.calls PROVE Over("call", c.caller) /\ Over("summary", c.callee)
  <2>1. PICK i, j \in 1 .. N : c.callee \in prog.sccs[i] /\ c.caller \in prog.sccs[j] BY CallOrder, Zenon
  <2> QED BY <1>2, <2>1, OrderAfter, Zenon
<1> QED BY <1>3, <1>4, Zenon

\* The flow is what is reached along the edges that the pass has made.
LEMMA FlowsAre ==
  ASSUME TypeOK, IsLayered, AgendaInv, FlowInv, SummaryInv, CallInv, Len(agenda) = 3 * N
  PROVE  \A x : x \in Flows <=> x \in Within /\ Reaches(x[1], x[2])
<1> DEFINE P == {x \in Within : Reaches(x[1], x[2])}
<1>w. ASSUME NEW x \in Within PROVE /\ x = <<x[1], x[2]>> /\ x[1] \in Vertices /\ x[2] \in Vertices /\ x[1] # x[2]
                                    /\ prog.owner[x[1]] = prog.owner[x[2]]
  BY <1>w DEF Within
<1>v. ASSUME NEW a \in Vertices, NEW b \in Vertices, a # b, prog.owner[a] = prog.owner[b], Reaches(a, b)
      PROVE  <<a, b>> \in P
  <2>1. <<a, b>> \in Within BY <1>v DEF Within
  <2>2. <<a, b>>[1] = a /\ <<a, b>>[2] = b OBVIOUS
  <2> QED BY <1>v, <2>1, <2>2, Zenon
<1>s. ASSUME NEW a \in Vertices, NEW b \in Vertices, Step(a, b) PROVE Reaches(a, b)
  <2>1. Reaches(a, a) BY Zenon DEF Reaches
  <2> QED BY <1>s, <2>1, ReachesStep, Zenon
<1>p. \A x \in P : x \in Within /\ Reaches(x[1], x[2]) BY Zenon
<1>q. P \in SUBSET Within BY Zenon
<1>r. \A x \in Within : Reaches(x[1], x[2]) => x \in P BY Zenon
<1> HIDE DEF P
<1>1. ASSUME NEW e \in prog.edges, e[1] \in {"Data", "Part"}, e[2] # e[3] PROVE <<e[2], e[3]>> \in P
  <2>1. e \in edges /\ e = <<e[1], e[2], e[3]>> /\ e[2] \in Vertices /\ e[3] \in Vertices
    BY DEF FlowInv, TypeOK
  <2>2. <<e[1], e[2], e[3]>> \in edges BY <2>1, SMT
  <2>3. Step(e[2], e[3]) BY <1>1, <2>2, Zenon DEF Step, Edge
  <2>4. prog.owner[e[2]] = prog.owner[e[3]] BY Zenon DEF IsLayered
  <2> QED BY <1>1, <1>s, <1>v, <2>1, <2>3, <2>4, Zenon
<1>2. ASSUME NEW c \in prog.calls, NEW q \in BothWays(c.joined) PROVE q \in P
  <2>0. q[1] # q[2] BY Zenon DEF BothWays, Flowing
  <2>1. q[1] \in Vertices /\ q[2] \in Vertices /\ q = <<q[1], q[2]>> BY CallType, Zenon
  <2>2. prog.owner[q[1]] = prog.owner[q[2]] BY CallOwner, Zenon
  <2>3. Edge({"Data"}, q[1], q[2]) BY FirstPassOver, Zenon DEF CallInv
  <2>4. Step(q[1], q[2]) BY <2>3, Zenon DEF Step, Edge
  <2>5. <<q[1], q[2]>> \in P BY <2>0, <1>s, <1>v, <2>1, <2>2, <2>4, Zenon
  <2> QED BY <2>1, <2>5, SMT
<1>3. ASSUME NEW c \in prog.calls, HasSummary(c.callee),
             NEW q \in c.pairs, NEW r \in c.pairs, <<q[1], r[1]>> \in P, q[2] # r[2]
      PROVE  <<q[2], r[2]>> \in P
  <2> DEFINE x == <<q[1], r[1]>>
  <2>1. x \in P /\ x[1] = q[1] /\ x[2] = r[1] BY <1>3
  <2>2. q[1] # r[1] /\ Reaches(q[1], r[1]) BY <1>p, <1>w, <2>1, SMT
  <2>3. /\ q[1] \in prog.signature /\ prog.owner[q[1]] = c.callee
        /\ r[1] \in prog.signature /\ prog.owner[r[1]] = c.callee
    BY CallOwner, Zenon DEF TypeOK, ProgramType
  <2>4. q[1] \in Formals /\ r[1] \in Formals BY <1>3, <2>3, SMT DEF Formals
  <2>5. prog.owner[q[1]] = c.callee /\ prog.owner[q[2]] = c.caller /\ prog.owner[r[2]] = c.caller BY CallOwner, Zenon
  <2>6. Over("summary", prog.owner[q[1]]) BY <2>5, FirstPassOver, Zenon
  <2>7. Edge({"Summary"}, q[1], r[1]) BY <2>2, <2>4, <2>6, Zenon DEF SummaryInv, Summarized
  <2>8. Edge({"Data"}, q[2], r[2]) BY <2>7, FirstPassOver, Zenon DEF CallInv
  <2>9. Step(q[2], r[2]) BY <2>8, Zenon DEF Step, Edge
  <2>10. q[2] \in Vertices /\ r[2] \in Vertices BY CallType, Zenon
  <2>11. prog.owner[q[2]] = prog.owner[r[2]] BY <2>5, Zenon
  <2> QED BY <1>3, <1>s, <1>v, <2>9, <2>10, <2>11, Zenon
<1>4. ASSUME NEW x \in P, NEW y \in P, x[2] = y[1], x[1] # y[2] PROVE <<x[1], y[2]>> \in P
  <2>1. x \in Within /\ y \in Within /\ Reaches(x[1], x[2]) /\ Reaches(y[1], y[2]) BY <1>p, Zenon
  <2>2. x[1] \in Vertices /\ x[2] \in Vertices /\ y[2] \in Vertices BY <1>w, <2>1, Zenon
  <2>3. prog.owner[x[1]] = prog.owner[x[2]] /\ prog.owner[y[1]] = prog.owner[y[2]] BY <1>w, <2>1, Zenon
  <2>4. prog.owner[x[1]] = prog.owner[y[2]] BY <1>4, <2>3, SMT
  <2>5. Reaches(x[2], y[2]) BY <1>4, <2>1, Zenon
  <2>6. Reaches(x[1], y[2]) BY <2>1, <2>2, <2>5, ReachesOn, Zenon
  <2> QED BY <1>4, <1>v, <2>2, <2>4, <2>6, Zenon
<1>5. FlowClosed(P) BY <1>1, <1>2, <1>3, <1>4, Zenon DEF FlowClosed
<1>6. ASSUME NEW x \in Flows PROVE x \in Within /\ Reaches(x[1], x[2])
  <2>1. x \in P BY <1>5, <1>q, Zenon DEF Flows
  <2> QED BY <1>p, <2>1, Zenon
<1>7. ASSUME NEW x \in Within, Reaches(x[1], x[2]) PROVE x \in Flows
  <2>1. ASSUME NEW R \in SUBSET Within, FlowClosed(R) PROVE x \in R
    <3>1. <<x[1], x[2]>> \in R BY <1>7, <1>w, <2>1, ReachesFlow, Zenon
    <3> QED BY <1>w, <3>1, SMT
  <2> QED BY <2>1, Zenon DEF Flows
<1> QED BY <1>6, <1>7, Zenon

\* Values that can flow into the library are marked, and no others.
LEMMA SinkIs ==
  ASSUME TypeOK, NothingElseMarked, IsLayered, AgendaInv, FlowInv, SummaryInv, CallInv, WithinInv, SinkInv,
         Len(agenda) = 3 * N
  PROVE  Sink = Closure(prog.ipc, Reverse(Flows) \cup AllPairs)
<1> DEFINE R == Flows
<1>f. \A x : x \in R <=> x \in Within /\ Reaches(x[1], x[2]) BY FlowsAre, Zenon
<1>w. ASSUME NEW x \in Within PROVE x[1] \in Vertices /\ x[2] \in Vertices BY <1>w DEF Within
<1> HIDE DEF R
<1>v. Sink \in SUBSET Vertices /\ prog.ipc \subseteq Sink BY Zenon DEF Sink, TypeOK, Kinds, FlowInv
<1>r. \A x : x \in Reverse(R) <=> \E y \in R : x = <<y[2], y[1]>> BY Zenon DEF Reverse
<1>a. \A q : q \in AllPairs <=> \E c \in prog.calls : q \in c.pairs BY Zenon DEF AllPairs
<1>1. ASSUME NEW T \in SUBSET Vertices, prog.ipc \subseteq T,
             \A x \in Reverse(R) \cup AllPairs : x[1] \in T => x[2] \in T
      PROVE  Sink \subseteq T
  <2>1. mark["ipc"] \subseteq T BY <1>1, Zenon DEF FlowInv
  <2>2. ASSUME NEW e \in edges, e[1] \in {"Data", "Part"}, e[3] \in T PROVE e[2] \in T
    <3>1. e = <<e[1], e[2], e[3]>> /\ e[2] \in Vertices /\ e[3] \in Vertices BY DEF TypeOK
    <3>2. <<e[1], e[2], e[3]>> \in edges BY <3>1, SMT
    <3>3. Step(e[2], e[3]) BY <2>2, <3>2, Zenon DEF Step, Edge
    <3>4. CASE e[2] = e[3] BY <2>2, <3>4, SMT
    <3>5. CASE e[2] # e[3]
      <4> DEFINE y == <<e[2], e[3]>>
                 z == <<e[3], e[2]>>
      <4>0. e[1] \in Types BY <2>2, Zenon DEF Types
      <4>1. prog.owner[e[2]] = prog.owner[e[3]] BY <3>1, <3>2, <4>0, Zenon DEF FlowInv, Edge
      <4>2. Reaches(e[2], e[2]) BY Zenon DEF Reaches
      <4>3. Reaches(e[2], e[3]) BY <3>1, <3>3, <4>2, ReachesStep, Zenon
      <4>4. y \in Within BY <3>1, <3>5, <4>1 DEF Within
      <4>5. y[1] = e[2] /\ y[2] = e[3] /\ z[1] = e[3] /\ z[2] = e[2] OBVIOUS
      <4>6. Reaches(y[1], y[2]) BY <4>3, <4>5, Zenon
      <4>7. y \in R BY <1>f, <4>4, <4>6, Zenon
      <4>8. z = <<y[2], y[1]>> BY <4>5, SMT
      <4>9. z \in Reverse(R) BY <1>r, <4>7, <4>8, Zenon
      <4>10. z[1] \in T => z[2] \in T BY <1>1, <4>9, Zenon
      <4> QED BY <2>2, <4>5, <4>10, SMT
    <3> QED BY <3>4, <3>5, Zenon
  <2>3. \A c \in prog.calls : \A q \in c.pairs : q[1] \in T => q[2] \in T BY <1>1, <1>a, Zenon
  <2>4. SinkClosed(T) BY <2>1, <2>2, <2>3, Zenon DEF SinkClosed
  <2>5. mark["sink"] \subseteq T BY <2>4, Zenon DEF NothingElseMarked
  <2> QED BY <2>1, <2>5, Zenon DEF Sink
<1>2. ASSUME NEW y \in R, y[2] \in Sink PROVE y[1] \in Sink
  <2>1. y[1] \in Vertices /\ y[2] \in Vertices /\ Reaches(y[1], y[2]) BY <1>f, <1>w, Zenon
  <2>2. SUFFICES ASSUME y[1] \notin Sink PROVE FALSE BY Zenon
  <2>3. ASSUME NEW v \in Vertices, NEW w \in Vertices, v \notin Sink, Step(v, w) PROVE w \notin Sink
    <3>1. SUFFICES ASSUME w \in Sink PROVE FALSE BY Zenon
    <3>2. prog.owner[w] # None BY <3>1, Zenon DEF WithinInv
    <3>3. Over("sink", prog.owner[w]) BY <3>2, FirstPassOver, Zenon
    <3> QED BY <2>3, <3>1, <3>3, Zenon DEF SinkInv
  <2> DEFINE T == Vertices \ Sink
  <2>4. T \in SUBSET Vertices /\ y[1] \in T /\ \A v, w \in Vertices : v \in T /\ Step(v, w) => w \in T
    BY <2>1, <2>2, <2>3, Zenon
  <2>5. y[2] \notin T BY <1>2, Zenon
  <2> HIDE DEF T
  <2> QED BY <2>1, <2>4, <2>5, Zenon DEF Reaches
<1>3. ASSUME NEW x \in Reverse(R) \cup AllPairs, x[1] \in Sink PROVE x[2] \in Sink
  <2>1. CASE x \in AllPairs BY <1>a, <1>3, <2>1, FirstPassOver, Zenon DEF CallInv
  <2>2. CASE x \in Reverse(R)
    <3>1. PICK y \in R : x = <<y[2], y[1]>> BY <1>r, <2>2, Zenon
    <3>2. x[1] = y[2] /\ x[2] = y[1] BY <3>1, SMT
    <3> QED BY <1>2, <1>3, <3>2, SMT
  <2> QED BY <2>1, <2>2, Zenon
<1>4. Sink \subseteq Closure(prog.ipc, Reverse(R) \cup AllPairs)
  <2> DEFINE Q == Reverse(R) \cup AllPairs
  <2>1. \A T \in SUBSET Vertices : prog.ipc \subseteq T /\ (\A x \in Q : x[1] \in T => x[2] \in T) => Sink \subseteq T
    BY <1>1, Zenon
  <2> HIDE DEF Q
  <2>2. Sink \subseteq Closure(prog.ipc, Q) BY <1>v, <2>1, Zenon DEF Closure
  <2> QED BY <2>2, Zenon DEF Q
<1>5. Closure(prog.ipc, Reverse(R) \cup AllPairs) \subseteq Sink
  <2> DEFINE Q == Reverse(R) \cup AllPairs
  <2>1. \A x \in Q : x[1] \in Sink => x[2] \in Sink BY <1>3, Zenon
  <2> HIDE DEF Q
  <2>2. Closure(prog.ipc, Q) \subseteq Sink BY <1>v, <2>1, Zenon DEF Closure
  <2> QED BY <2>2, Zenon DEF Q
<1>6. Sink = Closure(prog.ipc, Reverse(R) \cup AllPairs) BY <1>4, <1>5, Zenon
<1> QED BY <1>6, Zenon DEF R

\* For every layered program, after PDGReachabilityPass the summary edges are the
\* data flow between the signature nodes of the functions with a considered call,
\* through any depth of calls of such functions, and the marked values are those
\* that can flow so into the library, here or in a callee.
THEOREM FirstPass == Spec => []FirstPassExact
<1>1. ReachInv /\ LayeredInv => FirstPassExact
  <2>1. SUFFICES ASSUME ReachInv, LayeredInv, ~running, Len(agenda) = 3 * Len(prog.sccs), IsLayered
                 PROVE  /\ Along({"Summary"}) = {x \in Flows : x[1] \in Formals /\ x[2] \in Formals}
                        /\ Sink = Closure(prog.ipc, Reverse(Flows) \cup AllPairs)
    BY Zenon DEF FirstPassExact
  <2>2. TypeOK /\ NothingElseMarked BY <2>1, Zenon DEF ReachInv
  <2>3. AgendaInv /\ FlowInv /\ SummaryInv /\ CallInv /\ WithinInv /\ SinkInv BY <2>1, Zenon DEF LayeredInv
  <2>4. Len(agenda) = 3 * N BY <2>1, Zenon DEF N
  <2>5. Sink = Closure(prog.ipc, Reverse(Flows) \cup AllPairs) BY <2>1, <2>2, <2>3, <2>4, SinkIs, Zenon
  <2> DEFINE R == Flows
  <2>f. \A x : x \in R <=> x \in Within /\ Reaches(x[1], x[2]) BY <2>1, <2>2, <2>3, <2>4, FlowsAre, Zenon
  <2>v. Formals \subseteq Vertices BY <2>2, FormalsType, Zenon
  <2> HIDE DEF R
  <2>6. ASSUME NEW x \in Along({"Summary"}) PROVE x \in R /\ x[1] \in Formals /\ x[2] \in Formals
    <3>1. PICK e \in edges : e[1] \in {"Summary"} /\ x = <<e[2], e[3]>> BY Zenon DEF Along
    <3>2. e = <<e[1], e[2], e[3]>> /\ e[2] \in Vertices /\ e[3] \in Vertices BY <2>2 DEF TypeOK
    <3>3. <<e[1], e[2], e[3]>> \in edges BY <3>2, SMT
    <3>4. Edge({"Summary"}, e[2], e[3]) BY <3>1, <3>3, Zenon DEF Edge
    <3>5. e[2] # e[3] /\ e[2] \in Formals /\ e[3] \in Formals /\ Reaches(e[2], e[3]) BY <2>3, <3>2, <3>4, Zenon DEF FlowInv
    <3>6. prog.owner[e[2]] = prog.owner[e[3]] BY <2>3, <3>2, <3>5, ReachesWithin, Zenon
    <3>7. x \in Within /\ x[1] = e[2] /\ x[2] = e[3] BY <3>1, <3>2, <3>5, <3>6 DEF Within
    <3> QED BY <2>f, <3>5, <3>7, SMT
  <2>7. ASSUME NEW x \in R, x[1] \in Formals, x[2] \in Formals PROVE x \in Along({"Summary"})
    <3>1. x \in Within /\ Reaches(x[1], x[2]) BY <2>f, Zenon
    <3>2. x = <<x[1], x[2]>> /\ x[1] # x[2] BY <3>1 DEF Within
    <3>3. Over("summary", prog.owner[x[1]])
      <4>1. PICK c \in prog.calls : c.callee = prog.owner[x[1]] BY <2>7, Zenon DEF Formals, HasSummary
      <4>2. Over("summary", c.callee) BY <2>1, <2>2, <2>3, <2>4, FirstPassOver, Zenon
      <4> QED BY <4>1, <4>2, SMT
    <3>4. Edge({"Summary"}, x[1], x[2]) BY <2>3, <2>7, <3>1, <3>2, <3>3, Zenon DEF SummaryInv, Summarized
    <3>5. <<"Summary", x[1], x[2]>> \in edges BY <3>4, Zenon DEF Edge
    <3> DEFINE e == <<"Summary", x[1], x[2]>>
    <3>6. e \in edges /\ e[1] \in {"Summary"} /\ e[2] = x[1] /\ e[3] = x[2] BY <3>5
    <3>7. x = <<e[2], e[3]>> BY <3>2, <3>6, SMT
    <3> HIDE DEF e
    <3> QED BY <3>6, <3>7, Zenon DEF Along
  <2>8. Along({"Summary"}) = {x \in R : x[1] \in Formals /\ x[2] \in Formals} BY <2>6, <2>7, Zenon
  <2> QED BY <2>5, <2>8, Zenon DEF R
<1> QED BY Invariant, LayeredInvariant, <1>1, PTL
=============================================================================
