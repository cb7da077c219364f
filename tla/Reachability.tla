---------------------------- MODULE Reachability ----------------------------
(***************************************************************************)
(* The marks that the linker's passes put on the values of a program:      *)
(*   "ipc"     what is handed to the library (ipcsink),                    *)
(*   "sink"    what flows there (reaches_ipc_sink),                        *)
(*   "fd"      file descriptors,                                           *)
(*   "shared"  what shared memory may influence (influenced_by_shared).    *)
(* PDGReachabilityPass visits the components of the call graph callees     *)
(* first and leaves summaries to the callers; PDGSharedReachabilityPass    *)
(* goes up and then down.  A vertex is a value of a function or a global.  *)
(* Parts and dereferences of parameters are vertices of their own; which   *)
(* vertex of a callee stands for which one of a call is given.             *)
(***************************************************************************)
EXTENDS Naturals, Sequences

CONSTANTS Vertices,
          Functions,
          Programs    \* what is linked

None == "none"        \* owner of the globals: nullptr

VARIABLES
  prog,     \* never changes
  edges,    \* the edges of the PDG, <<type, source, target>>
  mark,     \* for each kind, the marked vertices
  agenda,   \* jobs left, in order
  running,  \* has the first one begun?
  colored,  \* search: vertices that are not WHITE
  queue,    \* search: vertices to be examined
  nodes,    \* signature nodes to be searched from
  start,    \* the signature node a search started from
  todo      \* propagation: pairs left

vars == <<prog, edges, mark, agenda, running, colored, queue, nodes, start, todo>>

Kinds == {"sink", "fd", "shared"}
Types == {"Control", "Data", "Part", "Deref", "Summary"}
Ops == Kinds \cup {"call", "summary", "push", "pull"}
Jobs == [op : Ops, fs : SUBSET (Functions \cup {None})]

\* A call and the map that matchSubnodes() makes for it, <<in callee, in caller>>.
\* "joined" are values of the caller that stand for one value of the callee,
\* "returns" those vertices of the callee that belong to its return value, and
\* "united" the pairs so many dereferences away that uniteSubnodes() gets them.
\* "considered" is considerCall(): a used pointer or structure as result, or an
\* argument that is not empty, i1, i8 or a floating point number.
Calls == [callee : Functions, caller : Functions, considered : BOOLEAN,
          pairs : SUBSET (Vertices \X Vertices), returns : SUBSET Vertices,
          united : SUBSET (Vertices \X Vertices), joined : SUBSET (Vertices \X Vertices)]

ProgramType(p) ==
  /\ p.owner \in [Vertices -> Functions \cup {None}]
  /\ p.edges \subseteq Types \X Vertices \X Vertices
  /\ p.calls \subseteq Calls
  /\ p.signature \subseteq Vertices      \* parameters, results, their parts and memory
  /\ \A c \in p.calls : \A q \in c.pairs : q[1] \in p.signature
  /\ p.constants \subseteq Vertices
  /\ p.sccs \in Seq(SUBSET Functions)
  /\ p.ipc \subseteq Vertices            \* ipcsink
  /\ p.fd \subseteq Vertices             \* known to be file descriptors
  /\ p.integer \subseteq Vertices        \* may be: isFileDescriptorType()
  /\ p.sums \subseteq Vertices           \* results of an addition or a subtraction
  /\ p.excluded \subseteq Functions      \* not considerFunction()

ASSUME VerticesAssumption == None \notin Vertices
ASSUME FunctionsAssumption == None \notin Functions
ASSUME ProgramsAssumption == \A p \in Programs : ProgramType(p)

Job(op, fs) == [op |-> op, fs |-> fs]

\* runOnGlobal()
GlobalJobs == <<Job("sink", {None}), Job("fd", {None})>>

\* runOnSCC() for one component after the other.
ComponentJobs(sccs) ==
  LET steps == <<"call", "sink", "fd", "summary">> IN
  [i \in 1 .. 4 * Len(sccs) |-> Job(steps[((i - 1) % 4) + 1], sccs[((i - 1) \div 4) + 1])]

\* The two loops of the second pass: callee before caller, caller before callee.
UpJobs(sccs) ==
  LET steps == <<"shared", "push">> IN
  [i \in 1 .. 2 * Len(sccs) |-> Job(steps[((i - 1) % 2) + 1], sccs[((i - 1) \div 2) + 1])]

DownJobs(sccs) == [i \in 1 .. Len(sccs) |-> Job("pull", sccs[Len(sccs) + 1 - i])]

\* runOnModule() of the two passes.
Agenda(sccs) ==
  GlobalJobs \o ComponentJobs(sccs) \o GlobalJobs \o UpJobs(sccs) \o DownJobs(sccs)

Init ==
  /\ prog \in Programs
  /\ edges = prog.edges
  /\ mark = [k \in Kinds \cup {"ipc"} |->
              CASE k = "ipc" -> prog.ipc [] k = "fd" -> prog.fd [] OTHER -> {}]
  /\ agenda = Agenda(prog.sccs)
  /\ running = FALSE
  /\ colored = {} /\ queue = {} /\ nodes = {} /\ start = None /\ todo = {}

Doing(op) == agenda # <<>> /\ agenda[1].op = op
Component == agenda[1].fs
Sink == mark["sink"] \cup mark["ipc"]
-----------------------------------------------------------------------------
(* Breadth first search, with the visitors of the three kinds *)

MutantFollowed(k) == IF k = "shared" THEN Types ELSE {"Data"}

\* The edges of a search: examine_forwards_edge(), examine_backwards_edge()
Followed(k) ==
  CASE k = "sink" -> {"Data", "Part"}
    [] k = "fd" -> {"Data"}
    [] k = "shared" -> {"Data", "Part", "Deref", "Summary"}

Follow(k, v) ==
  {w \in Vertices : \E t \in Followed(k) :
     (IF k = "sink" THEN <<t, w, v>> ELSE <<t, v, w>>) \in edges}

\* What discover_vertex() marks, and where it lets the search go on.
MayMark(k, v) == k = "fd" => v \in prog.integer \ prog.sums
Inside(v) == prog.owner[v] \in Component \cup {None}

\* The vertices a search starts from.
Sources(k) ==
  LET marks == CASE k = "sink" -> Sink
                 [] k = "fd" -> mark["fd"]
                 [] k = "shared" -> mark["shared"] \cup Sink IN
  {v \in marks : prog.owner[v] \in Component}

\* S is discovered while "left" waits in the queue.
Discover(k, S, left) ==
  LET found == {v \in S : MayMark(k, v)} IN
  /\ mark' = [mark EXCEPT ![k] = @ \cup found]
  /\ queue' = left \cup {v \in found : Inside(v)}

MutantInitColors == colored

\* colors.init()
InitColors == {}

BeginSearch(k) ==
  /\ Doing(k) /\ ~running
  /\ running' = TRUE
  /\ colored' = IF Sources(k) = {} THEN colored ELSE InitColors \cup Sources(k)
  /\ Discover(k, Sources(k), {})
  /\ UNCHANGED <<prog, edges, agenda, todo, nodes, start>>

MutantNews(k, u) == Follow(k, u)

\* The neighbours that are still WHITE.
News(k, u) == Follow(k, u) \ colored

Scan(k) ==
  /\ Doing(k) /\ running
  /\ \E u \in queue :
       /\ colored' = colored \cup News(k, u)
       /\ Discover(k, News(k, u), queue \ {u})
  /\ UNCHANGED <<prog, edges, agenda, running, todo, nodes, start>>

EndSearch(k) ==
  /\ Doing(k) /\ running /\ queue = {}
  /\ running' = FALSE /\ agenda' = Tail(agenda)
  /\ UNCHANGED <<prog, edges, mark, colored, queue, todo, nodes, start>>
-----------------------------------------------------------------------------
(* Calls and summaries: PDGReachabilityPass *)

Data(S) == {<<"Data", e[1], e[2]>> : e \in S}
Reverse(S) == {<<e[2], e[1]>> : e \in S}

\* addSubnodeEdges(): "No data flow towards constant edges".
Flowing(S) == {e \in S : e[1] # e[2] /\ e[2] \notin prog.constants}
BothWays(S) == Flowing(S \cup Reverse(S))
Joins(cs) == UNION {Data(BothWays(c.joined)) : c \in cs}

\* Data edges for a call within a component: arguments go in, results come out,
\* and memory that is united flows both ways.
Direct(c) ==
  Data(Flowing({<<q[2], q[1]>> : q \in {r \in c.pairs : r[1] \notin c.returns}}
               \cup {q \in c.pairs : q[1] \in c.returns})
       \cup BothWays(c.united))

\* The summary of the callee as edges between the values of the caller.
Instantiate(c) ==
  Data({<<x[1][2], x[2][2]>> :
          x \in {y \in c.pairs \X c.pairs : <<"Summary", y[1][1], y[2][1]>> \in edges}})

\* handleCall() for all calls made in the component.
HandleCalls ==
  LET made == {c \in prog.calls : c.caller \in Component}
      inner == {c \in made : c.callee \in Component}
      pairs == UNION {c.pairs : c \in made \ inner} IN
  /\ Doing("call") /\ ~running
  /\ edges' = edges \cup (UNION {Direct(c) : c \in inner})
                    \cup (UNION {Instantiate(c) : c \in made \ inner})
                    \cup Joins(made \ inner)
  /\ mark' = [mark EXCEPT
       !["sink"] = @ \cup {q[2] : q \in {r \in pairs : r[1] \in Sink}},
       !["fd"] = @ \cup {q[2] : q \in {r \in pairs : r[1] \in mark["fd"] /\ r[2] \in prog.integer}}]
  /\ agenda' = Tail(agenda)
  /\ UNCHANGED <<prog, running, colored, queue, todo, nodes, start>>

MutantNeedsSummary(c) == c.callee \in Component /\ c.caller \notin Component

\* Does data come into the component by this call?
NeedsSummary(c) == c.considered /\ c.callee \in Component /\ c.caller \notin Component

\* collectFunctionSignatureNodes() for the functions that need a summary.
Signature ==
  {v \in prog.signature : \E c \in prog.calls : NeedsSummary(c) /\ c.callee = prog.owner[v]}

BeginSummary ==
  /\ Doing("summary") /\ ~running
  /\ running' = TRUE /\ nodes' = Signature
  /\ UNCHANGED <<prog, edges, mark, agenda, colored, queue, start, todo>>

\* The search of DataSummaryVisitor from one signature node.
StartNode ==
  /\ Doing("summary") /\ running /\ start = None
  /\ \E a \in nodes : nodes' = nodes \ {a} /\ start' = a /\ colored' = {a} /\ queue' = {a}
  /\ UNCHANGED <<prog, edges, mark, agenda, running, todo>>

ScanNode ==
  /\ start # None
  /\ \E u \in queue :
       LET found == {w \in Vertices \ colored :
                       \E t \in {"Data", "Summary", "Part"} : <<t, u, w>> \in edges} IN
       /\ colored' = colored \cup found
       /\ queue' = (queue \ {u}) \cup {w \in found : w \in Signature \/ Inside(w)}
  /\ UNCHANGED <<prog, edges, mark, agenda, running, todo, start, nodes>>

\* markAsShared()
MarkedWith(x) ==
  {v \in Vertices : \A S \in SUBSET Vertices :
     x \in S /\ (\A e \in edges : e[1] \in {"Deref", "Part"} /\ e[2] \in S \ mark["ipc"]
                                => e[3] \in S)
     => v \in S}

Deref(v) == {x \in Vertices : <<"Deref", v, x>> \in edges}

\* finished(): the summary edges, and the memory behind a node that flows to a
\* pointer to shared memory.
FinishNode ==
  /\ start # None /\ queue = {}
  /\ start' = None
  /\ LET targets == (colored \cap Signature) \ {start}
         shared == {x \in Deref(start) \ mark["sink"] : \E b \in targets : Deref(b) \cap Sink # {}} IN
     /\ edges' = edges \cup {<<"Summary", start, b>> : b \in targets}
     /\ mark' = [mark EXCEPT !["ipc"] = @ \cup UNION {MarkedWith(x) : x \in shared}]
  /\ UNCHANGED <<prog, agenda, running, colored, queue, todo, nodes>>

EndSummary ==
  /\ Doing("summary") /\ running /\ start = None /\ nodes = {}
  /\ running' = FALSE /\ agenda' = Tail(agenda)
  /\ UNCHANGED <<prog, edges, mark, colored, queue, todo, start, nodes>>
-----------------------------------------------------------------------------
(* Between caller and callee: PDGSharedReachabilityPass *)

MutantCallsIn == {c \in prog.calls : c.caller \in Component \ prog.excluded}

\* The calls of the functions of the component.
CallsIn == {c \in prog.calls : c.callee \in Component \ prog.excluded}

BeginPropagation(op) ==
  /\ Doing(op) /\ ~running
  /\ running' = TRUE
  /\ edges' = edges \cup Joins(CallsIn)
  /\ todo' = UNION {{<<c, q>> : q \in c.pairs} : c \in CallsIn}
  /\ UNCHANGED <<prog, mark, agenda, colored, queue, nodes, start>>

Shared(v) == v \in mark["shared"] \cup Sink

\* The vertex of the pair that has the mark, and the one that gets it.
Origin(op, q) == IF op = "push" THEN q[1] ELSE q[2]
Target(op, q) == IF op = "push" THEN q[2] ELSE q[1]

\* propagateCallInfluence() for one pair.
Propagate(op) ==
  /\ Doing(op) /\ running
  /\ \E t \in todo :
       /\ todo' = todo \ {t}
       /\ mark' = [mark EXCEPT !["shared"] =
            @ \cup (IF Shared(Origin(op, t[2])) THEN {Target(op, t[2])} ELSE {})]
  /\ UNCHANGED <<prog, edges, agenda, running, colored, queue, nodes, start>>

\* What propagateInfluenceFromCallers() returns.
AnyMarkPropagated == FALSE

EndPropagation(op) ==
  /\ Doing(op) /\ running /\ todo = {}
  /\ running' = FALSE
  /\ agenda' = (IF op = "pull" /\ AnyMarkPropagated THEN <<Job("shared", Component)>> ELSE <<>>)
               \o Tail(agenda)
  /\ UNCHANGED <<prog, edges, mark, colored, queue, todo, nodes, start>>

Next ==
  \/ \E k \in Kinds : BeginSearch(k) \/ Scan(k) \/ EndSearch(k)
  \/ HandleCalls \/ BeginSummary \/ StartNode \/ ScanNode \/ FinishNode \/ EndSummary
  \/ \E op \in {"push", "pull"} : BeginPropagation(op) \/ Propagate(op) \/ EndPropagation(op)

Spec == Init /\ [][Next]_vars
FairSpec == Spec /\ WF_vars(Next)
-----------------------------------------------------------------------------
TypeOK ==
  /\ ProgramType(prog)
  /\ edges \subseteq Types \X Vertices \X Vertices
  /\ mark \in [Kinds \cup {"ipc"} -> SUBSET Vertices]
  /\ agenda \in Seq(Jobs)
  /\ running \in BOOLEAN
  /\ colored \subseteq Vertices /\ queue \subseteq Vertices
  /\ nodes \subseteq Vertices /\ start \in Vertices \cup {None}
  /\ todo \subseteq prog.calls \X (Vertices \X Vertices)

\* When a search is over, no edge of its kind leads from a marked vertex of the
\* component to one that should have the mark and has not.
SearchComplete ==
  \A k \in Kinds : Doing(k) /\ running /\ queue = {} =>
    \A v \in mark[k] : MayMark(k, v) /\ prog.owner[v] \in Component =>
      \A w \in Follow(k, v) : MayMark(k, w) => w \in mark[k]

\* Sets that contain what they must when a mark follows the data: "sink" against
\* the flow and out of the callee, "shared" with the flow and between the two
\* sides of a call.
SinkClosed(S) ==
  /\ mark["ipc"] \subseteq S
  /\ \A e \in edges : e[1] \in {"Data", "Part"} /\ e[3] \in S => e[2] \in S
  /\ \A c \in prog.calls : \A q \in c.pairs : q[1] \in S => q[2] \in S

SharedClosed(S) ==
  /\ Sink \subseteq S
  /\ \A e \in edges : e[1] # "Control" /\ e[2] \in S => e[3] \in S
  /\ \A c \in prog.calls : \A q \in c.pairs : q[1] \in S <=> q[2] \in S

\* No value is marked that the library cannot reach along the data flow.
NothingElseMarked ==
  \A S \in SUBSET Vertices :
    /\ SinkClosed(S) => mark["sink"] \subseteq S
    /\ SharedClosed(S) => mark["shared"] \subseteq S

\* A program whose functions share no data but through calls, and do not call
\* each other in circles; "sccs" lists every function after what it calls.  The
\* call graph has only the considered calls, so for the others the order is a
\* condition on the program.
IsLayered ==
  LET owner == prog.owner IN
  /\ \A i, j \in DOMAIN prog.sccs : i # j => prog.sccs[i] \cap prog.sccs[j] = {}
  /\ \A v \in Vertices : owner[v] # None => \E i \in DOMAIN prog.sccs : owner[v] \in prog.sccs[i]
  /\ \A v \in prog.ipc : owner[v] # None
  /\ \A e \in prog.edges :
       e[1] \notin {"Deref", "Summary"} /\ owner[e[2]] = owner[e[3]] /\ owner[e[2]] # None
  /\ \A c \in prog.calls :
       /\ \E i, j \in DOMAIN prog.sccs : i < j /\ c.callee \in prog.sccs[i] /\ c.caller \in prog.sccs[j]
       /\ \A q \in c.pairs : owner[q[1]] = c.callee /\ owner[q[2]] = c.caller
       /\ \A q \in c.joined : owner[q[1]] = c.caller /\ owner[q[2]] = c.caller

\* What can be reached from S along the pairs of R.
Closure(S, R) ==
  {v \in Vertices : \A T \in SUBSET Vertices :
     S \subseteq T /\ (\A x \in R : x[1] \in T => x[2] \in T) => v \in T}

Along(ts) == {<<e[2], e[3]>> : e \in {f \in edges : f[1] \in ts}}
AllPairs == UNION {c.pairs : c \in prog.calls}
Considered == UNION {c.pairs : c \in {d \in prog.calls : d.callee \notin prog.excluded}}

\* The functions that get a summary, and their signature nodes.
HasSummary(f) == \E c \in prog.calls : c.considered /\ c.callee = f
Formals == {v \in prog.signature : HasSummary(prog.owner[v])}

\* How data flows from one value of a function to another: the least relation that
\* is closed in this sense.  Calls are included, but for functions none of whose
\* calls is considered: "we can loose dataflow not containing enough data for a
\* pointer".
Within == {x \in Vertices \X Vertices : x[1] # x[2] /\ prog.owner[x[1]] = prog.owner[x[2]]}

FlowClosed(R) ==
  /\ \A e \in prog.edges : e[1] \in {"Data", "Part"} /\ e[2] # e[3] => <<e[2], e[3]>> \in R
  /\ \A c \in prog.calls :
       /\ BothWays(c.joined) \subseteq R
       /\ HasSummary(c.callee) => \A q, r \in c.pairs :
            <<q[1], r[1]>> \in R /\ q[2] # r[2] => <<q[2], r[2]>> \in R
  /\ \A x, y \in R : x[2] = y[1] /\ x[1] # y[2] => <<x[1], y[2]>> \in R

Flows == {x \in Within : \A R \in SUBSET Within : FlowClosed(R) => x \in R}

\* After the first pass a function has a summary if one of its calls is considered,
\* and then it is the data flow between its signature nodes, through all functions
\* it calls that have a summary.  A value is marked if it can flow so into the
\* library, in this function or in one it is passed to, by any call.
FirstPassExact ==
  ~running /\ Len(agenda) = 3 * Len(prog.sccs) /\ IsLayered =>
    LET R == Flows IN
    /\ Along({"Summary"}) = {x \in R : x[1] \in Formals /\ x[2] \in Formals}
    /\ Sink = Closure(prog.ipc, Reverse(R) \cup AllPairs)

\* In the end a value is marked as influenced if it is so by data that flows
\* within the functions and to their callers, or if it stands for an argument
\* that is, over any number of calls.
SecondPassExact ==
  agenda = <<>> /\ IsLayered =>
    LET up == Closure(Sink, Along(Types \ {"Control"}) \cup Considered) IN
    mark["shared"] = Closure(up, Reverse(Considered))

\* The passes come to an end.
PassesEnd == <>(agenda = <<>>)
=============================================================================
