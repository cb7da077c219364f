------------------------------ MODULE SccOrder ------------------------------
(***************************************************************************)
(* The order in which the linker's passes visit the functions of a         *)
(* program: Tarjan's strongly connected components of the call graph, by   *)
(* depth first search, and a bottom-up traversal of the graph of the       *)
(* components.  Vertices are numbered in the order of vertex_set(); the    *)
(* order of the edges of a vertex, and of the vertices in the queue of the *)
(* traversal, is left open.                                                *)
(***************************************************************************)
EXTENDS Integers, Sequences, FiniteSets

CONSTANTS Nodes,   \* functions of the program
          Graphs   \* call graphs to consider

ASSUME NodesAssumption == IsFiniteSet(Nodes) /\ Nodes \subseteq Nat \ {0}
ASSUME GraphsAssumption == Graphs \subseteq SUBSET (Nodes \X Nodes)

None == 0             \* null_vertex()
Unassigned == -1      \* numeric_limits<long>::max() in the component map

VARIABLES
  calls,        \* the edges of the call graph
  phase,        \* "search", then "traverse"
  color,        \* ColorMap
  here, rest,   \* the vertex whose edges are examined, and targets not yet seen
  stack,        \* the vertices above it, with the targets not yet seen
  time,         \* discover_time
  root, comp,   \* Tarjan's maps
  path,         \* Tarjan's stack
  total,        \* number of components found
  resolved,     \* of a component: its edges whose target has been visited
  queue,
  order         \* dataSCCs: the components in the order they are listed

search == <<color, here, rest, stack, time, root, comp, path, total>>
vars == <<calls, phase, search, resolved, queue, order>>

Callees(v) == {w \in Nodes : <<v, w>> \in calls}
White == {v \in Nodes : color[v] = "white"}

Init ==
  /\ calls \in Graphs
  /\ phase = "search"
  /\ color = [v \in Nodes |-> "white"]
  /\ here = None /\ rest = {} /\ stack = <<>>
  /\ time = [v \in Nodes |-> 0]
  /\ root = [v \in Nodes |-> None]
  /\ comp = [v \in Nodes |-> 0]
  /\ path = <<>> /\ total = 0
  /\ resolved = <<>> /\ queue = {} /\ order = <<>>
-----------------------------------------------------------------------------
(* Depth first search *)

\* The search turns to v: discover_vertex().
Discover(v) ==
  /\ color' = [color EXCEPT ![v] = "gray"]
  /\ here' = v /\ rest' = Callees(v)
  /\ root' = [root EXCEPT ![v] = v]
  /\ comp' = [comp EXCEPT ![v] = Unassigned]
  /\ time' = [time EXCEPT ![v] = Cardinality(Nodes \ White)]
  /\ path' = <<v>> \o path

Start ==
  /\ phase = "search" /\ here = None
  /\ \E v \in White : (\A w \in White : v <= w) /\ Discover(v)
  /\ UNCHANGED <<calls, phase, stack, total, resolved, queue, order>>

Examine ==
  /\ here # None
  /\ \E w \in rest :
       IF color[w] = "white"
       THEN Discover(w) /\ stack' = <<[v |-> here, rest |-> rest \ {w}]>> \o stack
       ELSE rest' = rest \ {w} /\ UNCHANGED <<color, here, stack, time, root, comp, path>>
  /\ UNCHANGED <<calls, phase, total, resolved, queue, order>>

\* min_discover_time()
Earliest(S) == CHOOSE r \in S : \A q \in S : time[r] <= time[q]

\* A callee counts as long as its component is open.
OnPath(w) == comp[w] = Unassigned

\* The root of v when v is finished.
NewRoot(v) == Earliest({root[v]} \cup {root[w] : w \in {u \in Callees(v) : OnPath(u)}})

\* finish_vertex(), and the return to the vertex above.
Finish ==
  /\ here # None /\ rest = {}
  /\ color' = [color EXCEPT ![here] = "black"]
  /\ LET k == CHOOSE i \in 1 .. Len(path) : path[i] = here
         popped == {path[i] : i \in 1 .. k} IN
     IF NewRoot(here) = here
     THEN /\ comp' = [w \in Nodes |-> IF w \in popped THEN total ELSE comp[w]]
          /\ root' = [w \in Nodes |-> IF w \in popped THEN here ELSE root[w]]
          /\ path' = SubSeq(path, k + 1, Len(path))
          /\ total' = total + 1
     ELSE root' = [root EXCEPT ![here] = NewRoot(here)] /\ UNCHANGED <<comp, path, total>>
  /\ IF stack = <<>>
     THEN here' = None /\ UNCHANGED <<rest, stack>>
     ELSE here' = Head(stack).v /\ rest' = Head(stack).rest /\ stack' = Tail(stack)
  /\ UNCHANGED <<calls, phase, time, resolved, queue, order>>
-----------------------------------------------------------------------------
(* The graph of the components, and its traversal *)

Components == 0 .. total - 1

MutantArcs == {<<comp[e[1]], comp[e[2]]>> : e \in calls}

\* The edges of strong_components_graph().
Arcs == {a \in {<<comp[e[1]], comp[e[2]]>> : e \in calls} : a[1] # a[2]}

OutArcs(c) == {a \in Arcs : a[1] = c}

Condense ==
  /\ phase = "search" /\ here = None /\ White = {}
  /\ phase' = "traverse"
  /\ resolved' = [c \in Components |-> 0]
  /\ queue' = {c \in Components : OutArcs(c) = {}}
  /\ UNCHANGED <<calls, search, order>>

MutantReady(b) == resolved[b] + 1 >= Cardinality(OutArcs(b)) - 1

\* May b be queued when one more of its edges is resolved?
Ready(b) == resolved[b] + 1 = Cardinality(OutArcs(b))

\* bottom_up_traversal() lists c.
Visit ==
  \E c \in queue :
    LET above == {b \in Components : <<b, c>> \in Arcs} IN
    /\ order' = Append(order, c)
    /\ resolved' = [b \in Components |-> resolved[b] + (IF b \in above THEN 1 ELSE 0)]
    /\ queue' = (queue \ {c}) \cup {b \in above : Ready(b)}
    /\ UNCHANGED <<calls, phase, search>>

Next == Start \/ Examine \/ Finish \/ Condense \/ Visit
Spec == Init /\ [][Next]_vars
FairSpec == Spec /\ WF_vars(Next)
-----------------------------------------------------------------------------
Listed == {order[i] : i \in 1 .. Len(order)}

\* The functions of the components listed so far.
Done == {v \in Nodes : phase = "traverse" /\ comp[v] \in Listed}

Order == INSTANCE CalleeFirst WITH done <- Done

\* The list is one the passes rely on ("callee before caller"): every group is
\* a strongly connected component of the call graph, listed once and after
\* all functions its members call.
ListsCalleesFirst == Order!Spec

\* A component is listed once, and only after the components it calls.
ComponentsInOrder ==
  [][order' # order =>
       \E c \in Components \ Listed :
         order' = Append(order, c) /\ \A a \in OutArcs(c) : a[2] \in Listed]_vars

\* The edges of a component whose targets are listed.
Resolved(b) == {a \in OutArcs(b) : a[2] \in Listed}

\* The inductive invariant: the counters of bottom_up_traversal() are right, and
\* what is in the queue or listed has no edge left.
OrderInv ==
  /\ calls \subseteq Nodes \X Nodes /\ total \in Nat
  /\ phase \in {"search", "traverse"}
  /\ phase = "search" => queue = {} /\ order = <<>>
  /\ phase = "traverse" =>
       /\ here = None
       /\ order \in Seq(Components) /\ queue \subseteq Components \ Listed
       /\ resolved = [b \in Components |-> Cardinality(Resolved(b))]
       /\ \A b \in Listed \cup queue : Resolved(b) = OutArcs(b)

\* Every function is listed in the end.
AllListed == <>(Done = Nodes)
-----------------------------------------------------------------------------
(* The inductive invariant of the search *)

Gray == {v \in Nodes : color[v] = "gray"}
Black == {v \in Nodes : color[v] = "black"}
Open == {v \in Nodes : OnPath(v)}
Found == {v \in Nodes \ White : ~OnPath(v)}

\* The calls of v have been examined, but for those in S.
Examined(v, S) == S \subseteq Callees(v) /\ (Callees(v) \ S) \cap White = {}

SearchType ==
  /\ calls \subseteq Nodes \X Nodes
  /\ color \in [Nodes -> {"white", "gray", "black"}]
  /\ here \in Nodes \cup {None} /\ rest \subseteq Nodes
  /\ stack \in Seq([v : Nodes, rest : SUBSET Nodes])
  /\ time \in [Nodes -> Nat]
  /\ root \in [Nodes -> Nodes \cup {None}]
  /\ comp \in [Nodes -> Nat \cup {Unassigned}]
  /\ path \in Seq(Nodes) /\ total \in Nat

\* Vertices are numbered in the order they are discovered.
TimeInv ==
  /\ \A v \in Nodes \ White : time[v] < Cardinality(Nodes \ White)
  /\ \A v, w \in Nodes \ White : time[v] = time[w] => v = w

\* The gray vertices are a path in the call graph that ends with "here".
LineInv ==
  /\ here = None => Gray = {} /\ stack = <<>>
  /\ here # None => here \in Gray /\ Examined(here, rest)
  /\ here # None /\ stack # <<>> => <<stack[1].v, here>> \in calls
  /\ \A i \in 1 .. Len(stack) :
       /\ stack[i].v \in Gray /\ Examined(stack[i].v, stack[i].rest)
       /\ time[stack[i].v] < time[here]
       /\ i + 1 \in 1 .. Len(stack) => <<stack[i + 1].v, stack[i].v>> \in calls
       /\ \A j \in 1 .. Len(stack) : i < j => time[stack[j].v] < time[stack[i].v]
  /\ \A g \in Gray : g = here \/ \E i \in 1 .. Len(stack) : g = stack[i].v

\* Tarjan's stack holds the vertices whose component is open, the latest first.
PathInv ==
  /\ Open = {path[i] : i \in 1 .. Len(path)}
  /\ \A i, j \in 1 .. Len(path) : i < j => time[path[j]] < time[path[i]]
  /\ Open \subseteq Gray \cup Black /\ Gray \subseteq Open

\* The root of an open vertex is open, can be reached from it, and is not later
\* than any open vertex that is called.
RootInv ==
  /\ \A v \in Open : root[v] \in Open /\ time[root[v]] <= time[v] /\ Order!Reaches(v, root[v])
  /\ \A v \in Black : Examined(v, {})
  /\ \A v \in Open \cap Black, w \in Open : <<v, w>> \in calls => time[root[v]] <= time[w]

\* A gray vertex reaches what is open and was discovered after it; an open
\* vertex reaches a gray one that was discovered before it.
OpenInv ==
  \A v \in Open :
    /\ \A g \in Gray : time[g] <= time[v] => Order!Reaches(g, v)
    /\ \E g \in Gray : time[g] <= time[v] /\ Order!Reaches(v, g)

\* The last gray vertex before an open black one calls a vertex that is not later
\* and whose root is as early.
LowInv ==
  \A v \in Open \cap Black, g \in Gray :
    time[g] < time[v] /\ (\A h \in Gray : time[h] <= time[g] \/ time[v] < time[h]) =>
      \E w \in Open \cap Black :
        <<g, w>> \in calls /\ time[w] <= time[v] /\ time[root[w]] <= time[root[v]]

\* The components found are strongly connected components, and complete.
FoundInv ==
  /\ \A v \in Found :
       /\ comp[v] \in Components /\ Callees(v) \subseteq Found
       /\ \A w \in Nodes : Order!Circle(v, w) <=> w \in Found /\ comp[w] = comp[v]
  /\ \A c \in Components : \E v \in Found : comp[v] = c

\* The traversal begins when the search has been everywhere.
SearchDone == phase = "traverse" => White = {}

TarjanInv ==
  SearchType /\ TimeInv /\ LineInv /\ PathInv /\ RootInv /\ OpenInv /\ LowInv /\ FoundInv
=============================================================================
