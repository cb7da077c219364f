---------------------------- MODULE SccOrderProofs ----------------------------
(***************************************************************************)
(* For every call graph, and every order of its edges: the search finds    *)
(* the strongly connected components; the bottom-up traversal lists a      *)
(* component once, and after the components it has edges to; and both      *)
(* together implement CalleeFirst.                                         *)
(***************************************************************************)
EXTENDS SccOrder, FiniteSetTheorems, WellFoundedInduction, TLAPS

\* The graph of the components is finite.
LEMMA ArcsFinite ==
  ASSUME OrderInv
  PROVE  /\ IsFiniteSet(Arcs)
         /\ \A c : IsFiniteSet(OutArcs(c)) /\ IsFiniteSet(Resolved(c))
<1>1. IsFiniteSet(Nodes \X Nodes) BY NodesAssumption, FS_Product, Zenon
<1>2. IsFiniteSet(calls) BY <1>1, FS_Subset, Zenon DEF OrderInv
<1> DEFINE F == [e \in calls |-> <<comp[e[1]], comp[e[2]]>>]
<1>3. IsFiniteSet({F[e] : e \in calls})
  <2>1. F \in Surjection(calls, {F[e] : e \in calls}) BY Zenon DEF Surjection
  <2> QED BY <1>2, <2>1, FS_Surjection, Zenon
<1>4. Arcs \subseteq {F[e] : e \in calls} BY Zenon DEF Arcs
<1>5. IsFiniteSet(Arcs) BY <1>3, <1>4, FS_Subset, Zenon
<1>6. ASSUME NEW c PROVE OutArcs(c) \subseteq Arcs /\ Resolved(c) \subseteq Arcs
  BY Zenon DEF OutArcs, Resolved
<1> QED BY <1>5, <1>6, FS_Subset, Zenon

\* What an appended component adds to the list.
LEMMA ListedAppend ==
  ASSUME NEW S, order \in Seq(S), NEW c \in S, order' = Append(order, c)
  PROVE  order' \in Seq(S) /\ Listed' = Listed \cup {c}
<1>1. /\ order' \in Seq(S) /\ Len(order') = Len(order) + 1
      /\ order'[Len(order) + 1] = c
      /\ \A i \in 1 .. Len(order) : order'[i] = order[i]
  OBVIOUS
<1>2. 1 .. Len(order') = (1 .. Len(order)) \cup {Len(order) + 1} BY <1>1
<1> QED BY <1>1, <1>2 DEF Listed

\* When c is listed, the count of the resolved edges of b grows by one if there
\* is an edge from b to c.
LEMMA CountGrows ==
  ASSUME OrderInv, UNCHANGED <<calls, comp>>, NEW c, c \notin Listed,
         Listed' = Listed \cup {c}, NEW b
  PROVE  /\ OutArcs(b)' = OutArcs(b) /\ Arcs' = Arcs
         /\ <<b, c>> \notin Arcs => Resolved(b)' = Resolved(b)
         /\ <<b, c>> \in Arcs => /\ Resolved(b)' = Resolved(b) \cup {<<b, c>>}
                                 /\ Cardinality(Resolved(b)') = Cardinality(Resolved(b)) + 1
<1>1. OutArcs(b)' = OutArcs(b) /\ Arcs' = Arcs BY Zenon DEF OutArcs, Arcs
<1>2. \A a \in OutArcs(b) : a = <<b, a[2]>> /\ a \in Arcs BY DEF OutArcs, Arcs
<1>3. Resolved(b)' = {a \in OutArcs(b) : a[2] \in Listed \cup {c}} BY <1>1, Zenon DEF Resolved
<1>4. <<b, c>> \notin Arcs => Resolved(b)' = Resolved(b) BY <1>2, <1>3, Zenon DEF Resolved
<1>5. ASSUME <<b, c>> \in Arcs
      PROVE  /\ Resolved(b)' = Resolved(b) \cup {<<b, c>>}
             /\ Cardinality(Resolved(b)') = Cardinality(Resolved(b)) + 1
  <2>1. <<b, c>> \in OutArcs(b) BY <1>5, Zenon DEF OutArcs
  <2>2. Resolved(b)' = Resolved(b) \cup {<<b, c>>} BY <2>1, <1>2, <1>3, Zenon DEF Resolved
  <2>3. <<b, c>> \notin Resolved(b) BY Zenon DEF Resolved
  <2>4. IsFiniteSet(Resolved(b)) BY ArcsFinite, Zenon
  <2> QED BY <2>2, <2>3, <2>4, FS_AddElement, Zenon
<1> QED BY <1>1, <1>4, <1>5, Zenon

\* One step of the traversal.
LEMMA VisitStep ==
  ASSUME OrderInv, Visit
  PROVE  /\ OrderInv'
         /\ \E c \in Components \ Listed :
              order' = Append(order, c) /\ \A a \in OutArcs(c) : a[2] \in Listed
<1>1. PICK c \in queue :
        LET above == {b \in Components : <<b, c>> \in Arcs} IN
        /\ order' = Append(order, c)
        /\ resolved' = [b \in Components |-> resolved[b] + (IF b \in above THEN 1 ELSE 0)]
        /\ queue' = (queue \ {c}) \cup {b \in above : Ready(b)}
        /\ UNCHANGED <<calls, phase, search>>
  BY Zenon DEF Visit
<1> DEFINE above == {b \in Components : <<b, c>> \in Arcs}
<1>2. phase = "traverse" BY <1>1, Zenon DEF OrderInv
<1>3. /\ order \in Seq(Components) /\ queue \subseteq Components \ Listed /\ here = None
      /\ resolved = [b \in Components |-> Cardinality(Resolved(b))]
      /\ \A b \in Listed \cup queue : Resolved(b) = OutArcs(b)
  BY <1>2, Zenon DEF OrderInv
<1>4. UNCHANGED <<calls, comp, total, here, phase>> /\ Components' = Components
  BY <1>1, Zenon DEF search, Components
<1>5. c \in Components /\ c \notin Listed BY <1>1, <1>3, Zenon
<1>6. order' \in Seq(Components) /\ Listed' = Listed \cup {c}
  BY <1>1, <1>3, <1>5, ListedAppend, Zenon
<1>7. \A a \in OutArcs(c) : a[2] \in Listed BY <1>1, <1>3, Zenon DEF Resolved
<1>8. \A b \in Components :
        /\ OutArcs(b)' = OutArcs(b)
        /\ <<b, c>> \notin Arcs => Resolved(b)' = Resolved(b)
        /\ <<b, c>> \in Arcs => /\ Resolved(b)' = Resolved(b) \cup {<<b, c>>}
                                /\ Cardinality(Resolved(b)') = Cardinality(Resolved(b)) + 1
  BY <1>4, <1>5, <1>6, CountGrows, Zenon
<1>9. \A b \in Components : Cardinality(Resolved(b)) \in Nat
  BY ArcsFinite, FS_CardinalityType, Zenon
<1>10. resolved' = [b \in Components |-> Cardinality(Resolved(b)')]
  BY <1>1, <1>3, <1>8, <1>9
<1>11. ASSUME NEW b \in above PROVE b \in Components \ (Listed \cup {c})
  <2>1. b # c BY Zenon DEF Arcs
  <2>2. <<b, c>> \in OutArcs(b) \ Resolved(b) BY <1>5, Zenon DEF OutArcs, Resolved
  <2> QED BY <2>1, <2>2, <1>3, Zenon
<1>12. queue' \subseteq Components \ Listed'
  BY <1>1, <1>3, <1>6, <1>11, Zenon
<1>13. ASSUME NEW b \in Listed' \cup queue' PROVE Resolved(b)' = OutArcs(b)'
  <2>0. b \in Components BY <1>3, <1>5, <1>6, <1>12 DEF Listed
  <2>1. CASE b \in Listed \cup queue
    <3>1. <<b, c>> \notin Arcs
      BY <2>1, <1>3, <1>5 DEF OutArcs, Resolved
    <3> QED BY <3>1, <2>0, <2>1, <1>3, <1>8, Zenon
  <2>2. CASE b \in above /\ Ready(b)
    <3>1. Cardinality(Resolved(b)') = Cardinality(OutArcs(b))
      BY <2>0, <2>2, <1>3, <1>8, Zenon DEF Ready
    <3>2. Resolved(b)' \subseteq OutArcs(b)
      BY <2>0, <1>8, Zenon DEF Resolved
    <3>3. IsFiniteSet(OutArcs(b)) BY ArcsFinite, Zenon
    <3>4. Resolved(b)' = OutArcs(b) BY <3>1, <3>2, <3>3, FS_Subset, Zenon
    <3> QED BY <3>4, <2>0, <1>8, Zenon
  <2> QED BY <2>1, <2>2, <1>1, <1>6, Zenon
<1>14. OrderInv'
  BY <1>2, <1>3, <1>4, <1>6, <1>10, <1>12, <1>13, Zenon DEF OrderInv
<1> QED BY <1>1, <1>5, <1>7, <1>14, Zenon

\* Every step preserves the invariant, and lists components in order.
LEMMA Step ==
  ASSUME OrderInv, [Next]_vars
  PROVE  /\ OrderInv'
         /\ order' # order =>
              \E c \in Components \ Listed :
                order' = Append(order, c) /\ \A a \in OutArcs(c) : a[2] \in Listed
<1>1. CASE UNCHANGED vars
  <2>1. UNCHANGED <<calls, total, phase, queue, order, here, resolved, comp>> BY <1>1, Zenon DEF vars, search
  <2>2. Components' = Components /\ Listed' = Listed BY <2>1, Zenon DEF Components, Listed
  <2>3. \A b : OutArcs(b)' = OutArcs(b) BY <2>1, Zenon DEF OutArcs, Arcs
  <2>4. \A b : Resolved(b)' = Resolved(b) BY <2>2, <2>3, Zenon DEF Resolved
  <2> QED BY <2>1, <2>2, <2>3, <2>4, Zenon DEF OrderInv
<1>2. CASE Start \/ Examine \/ Finish
  <2>1. phase = "search"
    BY <1>2, Zenon DEF Start, Examine, Finish, OrderInv
  <2>2. UNCHANGED <<calls, phase, resolved, queue, order>>
    BY <1>2, Zenon DEF Start, Examine, Finish
  <2>3. total' \in Nat
    BY <1>2 DEF Start, Examine, Finish, OrderInv
  <2> QED BY <2>1, <2>2, <2>3, Zenon DEF OrderInv
<1>3. CASE Condense
  <2>1. /\ phase = "search" /\ phase' = "traverse" /\ here' = None
        /\ UNCHANGED <<calls, total, comp, order>> /\ order = <<>>
        /\ resolved' = [c \in Components |-> 0]
        /\ queue' = {c \in Components : OutArcs(c) = {}}
    BY <1>3, Zenon DEF Condense, search, OrderInv
  <2>2. Listed' = {} BY <2>1 DEF Listed
  <2>3. Components' = Components /\ \A c : OutArcs(c)' = OutArcs(c)
    BY <2>1, Zenon DEF Components, OutArcs, Arcs
  <2>4. \A c : Resolved(c)' = {} BY <2>2, Zenon DEF Resolved
  <2>5. resolved' = [c \in Components' |-> Cardinality(Resolved(c)')]
    BY <2>1, <2>3, <2>4, FS_EmptySet, Zenon
  <2>6. order' \in Seq(Components') BY <2>1
  <2>7. queue' \subseteq Components' \ Listed' /\ \A b \in Listed' \cup queue' : Resolved(b)' = OutArcs(b)'
    BY <2>1, <2>2, <2>3, <2>4, Zenon
  <2> QED BY <2>1, <2>5, <2>6, <2>7, Zenon DEF OrderInv
<1>4. CASE Visit BY <1>4, VisitStep, Zenon
<1> QED BY <1>1, <1>2, <1>3, <1>4, Zenon DEF Next

\* The counters of bottom_up_traversal() are right in every reachable state.
THEOREM Invariant == Spec => []OrderInv
<1>1. Init => OrderInv BY GraphsAssumption DEF Init, OrderInv
<1>2. OrderInv /\ [Next]_vars => OrderInv' BY Step, Zenon
<1> QED BY <1>1, <1>2, PTL DEF Spec

\* For every call graph, bottom_up_traversal() lists a component once and after
\* the components it has edges to.
THEOREM InOrder == Spec => ComponentsInOrder
<1>1. OrderInv /\ [Next]_vars =>
        [order' # order =>
           \E c \in Components \ Listed :
             order' = Append(order, c) /\ \A a \in OutArcs(c) : a[2] \in Listed]_vars
  BY Step, Zenon
<1> QED BY Invariant, <1>1, PTL DEF Spec, ComponentsInOrder
-----------------------------------------------------------------------------
(* Tarjan's algorithm *)

\* Reachability is reflexive, transitive, and follows the calls.
LEMMA ReachFacts ==
  /\ \A a \in Nodes : Order!Reaches(a, a)
  /\ \A a, b \in Nodes : <<a, b>> \in calls => Order!Reaches(a, b)
  /\ \A a, b, c \in Nodes : Order!Reaches(a, b) /\ Order!Reaches(b, c) => Order!Reaches(a, c)
<1>1. ASSUME NEW a \in Nodes, NEW b \in Nodes, <<a, b>> \in calls PROVE Order!Reaches(a, b)
  <2> SUFFICES ASSUME NEW S \in SUBSET Nodes, a \in S, Order!Closed(S) PROVE b \in S
    BY Zenon DEF Order!Reaches
  <2>1. <<a, b>>[1] = a /\ <<a, b>>[2] = b OBVIOUS
  <2> QED BY <1>1, <2>1, Zenon DEF Order!Closed
<1> QED BY <1>1, Zenon DEF Order!Reaches

\* It does not change, as the call graph does not.
LEMMA ReachKept ==
  ASSUME UNCHANGED calls
  PROVE  /\ \A a, b : Order!Reaches(a, b)' <=> Order!Reaches(a, b)
         /\ \A a, b : Order!Circle(a, b)' <=> Order!Circle(a, b)
         /\ \A v : Callees(v)' = Callees(v)
<1>1. \A S : Order!Closed(S)' <=> Order!Closed(S) BY Zenon DEF Order!Closed
<1>2. \A a, b : Order!Reaches(a, b)' <=> Order!Reaches(a, b) BY <1>1, Zenon DEF Order!Reaches
<1> QED BY <1>2, Zenon DEF Order!Circle, Callees

\* What is reached from a set that the calls do not leave is in the set.
LEMMA StaysInside ==
  ASSUME calls \subseteq Nodes \X Nodes, NEW S \in SUBSET Nodes,
         \A v \in S : Callees(v) \subseteq S,
         NEW a \in S, NEW b \in Nodes, Order!Reaches(a, b)
  PROVE  b \in S
<1>1. Order!Closed(S)
  <2> SUFFICES ASSUME NEW e \in calls, e[1] \in S PROVE e[2] \in S
    BY Zenon DEF Order!Closed
  <2>1. e = <<e[1], e[2]>> /\ e[2] \in Nodes OBVIOUS
  <2>2. e[2] \in Callees(e[1]) BY <2>1, Zenon DEF Callees
  <2> QED BY <2>2, Zenon
<1> QED BY <1>1, Zenon DEF Order!Reaches

\* A set of vertices has one that was discovered first.
LEMMA EarliestIs ==
  ASSUME time \in [Nodes -> Nat], NEW S \in SUBSET Nodes, S # {}
  PROVE  Earliest(S) \in S /\ \A q \in S : time[Earliest(S)] <= time[q]
<1> DEFINE T == {time[q] : q \in S}
<1>1. T \subseteq Nat /\ T # {} BY Zenon
<1>2. PICK m \in T : \A n \in T : ~(<<n, m>> \in OpToRel(<, Nat))
  BY <1>1, NatLessThanWellFounded, WFMin, Zenon
<1>3. ASSUME NEW n \in T PROVE m <= n
  <2>1. m \in Nat /\ n \in Nat BY <1>1, Zenon
  <2>2. ~(<<n, m>> \in OpToRel(<, Nat)) BY <1>2, Zenon
  <2>3. ~(n < m) BY <2>1, <2>2 DEF OpToRel
  <2> QED BY <2>1, <2>3
<1>4. PICK r \in S : m = time[r] BY <1>2, Zenon
<1>5. \A q \in S : time[r] <= time[q] BY <1>3, <1>4, Zenon
<1> QED BY <1>5, Zenon DEF Earliest

\* What the colours say of a vertex.
LEMMA Colours ==
  ASSUME SearchType
  PROVE  /\ \A v \in Nodes : v \in White \/ v \in Gray \/ v \in Black
         /\ White \cap Gray = {} /\ White \cap Black = {} /\ Gray \cap Black = {}
         /\ Nodes \ White = Gray \cup Black
<1>1. \A v \in Nodes : color[v] = "white" \/ color[v] = "gray" \/ color[v] = "black"
  BY Zenon DEF SearchType
<1>2. \A v \in Nodes : ~(color[v] = "white" /\ color[v] = "gray")
        /\ ~(color[v] = "white" /\ color[v] = "black") /\ ~(color[v] = "gray" /\ color[v] = "black")
  OBVIOUS
<1> QED BY <1>1, <1>2, Zenon DEF White, Gray, Black

\* The last gray vertex is "here".
LEMMA HereLast ==
  ASSUME SearchType, LineInv, NEW g \in Gray
  PROVE  here \in Gray /\ here # None /\ time[g] <= time[here]
<1>1. here # None /\ here \in Gray BY Zenon DEF LineInv
<1>2. time[g] \in Nat /\ time[here] \in Nat BY <1>1, Zenon DEF SearchType, Gray
<1>3. g = here \/ time[g] < time[here] BY Zenon DEF LineInv
<1> QED BY <1>1, <1>2, <1>3

\* A sequence with a new first element.
LEMMA Cons ==
  ASSUME NEW S, NEW e \in S, NEW s \in Seq(S)
  PROVE  /\ <<e>> \o s \in Seq(S) /\ Len(<<e>> \o s) = Len(s) + 1 /\ Len(s) \in Nat
         /\ (<<e>> \o s)[1] = e
         /\ \A i \in 1 .. Len(s) + 1 : i = 1 \/ (i - 1 \in 1 .. Len(s) /\ (<<e>> \o s)[i] = s[i - 1])
         /\ \A i \in 1 .. Len(s) : i + 1 \in 1 .. Len(s) + 1 /\ (<<e>> \o s)[i + 1] = s[i]
OBVIOUS

\* A sequence without its first element.
LEMMA Rest ==
  ASSUME NEW S, NEW s \in Seq(S), s # <<>>
  PROVE  /\ Len(s) \in Nat /\ 1 \in 1 .. Len(s) /\ Head(s) = s[1] /\ s[1] \in S
         /\ Tail(s) \in Seq(S) /\ Len(Tail(s)) = Len(s) - 1
         /\ \A i \in 1 .. Len(Tail(s)) : i + 1 \in 1 .. Len(s) /\ Tail(s)[i] = s[i + 1] /\ 1 < i + 1
OBVIOUS

\* A sequence without its first k elements.
LEMMA Suffix ==
  ASSUME NEW S, NEW s \in Seq(S), NEW k \in 1 .. Len(s), NEW q, q = SubSeq(s, k + 1, Len(s))
  PROVE  /\ q \in Seq(S) /\ Len(q) = Len(s) - k
         /\ \A i \in 1 .. Len(q) : k + i \in 1 .. Len(s) /\ k < k + i /\ q[i] = s[k + i]
<1>1. Len(s) \in Nat /\ k \in Nat /\ 1 <= k /\ k <= Len(s) OBVIOUS
<1>2. \A i \in k + 1 .. Len(s) : s[i] \in S BY <1>1
<1>3. q \in Seq(S) /\ Len(q) = Len(s) - k BY <1>1, <1>2
<1>4. \A i \in 1 .. Len(s) - k : q[i] = s[k + i] BY <1>1
<1> QED BY <1>1, <1>3, <1>4, SMTT(60)

\* A new vertex is gray, open, and later than all others.
LEMMA DiscoverFacts ==
  ASSUME SearchType, TimeInv, PathInv, NEW w \in White, Discover(w), UNCHANGED calls
  PROVE  /\ w \in Nodes /\ w \notin Gray /\ w \notin Black /\ w \notin Open /\ w \notin Found
         /\ White' = White \ {w} /\ Gray' = Gray \cup {w} /\ Black' = Black
         /\ Open' = Open \cup {w} /\ Found' = Found
         /\ color' \in [Nodes -> {"white", "gray", "black"}] /\ time' \in [Nodes -> Nat]
         /\ \A v \in Nodes : v # w => time'[v] = time[v] /\ root'[v] = root[v] /\ comp'[v] = comp[v]
         /\ root'[w] = w /\ comp'[w] = Unassigned
         /\ \A v \in Gray \cup Black \cup Open : v # w /\ time[v] < time'[w]
         /\ Cardinality((Nodes \ White)') = time'[w] + 1
<1>1. w \in Nodes /\ color[w] = "white" BY Zenon DEF White
<1>2. w \notin Gray /\ w \notin Black BY <1>1, Colours, Zenon
<1>3. w \notin Open /\ w \notin Found BY <1>2, Zenon DEF PathInv, Found
<1>4. color' = [color EXCEPT ![w] = "gray"] BY Zenon DEF Discover
<1>5. color' \in [Nodes -> {"white", "gray", "black"}] BY <1>1, <1>4 DEF SearchType
<1>6. \A v \in Nodes : color'[v] = IF v = w THEN "gray" ELSE color[v] BY <1>4, Zenon DEF SearchType
<1>7. White' = White \ {w} /\ Gray' = Gray \cup {w} /\ Black' = Black
  BY <1>1, <1>6 DEF White, Gray, Black
<1>8. /\ \A v \in Nodes : v # w => time'[v] = time[v] /\ root'[v] = root[v] /\ comp'[v] = comp[v]
      /\ root'[w] = w /\ comp'[w] = Unassigned /\ time'[w] = Cardinality(Nodes \ White)
  BY <1>1, Zenon DEF Discover, SearchType
<1>9. Open' = Open \cup {w} BY <1>1, <1>8, Zenon DEF Open, OnPath
<1>10. Found' = Found BY <1>1, <1>3, <1>7, <1>8, Zenon DEF Found, OnPath
<1>11. IsFiniteSet(Nodes \ White) BY NodesAssumption, FS_Difference, Zenon
<1>12. (Nodes \ White)' = (Nodes \ White) \cup {w} /\ w \notin Nodes \ White BY <1>1, <1>7, Zenon
<1>13. Cardinality((Nodes \ White)') = time'[w] + 1 BY <1>8, <1>11, <1>12, FS_AddElement, ZenonT(60)
<1>14. time'[w] \in Nat BY <1>8, <1>11, FS_CardinalityType, Zenon
<1>15. time' \in [Nodes -> Nat] BY <1>1, <1>8, <1>14, Zenon DEF SearchType, Discover
<1>16. ASSUME NEW v \in Gray \cup Black PROVE time[v] < time'[w]
  <2>1. v \in Nodes \ White BY Colours, Zenon
  <2> QED BY <1>8, <2>1, Zenon DEF TimeInv
<1>17. \A v \in Gray \cup Black \cup Open : v # w /\ time[v] < time'[w]
  BY <1>2, <1>3, <1>16, Zenon DEF PathInv
<1> QED BY <1>1, <1>2, <1>3, <1>5, <1>7, <1>8, <1>9, <1>10, <1>13, <1>15, <1>17, Zenon

\* The root of a vertex is reached in the next state if it was before.
LEMMA RootReach ==
  ASSUME UNCHANGED calls, NEW v, NEW r, Order!Reaches(v, r), root'[v] = r
  PROVE  Order!Reaches(v, root[v])'
BY Zenon DEF Order!Reaches, Order!Closed

\* The calls of "here" that have been examined stay so.
LEMMA HereExamined ==
  ASSUME UNCHANGED calls, White' \subseteq White, NEW v, NEW S, Examined(v, S), here' = v, rest' = S
  PROVE  Examined(here, rest)'
BY Zenon DEF Examined, Callees

\* And so do those of the vertices above it.
LEMMA FrameExamined ==
  ASSUME UNCHANGED calls, White' \subseteq White, NEW f, Examined(f.v, f.rest), NEW i, stack'[i] = f
  PROVE  Examined(stack[i].v, stack[i].rest)'
BY Zenon DEF Examined, Callees

\* The components found stay what they are while no other one is found.
LEMMA FoundKept ==
  ASSUME FoundInv, UNCHANGED <<calls, total>>, Found' = Found, \A v \in Found : comp'[v] = comp[v]
  PROVE  FoundInv'
<1>1. /\ \A a, b : Order!Circle(a, b)' <=> Order!Circle(a, b)
      /\ \A v : Callees(v)' = Callees(v)
      /\ Components' = Components
  BY ReachKept, Zenon DEF Components
<1>2. ASSUME NEW v \in Found' PROVE comp'[v] \in Components' /\ Callees(v)' \subseteq Found'
  <2>1. v \in Found /\ comp'[v] = comp[v] BY Zenon
  <2> QED BY <1>1, <2>1, Zenon DEF FoundInv
<1>3. ASSUME NEW v \in Found', NEW u \in Nodes
      PROVE  Order!Circle(v, u)' <=> u \in Found' /\ comp'[u] = comp'[v]
  <2>1. v \in Found /\ comp'[v] = comp[v] /\ (u \in Found => comp'[u] = comp[u]) BY Zenon
  <2>2. Order!Circle(v, u) <=> u \in Found /\ comp[u] = comp[v] BY <2>1, Zenon DEF FoundInv
  <2> QED BY <1>1, <2>1, <2>2, Zenon
<1>4. ASSUME NEW c \in Components' PROVE \E v \in Found' : comp'[v] = c
  <2>1. PICK v \in Found : comp[v] = c BY <1>1, Zenon DEF FoundInv
  <2> QED BY <2>1, Zenon
<1> QED BY <1>2, <1>3, <1>4, Zenon DEF FoundInv

\* The search turns to a new vertex.
LEMMA DiscoverKeeps ==
  ASSUME TarjanInv, NEW w \in White, Discover(w), UNCHANGED <<calls, total>>,
         \/ here = None /\ stack' = stack
         \/ here # None /\ w \in rest /\ stack' = <<[v |-> here, rest |-> rest \ {w}]>> \o stack
  PROVE  TarjanInv'
<1>0. SearchType /\ TimeInv /\ LineInv /\ PathInv /\ RootInv /\ OpenInv /\ LowInv /\ FoundInv
  BY Zenon DEF TarjanInv
<1>1. /\ w \in Nodes /\ w \notin Gray /\ w \notin Black /\ w \notin Open /\ w \notin Found
      /\ White' = White \ {w} /\ Gray' = Gray \cup {w} /\ Black' = Black
      /\ Open' = Open \cup {w} /\ Found' = Found
      /\ color' \in [Nodes -> {"white", "gray", "black"}] /\ time' \in [Nodes -> Nat]
      /\ \A v \in Nodes : v # w => time'[v] = time[v] /\ root'[v] = root[v] /\ comp'[v] = comp[v]
      /\ root'[w] = w /\ comp'[w] = Unassigned
      /\ \A v \in Gray \cup Black \cup Open : v # w /\ time[v] < time'[w]
      /\ Cardinality((Nodes \ White)') = time'[w] + 1
  BY <1>0, DiscoverFacts, Zenon
<1>2. /\ \A a, b : Order!Reaches(a, b)' <=> Order!Reaches(a, b)
      /\ \A a, b : Order!Circle(a, b)' <=> Order!Circle(a, b)
      /\ \A v : Callees(v)' = Callees(v)
  BY ReachKept, Zenon
<1>3. here' = w /\ rest' = Callees(w) /\ path' = <<w>> \o path /\ Components' = Components
  BY Zenon DEF Discover, Components
<1>4. w # None /\ None \notin Nodes BY <1>1, NodesAssumption DEF None
<1>5. Gray \subseteq Nodes /\ Black \subseteq Nodes /\ Open \subseteq Nodes /\ Found \subseteq Nodes
  BY Zenon DEF Gray, Black, Open, Found
<1>6. \A v \in Gray \cup Black \cup Open : time'[v] = time[v] /\ time[v] \in Nat /\ time[v] < time'[w] /\ v # w
  BY <1>0, <1>1, <1>5, Zenon DEF SearchType
<1>7. time'[w] \in Nat BY <1>1, Zenon
<1>10. SearchType'
  <2>1. root' \in [Nodes -> Nodes \cup {None}] /\ comp' \in [Nodes -> Nat \cup {Unassigned}]
    BY <1>0, <1>1, Zenon DEF Discover, SearchType
  <2>2. path' \in Seq(Nodes) BY <1>0, <1>1, <1>3, Cons, Zenon DEF SearchType
  <2>3. stack' \in Seq([v : Nodes, rest : SUBSET Nodes])
    <3>1. CASE stack' = stack BY <1>0, <3>1, Zenon DEF SearchType
    <3>2. CASE here # None /\ stack' = <<[v |-> here, rest |-> rest \ {w}]>> \o stack
      <4>1. [v |-> here, rest |-> rest \ {w}] \in [v : Nodes, rest : SUBSET Nodes]
        BY <1>0, <3>2 DEF SearchType
      <4> QED BY <1>0, <3>2, <4>1, Cons, Zenon DEF SearchType
    <3> QED BY <3>1, <3>2, Zenon
  <2>4. Callees(w) \subseteq Nodes BY Zenon DEF Callees
  <2> QED BY <1>0, <1>1, <1>3, <2>1, <2>2, <2>3, <2>4, Zenon DEF SearchType
<1>11. TimeInv'
  <2>1. (Nodes \ White)' = (Gray \cup Black) \cup {w} BY <1>0, <1>1, Colours, ZenonT(60)
  <2>2. ASSUME NEW v \in (Nodes \ White)' PROVE time'[v] <= time'[w] /\ (time'[v] = time'[w] => v = w)
    BY <1>6, <1>7, <2>1
  <2>3. ASSUME NEW v \in (Nodes \ White)' PROVE time'[v] < Cardinality((Nodes \ White)')
    BY <1>1, <1>6, <1>7, <2>1, <2>2, SMTT(60)
  <2>4. ASSUME NEW v \in (Nodes \ White)', NEW u \in (Nodes \ White)', time'[v] = time'[u]
        PROVE  v = u
    <3>1. CASE v = w BY <2>2, <2>4, <3>1, Zenon
    <3>2. CASE u = w BY <2>2, <2>4, <3>2, Zenon
    <3>3. CASE v # w /\ u # w
      <4>1. v \in Nodes \ White /\ u \in Nodes \ White BY <1>1, <3>3, Zenon
      <4>2. time[v] = time[u] BY <1>1, <2>4, <3>3, <4>1, Zenon
      <4> QED BY <1>0, <4>1, <4>2, Zenon DEF TimeInv
    <3> QED BY <3>1, <3>2, <3>3, Zenon
  <2> QED BY <2>3, <2>4, Zenon DEF TimeInv
<1>12. PathInv'
  <2>1. /\ path' \in Seq(Nodes) /\ Len(path') = Len(path) + 1 /\ Len(path) \in Nat /\ path'[1] = w
        /\ \A i \in 1 .. Len(path) + 1 : i = 1 \/ (i - 1 \in 1 .. Len(path) /\ path'[i] = path[i - 1])
        /\ \A i \in 1 .. Len(path) : i + 1 \in 1 .. Len(path) + 1 /\ path'[i + 1] = path[i]
    <3>1. path \in Seq(Nodes) /\ w \in Nodes BY <1>0, <1>1, Zenon DEF SearchType
    <3>2. path' = <<w>> \o path BY <1>3, Zenon
    <3> QED BY <3>1, <3>2, Cons, SMTT(60)
  <2>2. 1 \in 1 .. Len(path') BY <2>1
  <2>3. Open' = {path'[i] : i \in 1 .. Len(path')}
    <3>1. Open' = Open \cup {w} /\ Open = {path[i] : i \in 1 .. Len(path)} BY <1>0, <1>1, Zenon DEF PathInv
    <3>2. \A i \in 1 .. Len(path') : path'[i] \in Open' BY <2>1, <3>1, Zenon
    <3>3. ASSUME NEW v \in Open PROVE \E i \in 1 .. Len(path') : v = path'[i]
      <4>1. PICK i \in 1 .. Len(path) : v = path[i] BY <3>1, Zenon
      <4>2. i + 1 \in 1 .. Len(path') /\ path'[i + 1] = v BY <2>1, <4>1, Zenon
      <4> QED BY <4>2, Zenon
    <3>4. \E i \in 1 .. Len(path') : w = path'[i] BY <2>1, <2>2, Zenon
    <3> QED BY <3>1, <3>2, <3>3, <3>4, ZenonT(60)
  <2>4. ASSUME NEW i \in 1 .. Len(path'), NEW j \in 1 .. Len(path'), i < j
        PROVE  time'[path'[j]] < time'[path'[i]]
    <3>1. j # 1 /\ j - 1 \in 1 .. Len(path) /\ path'[j] = path[j - 1] BY <2>1, <2>4, SMTT(60)
    <3>2. path[j - 1] \in Open BY <1>0, <3>1, Zenon DEF PathInv
    <3>3. CASE i = 1 BY <1>6, <2>1, <3>1, <3>2, <3>3, Zenon
    <3>4. CASE i # 1
      <4>1. i - 1 \in 1 .. Len(path) /\ path'[i] = path[i - 1] /\ i - 1 < j - 1 BY <2>1, <2>4, <3>1, <3>4, SMTT(60)
      <4>2. path[i - 1] \in Open BY <1>0, <4>1, Zenon DEF PathInv
      <4>3. time[path[j - 1]] < time[path[i - 1]] BY <1>0, <3>1, <4>1, Zenon DEF PathInv
      <4> QED BY <1>6, <3>1, <3>2, <4>1, <4>2, <4>3, ZenonT(60)
    <3> QED BY <3>3, <3>4, ZenonT(60)
  <2> QED BY <1>0, <1>1, <2>3, <2>4, ZenonT(60) DEF PathInv
<1>13. \A v, S : v # w /\ Examined(v, S) => Examined(v, S)'
  BY <1>1, <1>2, Zenon DEF Examined
<1>14. LineInv'
  <2>0. White' \subseteq White BY <1>1, Zenon
  <2>1. Examined(here, rest)' BY <1>3, <2>0, HereExamined, Zenon DEF Examined
  <2>2. CASE here = None /\ stack' = stack
    <3>1. Gray' = {w} /\ stack' = <<>> BY <1>0, <1>1, <2>2, Zenon DEF LineInv
    <3>2. \A i \in 1 .. Len(stack') : FALSE BY <3>1
    <3> QED BY <1>3, <1>4, <2>1, <3>1, <3>2, Zenon DEF LineInv
  <2>3. CASE here # None /\ w \in rest /\ stack' = <<[v |-> here, rest |-> rest \ {w}]>> \o stack
    <3> DEFINE e == [v |-> here, rest |-> rest \ {w}]
    <3>1. e \in [v : Nodes, rest : SUBSET Nodes] /\ e.v = here /\ e.rest = rest \ {w}
      BY <1>0, <2>3 DEF SearchType
    <3> HIDE DEF e
    <3>2. /\ Len(stack') = Len(stack) + 1 /\ Len(stack) \in Nat /\ stack'[1] = e
          /\ \A i \in 1 .. Len(stack) + 1 : i = 1 \/ (i - 1 \in 1 .. Len(stack) /\ stack'[i] = stack[i - 1])
          /\ stack \in Seq([v : Nodes, rest : SUBSET Nodes])
      <4>1. stack \in Seq([v : Nodes, rest : SUBSET Nodes]) BY <1>0, Zenon DEF SearchType
      <4>2. stack' = <<e>> \o stack BY <2>3, Zenon DEF e
      <4> HIDE DEF e
      <4> QED BY <3>1, <4>1, <4>2, Cons, SMTT(60)
    <3>3. here \in Gray /\ here # w /\ Examined(here, rest) BY <1>0, <1>1, <2>3, Zenon DEF LineInv
    <3>4. Examined(here, rest) /\ <<here, w>> \in calls
      BY <2>3, <3>3, Zenon DEF Examined, Callees
    <3>5. \A k \in 1 .. Len(stack) :
            /\ stack[k].v \in Gray /\ Examined(stack[k].v, stack[k].rest)
            /\ time[stack[k].v] < time[here]
            /\ k + 1 \in 1 .. Len(stack) => <<stack[k + 1].v, stack[k].v>> \in calls
            /\ \A j \in 1 .. Len(stack) : k < j => time[stack[j].v] < time[stack[k].v]
      BY <1>0, Zenon DEF LineInv
    <3>6. ASSUME NEW i \in 1 .. Len(stack')
          PROVE  /\ stack'[i].v \in Gray' /\ Examined(stack[i].v, stack[i].rest)'
                 /\ time'[stack'[i].v] < time'[here']
                 /\ i + 1 \in 1 .. Len(stack') => <<stack'[i + 1].v, stack'[i].v>> \in calls'
                 /\ \A j \in 1 .. Len(stack') : i < j => time'[stack'[j].v] < time'[stack'[i].v]
      <4>1. CASE i = 1
        <5>1. stack'[i].v = here /\ stack'[i].rest = rest \ {w} BY <3>1, <3>2, <4>1, Zenon
        <5>2. time'[here] < time'[w] BY <1>6, <3>3, Zenon
        <5>3. ASSUME i + 1 \in 1 .. Len(stack') PROVE <<stack'[i + 1].v, stack'[i].v>> \in calls'
          <6>1. 2 \in 1 .. Len(stack) + 1 /\ 2 # 1 /\ 2 - 1 = 1 /\ i + 1 = 2 /\ stack # <<>>
            BY <3>2, <4>1, <5>3
          <6>2. stack'[2] = stack[1] BY <3>2, <6>1, Zenon
          <6>3. <<stack[1].v, here>> \in calls BY <1>0, <2>3, <6>1, Zenon DEF LineInv
          <6> QED BY <5>1, <6>1, <6>2, <6>3, ZenonT(60)
        <5>4. ASSUME NEW j \in 1 .. Len(stack'), i < j PROVE time'[stack'[j].v] < time'[stack'[i].v]
          <6>1. j # 1 BY <4>1, <5>4
          <6>2. j - 1 \in 1 .. Len(stack) /\ stack'[j] = stack[j - 1] BY <3>2, <6>1, Zenon
          <6> QED BY <1>6, <3>3, <3>5, <5>1, <6>2, ZenonT(60)
        <5>5. Examined(stack[i].v, stack[i].rest)'
          <6>1. rest \ {w} \subseteq Callees(here) /\ (Callees(here) \ (rest \ {w})) \cap White' = {}
            BY <1>1, <3>4, Zenon DEF Examined
          <6> QED BY <5>1, <6>1, Zenon DEF Examined, Callees
        <5>6. stack'[i].v \in Gray' /\ time'[stack'[i].v] < time'[here']
          BY <1>1, <1>3, <3>3, <5>1, <5>2, ZenonT(60)
        <5> QED BY <5>3, <5>4, <5>5, <5>6, Zenon
      <4>2. CASE i # 1
        <5>1. i - 1 \in 1 .. Len(stack) /\ stack'[i] = stack[i - 1] BY <3>2, <4>2, Zenon
        <5>2. stack[i - 1].v \in Gray /\ Examined(stack[i - 1].v, stack[i - 1].rest) BY <3>5, <5>1, Zenon
        <5>3. ASSUME i + 1 \in 1 .. Len(stack') PROVE <<stack'[i + 1].v, stack'[i].v>> \in calls'
          <6>1. i + 1 # 1 /\ (i + 1) - 1 = (i - 1) + 1 BY <4>2
          <6>2. (i + 1) - 1 \in 1 .. Len(stack) /\ stack'[i + 1] = stack[(i + 1) - 1]
            BY <3>2, <5>3, <6>1, Zenon
          <6> QED BY <3>5, <5>1, <6>1, <6>2, ZenonT(60)
        <5>4. ASSUME NEW j \in 1 .. Len(stack'), i < j PROVE time'[stack'[j].v] < time'[stack'[i].v]
          <6>1. j # 1 /\ i - 1 < j - 1 BY <4>2, <5>4
          <6>2. j - 1 \in 1 .. Len(stack) /\ stack'[j] = stack[j - 1] BY <3>2, <6>1, Zenon
          <6>3. time[stack[j - 1].v] < time[stack[i - 1].v] /\ stack[j - 1].v \in Gray
            BY <3>5, <5>1, <6>1, <6>2, Zenon
          <6> QED BY <1>6, <5>1, <5>2, <6>2, <6>3, ZenonT(60)
        <5>5. Examined(stack[i].v, stack[i].rest)' BY <2>0, <5>1, <5>2, FrameExamined, ZenonT(60)
        <5>6. stack'[i].v \in Gray' /\ time'[stack'[i].v] < time'[here']
          BY <1>1, <1>3, <1>6, <5>1, <5>2, ZenonT(60)
        <5> QED BY <5>3, <5>4, <5>5, <5>6, Zenon
      <4> QED BY <4>1, <4>2, Zenon
    <3>7. ASSUME NEW g \in Gray' PROVE g = here' \/ \E i \in 1 .. Len(stack') : g = stack'[i].v
      <4>1. 1 \in 1 .. Len(stack') BY <3>2
      <4>2. CASE g = here BY <3>1, <3>2, <4>1, <4>2, Zenon
      <4>3. CASE \E k \in 1 .. Len(stack) : g = stack[k].v
        <5>1. PICK k \in 1 .. Len(stack) : g = stack[k].v BY <4>3, Zenon
        <5>2. k + 1 \in 1 .. Len(stack') /\ stack'[k + 1] = stack[k] BY <3>2
        <5> QED BY <5>1, <5>2, Zenon
      <4> QED BY <1>0, <1>1, <1>3, <4>2, <4>3, ZenonT(60) DEF LineInv
    <3>8. stack' # <<>> => stack'[1].v = here BY <3>1, <3>2, Zenon
    <3>9. here' # None /\ here' \in Gray' /\ <<here, here'>> \in calls' BY <1>1, <1>3, <1>4, <3>4, ZenonT(60)
    <3> QED BY <2>1, <3>6, <3>7, <3>8, <3>9, ZenonT(60) DEF LineInv
  <2> QED BY <2>2, <2>3, Zenon
<1>15. RootInv'
  <2>1. Order!Reaches(w, w) BY <1>1, ReachFacts, Zenon
  <2>2. time'[w] <= time'[w] BY <1>7
  <2>3. ASSUME NEW v \in Open' PROVE root'[v] \in Open' /\ time'[root'[v]] <= time'[v] /\ Order!Reaches(v, root[v])'
    <3>1. CASE v = w BY <1>1, <2>1, <2>2, <3>1, RootReach, Zenon
    <3>2. CASE v \in Open
      <4>1. root[v] \in Open /\ time[root[v]] <= time[v] /\ Order!Reaches(v, root[v])
        BY <1>0, <3>2, Zenon DEF RootInv
      <4>2. root'[v] = root[v] BY <1>1, <1>5, <3>2, Zenon
      <4>3. Order!Reaches(v, root[v])' BY <4>1, <4>2, RootReach, Zenon
      <4>4. time'[root[v]] = time[root[v]] /\ time'[v] = time[v] BY <1>6, <3>2, <4>1, Zenon
      <4> QED BY <1>1, <4>1, <4>2, <4>3, <4>4, Zenon
    <3> QED BY <1>1, <3>1, <3>2, Zenon
  <2>4. \A v \in Black' : Examined(v, {})' BY <1>0, <1>1, <1>13, Zenon DEF RootInv
  <2>5. ASSUME NEW v \in Open' \cap Black', NEW u \in Open', <<v, u>> \in calls'
        PROVE  time'[root'[v]] <= time'[u]
    <3>1. v \in Open \cap Black /\ u # w
      BY <1>0, <1>1, <2>5, Zenon DEF RootInv, Examined, Callees
    <3> QED BY <1>0, <1>1, <1>5, <1>6, <2>5, <3>1, ZenonT(60) DEF RootInv
  <2> QED BY <2>3, <2>4, <2>5, Zenon DEF RootInv
<1>16. OpenInv'
  <2>0. time'[w] <= time'[w] BY <1>7
  <2>1. Order!Reaches(w, w)' /\ time'[w] <= time'[w]
    <3>1. Order!Reaches(w, w) BY <1>1, ReachFacts, Zenon
    <3> QED BY <1>2, <2>0, <3>1, Zenon
  <2>2. ASSUME NEW g \in Gray PROVE Order!Reaches(g, w)'
    <3>1. here \in Gray /\ here # None /\ time[g] <= time[here] BY <1>0, HereLast, Zenon
    <3>2. Order!Reaches(g, here) BY <1>0, <3>1, Zenon DEF OpenInv, PathInv
    <3>3. <<here, w>> \in calls
      BY <1>0, <3>1, Zenon DEF LineInv, Examined, Callees
    <3> QED BY <1>1, <1>2, <1>5, <3>1, <3>2, <3>3, ReachFacts, Zenon
  <2>3. ASSUME NEW v \in Open', NEW g \in Gray', time'[g] <= time'[v] PROVE Order!Reaches(g, v)'
    <3>1. CASE v = w BY <1>1, <2>1, <2>2, <3>1, Zenon
    <3>2. CASE v # w
      <4>1. v \in Open BY <1>1, <3>2, Zenon
      <4>2. g # w BY <1>6, <1>7, <2>3, <4>1, SMTT(60)
      <4> QED BY <1>0, <1>1, <1>2, <1>6, <2>3, <4>1, <4>2, ZenonT(60) DEF OpenInv
    <3> QED BY <3>1, <3>2, Zenon
  <2>4. ASSUME NEW v \in Open' PROVE \E g \in Gray' : time'[g] <= time'[v] /\ Order!Reaches(v, g)'
    <3>1. CASE v = w BY <1>1, <2>1, <3>1, Zenon
    <3>2. CASE v \in Open
      <4>1. PICK g \in Gray : time[g] <= time[v] /\ Order!Reaches(v, g) BY <1>0, <3>2, Zenon DEF OpenInv
      <4> QED BY <1>1, <1>2, <1>6, <3>2, <4>1, Zenon
    <3> QED BY <1>1, <3>1, <3>2, Zenon
  <2> QED BY <2>3, <2>4, Zenon DEF OpenInv
<1>17. LowInv'
  <2> SUFFICES ASSUME NEW v \in Open' \cap Black', NEW g \in Gray', time'[g] < time'[v],
                      \A h \in Gray' : time'[h] <= time'[g] \/ time'[v] < time'[h]
               PROVE  \E u \in Open' \cap Black' :
                        <<g, u>> \in calls' /\ time'[u] <= time'[v] /\ time'[root'[u]] <= time'[root'[v]]
    BY Zenon DEF LowInv
  <2>1. v \in Open \cap Black BY <1>1, Zenon
  <2>2. g # w BY <1>6, <1>7, <2>1
  <2>3. g \in Gray /\ time[g] < time[v] /\ \A h \in Gray : time[h] <= time[g] \/ time[v] < time[h]
    BY <1>1, <1>6, <2>1, <2>2, Zenon
  <2>4. PICK u \in Open \cap Black :
          <<g, u>> \in calls /\ time[u] <= time[v] /\ time[root[u]] <= time[root[v]]
    BY <1>0, <2>1, <2>3, Zenon DEF LowInv
  <2>5. \A x \in Open \cap Black : root'[x] = root[x] /\ time'[root[x]] = time[root[x]]
    BY <1>0, <1>1, <1>5, <1>6, Zenon DEF RootInv
  <2> QED BY <1>1, <1>6, <2>1, <2>4, <2>5, ZenonT(60)
<1>18. FoundInv'
  <2>1. \A v \in Found : comp'[v] = comp[v] BY <1>1, <1>5, Zenon
  <2> QED BY <1>0, <1>1, <2>1, FoundKept, Zenon
<1> QED BY <1>10, <1>11, <1>12, <1>14, <1>15, <1>16, <1>17, <1>18, ZenonT(60) DEF TarjanInv

\* A call whose target has been discovered is passed over.
LEMMA SkipKeeps ==
  ASSUME TarjanInv, rest' \subseteq rest, (rest \ rest') \cap White = {},
         UNCHANGED <<calls, color, here, stack, time, root, comp, path, total>>
  PROVE  TarjanInv'
<1>0. SearchType /\ TimeInv /\ LineInv /\ PathInv /\ RootInv /\ OpenInv /\ LowInv /\ FoundInv
  BY Zenon DEF TarjanInv
<1>1. /\ White' = White /\ Gray' = Gray /\ Black' = Black /\ Open' = Open /\ Found' = Found
      /\ Components' = Components
  BY Zenon DEF White, Gray, Black, Open, Found, Components, OnPath
<1>2. /\ \A a, b : Order!Reaches(a, b)' <=> Order!Reaches(a, b)
      /\ \A a, b : Order!Circle(a, b)' <=> Order!Circle(a, b)
      /\ \A v : Callees(v)' = Callees(v)
  BY ReachKept, Zenon
<1>3. UNCHANGED <<calls, here, stack, time, root, comp, path>> OBVIOUS
<1>4. SearchType' BY <1>0, Zenon DEF SearchType
<1>5. TimeInv' BY <1>0, <1>1, <1>3, Zenon DEF TimeInv
<1>6. LineInv'
  <2>1. here # None => Examined(here, rest') BY <1>0, Zenon DEF LineInv, Examined
  <2>2. here # None => Examined(here, rest)' BY <1>1, <1>3, <2>1, HereExamined, Zenon
  <2>3. ASSUME NEW i \in 1 .. Len(stack) PROVE Examined(stack[i].v, stack[i].rest)'
    <3>1. Examined(stack[i].v, stack[i].rest) BY <1>0, Zenon DEF LineInv
    <3>2. stack'[i] = stack[i] /\ White' \subseteq White BY <1>1, <1>3, Zenon
    <3> QED BY <1>3, <3>1, <3>2, FrameExamined, Zenon
  <2> QED BY <1>0, <1>1, <1>3, <2>2, <2>3, Zenon DEF LineInv
<1>7. PathInv' BY <1>0, <1>1, <1>3, Zenon DEF PathInv
<1>8. RootInv'
  <2>1. ASSUME NEW v \in Open PROVE Order!Reaches(v, root[v])'
    BY <1>0, <1>3, RootReach, Zenon DEF RootInv
  <2>2. ASSUME NEW v \in Black PROVE Examined(v, {})'
    BY <1>0, <1>1, <1>2, Zenon DEF RootInv, Examined
  <2> QED BY <1>0, <1>1, <1>3, <2>1, <2>2, Zenon DEF RootInv
<1>9. OpenInv' BY <1>0, <1>1, <1>2, <1>3, Zenon DEF OpenInv
<1>10. LowInv' BY <1>0, <1>1, <1>3, Zenon DEF LowInv
<1>11. FoundInv' BY <1>0, <1>1, <1>3, FoundKept, Zenon
<1> QED BY <1>4, <1>5, <1>6, <1>7, <1>8, <1>9, <1>10, <1>11, Zenon DEF TarjanInv

\* The search returns from a vertex to the one above.
Leave ==
  /\ here # None /\ rest = {}
  /\ color' = [color EXCEPT ![here] = "black"]
  /\ IF stack = <<>>
     THEN here' = None /\ UNCHANGED <<rest, stack>>
     ELSE here' = Head(stack).v /\ rest' = Head(stack).rest /\ stack' = Tail(stack)
  /\ UNCHANGED <<calls, time>>

\* What is left is black, and the gray vertices that remain are earlier.
LEMMA LeaveFacts ==
  ASSUME SearchType, TimeInv, LineInv, Leave
  PROVE  /\ here \in Gray /\ here \notin Black /\ Examined(here, {})
         /\ White' = White /\ Gray' = Gray \ {here} /\ Black' = Black \cup {here}
         /\ color' \in [Nodes -> {"white", "gray", "black"}]
         /\ here' \in Nodes \cup {None} /\ rest' \subseteq Nodes
         /\ stack' \in Seq([v : Nodes, rest : SUBSET Nodes])
         /\ \A g \in Gray' : time[g] < time[here]
         /\ \A g \in Gray' : here' \in Gray' /\ time[g] <= time[here'] /\ <<here', here>> \in calls
         /\ TimeInv' /\ LineInv'
<1>1. here \in Gray /\ here # None /\ Examined(here, {}) BY Zenon DEF LineInv, Leave
<1>2. here \in Nodes /\ here \notin Black /\ color[here] = "gray" BY <1>1, Colours, Zenon DEF Gray
<1>3. color' = [color EXCEPT ![here] = "black"] BY Zenon DEF Leave
<1>4. color' \in [Nodes -> {"white", "gray", "black"}] BY <1>2, <1>3 DEF SearchType
<1>5. \A v \in Nodes : color'[v] = IF v = here THEN "black" ELSE color[v] BY <1>3, Zenon DEF SearchType
<1>6. White' = White /\ Gray' = Gray \ {here} /\ Black' = Black \cup {here}
  BY <1>2, <1>5 DEF White, Gray, Black
<1>7. stack \in Seq([v : Nodes, rest : SUBSET Nodes]) /\ UNCHANGED <<calls, time>>
  BY Zenon DEF SearchType, Leave
<1>8. ASSUME NEW g \in Gray' PROVE time[g] < time[here] BY <1>6, Zenon DEF LineInv
<1>9. TimeInv' BY <1>6, <1>7, Zenon DEF TimeInv
<1>10. CASE stack = <<>>
  <2>1. here' = None /\ rest' = rest /\ stack' = <<>> BY <1>10, Zenon DEF Leave
  <2>2. \A i \in 1 .. Len(stack) : FALSE BY <1>10
  <2>3. Gray' = {} BY <1>6, <2>2, Zenon DEF LineInv
  <2>4. \A i \in 1 .. Len(stack') : FALSE BY <2>1
  <2>5. LineInv' BY <2>1, <2>3, <2>4, Zenon DEF LineInv
  <2> QED BY <1>1, <1>2, <1>4, <1>6, <1>7, <1>8, <1>9, <1>10, <2>1, <2>3, <2>5, ZenonT(60) DEF SearchType
<1>11. CASE stack # <<>>
  <2>1. here' = Head(stack).v /\ rest' = Head(stack).rest /\ stack' = Tail(stack)
    BY <1>11, Zenon DEF Leave
  <2>2. /\ Len(stack) \in Nat /\ 1 \in 1 .. Len(stack) /\ Head(stack) = stack[1]
        /\ stack' \in Seq([v : Nodes, rest : SUBSET Nodes]) /\ Len(stack') = Len(stack) - 1
        /\ \A i \in 1 .. Len(stack') : i + 1 \in 1 .. Len(stack) /\ stack'[i] = stack[i + 1] /\ 1 < i + 1
        /\ stack[1] \in [v : Nodes, rest : SUBSET Nodes]
    BY <1>7, <1>11, <2>1, Rest, Zenon
  <2>3. \A i \in 1 .. Len(stack) :
          /\ stack[i].v \in Gray /\ Examined(stack[i].v, stack[i].rest)
          /\ time[stack[i].v] < time[here]
          /\ i + 1 \in 1 .. Len(stack) => <<stack[i + 1].v, stack[i].v>> \in calls
          /\ \A j \in 1 .. Len(stack) : i < j => time[stack[j].v] < time[stack[i].v]
    BY Zenon DEF LineInv
  <2>4. time[here] \in Nat /\ ~(time[here] < time[here]) BY <1>2, SMTT(60) DEF SearchType
  <2>5. \A i \in 1 .. Len(stack) : stack[i].v \in Gray' BY <1>6, <2>3, <2>4, Zenon
  <2>6. here' = stack[1].v /\ rest' = stack[1].rest /\ <<here', here>> \in calls
    BY <1>1, <1>11, <2>1, <2>2, Zenon DEF LineInv
  <2>7. here' \in Nodes /\ rest' \subseteq Nodes BY <2>2, <2>6
  <2>8. here' # None BY <2>7, NodesAssumption DEF None
  <2>9. Examined(here, rest)' BY <1>6, <1>7, <2>2, <2>3, <2>6, HereExamined, Zenon
  <2>10. ASSUME NEW g \in Gray' PROVE g = here' \/ \E i \in 1 .. Len(stack') : g = stack'[i].v
    <3>1. PICK i \in 1 .. Len(stack) : g = stack[i].v BY <1>6, Zenon DEF LineInv
    <3>2. CASE i = 1 BY <2>6, <3>1, <3>2, Zenon
    <3>3. CASE i # 1
      <4>1. i - 1 \in 1 .. Len(stack') /\ stack'[i - 1] = stack[i] BY <2>2, <3>3
      <4> QED BY <3>1, <4>1, Zenon
    <3> QED BY <3>2, <3>3, Zenon
  <2>11. ASSUME NEW i \in 1 .. Len(stack')
         PROVE  /\ stack'[i].v \in Gray' /\ Examined(stack[i].v, stack[i].rest)'
                /\ time'[stack'[i].v] < time'[here']
                /\ i + 1 \in 1 .. Len(stack') => <<stack'[i + 1].v, stack'[i].v>> \in calls'
                /\ \A j \in 1 .. Len(stack') : i < j => time'[stack'[j].v] < time'[stack'[i].v]
    <3>1. i + 1 \in 1 .. Len(stack) /\ stack'[i] = stack[i + 1] /\ 1 < i + 1 BY <2>2, Zenon
    <3>2. stack'[i].v \in Gray' BY <2>5, <3>1, Zenon
    <3>3. Examined(stack[i].v, stack[i].rest)' BY <1>6, <1>7, <2>3, <3>1, FrameExamined, ZenonT(60)
    <3>4. time'[stack'[i].v] < time'[here'] BY <1>7, <2>2, <2>3, <2>6, <3>1, ZenonT(60)
    <3>5. ASSUME i + 1 \in 1 .. Len(stack') PROVE <<stack'[i + 1].v, stack'[i].v>> \in calls'
      <4>1. (i + 1) + 1 \in 1 .. Len(stack) /\ stack'[i + 1] = stack[(i + 1) + 1] BY <2>2, <3>5, ZenonT(60)
      <4> QED BY <1>7, <2>3, <3>1, <4>1, ZenonT(60)
    <3>6. ASSUME NEW j \in 1 .. Len(stack'), i < j PROVE time'[stack'[j].v] < time'[stack'[i].v]
      <4>1. j + 1 \in 1 .. Len(stack) /\ stack'[j] = stack[j + 1] BY <2>2, Zenon
      <4>2. i + 1 < j + 1 BY <3>6, SMTT(60)
      <4> QED BY <1>7, <2>3, <3>1, <4>1, <4>2, Zenon
    <3> QED BY <3>2, <3>3, <3>4, <3>5, <3>6, Zenon
  <2>12. stack' # <<>> => <<stack'[1].v, here'>> \in calls'
    <3> HAVE stack' # <<>>
    <3>1. 1 \in 1 .. Len(stack') /\ 1 + 1 = 2 BY <2>2
    <3>2. 2 \in 1 .. Len(stack) /\ stack'[1] = stack[2] BY <2>2, <3>1, Zenon
    <3> QED BY <1>7, <2>2, <2>3, <2>6, <3>1, <3>2, ZenonT(60)
  <2>13. here' \in Gray' BY <2>2, <2>5, <2>6, Zenon
  <2>14. LineInv' BY <2>8, <2>9, <2>10, <2>11, <2>12, <2>13, ZenonT(60) DEF LineInv
  <2>15. ASSUME NEW g \in Gray' PROVE time[g] <= time[here']
    <3>1. time[g] \in Nat /\ time[here'] \in Nat BY <1>6, <2>7, Zenon DEF SearchType, Gray
    <3>2. g = here' \/ time'[g] < time'[here'] BY <2>10, <2>11, Zenon
    <3> QED BY <1>7, <3>1, <3>2, SMTT(60)
  <2> QED BY <1>1, <1>2, <1>4, <1>6, <1>8, <1>9, <2>2, <2>6, <2>7, <2>13, <2>14, <2>15, ZenonT(60)
<1> QED BY <1>10, <1>11, Zenon

\* The root that a vertex gets when it is finished.
LEMMA NewRootIs ==
  ASSUME SearchType, TimeInv, PathInv, RootInv, NEW v \in Open
  PROVE  /\ NewRoot(v) \in Open /\ Order!Reaches(v, NewRoot(v)) /\ time[NewRoot(v)] <= time[v]
         /\ NewRoot(v) # v => time[NewRoot(v)] < time[v]
         /\ \A u \in Open : <<v, u>> \in calls =>
              time[NewRoot(v)] <= time[root[u]] /\ time[NewRoot(v)] <= time[u]
<1> DEFINE S == {root[v]} \cup {root[w] : w \in {u \in Callees(v) : OnPath(u)}}
<1>1. \A u \in Open : u \in Nodes /\ time[u] \in Nat BY Zenon DEF Open, SearchType
<1>2. \A u \in Open : root[u] \in Open /\ time[root[u]] <= time[u] /\ Order!Reaches(u, root[u])
  BY Zenon DEF RootInv
<1>3. \A u \in Callees(v) : OnPath(u) => u \in Open /\ <<v, u>> \in calls BY Zenon DEF Open, Callees
<1>4. ASSUME NEW r \in S PROVE r \in Open /\ Order!Reaches(v, r)
  <2>1. CASE r = root[v] BY <1>2, <2>1, Zenon
  <2>2. CASE \E u \in Callees(v) : OnPath(u) /\ r = root[u]
    <3>1. PICK u \in Callees(v) : OnPath(u) /\ r = root[u] BY <2>2, Zenon
    <3>2. u \in Open /\ <<v, u>> \in calls BY <1>3, <3>1, Zenon
    <3>3. Order!Reaches(v, u) BY <1>1, <3>2, ReachFacts, Zenon
    <3>4. r \in Open /\ Order!Reaches(u, r) BY <1>2, <3>1, <3>2, Zenon
    <3> QED BY <1>1, <3>2, <3>3, <3>4, ReachFacts, Zenon
  <2> QED BY <2>1, <2>2, Zenon
<1>5. S \in SUBSET Nodes /\ root[v] \in S /\ time \in [Nodes -> Nat] BY <1>1, <1>4, Zenon DEF SearchType
<1>6. NewRoot(v) = Earliest(S) BY Zenon DEF NewRoot
<1> HIDE DEF S
<1>7. NewRoot(v) \in S /\ \A q \in S : time[NewRoot(v)] <= time[q] BY <1>5, <1>6, EarliestIs, Zenon
<1>8. NewRoot(v) \in Open /\ Order!Reaches(v, NewRoot(v)) BY <1>4, <1>7, Zenon
<1> DEFINE r == NewRoot(v)
<1>9. r \in Open /\ time[r] \in Nat BY <1>1, <1>8, Zenon
<1> HIDE DEF r
<1>10. time[r] <= time[v]
  <2>1. time[r] <= time[root[v]] /\ time[root[v]] <= time[v] BY <1>2, <1>5, <1>7, Zenon DEF r
  <2>2. time[root[v]] \in Nat /\ time[v] \in Nat BY <1>1, <1>2, Zenon
  <2> QED BY <1>9, <2>1, <2>2
<1>11. ASSUME r # v PROVE time[r] < time[v]
  <2>1. Open \subseteq Nodes \ White BY Colours, Zenon DEF PathInv
  <2>2. time[r] # time[v] BY <1>9, <1>11, <2>1, Zenon DEF TimeInv
  <2>3. time[v] \in Nat BY <1>1, Zenon
  <2> QED BY <1>9, <1>10, <2>2, <2>3
<1>12. ASSUME NEW u \in Open, <<v, u>> \in calls PROVE time[r] <= time[root[u]] /\ time[r] <= time[u]
  <2>1. root[u] \in S BY <1>1, <1>12, ZenonT(60) DEF S, Callees, Open
  <2>2. time[r] <= time[root[u]] BY <1>7, <2>1, Zenon DEF r
  <2>3. time[root[u]] <= time[u] /\ time[root[u]] \in Nat /\ time[u] \in Nat BY <1>1, <1>2, Zenon
  <2> QED BY <1>9, <2>2, <2>3
<1> QED BY <1>8, <1>10, <1>11, <1>12, Zenon DEF r

\* What is on the path up to "here", and what is below.
LEMMA PopFacts ==
  ASSUME SearchType, PathInv, here \in Open, NEW k \in 1 .. Len(path), path[k] = here,
         path' = SubSeq(path, k + 1, Len(path))
  PROVE  /\ {path[i] : i \in 1 .. k} = {u \in Open : time[here] <= time[u]}
         /\ path' \in Seq(Nodes)
         /\ {path'[i] : i \in 1 .. Len(path')} = {u \in Open : time[u] < time[here]}
         /\ \A i, j \in 1 .. Len(path') : i < j => time[path'[j]] < time[path'[i]]
<1>1. k \in 1 .. Len(path) /\ path[k] = here OBVIOUS
<1>2. path \in Seq(Nodes) /\ Len(path) \in Nat
  <2>1. path \in Seq(Nodes) BY Zenon DEF SearchType
  <2> QED BY <2>1
<1>3. /\ path' \in Seq(Nodes) /\ Len(path') = Len(path) - k
      /\ \A i \in 1 .. Len(path') : k + i \in 1 .. Len(path) /\ k < k + i /\ path'[i] = path[k + i]
  BY <1>2, Suffix
<1>4. \A i \in 1 .. Len(path) : path[i] \in Open /\ time[path[i]] \in Nat
  BY ZenonT(60) DEF PathInv, Open, SearchType
<1>5. ASSUME NEW i \in 1 .. Len(path) PROVE i <= k <=> time[here] <= time[path[i]]
  <2>1. i < k => time[here] < time[path[i]] BY <1>1, Zenon DEF PathInv
  <2>2. k < i => time[path[i]] < time[here] BY <1>1, Zenon DEF PathInv
  <2>3. time[path[i]] \in Nat /\ time[here] \in Nat BY <1>1, <1>4, Zenon
  <2>4. CASE i < k BY <2>1, <2>3, <2>4, SMTT(60)
  <2>5. CASE i = k BY <1>1, <2>3, <2>5
  <2>6. CASE k < i BY <1>1, <2>2, <2>3, <2>6, SMTT(60)
  <2> QED BY <1>1, <2>4, <2>5, <2>6
<1>6. 1 .. k = {i \in 1 .. Len(path) : i <= k} BY <1>1, <1>2
<1>7. {path[i] : i \in 1 .. k} = {u \in Open : time[here] <= time[u]}
  <2>1. \A i \in 1 .. k : path[i] \in Open /\ time[here] <= time[path[i]] BY <1>4, <1>5, <1>6, Zenon
  <2>2. ASSUME NEW u \in {x \in Open : time[here] <= time[x]} PROVE \E i \in 1 .. k : u = path[i]
    <3>1. PICK i \in 1 .. Len(path) : u = path[i] BY Zenon DEF PathInv
    <3> QED BY <1>5, <1>6, <2>2, <3>1, Zenon
  <2> QED BY <2>1, <2>2, Zenon
<1>8. {path'[i] : i \in 1 .. Len(path')} = {u \in Open : time[u] < time[here]}
  <2>1. ASSUME NEW i \in 1 .. Len(path') PROVE path'[i] \in Open /\ time[path'[i]] < time[here]
    BY <1>1, <1>3, <1>4, Zenon DEF PathInv
  <2>2. ASSUME NEW u \in {x \in Open : time[x] < time[here]} PROVE \E i \in 1 .. Len(path') : u = path'[i]
    <3>1. PICK j \in 1 .. Len(path) : u = path[j] BY Zenon DEF PathInv
    <3>2. ~(time[here] <= time[u]) BY <1>1, <1>4, <2>2, <3>1, SMTT(60)
    <3>3. ~(j <= k) BY <1>5, <3>1, <3>2, Zenon
    <3>4. j - k \in 1 .. Len(path') /\ k + (j - k) = j BY <1>1, <1>2, <1>3, <3>3, SMTT(60)
    <3>5. path'[j - k] = u BY <1>3, <3>1, <3>4, Zenon
    <3> QED BY <3>4, <3>5, Zenon
  <2> QED BY <2>1, <2>2, ZenonT(60)
<1>9. ASSUME NEW i \in 1 .. Len(path'), NEW j \in 1 .. Len(path'), i < j PROVE time[path'[j]] < time[path'[i]]
  <2>1. k + i < k + j BY <1>1, <1>9, SMTT(60)
  <2> QED BY <1>3, <2>1, Zenon DEF PathInv
<1> QED BY <1>3, <1>7, <1>8, <1>9, Zenon

\* A vertex is finished that belongs to the component of an earlier one.
LEMMA StayOpen ==
  ASSUME TarjanInv, Leave, NewRoot(here) # here,
         root' = [root EXCEPT ![here] = NewRoot(here)], UNCHANGED <<comp, path, total>>
  PROVE  TarjanInv'
<1>0. SearchType /\ TimeInv /\ LineInv /\ PathInv /\ RootInv /\ OpenInv /\ LowInv /\ FoundInv
  BY Zenon DEF TarjanInv
<1>1. /\ here \in Gray /\ here \notin Black /\ Examined(here, {})
      /\ White' = White /\ Gray' = Gray \ {here} /\ Black' = Black \cup {here}
      /\ color' \in [Nodes -> {"white", "gray", "black"}]
      /\ here' \in Nodes \cup {None} /\ rest' \subseteq Nodes
      /\ stack' \in Seq([v : Nodes, rest : SUBSET Nodes])
      /\ \A g \in Gray' : time[g] < time[here]
      /\ \A g \in Gray' : here' \in Gray' /\ time[g] <= time[here'] /\ <<here', here>> \in calls
      /\ TimeInv' /\ LineInv'
  BY <1>0, LeaveFacts, Zenon
<1>2. UNCHANGED <<calls, time, comp, path, total>> BY Zenon DEF Leave
<1>3. Open' = Open /\ Found' = Found /\ here \in Open
  BY <1>0, <1>1, <1>2, Zenon DEF Open, Found, OnPath, PathInv
<1> DEFINE r == NewRoot(here)
<1>4. /\ r \in Open /\ Order!Reaches(here, r) /\ time[r] <= time[here] /\ time[r] < time[here]
      /\ \A u \in Open : <<here, u>> \in calls => time[r] <= time[root[u]] /\ time[r] <= time[u]
  BY <1>0, <1>3, NewRootIs, Zenon
<1>5. root' = [root EXCEPT ![here] = r] OBVIOUS
<1> HIDE DEF r
<1>6. /\ Open \subseteq Nodes /\ Gray \subseteq Nodes
      /\ \A v \in Open \cup Gray : time[v] \in Nat
  BY <1>0, Zenon DEF Open, Gray, SearchType
<1>7. root'[here] = r /\ \A v \in Nodes : v # here => root'[v] = root[v]
  BY <1>0, <1>3, <1>5, <1>6, Zenon DEF SearchType
<1>8. /\ \A a, b : Order!Reaches(a, b)' <=> Order!Reaches(a, b)
      /\ \A v : Callees(v)' = Callees(v)
  BY <1>2, ReachKept, Zenon
<1>10. SearchType'
  <2>1. root' \in [Nodes -> Nodes \cup {None}] BY <1>0, <1>4, <1>5, <1>6, Zenon DEF SearchType
  <2> QED BY <1>0, <1>1, <1>2, <2>1, ZenonT(60) DEF SearchType
<1>11. PathInv'
  <2>1. Open' \subseteq Gray' \cup Black' /\ Gray' \subseteq Open' BY <1>0, <1>1, <1>3, Zenon DEF PathInv
  <2> QED BY <1>0, <1>2, <1>3, <2>1, ZenonT(60) DEF PathInv
<1>12. RootInv'
  <2>1. ASSUME NEW v \in Open' PROVE root'[v] \in Open' /\ time'[root'[v]] <= time'[v] /\ Order!Reaches(v, root[v])'
    <3>1. CASE v = here
      <4>1. Order!Reaches(v, root[v])' BY <1>2, <1>4, <1>7, <3>1, RootReach, Zenon
      <4>2. root'[v] \in Open' BY <1>3, <1>4, <1>7, <3>1, SMTT(60)
      <4>3. time'[root'[v]] <= time'[v] BY <1>2, <1>4, <1>7, <3>1, ZenonT(60)
      <4> QED BY <4>1, <4>2, <4>3, Zenon
    <3>2. CASE v # here
      <4>1. root'[v] = root[v] /\ v \in Open BY <1>3, <1>6, <1>7, <3>2, Zenon
      <4>2. root[v] \in Open /\ time[root[v]] <= time[v] /\ Order!Reaches(v, root[v])
        BY <1>0, <4>1, Zenon DEF RootInv
      <4>3. Order!Reaches(v, root[v])' BY <1>2, <4>1, <4>2, RootReach, ZenonT(60)
      <4>4. root'[v] \in Open' BY <1>3, <4>1, <4>2
      <4>5. time'[root'[v]] <= time'[v] BY <1>2, <4>1, <4>2, Zenon
      <4> QED BY <4>3, <4>4, <4>5, Zenon
    <3> QED BY <3>1, <3>2, Zenon
  <2>2. ASSUME NEW v \in Black' PROVE Examined(v, {})'
    <3>1. Examined(v, {}) BY <1>0, <1>1, Zenon DEF RootInv
    <3> QED BY <1>1, <1>8, <3>1, Zenon DEF Examined
  <2>3. ASSUME NEW v \in Open' \cap Black', NEW u \in Open', <<v, u>> \in calls'
        PROVE  time'[root'[v]] <= time'[u]
    <3>1. CASE v = here BY <1>2, <1>3, <1>4, <1>7, <2>3, <3>1, ZenonT(60)
    <3>2. CASE v # here
      <4>1. v \in Open \cap Black /\ u \in Open /\ root'[v] = root[v] BY <1>1, <1>3, <1>6, <1>7, <3>2, Zenon
      <4> QED BY <1>0, <1>2, <2>3, <4>1, Zenon DEF RootInv
    <3> QED BY <3>1, <3>2, Zenon
  <2> QED BY <2>1, <2>2, <2>3, Zenon DEF RootInv
<1>13. OpenInv'
  <2>1. ASSUME NEW v \in Open, NEW g \in Gray', time[g] <= time[v] PROVE Order!Reaches(g, v)'
    BY <1>0, <1>1, <1>8, <2>1, Zenon DEF OpenInv
  <2>2. ASSUME NEW v \in Open PROVE \E g \in Gray' : time[g] <= time[v] /\ Order!Reaches(v, g)'
    <3>1. PICK g \in Gray : time[g] <= time[v] /\ Order!Reaches(v, g) BY <1>0, Zenon DEF OpenInv
    <3>2. CASE g # here BY <1>1, <1>8, <3>1, <3>2, Zenon
    <3>3. CASE g = here
      <4>1. PICK h \in Gray : time[h] <= time[r] /\ Order!Reaches(r, h) BY <1>0, <1>4, Zenon DEF OpenInv
      <4>2. time[h] \in Nat /\ time[r] \in Nat /\ time[here] \in Nat /\ time[v] \in Nat
        BY <1>3, <1>4, <1>6, ZenonT(60)
      <4>3. h # here /\ time[h] <= time[v] BY <1>4, <3>1, <3>3, <4>1, <4>2, SMTT(60)
      <4>4. Order!Reaches(v, here) /\ Order!Reaches(here, r) BY <1>4, <3>1, <3>3, Zenon
      <4>5. v \in Nodes /\ here \in Nodes /\ r \in Nodes /\ h \in Nodes BY <1>3, <1>4, <1>6, Zenon
      <4>6. Order!Reaches(v, r) BY <4>4, <4>5, ReachFacts, Zenon
      <4>7. Order!Reaches(v, h) BY <4>1, <4>5, <4>6, ReachFacts, Zenon
      <4> QED BY <1>1, <1>8, <4>3, <4>7, Zenon
    <3> QED BY <3>2, <3>3, Zenon
  <2> QED BY <1>2, <1>3, <2>1, <2>2, Zenon DEF OpenInv
<1>14. LowInv'
  <2> SUFFICES ASSUME NEW v \in Open \cap Black', NEW g \in Gray', time[g] < time[v],
                      \A h \in Gray' : time[h] <= time[g] \/ time[v] < time[h]
               PROVE  \E u \in Open \cap Black' :
                        <<g, u>> \in calls /\ time[u] <= time[v] /\ time[root'[u]] <= time[root'[v]]
    BY <1>2, <1>3, Zenon DEF LowInv
  <2>0. /\ g \in Gray /\ time[g] \in Nat /\ time[v] \in Nat /\ time[here] \in Nat
        /\ here' \in Gray' /\ here' \in Gray /\ time[here'] \in Nat
    BY <1>1, <1>3, <1>6, Zenon
  <2>1. CASE time[here] <= time[v]
    <3>1. time[here'] < time[here] /\ time[g] <= time[here'] /\ <<here', here>> \in calls
          /\ (time[here'] <= time[g] \/ time[v] < time[here'])
      BY <1>1, <2>0, Zenon
    <3>2. time[g] = time[here'] BY <2>0, <2>1, <3>1
    <3>3. g \in Nodes \ White /\ here' \in Nodes \ White BY <1>0, <2>0, Colours, Zenon DEF Gray
    <3>4. g = here' BY <1>0, <3>2, <3>3, Zenon DEF TimeInv
    <3>5. time[root'[here]] <= time[root'[v]]
      <4>1. CASE v = here
        <5>1. time[r] \in Nat BY <1>4, <1>6, Zenon
        <5>2. time[r] <= time[r] BY <5>1
        <5> QED BY <1>7, <4>1, <5>2, Zenon
      <4>2. CASE v # here
        <5>1. v \in Open \cap Black /\ root'[v] = root[v] /\ root[v] \in Open
          BY <1>0, <1>1, <1>6, <1>7, <4>2, ZenonT(60) DEF RootInv
        <5>2. v \in Nodes \ White /\ here \in Nodes \ White
          BY <1>0, <1>1, <5>1, Colours, ZenonT(60) DEF Black, Gray
        <5>3. time[v] # time[here] BY <1>0, <4>2, <5>2, ZenonT(60) DEF TimeInv
        <5>4. time[here] < time[v] BY <2>0, <2>1, <5>3, SMTT(60)
        <5>5. \A h \in Gray : time[h] <= time[here] BY <1>0, HereLast, Zenon
        <5>6. PICK u \in Open \cap Black :
                <<here, u>> \in calls /\ time[u] <= time[v] /\ time[root[u]] <= time[root[v]]
          BY <1>0, <1>1, <5>1, <5>4, <5>5, Zenon DEF LowInv
        <5>7. time[r] <= time[root[u]] /\ root[u] \in Open BY <1>0, <1>4, <5>6, Zenon DEF RootInv
        <5>8. time[r] \in Nat /\ time[root[u]] \in Nat /\ time[root[v]] \in Nat
          BY <1>4, <1>6, <5>1, <5>7, ZenonT(60)
        <5>9. time[r] <= time[root[v]] BY <5>6, <5>7, <5>8
        <5> QED BY <1>7, <5>1, <5>9, Zenon
      <4> QED BY <4>1, <4>2, Zenon
    <3> QED BY <1>1, <1>3, <2>1, <3>1, <3>4, <3>5, ZenonT(60)
  <2>2. CASE ~(time[here] <= time[v])
    <3>1. time[v] < time[here] /\ v # here BY <2>0, <2>2
    <3>2. v \in Open \cap Black /\ \A h \in Gray : time[h] <= time[g] \/ time[v] < time[h]
      BY <1>1, <3>1, Zenon
    <3>3. PICK u \in Open \cap Black :
            <<g, u>> \in calls /\ time[u] <= time[v] /\ time[root[u]] <= time[root[v]]
      BY <1>0, <2>0, <3>2, Zenon DEF LowInv
    <3>4. root'[u] = root[u] /\ root'[v] = root[v] BY <1>1, <1>6, <1>7, <3>1, <3>3, Zenon
    <3> QED BY <1>1, <3>3, <3>4, Zenon
  <2> QED BY <2>1, <2>2, Zenon
<1>15. FoundInv' BY <1>0, <1>2, <1>3, FoundKept, Zenon
<1> QED BY <1>1, <1>10, <1>11, <1>12, <1>13, <1>14, <1>15, Zenon DEF TarjanInv

\* What is popped with "here": the component of "here".
Popped == {u \in Open : time[here] <= time[u]}

\* No call leaves the popped vertices but to components found before, and they
\* reach each other.
LEMMA PoppedIsComponent ==
  ASSUME TarjanInv, Leave, NewRoot(here) = here
  PROVE  /\ here \in Popped /\ Popped \subseteq Black \cup {here}
         /\ \A v \in Popped : Callees(v) \subseteq Found \cup Popped
         /\ \A v \in Popped : Order!Circle(here, v)
         /\ \A v \in Popped, w \in Nodes : Order!Circle(v, w) <=> w \in Popped
<1>0. SearchType /\ TimeInv /\ LineInv /\ PathInv /\ RootInv /\ OpenInv /\ LowInv /\ FoundInv
  BY Zenon DEF TarjanInv
<1>1. here \in Gray /\ here \notin Black /\ Examined(here, {}) /\ here \in Open
  BY <1>0, LeaveFacts, Zenon DEF PathInv
<1>2. /\ Open \subseteq Nodes /\ Gray \subseteq Nodes /\ Found \subseteq Nodes /\ Popped \subseteq Open
      /\ \A v \in Open : time[v] \in Nat
  BY <1>0, Zenon DEF Open, Gray, Found, Popped, SearchType
<1>3. here \in Popped
  <2>1. time[here] <= time[here] BY <1>1, <1>2
  <2> QED BY <1>1, <2>1, Zenon DEF Popped
<1>4. ASSUME NEW v \in Popped, v # here PROVE v \in Black /\ time[here] < time[v]
  <2>1. v \in Open /\ v \in Gray \cup Black /\ time[here] <= time[v] BY <1>0, Zenon DEF PathInv, Popped
  <2>2. v \in Nodes \ White /\ here \in Nodes \ White BY <1>0, <1>1, <2>1, Colours, Zenon
  <2>3. time[v] # time[here] BY <1>0, <1>4, <2>2, Zenon DEF TimeInv
  <2>4. time[here] < time[v] BY <1>1, <1>2, <2>1, <2>3, SMTT(60)
  <2>5. v \notin Gray
    <3> SUFFICES ASSUME v \in Gray PROVE FALSE BY Zenon
    <3>1. time[v] <= time[here] BY <1>0, HereLast, Zenon
    <3> QED BY <1>1, <1>2, <2>1, <2>4, <3>1
  <2> QED BY <2>1, <2>4, <2>5, Zenon
<1>5. \A u \in Open : <<here, u>> \in calls => time[here] <= time[root[u]] /\ time[here] <= time[u]
  BY <1>0, <1>1, NewRootIs, Zenon
<1>6. ASSUME NEW v \in Popped, NEW w \in Open, <<v, w>> \in calls PROVE w \in Popped
  <2>1. CASE v = here BY <1>5, <1>6, <2>1, Zenon DEF Popped
  <2>2. CASE v # here
    <3>1. v \in Open \cap Black /\ time[here] < time[v] BY <1>2, <1>4, <2>2, Zenon
    <3>2. \A h \in Gray : time[h] <= time[here] BY <1>0, HereLast, Zenon
    <3>3. PICK u \in Open \cap Black :
            <<here, u>> \in calls /\ time[u] <= time[v] /\ time[root[u]] <= time[root[v]]
      BY <1>0, <1>1, <3>1, <3>2, Zenon DEF LowInv
    <3>4. time[here] <= time[root[u]] BY <1>5, <3>3, Zenon
    <3>5. time[root[v]] <= time[w] /\ root[u] \in Open /\ root[v] \in Open
      BY <1>0, <1>6, <3>1, <3>3, ZenonT(60) DEF RootInv
    <3>6. time[here] \in Nat /\ time[root[u]] \in Nat /\ time[root[v]] \in Nat /\ time[w] \in Nat
      BY <1>1, <1>2, <3>5, Zenon
    <3>7. time[here] <= time[w] BY <3>3, <3>4, <3>5, <3>6
    <3> QED BY <3>7, Zenon DEF Popped
  <2> QED BY <2>1, <2>2, Zenon
<1>7. ASSUME NEW v \in Popped, NEW w \in Callees(v) PROVE w \in Found \cup Popped
  <2>1. Examined(v, {}) BY <1>0, <1>1, <1>4, Zenon DEF RootInv
  <2>2. w \in Nodes /\ w \notin White /\ <<v, w>> \in calls BY <2>1, Zenon DEF Examined, Callees
  <2>3. w \in Open \/ w \in Found BY <2>2, Zenon DEF Open, Found
  <2> QED BY <1>6, <2>2, <2>3, Zenon
<1>8. ASSUME NEW v \in Popped PROVE Order!Circle(here, v)
  <2>1. v \in Open /\ time[here] <= time[v] BY Zenon DEF Popped
  <2>2. Order!Reaches(here, v) BY <1>0, <1>1, <2>1, Zenon DEF OpenInv
  <2>3. PICK g \in Gray : Order!Reaches(v, g) BY <1>0, <2>1, Zenon DEF OpenInv
  <2>4. time[g] <= time[here] BY <1>0, HereLast, Zenon
  <2>5. Order!Reaches(g, here) BY <1>0, <1>1, <2>4, Zenon DEF OpenInv
  <2>6. v \in Nodes /\ g \in Nodes /\ here \in Nodes BY <1>1, <1>2, <2>1, Zenon
  <2>7. Order!Reaches(v, here) BY <2>3, <2>5, <2>6, ReachFacts, Zenon
  <2> QED BY <2>2, <2>7, Zenon DEF Order!Circle
<1>9. ASSUME NEW v \in Popped, NEW w \in Nodes PROVE Order!Circle(v, w) <=> w \in Popped
  <2>0. v \in Nodes /\ here \in Nodes /\ v \in Open BY <1>1, <1>2, Zenon
  <2>1. ASSUME Order!Circle(v, w) PROVE w \in Popped
    <3>1. calls \subseteq Nodes \X Nodes /\ \A u \in Found : Callees(u) \subseteq Found
      BY <1>0, Zenon DEF SearchType, FoundInv
    <3>2. \A u \in Found \cup Popped : Callees(u) \subseteq Found \cup Popped BY <1>7, <3>1, Zenon
    <3>3. Order!Reaches(v, w) /\ Order!Reaches(w, v) BY <2>1, Zenon DEF Order!Circle
    <3>4. Found \cup Popped \in SUBSET Nodes /\ Found \in SUBSET Nodes BY <1>2, Zenon
    <3>5. w \in Found \cup Popped BY <3>1, <3>2, <3>3, <3>4, StaysInside, Zenon
    <3>6. w \notin Found
      <4> SUFFICES ASSUME w \in Found PROVE FALSE BY Zenon
      <4>1. v \in Found BY <2>0, <3>1, <3>3, <3>4, StaysInside, Zenon
      <4> QED BY <2>0, <4>1, Zenon DEF Open, Found
    <3> QED BY <3>5, <3>6, Zenon
  <2>2. ASSUME w \in Popped PROVE Order!Circle(v, w)
    <3>1. Order!Circle(here, v) /\ Order!Circle(here, w) BY <1>8, <2>2, Zenon
    <3> QED BY <2>0, <3>1, ReachFacts, Zenon DEF Order!Circle
  <2> QED BY <2>1, <2>2, Zenon
<1> QED BY <1>3, <1>4, <1>7, <1>8, <1>9, Zenon

\* A component is found.
LEMMA PopKeeps ==
  ASSUME TarjanInv, Leave, NewRoot(here) = here,
         comp' = [w \in Nodes |-> IF w \in Popped THEN total ELSE comp[w]],
         root' = [w \in Nodes |-> IF w \in Popped THEN here ELSE root[w]],
         path' \in Seq(Nodes), {path'[i] : i \in 1 .. Len(path')} = Open \ Popped,
         \A i, j \in 1 .. Len(path') : i < j => time[path'[j]] < time[path'[i]],
         total' = total + 1
  PROVE  TarjanInv'
<1>0. SearchType /\ TimeInv /\ LineInv /\ PathInv /\ RootInv /\ OpenInv /\ LowInv /\ FoundInv
  BY Zenon DEF TarjanInv
<1>1. /\ here \in Gray /\ here \notin Black /\ Examined(here, {})
      /\ White' = White /\ Gray' = Gray \ {here} /\ Black' = Black \cup {here}
      /\ color' \in [Nodes -> {"white", "gray", "black"}]
      /\ here' \in Nodes \cup {None} /\ rest' \subseteq Nodes
      /\ stack' \in Seq([v : Nodes, rest : SUBSET Nodes])
      /\ \A g \in Gray' : time[g] < time[here]
      /\ TimeInv' /\ LineInv'
  BY <1>0, LeaveFacts, Zenon
<1>2. /\ here \in Popped /\ Popped \subseteq Black \cup {here}
      /\ \A v \in Popped : Callees(v) \subseteq Found \cup Popped
      /\ \A v \in Popped, w \in Nodes : Order!Circle(v, w) <=> w \in Popped
  BY PoppedIsComponent, Zenon
<1>3. UNCHANGED <<calls, time>> BY Zenon DEF Leave
<1>4. /\ Open \subseteq Nodes /\ Gray \subseteq Nodes /\ Gray \subseteq Open /\ Popped \subseteq Open
      /\ Found \subseteq Nodes /\ here \in Open
      /\ \A v \in Open : time[v] \in Nat
  BY <1>0, <1>1, Zenon DEF Open, Gray, Found, Popped, SearchType, PathInv
<1>5. /\ \A v \in Popped : comp'[v] = total
      /\ \A v \in Nodes \ Popped : comp'[v] = comp[v] /\ root'[v] = root[v]
  BY <1>4, Zenon
<1>6. total \in Nat /\ total # Unassigned /\ Components' = Components \cup {total} /\ total \notin Components
  <2>1. total \in Nat BY <1>0, Zenon DEF SearchType
  <2> QED BY <2>1 DEF Components, Unassigned
<1>7. Open' = Open \ Popped BY <1>4, <1>5, <1>6, Zenon DEF Open, OnPath
<1>8. Found' = Found \cup Popped
  <2>1. Popped \cap White = {} BY <1>0, <1>1, <1>2, Colours, Zenon
  <2> QED BY <1>1, <1>4, <1>5, <1>6, <2>1, ZenonT(60) DEF Found, Open, OnPath
<1>9. ASSUME NEW v \in Open' PROVE v \in Open /\ time[v] < time[here] /\ v # here /\ root'[v] = root[v]
  <2>1. v \in Open /\ v \notin Popped BY <1>7, Zenon
  <2>2. ~(time[here] <= time[v]) BY <2>1, Zenon DEF Popped
  <2>3. time[v] < time[here] /\ v # here BY <1>4, <2>1, <2>2
  <2> QED BY <1>4, <1>5, <2>1, <2>3, Zenon
<1>10. ASSUME NEW v \in Open, time[v] < time[here] PROVE v \in Open'
  <2>1. ~(time[here] <= time[v]) BY <1>4, <1>10
  <2> QED BY <1>7, <2>1, Zenon DEF Popped
<1>11. /\ \A a, b : Order!Reaches(a, b)' <=> Order!Reaches(a, b)
       /\ \A a, b : Order!Circle(a, b)' <=> Order!Circle(a, b)
       /\ \A v : Callees(v)' = Callees(v)
  BY <1>3, ReachKept, Zenon
<1>12. SearchType'
  <2>1. comp' \in [Nodes -> Nat \cup {Unassigned}] BY <1>0, <1>6, Zenon DEF SearchType
  <2>2. root' \in [Nodes -> Nodes \cup {None}] BY <1>0, <1>4, Zenon DEF SearchType
  <2>3. total' \in Nat BY <1>6
  <2> QED BY <1>0, <1>1, <1>3, <2>1, <2>2, <2>3, Zenon DEF SearchType
<1>13. PathInv'
  <2>1. Open' \subseteq Gray' \cup Black' BY <1>0, <1>1, <1>9, Zenon DEF PathInv
  <2>2. Gray' \subseteq Open' BY <1>1, <1>4, <1>10, Zenon
  <2> QED BY <1>3, <1>7, <2>1, <2>2, Zenon DEF PathInv
<1>14. RootInv'
  <2>1. ASSUME NEW v \in Open' PROVE root'[v] \in Open' /\ time'[root'[v]] <= time'[v] /\ Order!Reaches(v, root[v])'
    <3>1. v \in Open /\ time[v] < time[here] /\ root'[v] = root[v] BY <1>9, Zenon
    <3>2. root[v] \in Open /\ time[root[v]] <= time[v] /\ Order!Reaches(v, root[v]) BY <1>0, <3>1, Zenon DEF RootInv
    <3>3. time[root[v]] < time[here] BY <1>4, <3>1, <3>2, SMTT(60)
    <3>4. root[v] \in Open' BY <1>10, <3>2, <3>3, Zenon
    <3>5. Order!Reaches(v, root[v])' BY <1>3, <3>1, <3>2, RootReach, ZenonT(60)
    <3>6. root'[v] \in Open' BY <3>1, <3>4
    <3>7. time'[root'[v]] <= time'[v] BY <1>3, <3>1, <3>2, Zenon
    <3> QED BY <3>5, <3>6, <3>7, Zenon
  <2>2. ASSUME NEW v \in Black' PROVE Examined(v, {})'
    <3>1. Examined(v, {}) BY <1>0, <1>1, Zenon DEF RootInv
    <3> QED BY <1>1, <1>11, <3>1, Zenon DEF Examined
  <2>3. ASSUME NEW v \in Open' \cap Black', NEW u \in Open', <<v, u>> \in calls'
        PROVE  time'[root'[v]] <= time'[u]
    <3>1. v \in Open \cap Black /\ u \in Open /\ root'[v] = root[v] BY <1>1, <1>9, Zenon
    <3> QED BY <1>0, <1>3, <2>3, <3>1, Zenon DEF RootInv
  <2> QED BY <2>1, <2>2, <2>3, Zenon DEF RootInv
<1>15. OpenInv'
  <2>1. ASSUME NEW v \in Open', NEW g \in Gray', time[g] <= time[v] PROVE Order!Reaches(g, v)'
    BY <1>0, <1>1, <1>9, <1>11, <2>1, ZenonT(60) DEF OpenInv
  <2>2. ASSUME NEW v \in Open' PROVE \E g \in Gray' : time[g] <= time[v] /\ Order!Reaches(v, g)'
    <3>1. v \in Open /\ time[v] < time[here] BY <1>9, Zenon
    <3>2. PICK g \in Gray : time[g] <= time[v] /\ Order!Reaches(v, g) BY <1>0, <3>1, Zenon DEF OpenInv
    <3>3. time[g] \in Nat /\ time[v] \in Nat /\ time[here] \in Nat BY <1>4, <3>1, Zenon
    <3>4. g # here BY <3>1, <3>2, <3>3, SMTT(60)
    <3> QED BY <1>1, <1>11, <3>2, <3>4, Zenon
  <2> QED BY <1>3, <2>1, <2>2, Zenon DEF OpenInv
<1>16. LowInv'
  <2> SUFFICES ASSUME NEW v \in Open' \cap Black', NEW g \in Gray', time[g] < time[v],
                      \A h \in Gray' : time[h] <= time[g] \/ time[v] < time[h]
               PROVE  \E u \in Open' \cap Black' :
                        <<g, u>> \in calls /\ time[u] <= time[v] /\ time[root'[u]] <= time[root'[v]]
    BY <1>3, Zenon DEF LowInv
  <2>1. v \in Open \cap Black /\ time[v] < time[here] /\ root'[v] = root[v] BY <1>1, <1>9, Zenon
  <2>2. g \in Gray /\ \A h \in Gray : time[h] <= time[g] \/ time[v] < time[h] BY <1>1, <2>1, Zenon
  <2>3. PICK u \in Open \cap Black :
          <<g, u>> \in calls /\ time[u] <= time[v] /\ time[root[u]] <= time[root[v]]
    BY <1>0, <2>1, <2>2, ZenonT(60) DEF LowInv
  <2>4. time[u] < time[here] BY <1>4, <2>1, <2>3, SMTT(60)
  <2>5. u \in Open' /\ root'[u] = root[u] BY <1>9, <1>10, <2>3, <2>4, ZenonT(60)
  <2> QED BY <1>1, <2>1, <2>3, <2>5, ZenonT(60)
<1>17. FoundInv'
  <2>1. \A v \in Found : v \notin Popped /\ comp'[v] = comp[v] /\ comp[v] \in Components /\ comp'[v] # total
    <3>1. Found \cap Popped = {} BY <1>4, Zenon DEF Found, Open
    <3>2. \A v \in Found : v \in Nodes \ Popped BY <1>4, <3>1, Zenon
    <3>3. \A v \in Found : comp[v] \in Components BY <1>0, Zenon DEF FoundInv
    <3>4. \A v \in Found : comp'[v] = comp[v] BY <1>5, <3>2, Zenon
    <3> QED BY <1>6, <3>2, <3>3, <3>4, Zenon
  <2>2. ASSUME NEW v \in Found' PROVE comp'[v] \in Components' /\ Callees(v)' \subseteq Found'
    <3>0. Callees(v)' = Callees(v) BY <1>11, Zenon
    <3>1. CASE v \in Found
      <4>1. Callees(v) \subseteq Found BY <1>0, <3>1, Zenon DEF FoundInv
      <4>2. comp'[v] \in Components BY <2>1, <3>1, Zenon
      <4> QED BY <1>6, <1>8, <3>0, <4>1, <4>2, SMTT(60)
    <3>2. CASE v \in Popped
      <4>1. Callees(v) \subseteq Found \cup Popped BY <1>2, <3>2, Zenon
      <4>2. comp'[v] = total BY <1>5, <3>2, Zenon
      <4> QED BY <1>6, <1>8, <3>0, <4>1, <4>2, SMTT(60)
    <3> QED BY <1>8, <3>1, <3>2, Zenon
  <2>3. ASSUME NEW v \in Found', NEW w \in Nodes
        PROVE  Order!Circle(v, w)' <=> w \in Found' /\ comp'[w] = comp'[v]
    <3>1. CASE v \in Found
      <4>1. Order!Circle(v, w) <=> w \in Found /\ comp[w] = comp[v] BY <1>0, <3>1, Zenon DEF FoundInv
      <4>2. w \in Popped => comp'[w] # comp'[v] BY <1>5, <2>1, <3>1, Zenon
      <4> QED BY <1>8, <1>11, <2>1, <3>1, <4>1, <4>2, ZenonT(60)
    <3>2. CASE v \in Popped
      <4>1. Order!Circle(v, w) <=> w \in Popped BY <1>2, <3>2, Zenon
      <4>2. comp'[v] = total /\ (w \in Found => comp'[w] # total) /\ (w \in Popped => comp'[w] = total)
        BY <1>5, <2>1, <3>2, Zenon
      <4> QED BY <1>8, <1>11, <4>1, <4>2, Zenon
    <3> QED BY <1>8, <3>1, <3>2, Zenon
  <2>4. ASSUME NEW c \in Components' PROVE \E v \in Found' : comp'[v] = c
    <3>1. CASE c = total BY <1>2, <1>5, <1>8, <3>1, Zenon
    <3>2. CASE c \in Components
      <4>1. PICK v \in Found : comp[v] = c BY <1>0, <3>2, Zenon DEF FoundInv
      <4> QED BY <1>8, <2>1, <4>1, Zenon
    <3> QED BY <1>6, <3>1, <3>2, Zenon
  <2> QED BY <2>2, <2>3, <2>4, Zenon DEF FoundInv
<1> QED BY <1>1, <1>12, <1>13, <1>14, <1>15, <1>16, <1>17, Zenon DEF TarjanInv

\* Every step preserves the invariant of the search.
LEMMA TarjanStep ==
  ASSUME TarjanInv, [Next]_vars
  PROVE  TarjanInv'
<1>1. CASE UNCHANGED vars \/ Condense \/ Visit
  <2>1. UNCHANGED <<calls, search>> BY <1>1, Zenon DEF vars, Condense, Visit
  <2>2. UNCHANGED <<calls, color, here, stack, time, root, comp, path, total>> /\ rest' = rest
    BY <2>1, Zenon DEF search
  <2>3. rest' \subseteq rest /\ (rest \ rest') \cap White = {} BY <2>2, Zenon
  <2> QED BY <2>2, <2>3, SkipKeeps, Zenon
<1>2. CASE Start
  <2>1. here = None /\ UNCHANGED <<calls, total>> /\ stack' = stack BY <1>2, Zenon DEF Start
  <2>2. PICK w \in White : Discover(w) BY <1>2, Zenon DEF Start
  <2> QED BY <2>1, <2>2, DiscoverKeeps, Zenon
<1>3. CASE Examine
  <2>1. here # None /\ UNCHANGED <<calls, total>> BY <1>3, Zenon DEF Examine
  <2>2. PICK w \in rest :
          IF color[w] = "white"
          THEN Discover(w) /\ stack' = <<[v |-> here, rest |-> rest \ {w}]>> \o stack
          ELSE rest' = rest \ {w} /\ UNCHANGED <<color, here, stack, time, root, comp, path>>
    BY <1>3, Zenon DEF Examine
  <2>3. w \in Nodes BY Zenon DEF TarjanInv, SearchType
  <2>4. CASE color[w] = "white"
    <3>1. w \in White BY <2>3, <2>4, Zenon DEF White
    <3>2. Discover(w) /\ stack' = <<[v |-> here, rest |-> rest \ {w}]>> \o stack BY <2>2, <2>4, Zenon
    <3> QED BY <2>1, <2>2, <3>1, <3>2, DiscoverKeeps, Zenon
  <2>5. CASE color[w] # "white"
    <3>1. rest' = rest \ {w} /\ UNCHANGED <<color, here, stack, time, root, comp, path>> BY <2>2, <2>5, Zenon
    <3>2. rest' \subseteq rest /\ (rest \ rest') \cap White = {} BY <2>5, <3>1, Zenon DEF White
    <3> QED BY <2>1, <3>1, <3>2, SkipKeeps, Zenon
  <2> QED BY <2>4, <2>5, Zenon
<1>4. CASE Finish
  <2>1. Leave BY <1>4, Zenon DEF Finish, Leave
  <2>2. CASE NewRoot(here) # here
    <3>1. root' = [root EXCEPT ![here] = NewRoot(here)] /\ UNCHANGED <<comp, path, total>>
      BY <1>4, <2>2, Zenon DEF Finish
    <3> QED BY <2>1, <2>2, <3>1, StayOpen, Zenon
  <2>3. CASE NewRoot(here) = here
    <3>1. /\ SearchType /\ PathInv /\ here \in Open /\ \A v \in Open : time[v] \in Nat
      <4>1. SearchType /\ TimeInv /\ LineInv /\ PathInv BY Zenon DEF TarjanInv
      <4>2. here \in Gray BY <2>1, <4>1, LeaveFacts, Zenon
      <4> QED BY <4>1, <4>2, Zenon DEF PathInv, SearchType, Open
    <3>2. \E i \in 1 .. Len(path) : path[i] = here BY <3>1, Zenon DEF PathInv
    <3>3. PICK k \in 1 .. Len(path) :
            /\ path[k] = here
            /\ comp' = [w \in Nodes |-> IF w \in {path[i] : i \in 1 .. k} THEN total ELSE comp[w]]
            /\ root' = [w \in Nodes |-> IF w \in {path[i] : i \in 1 .. k} THEN here ELSE root[w]]
            /\ path' = SubSeq(path, k + 1, Len(path))
            /\ total' = total + 1
      BY <1>4, <2>3, <3>2, Zenon DEF Finish
    <3>4. /\ {path[i] : i \in 1 .. k} = Popped
          /\ path' \in Seq(Nodes)
          /\ {path'[i] : i \in 1 .. Len(path')} = {u \in Open : time[u] < time[here]}
          /\ \A i, j \in 1 .. Len(path') : i < j => time[path'[j]] < time[path'[i]]
      BY <3>1, <3>3, PopFacts, Zenon DEF Popped
    <3>5. {u \in Open : time[u] < time[here]} = Open \ Popped
      <4>1. \A u \in Open : time[u] < time[here] <=> ~(time[here] <= time[u]) BY <3>1
      <4> QED BY <4>1, Zenon DEF Popped
    <3>6. /\ comp' = [w \in Nodes |-> IF w \in Popped THEN total ELSE comp[w]]
          /\ root' = [w \in Nodes |-> IF w \in Popped THEN here ELSE root[w]]
      BY <3>3, <3>4, Zenon
    <3>7. {path'[i] : i \in 1 .. Len(path')} = Open \ Popped BY <3>4, <3>5, Zenon
    <3> QED BY <2>1, <2>3, <3>3, <3>4, <3>6, <3>7, PopKeeps, Zenon
  <2> QED BY <2>2, <2>3, Zenon
<1> QED BY <1>1, <1>2, <1>3, <1>4, Zenon DEF Next

\* The invariant holds before the search.
LEMMA TarjanInit ==
  ASSUME Init
  PROVE  TarjanInv
<1>1. /\ White = Nodes /\ Gray = {} /\ Black = {} /\ Open = {} /\ Found = {} /\ Components = {}
  <2>1. \A v \in Nodes : color[v] = "white" /\ comp[v] = 0 BY Zenon DEF Init
  <2>2. \A v \in Nodes : color[v] # "gray" /\ color[v] # "black" /\ comp[v] # Unassigned BY <2>1 DEF Unassigned
  <2>3. total = 0 BY Zenon DEF Init
  <2>4. Components = {} BY <2>3 DEF Components
  <2> QED BY <2>1, <2>2, <2>4, Zenon DEF White, Gray, Black, Open, Found, OnPath
<1>2. SearchType BY GraphsAssumption DEF Init, SearchType
<1>3. TimeInv BY <1>1, Zenon DEF TimeInv
<1>4. LineInv
  <2>1. here = None /\ stack = <<>> /\ Len(stack) = 0 BY DEF Init
  <2>2. 1 .. Len(stack) = {} BY <2>1
  <2> QED BY <1>1, <2>1, <2>2, Zenon DEF LineInv
<1>5. PathInv
  <2>1. path = <<>> /\ Len(path) = 0 BY DEF Init
  <2>2. 1 .. Len(path) = {} BY <2>1
  <2> QED BY <1>1, <2>2, Zenon DEF PathInv
<1>6. RootInv /\ OpenInv /\ LowInv /\ FoundInv BY <1>1, Zenon DEF RootInv, OpenInv, LowInv, FoundInv
<1> QED BY <1>2, <1>3, <1>4, <1>5, <1>6, Zenon DEF TarjanInv

\* For every call graph and order of the edges, strong_components() is right: two
\* functions get the same number exactly when they call each other in a circle.
THEOREM ComponentsFound == Spec => []TarjanInv
<1>1. Init => TarjanInv BY TarjanInit, Zenon
<1>2. TarjanInv /\ [Next]_vars => TarjanInv' BY TarjanStep, Zenon
<1> QED BY <1>1, <1>2, PTL DEF Spec

\* The traversal begins when the search has been everywhere.
LEMMA SearchDoneStep ==
  ASSUME OrderInv, SearchDone, [Next]_vars
  PROVE  SearchDone'
<1>1. CASE UNCHANGED vars \/ Condense \/ Visit
  <2>1. UNCHANGED color BY <1>1, Zenon DEF vars, Condense, Visit, search
  <2>2. White' = White BY <2>1, Zenon DEF White
  <2>3. phase = "traverse" \/ phase' # "traverse" \/ White = {} BY <1>1, Zenon DEF vars, Condense, Visit
  <2> QED BY <2>2, <2>3, Zenon DEF SearchDone
<1>2. CASE Start \/ Examine \/ Finish
  <2>1. phase = "search" /\ phase' = phase
    BY <1>2, Zenon DEF Start, Examine, Finish, OrderInv
  <2>2. phase' # "traverse" BY <2>1
  <2> QED BY <2>2, Zenon DEF SearchDone
<1> QED BY <1>1, <1>2, Zenon DEF Next

\* When the search is over, a component is what call each other in a circle.
LEMMA GroupIs ==
  ASSUME OrderInv, TarjanInv, SearchDone, phase = "traverse", NEW f \in Nodes
  PROVE  {g \in Nodes : Order!Circle(f, g)} = {g \in Nodes : comp[g] = comp[f]}
<1>1. White = {} /\ here = None BY Zenon DEF SearchDone, OrderInv
<1>2. Gray = {} BY <1>1, Zenon DEF TarjanInv, LineInv
<1>3. Open = {} BY <1>2, Zenon DEF TarjanInv, OpenInv
<1>4. Found = Nodes BY <1>1, <1>3, Zenon DEF Found, Open
<1>5. FoundInv BY Zenon DEF TarjanInv
<1> QED BY <1>4, <1>5, Zenon DEF FoundInv

\* A step of the passes' order is one that CalleeFirst allows.
LEMMA OrderStep ==
  ASSUME OrderInv, TarjanInv, SearchDone, [Next]_vars
  PROVE  [Order!Next]_<<calls, Done>>
<1>1. CASE UNCHANGED vars
  <2>1. UNCHANGED <<calls, phase, comp, order>> BY <1>1, Zenon DEF vars, search
  <2> QED BY <2>1, Zenon DEF Done, Listed
<1>2. CASE Start \/ Examine \/ Finish
  <2>1. phase = "search" /\ phase' = phase /\ calls' = calls
    BY <1>2, Zenon DEF Start, Examine, Finish, OrderInv
  <2>2. phase # "traverse" /\ phase' # "traverse" BY <2>1
  <2>3. Done = {} /\ Done' = {} BY <2>2, Zenon DEF Done
  <2> QED BY <2>1, <2>3, Zenon
<1>3. CASE Condense
  <2>1. phase = "search" /\ calls' = calls /\ order' = <<>> BY <1>3, Zenon DEF Condense, OrderInv
  <2>2. phase # "traverse" /\ Listed' = {} BY <2>1 DEF Listed
  <2>3. Done = {} /\ Done' = {} BY <2>2, Zenon DEF Done
  <2> QED BY <2>1, <2>3, Zenon
<1>4. CASE Visit
  <2>1. phase = "traverse" /\ UNCHANGED <<calls, phase, comp>> /\ order \in Seq(Components)
    BY <1>4, Zenon DEF Visit, OrderInv, search
  <2>2. PICK c \in Components \ Listed :
          order' = Append(order, c) /\ \A a \in OutArcs(c) : a[2] \in Listed
    BY <1>4, VisitStep, Zenon
  <2>3. Listed' = Listed \cup {c} BY <2>1, <2>2, ListedAppend, Zenon
  <2> DEFINE members == {g \in Nodes : comp[g] = c}
  <2>4. Done = {v \in Nodes : comp[v] \in Listed} /\ Done' = {v \in Nodes : comp[v] \in Listed \cup {c}}
    BY <2>1, <2>3, Zenon DEF Done
  <2>5. Done' = Done \cup members /\ members \cap Done = {} BY <2>2, <2>4, Zenon
  <2>6. ASSUME NEW e \in calls, e[1] \in members PROVE e[2] \in members \cup Done
    <3>1. e = <<e[1], e[2]>> /\ e[2] \in Nodes
      <4>1. calls \subseteq Nodes \X Nodes BY Zenon DEF OrderInv
      <4> QED BY <4>1
    <3>2. comp[e[1]] = c BY <2>6, Zenon
    <3>3. CASE comp[e[2]] = c BY <3>1, <3>3, Zenon
    <3>4. CASE comp[e[2]] # c
      <4>1. <<c, comp[e[2]]>> \in OutArcs(c) BY <3>2, <3>4, SMTT(60) DEF OutArcs, Arcs
      <4>2. comp[e[2]] \in Listed BY <2>2, <4>1
      <4> QED BY <2>4, <3>1, <4>2, Zenon
    <3> QED BY <3>3, <3>4, Zenon
  <2>7. PICK f \in Nodes : comp[f] = c
    <3>1. \E v \in Found : comp[v] = c BY <2>2, Zenon DEF TarjanInv, FoundInv
    <3> QED BY <3>1, Zenon DEF Found
  <2>8. {g \in Nodes : Order!Circle(f, g)} = members BY <2>1, <2>7, GroupIs, Zenon
  <2>9. Order!List(f) BY <2>1, <2>5, <2>6, <2>8, Zenon DEF Order!List
  <2> QED BY <2>7, <2>9, Zenon DEF Order!Next
<1> QED BY <1>1, <1>2, <1>3, <1>4, Zenon DEF Next

\* For every call graph and order of the edges, the functions are listed in
\* groups that call each other in circles, after the functions they call.
THEOREM CalleesFirst == Spec => ListsCalleesFirst
<1>1. Init => SearchDone /\ Order!Init
  <2> SUFFICES ASSUME Init PROVE SearchDone /\ Order!Init BY Zenon
  <2>1. phase = "search" BY Zenon DEF Init
  <2>2. phase # "traverse" BY <2>1
  <2> QED BY <2>2, Zenon DEF SearchDone, Order!Init, Done
<1>2. OrderInv /\ SearchDone /\ [Next]_vars => SearchDone' BY SearchDoneStep, Zenon
<1>3. OrderInv /\ TarjanInv /\ SearchDone /\ [Next]_vars => [Order!Next]_<<calls, Done>>
  BY OrderStep, Zenon
<1> QED BY <1>1, <1>2, <1>3, Invariant, ComponentsFound, PTL DEF Spec, ListsCalleesFirst, Order!Spec
===============================================================================
