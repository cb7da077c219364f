----------------------- MODULE SharedReachabilityProofs -----------------------
(***************************************************************************)
(* For every layered program: PDGSharedReachabilityPass marks exactly what *)
(* shared memory may influence along the data flow and over any number of  *)
(* calls.  It is proved with SharedInv, which rests on LayeredInv.         *)
(***************************************************************************)
EXTENDS ReachabilityProofs

\* No mark has been passed down to a callee yet.
Rising == Done < 6 * N + 4 \/ (Done = 6 * N + 4 /\ ~running)

\* Sets that follow the data within functions and to callers.
UpClosed(T) ==
  /\ Sink \subseteq T
  /\ \A v, w \in Vertices : v \in T /\ Edge(Types \ {"Control"}, v, w) => w \in T
  /\ \A q \in Considered : q[1] \in T => q[2] \in T

\* Influenced by data that flows within functions and to callers.
Up == {v \in Vertices : \A T \in SUBSET Vertices : UpClosed(T) => v \in T}

\* What is marked is influenced.
InfluenceSound ==
  /\ Rising => mark["shared"] \subseteq Up
  /\ LET up == Up IN \A T \in SUBSET Vertices :
       up \subseteq T /\ (\A q \in Considered : q[2] \in T => q[1] \in T) => mark["shared"] \subseteq T

\* The pairs of a call that have been looked at.
Passed(op, c, q) ==
  \/ Over(op, c.callee)
  \/ Doing(op) /\ running /\ c.callee \in Component /\ <<c, q>> \notin todo

\* What is influenced is marked, as far as the pass has come.
InfluenceInv ==
  /\ \A op \in {"push", "pull"} : Doing(op) /\ running =>
       \A t \in todo : t[1].callee \in Component \ prog.excluded
  /\ Rising =>
       /\ \A v \in Vertices : Over("shared", prog.owner[v]) /\ Shared(v) =>
            /\ v \in mark["shared"]
            /\ \A w \in Vertices : Edge(Types \ {"Control"}, v, w) => w \in mark["shared"]
       /\ \A c \in prog.calls : c.callee \notin prog.excluded => \A q \in c.pairs :
            Passed("push", c, q) /\ Shared(q[1]) => q[2] \in mark["shared"]
  /\ ~Rising => Up \subseteq mark["shared"]
  /\ \A c \in prog.calls : c.callee \notin prog.excluded => \A q \in c.pairs :
       Passed("pull", c, q) /\ Shared(q[2]) => q[1] \in mark["shared"]

\* The inductive invariant of the second pass for layered programs.
SharedInv == IsLayered => InfluenceSound /\ InfluenceInv
-----------------------------------------------------------------------------

\* Up and down: nothing is passed down before all has been passed up.
LEMMA Phases ==
  ASSUME TypeOK, IsLayered, AgendaInv, prog' = prog, NEW o, Doing(o),
         \/ agenda' = agenda /\ running' = TRUE
         \/ agenda' = Tail(agenda) /\ running' = FALSE /\ (running \/ o = "call")
  PROVE  /\ AgendaInv'
         /\ o # "pull" => Rising /\ Rising' /\ \A g : ~Over("pull", g) /\ ~Over("pull", g)'
         /\ o = "pull" => ~Rising'
         /\ o = "pull" /\ Rising => Done = 6 * N + 4 /\ ~running /\ agenda' = agenda
<1>1. N \in Nat /\ DOMAIN prog.sccs = 1 .. N /\ N' = N BY Numbered, ProgSame, Zenon
<1>d. Done \in Nat BY Zenon DEF AgendaInv
<1>2. \/ Done' = Done /\ running' = TRUE
      \/ Done' = Done + 1 /\ running' = FALSE /\ (running \/ o = "call")
  BY Stay, Advance, Zenon
<1>3. AgendaInv' BY Stay, Advance, Zenon
<1>4. ASSUME o # "pull" PROVE Done + 1 <= 6 * N + 4
  <2>1. o \in Ops BY Place, Zenon
  <2>2. CASE o = "call"
    <3>1. Done + 1 < 6 * N + 4 BY <2>2, OrderCall, Zenon
    <3> QED BY <1>1, <1>d, <3>1
  <2>3. CASE o = "sink"
    <3>1. Done + 1 < 6 * N + 4 BY <2>3, OrderSink, Zenon
    <3> QED BY <1>1, <1>d, <3>1
  <2>4. CASE o = "summary"
    <3>1. Done + 1 < 6 * N + 4 BY <2>4, OrderSummary, Zenon
    <3> QED BY <1>1, <1>d, <3>1
  <2>5. CASE o = "shared"
    <3>1. Done + 1 < 6 * N + 4 BY <2>5, OrderShared, Zenon
    <3> QED BY <1>1, <1>d, <3>1
  <2>6. CASE o = "push" BY <2>6, OrderPush, Zenon
  <2>7. CASE o = "fd"
    <3>1. \/ \E i \in 1 .. N : Done + 1 = At("fd", i)
          \/ Done + 1 \in {2, 4 * N + 4}
      BY <1>1, <2>7, Place, Zenon
    <3>2. \/ \E i \in 1 .. N : Done + 1 = 4 * i + 1
          \/ Done + 1 \in {2, 4 * N + 4}
      BY <3>1, AtIs, Zenon
    <3> QED BY <1>1, <1>d, <3>2
  <2> QED BY <1>4, <2>1, <2>2, <2>3, <2>4, <2>5, <2>6, <2>7, Zenon DEF Ops, Kinds
<1>5. ASSUME o # "pull" PROVE Rising /\ Rising'
  <2>1. Done < 6 * N + 4 /\ (Done' < 6 * N + 4 \/ (Done' = 6 * N + 4 /\ running' = FALSE))
    BY <1>1, <1>2, <1>d, <1>4, <1>5
  <2> QED BY <1>1, <2>1, Zenon DEF Rising
<1>6. ASSUME NEW g, o # "pull" PROVE ~Over("pull", g) /\ ~Over("pull", g)'
  <2>1. ASSUME NEW i \in 1 .. N PROVE ~(Done >= 7 * N + 5 - i) /\ ~(Done' >= 7 * N + 5 - i)
    BY <1>1, <1>2, <1>d, <1>4, <1>6
  <2>2. ASSUME NEW i \in 1 .. N PROVE At("pull", i) = 7 * N + 5 - i /\ At("pull", i)' = 7 * N + 5 - i
    <3>1. At("pull", i) = 7 * N + 5 - i BY AtIs, Zenon
    <3>2. At("pull", i)' = At("pull", i) BY <1>1, Zenon DEF At
    <3> QED BY <3>1, <3>2, Zenon
  <2> QED BY <1>1, <2>1, <2>2, Zenon DEF Over
<1>7. ASSUME o = "pull" PROVE Done >= 6 * N + 4 BY <1>7, OrderPull, Zenon
<1>8. ASSUME o = "pull" PROVE ~Rising'
  <2>1. ~(Done' < 6 * N + 4) /\ ~(Done' = 6 * N + 4 /\ running' = FALSE) BY <1>1, <1>2, <1>d, <1>7, <1>8
  <2>2. CASE running' = TRUE BY <1>1, <2>1, <2>2, Zenon DEF Rising
  <2>3. CASE running' = FALSE BY <1>1, <2>1, <2>3, Zenon DEF Rising
  <2> QED BY <2>2, <2>3, Zenon
<1>9. ASSUME o = "pull", Rising PROVE Done = 6 * N + 4 /\ ~running /\ agenda' = agenda
  <2>1. ~(Done < 6 * N + 4) BY <1>1, <1>d, <1>7, <1>9
  <2>2. Done = 6 * N + 4 /\ ~running BY <1>9, <2>1, Zenon DEF Rising
  <2> QED BY <1>9, <2>2, Zenon
<1> QED BY <1>3, <1>5, <1>6, <1>8, <1>9, Zenon

\* What is influenced, and that more is when there are more edges.
LEMMA UpHas ==
  ASSUME TypeOK
  PROVE  /\ Sink \subseteq Up
         /\ \A v, w \in Vertices : v \in Up /\ Edge(Types \ {"Control"}, v, w) => w \in Up
         /\ \A q \in Considered : q[1] \in Up /\ q[2] \in Vertices => q[2] \in Up
         /\ \A T \in SUBSET Vertices : UpClosed(T) => Up \subseteq T
<1>1. Sink \subseteq Vertices BY Zenon DEF Sink, TypeOK, Kinds
<1>2. Sink \subseteq Up BY <1>1, Zenon DEF Up, UpClosed
<1>3. \A v, w \in Vertices : v \in Up /\ Edge(Types \ {"Control"}, v, w) => w \in Up BY Zenon DEF Up, UpClosed
<1>4. \A q \in Considered : q[1] \in Up /\ q[2] \in Vertices => q[2] \in Up BY Zenon DEF Up, UpClosed
<1>5. \A T \in SUBSET Vertices : UpClosed(T) => Up \subseteq T BY Zenon DEF Up
<1> QED BY <1>2, <1>3, <1>4, <1>5, Zenon

\* With more edges and more marks more is influenced.
LEMMA UpGrows ==
  ASSUME prog' = prog, edges \subseteq edges', Sink \subseteq Sink'
  PROVE  Up \subseteq Up'
<1>1. \A ts, v, w : Edge(ts, v, w) => Edge(ts, v, w)' BY Zenon DEF Edge
<1>2. Considered' = Considered BY ProgSame, Zenon
<1>3. \A T : UpClosed(T)' => UpClosed(T) BY <1>1, <1>2, Zenon DEF UpClosed
<1> QED BY <1>3, Zenon DEF Up

\* What is influenced depends on edges and marks only.
LEMMA UpSame ==
  ASSUME prog' = prog, edges' = edges, Sink' = Sink
  PROVE  Up' = Up
<1>2. Considered' = Considered BY ProgSame, Zenon
<1> QED BY <1>2 DEF Up, UpClosed, Edge

\* Pairs of calls to functions that are considered.
LEMMA ConsideredIs ==
  ASSUME TypeOK
  PROVE  /\ \A q : q \in Considered <=> \E c \in prog.calls : c.callee \notin prog.excluded /\ q \in c.pairs
         /\ \A q \in Considered : q[1] \in Vertices /\ q[2] \in Vertices
<1>1. \A q : q \in Considered <=> \E c \in prog.calls : c.callee \notin prog.excluded /\ q \in c.pairs
  BY Zenon DEF Considered
<1>2. \A q \in Considered : q[1] \in Vertices /\ q[2] \in Vertices BY <1>1, CallType, Zenon
<1> QED BY <1>1, <1>2, Zenon
\* How values get the mark of influence.
LEMMA SharedSearch ==
  ASSUME TypeOK, SearchInv, BeginSearch("shared") \/ Scan("shared"), NEW w \in mark'["shared"]
  PROVE  \/ w \in mark["shared"] \/ w \in Sink
         \/ \E u \in mark["shared"] : u \in Vertices /\ w \in Vertices /\ Edge(Types \ {"Control"}, u, w)
<1>k. "shared" \in Kinds BY Zenon DEF Kinds
<1>1. CASE BeginSearch("shared")
  <2> DEFINE S == Sources("shared")
  <2>1. S \subseteq mark["shared"] \cup Sink BY Zenon DEF Sources
  <2> HIDE DEF S
  <2>2. mark' = [mark EXCEPT !["shared"] = @ \cup {v \in S : MayMark("shared", v)}]
    BY <1>1, Zenon DEF BeginSearch, Discover, S
  <2>3. w \in mark["shared"] \/ w \in S BY <1>k, <2>2, Zenon DEF TypeOK
  <2> QED BY <2>1, <2>3, Zenon
<1>2. CASE Scan("shared")
  <2>1. PICK u \in queue : Discover("shared", News("shared", u), queue \ {u}) BY <1>2, Zenon DEF Scan
  <2> DEFINE S == News("shared", u)
  <2>2. ASSUME NEW x \in S PROVE x \in Vertices /\ Edge(Types \ {"Control"}, u, x)
    <3>1. x \in Vertices /\ Edge({"Data", "Part", "Deref", "Summary"}, u, x) BY Zenon DEF News, Follow, Followed, Edge
    <3>2. \A t \in {"Data", "Part", "Deref", "Summary"} : t \in Types \ {"Control"} BY Zenon DEF Types
    <3> QED BY <3>1, <3>2, Zenon DEF Edge
  <2> HIDE DEF S
  <2>3. mark' = [mark EXCEPT !["shared"] = @ \cup {v \in S : MayMark("shared", v)}]
    BY <2>1, Zenon DEF Discover, S
  <2>4. w \in mark["shared"] \/ w \in S BY <1>k, <2>3, Zenon DEF TypeOK
  <2>5. u \in mark["shared"] /\ u \in Vertices BY <1>2, <1>k, Zenon DEF Scan, SearchInv, TypeOK
  <2> QED BY <2>2, <2>4, <2>5, Zenon
<1> QED BY <1>1, <1>2, Zenon

\* propagateCallInfluence() marks one end of a pair if the other one has the mark.
LEMMA SharedPassed ==
  ASSUME TypeOK, SearchInv, InfluenceInv, NEW op \in {"push", "pull"}, Propagate(op)
  PROVE  \E c \in prog.calls : \E q \in c.pairs :
           /\ <<c, q>> \in todo /\ todo' = todo \ {<<c, q>>}
           /\ c.callee \in Component /\ c.callee \notin prog.excluded /\ q \in Considered
           /\ mark["shared"] \subseteq mark'["shared"]
           /\ Shared(Origin(op, q)) => Target(op, q) \in mark'["shared"]
           /\ \A v \in mark'["shared"] : v \in mark["shared"] \/ (v = Target(op, q) /\ Shared(Origin(op, q)))
<1>1. PICK t \in todo :
        /\ todo' = todo \ {t}
        /\ mark' = [mark EXCEPT !["shared"] =
             @ \cup (IF Shared(Origin(op, t[2])) THEN {Target(op, t[2])} ELSE {})]
  BY Zenon DEF Propagate
<1>2. t[1] \in prog.calls /\ t[2] \in t[1].pairs BY Zenon DEF SearchInv
<1>3. t = <<t[1], t[2]>> BY DEF TypeOK
<1>4. t[1].callee \in Component /\ t[1].callee \notin prog.excluded BY Zenon DEF InfluenceInv, Propagate
<1>5. t[2] \in Considered BY <1>2, <1>4, ConsideredIs, Zenon
<1>6. "shared" \in Kinds BY Zenon DEF Kinds
<1> DEFINE M == IF Shared(Origin(op, t[2])) THEN {Target(op, t[2])} ELSE {}
<1>7. /\ Shared(Origin(op, t[2])) => Target(op, t[2]) \in M
      /\ \A v \in M : v = Target(op, t[2]) /\ Shared(Origin(op, t[2]))
  BY Zenon
<1> HIDE DEF M
<1>8. mark'["shared"] = mark["shared"] \cup M BY <1>1, <1>6, Zenon DEF TypeOK, M
<1>9. <<t[1], t[2]>> \in todo /\ todo' = todo \ {<<t[1], t[2]>>} BY <1>1, <1>3, SMT
<1> QED BY <1>2, <1>4, <1>5, <1>7, <1>8, <1>9, Zenon

\* The steps that mark a value as influenced.
LEMMA SharedSteps ==
  ASSUME TypeOK, [Next]_vars
  PROVE  \/ mark'["shared"] = mark["shared"]
         \/ BeginSearch("shared") \/ Scan("shared")
         \/ \E op \in {"push", "pull"} : Propagate(op)
<1>1. CASE UNCHANGED vars BY <1>1, Zenon DEF vars
<1>2. ASSUME NEW k \in Kinds, BeginSearch(k) \/ Scan(k), k # "shared" PROVE mark'["shared"] = mark["shared"]
  BY <1>2, Zenon DEF BeginSearch, Scan, Discover, TypeOK, Kinds
<1>3. ASSUME NEW k \in Kinds, EndSearch(k) PROVE mark'["shared"] = mark["shared"] BY <1>3, Zenon DEF EndSearch
<1>4. CASE HandleCalls BY <1>4, Zenon DEF HandleCalls, TypeOK, Kinds
<1>5. CASE BeginSummary \/ StartNode \/ ScanNode \/ EndSummary
  BY <1>5, Zenon DEF BeginSummary, StartNode, ScanNode, EndSummary
<1>6. CASE FinishNode BY <1>6, Zenon DEF FinishNode, TypeOK, Kinds
<1>7. ASSUME NEW op \in {"push", "pull"}, BeginPropagation(op) \/ EndPropagation(op)
      PROVE  mark'["shared"] = mark["shared"]
  BY <1>7, Zenon DEF BeginPropagation, EndPropagation
<1> QED BY <1>1, <1>2, <1>3, <1>4, <1>5, <1>6, <1>7, Zenon DEF Next

\* What gets the mark is influenced.
LEMMA SoundStep ==
  ASSUME TypeOK, TypeOK', SearchInv, IsLayered, AgendaInv, FlowInv, NodeInv, WithinInv, CallInv,
         InfluenceSound, InfluenceInv, [Next]_vars
  PROVE  InfluenceSound'
<1>p. prog' = prog /\ edges \subseteq edges' /\ Sink \subseteq Sink' BY Grows, Zenon DEF Sink
<1>u. Up \subseteq Up' BY <1>p, UpGrows, Zenon
<1>c. Considered' = Considered BY <1>p, ProgSame, Zenon
<1>d. \A T \in SUBSET Vertices :
        Up \subseteq T /\ (\A q \in Considered : q[2] \in T => q[1] \in T) => mark["shared"] \subseteq T
  BY Zenon DEF InfluenceSound
<1>1. ASSUME mark'["shared"] \subseteq Up' PROVE InfluenceSound' BY <1>1, Zenon DEF InfluenceSound
<1>2. ASSUME mark'["shared"] = mark["shared"] PROVE InfluenceSound'
  <2>1. \A T \in SUBSET Vertices :
          Up' \subseteq T /\ (\A q \in Considered : q[2] \in T => q[1] \in T) => mark'["shared"] \subseteq T
    BY <1>2, <1>d, <1>u, Zenon
  <2>2. Rising' => Rising BY JobStep, Phases, Zenon DEF vars, Rising, Done, N
  <2>3. Rising' => mark'["shared"] \subseteq Up' BY <1>2, <1>u, <2>2, Zenon DEF InfluenceSound
  <2> QED BY <1>c, <2>1, <2>3, Zenon DEF InfluenceSound
<1>3. CASE BeginSearch("shared") \/ Scan("shared")
  <2>o. "shared" # "pull" BY Zenon
  <2>1. Doing("shared") /\ (agenda' = agenda /\ running' = TRUE) BY <1>3, Zenon DEF BeginSearch, Scan, TypeOK
  <2>2. Rising BY <1>p, <2>1, <2>o, Phases, Zenon
  <2>3. mark["shared"] \subseteq Up BY <2>2, Zenon DEF InfluenceSound
  <2>4. ASSUME NEW w \in mark'["shared"] PROVE w \in Up BY <1>3, <2>3, SharedSearch, UpHas, Zenon
  <2> QED BY <1>1, <1>u, <2>4, Zenon
<1>4. CASE Propagate("push")
  <2>o. "push" # "pull" BY Zenon
  <2>1. Doing("push") /\ (agenda' = agenda /\ running' = TRUE) BY <1>4, Zenon DEF Propagate, TypeOK
  <2>2. Rising BY <1>p, <2>1, <2>o, Phases, Zenon
  <2>3. mark["shared"] \subseteq Up /\ Sink \subseteq Up BY <2>2, UpHas, Zenon DEF InfluenceSound
  <2>4. PICK c \in prog.calls : \E q \in c.pairs :
           /\ q \in Considered
           /\ \A v \in mark'["shared"] : v \in mark["shared"] \/ (v = Target("push", q) /\ Shared(Origin("push", q)))
    BY <1>4, SharedPassed, Zenon
  <2>5. PICK q \in c.pairs :
           /\ q \in Considered
           /\ \A v \in mark'["shared"] : v \in mark["shared"] \/ (v = q[2] /\ Shared(q[1]))
    BY <2>4, Zenon DEF Origin, Target
  <2>6. Shared(q[1]) => q[1] \in Up BY <2>3, Zenon DEF Shared
  <2>7. q[1] \in Up => q[2] \in Up BY <2>5, UpHas, ConsideredIs, Zenon
  <2>8. ASSUME NEW v \in mark'["shared"] PROVE v \in Up
    <3>1. CASE v \in mark["shared"] BY <2>3, <3>1, Zenon
    <3>2. CASE v = q[2] /\ Shared(q[1]) BY <2>6, <2>7, <3>2, Zenon
    <3> QED BY <2>5, <3>1, <3>2, Zenon
  <2> QED BY <1>1, <1>u, <2>8, Zenon
<1>5. CASE Propagate("pull")
  <2>1. Doing("pull") /\ (agenda' = agenda /\ running' = TRUE) BY <1>5, Zenon DEF Propagate, TypeOK
  <2>2. ~Rising' BY <1>p, <2>1, Phases, Zenon
  <2>4. PICK c \in prog.calls : \E q \in c.pairs :
           /\ q \in Considered
           /\ \A v \in mark'["shared"] : v \in mark["shared"] \/ (v = Target("pull", q) /\ Shared(Origin("pull", q)))
    BY <1>5, SharedPassed, Zenon
  <2>o. "pull" # "push" BY Zenon
  <2>5. PICK q \in c.pairs :
           /\ q \in Considered
           /\ \A v \in mark'["shared"] : v \in mark["shared"] \/ (v = q[1] /\ Shared(q[2]))
    BY <2>4, <2>o, Zenon DEF Origin, Target
  <2>6. ASSUME NEW T \in SUBSET Vertices, Up' \subseteq T, \A r \in Considered : r[2] \in T => r[1] \in T
        PROVE  mark'["shared"] \subseteq T
    <3>1. Up \subseteq T BY <1>u, <2>6, Zenon
    <3>2. mark["shared"] \subseteq T BY <1>d, <2>6, <3>1, Zenon
    <3>3. Sink \subseteq T BY <3>1, UpHas, Zenon
    <3>4. Shared(q[2]) => q[1] \in T BY <2>5, <2>6, <3>2, <3>3, Zenon DEF Shared
    <3>5. ASSUME NEW v \in mark'["shared"] PROVE v \in T
      <4>1. CASE v \in mark["shared"] BY <3>2, <4>1, Zenon
      <4>2. CASE v = q[1] /\ Shared(q[2]) BY <3>4, <4>2, Zenon
      <4> QED BY <2>5, <4>1, <4>2, Zenon
    <3> QED BY <3>5, Zenon
  <2> QED BY <1>c, <2>2, <2>6, Zenon DEF InfluenceSound
<1> QED BY SharedSteps, <1>2, <1>3, <1>4, <1>5, Zenon
\* The pairs to be looked at.
LEMMA Opened ==
  ASSUME NEW op, BeginPropagation(op), NEW c \in CallsIn, NEW q \in c.pairs
  PROVE  <<c, q>> \in todo'
<1> DEFINE P(d) == {<<d, r>> : r \in d.pairs}
<1>1. <<c, q>> \in P(c) BY SMT
<1>2. todo' = UNION {P(d) : d \in CallsIn} BY Zenon DEF BeginPropagation
<1> HIDE DEF P
<1> QED BY <1>1, <1>2, Zenon

\* While marks are passed up: a component's marks are complete when its search is
\* over, and a call's pairs when they have been looked at.
LEMMA RisingStep ==
  ASSUME TypeOK, SearchInv, IsLayered, AgendaInv, FlowInv, NodeInv, WithinInv, CallInv,
         InfluenceInv, [Next]_vars, Rising, Rising'
  PROVE  /\ \A v \in Vertices : \A g : g = prog.owner[v] /\ Over("shared", g)' /\ Shared(v)' =>
              /\ v \in mark'["shared"]
              /\ \A w \in Vertices : Edge(Types \ {"Control"}, v, w)' => w \in mark'["shared"]
         /\ \A c \in prog.calls : c.callee \notin prog.excluded => \A q \in c.pairs :
              Passed("push", c, q)' /\ Shared(q[1])' => q[2] \in mark'["shared"]
<1>p. prog' = prog BY EdgeSteps, Zenon
<1>o. "shared" \in Ops /\ "push" \in Ops /\ "shared" # "push" BY Zenon DEF Ops, Kinds
<1>i. /\ \A v \in Vertices : Over("shared", prog.owner[v]) /\ Shared(v) =>
           /\ v \in mark["shared"]
           /\ \A w \in Vertices : Edge(Types \ {"Control"}, v, w) => w \in mark["shared"]
      /\ \A c \in prog.calls : c.callee \notin prog.excluded => \A q \in c.pairs :
           Passed("push", c, q) /\ Shared(q[1]) => q[2] \in mark["shared"]
  BY Zenon DEF InfluenceInv
<1> DEFINE A == \A v \in Vertices : \A g : g = prog.owner[v] /\ Over("shared", g)' /\ Shared(v)' =>
                  /\ v \in mark'["shared"]
                  /\ \A w \in Vertices : Edge(Types \ {"Control"}, v, w)' => w \in mark'["shared"]
           B == \A c \in prog.calls : c.callee \notin prog.excluded => \A q \in c.pairs :
                  Passed("push", c, q)' /\ Shared(q[1])' => q[2] \in mark'["shared"]
\* nothing of this has begun
<1>n. ASSUME \A g : ~Over("shared", g)' /\ ~Over("push", g)', ~(Doing("push")' /\ running') PROVE A /\ B
  BY <1>n, <1>p, Zenon DEF Passed
\* marks and edges stay
<1>m. ASSUME edges' = edges, mark'["shared"] = mark["shared"], Sink' = Sink
      PROVE  /\ \A v : Shared(v)' => Shared(v)
             /\ \A ts, v, w : Edge(ts, v, w)' <=> Edge(ts, v, w)
  BY <1>m, EdgesSame, Zenon DEF Shared
<1>s. ASSUME edges' = edges, mark'["shared"] = mark["shared"], Sink' = Sink,
             \A g : Over("shared", g)' => Over("shared", g),
             \A c \in prog.calls : c.callee \notin prog.excluded =>
               \A q \in c.pairs : Passed("push", c, q)' => Passed("push", c, q)
      PROVE  A /\ B
  BY <1>i, <1>m, <1>s, Zenon
\* Passed, when no pair is looked at
<1>q. ASSUME \A g : Over("push", g)' => Over("push", g), ~(Doing("push")' /\ running')
      PROVE  \A c, q : Passed("push", c, q)' => Passed("push", c, q)
  BY <1>q, Zenon DEF Passed
<1>1. CASE UNCHANGED vars
  <2>1. agenda' = agenda /\ edges' = edges /\ mark' = mark /\ running' = running /\ todo' = todo BY <1>1, Zenon DEF vars
  <2>2. \A op, g : Over(op, g)' <=> Over(op, g) BY <1>p, <2>1, Stay, Zenon
  <2>3. Component' = Component /\ (Doing("push")' <=> Doing("push")) BY <2>1, Zenon DEF Component, Doing
  <2>4. \A c, q : Passed("push", c, q)' => Passed("push", c, q) BY <2>1, <2>2, <2>3, Zenon DEF Passed
  <2>5. Sink' = Sink BY <2>1, Zenon DEF Sink
  <2> QED BY <1>s, <2>1, <2>2, <2>4, <2>5, Zenon
<1>2. ASSUME NEW k \in Kinds, BeginSearch(k) \/ Scan(k) PROVE A /\ B
  <2>1. agenda' = agenda /\ edges' = edges /\ Doing(k) /\ running' = TRUE BY <1>2, SearchMarks, Zenon
  <2>2. \A op, g : Over(op, g)' <=> Over(op, g) BY <1>p, <2>1, Stay, Zenon
  <2>3. ~Doing("push")' BY <2>1, Zenon DEF Doing, Kinds
  <2>4. \A c, q : Passed("push", c, q)' => Over("push", c.callee) BY <2>2, <2>3, Zenon DEF Passed
  <2>5. CASE k = "sink" BY <1>n, <2>1, <2>2, <2>3, <2>5, OrderSink, Zenon
  <2>6. CASE k = "fd"
    <3>1. "shared" # "fd" /\ "sink" # "fd" /\ "ipc" # "fd" /\ "sink" \in Kinds /\ "shared" \in Kinds BY Zenon DEF Kinds
    <3>2. mark'["shared"] = mark["shared"] /\ mark'["sink"] = mark["sink"] /\ mark'["ipc"] = mark["ipc"]
      BY <1>2, <2>6, <3>1, SearchMarks, Zenon
    <3>3. Sink' = Sink BY <3>2, Zenon DEF Sink
    <3> QED BY <1>s, <1>q, <2>1, <2>2, <2>3, <3>2, <3>3, Zenon
  <2>7. CASE k = "shared"
    <3>1. Doing("shared") BY <2>1, <2>7, Zenon
    <3>2. \A g : Over("shared", g) \/ Over("push", g) => g \notin Component BY <3>1, OrderShared, Zenon
    <3>3. "shared" # "sink" BY Zenon
    <3>4. /\ mark["shared"] \subseteq mark'["shared"]
          /\ \A v \in mark'["shared"] : v \in mark["shared"] \/ prog.owner[v] \in Component
          /\ \A v \in Sink' : v \in Sink
      BY <1>2, <2>7, <3>3, SearchMarks, Zenon
    <3>5. \A v : prog.owner[v] \notin Component /\ Shared(v)' => Shared(v) BY <3>4, Zenon DEF Shared
    <3>6. \A ts, v, w : Edge(ts, v, w)' <=> Edge(ts, v, w) BY <2>1, EdgesSame, Zenon
    <3>7. A BY <1>i, <2>2, <3>2, <3>4, <3>5, <3>6, Zenon
    <3>8. ASSUME NEW c \in prog.calls, c.callee \notin prog.excluded, NEW q \in c.pairs,
                 Passed("push", c, q)', Shared(q[1])'
          PROVE  q[2] \in mark'["shared"]
      <4>1. Over("push", c.callee) BY <2>4, <3>8, Zenon
      <4>2. prog.owner[q[1]] \notin Component BY <3>2, <4>1, CallOwner, Zenon
      <4>3. Shared(q[1]) BY <3>5, <3>8, <4>2, Zenon
      <4> QED BY <1>i, <3>4, <3>8, <4>1, <4>3, Zenon DEF Passed
    <3> QED BY <3>7, <3>8, Zenon
  <2> QED BY <2>5, <2>6, <2>7, Zenon DEF Kinds
<1>3. ASSUME NEW k \in Kinds, EndSearch(k) PROVE A /\ B
  <2>1. agenda' = Tail(agenda) /\ edges' = edges /\ Doing(k) /\ running /\ running' = FALSE /\ mark' = mark /\ queue = {}
    BY <1>3, Zenon DEF EndSearch
  <2>2. \A op \in Ops : \A g : Over(op, g)' => Over(op, g) \/ (op = k /\ g \in Component) BY <1>p, <2>1, Advance, Zenon
  <2>3. Sink' = Sink /\ k # "push" BY <2>1, Zenon DEF Sink, Kinds
  <2>4. \A c, q : Passed("push", c, q)' => Passed("push", c, q) BY <1>o, <1>q, <2>1, <2>2, <2>3, Zenon
  <2>5. CASE k # "shared" BY <1>s, <1>o, <2>1, <2>2, <2>3, <2>4, <2>5, Zenon
  <2>6. CASE k = "shared"
    <3>1. B BY <1>i, <1>m, <2>1, <2>3, <2>4, Zenon
    <3>2. ASSUME NEW v \in Vertices, prog.owner[v] \in Component, Shared(v)
          PROVE  /\ v \in mark["shared"]
                 /\ \A w \in Vertices : Edge(Types \ {"Control"}, v, w) => w \in mark["shared"]
      <4>1. Doing("shared") /\ "shared" # "fd" /\ "shared" \in Kinds BY <2>1, <2>6, Zenon DEF Kinds
      <4>2. v \in mark["shared"] BY <2>1, <3>2, <4>1, Zenon DEF WithinInv, Shared
      <4>3. \A x : MayMark("shared", x) BY <4>1, Zenon DEF MayMark
      <4>4. ASSUME NEW w \in Vertices, Edge(Types \ {"Control"}, v, w) PROVE w \in mark["shared"]
        <5>1. \A t \in Types \ {"Control"} : t \in Followed("shared") BY Zenon DEF Types, Followed
        <5>2. w \in Follow("shared", v) BY <4>4, <5>1, Zenon DEF Edge, Follow
        <5> QED BY <2>1, <3>2, <4>1, <4>2, <4>3, <5>2, Zenon DEF SearchInv
      <4> QED BY <4>2, <4>4, Zenon
    <3>3. \A v : Shared(v)' => Shared(v) BY <1>m, <2>1, <2>3, Zenon
    <3>4. \A ts, v, w : Edge(ts, v, w)' <=> Edge(ts, v, w) BY <2>1, EdgesSame, Zenon
    <3>5. \A g : Over("shared", g)' => Over("shared", g) \/ g \in Component BY <1>o, <2>2, Zenon
    <3>6. A BY <1>i, <2>1, <3>2, <3>3, <3>4, <3>5, Zenon
    <3> QED BY <3>1, <3>6, Zenon
  <2> QED BY <2>5, <2>6, Zenon
<1>4. CASE HandleCalls
  <2>1. Doing("call") /\ agenda' = Tail(agenda) /\ running' = FALSE BY <1>4, Zenon DEF HandleCalls, TypeOK
  <2>2. "shared" # "call" /\ "push" # "call" BY Zenon
  <2>3. \A g : ~Over("shared", g)' /\ ~Over("push", g)' BY <1>o, <1>p, <2>1, <2>2, Advance, OrderCall, Zenon
  <2> QED BY <1>n, <2>1, <2>3, Zenon
<1>5. CASE FinishNode
  <2>1. Doing("summary") /\ agenda' = agenda BY <1>5, Zenon DEF FinishNode, SearchInv
  <2>2. \A g : ~Over("shared", g)' /\ ~Over("push", g)' BY <1>p, <2>1, Stay, OrderSummary, Zenon
  <2>3. ~Doing("push")' BY <2>1, Zenon DEF Doing
  <2> QED BY <1>n, <2>2, <2>3, Zenon
<1>6. CASE BeginSummary \/ StartNode \/ ScanNode \/ EndSummary
  <2>1. /\ Doing("summary")
        /\ agenda' = agenda \/ (agenda' = Tail(agenda) /\ running' = FALSE)
    BY <1>6, Zenon DEF BeginSummary, StartNode, ScanNode, EndSummary, SearchInv
  <2>2. "shared" # "summary" /\ "push" # "summary" BY Zenon
  <2>3. \A g : ~Over("shared", g)' /\ ~Over("push", g)' BY <1>o, <1>p, <2>1, <2>2, Stay, Advance, OrderSummary, Zenon
  <2>4. agenda' = agenda => ~Doing("push")' BY <2>1, Zenon DEF Doing
  <2> QED BY <1>n, <2>1, <2>3, <2>4, Zenon
<1>7. CASE BeginPropagation("push")
  <2>1. edges' = edges BY <1>7, JoinEdges, Zenon
  <2>2. Doing("push") /\ agenda' = agenda /\ mark' = mark BY <1>7, Zenon DEF BeginPropagation
  <2>3. Sink' = Sink BY <2>2, Zenon DEF Sink
  <2>4. \A op, g : Over(op, g)' <=> Over(op, g) BY <1>p, <2>2, Stay, Zenon
  <2>5. ASSUME NEW c \in prog.calls, c.callee \notin prog.excluded, NEW q \in c.pairs, Passed("push", c, q)'
        PROVE  Passed("push", c, q)
    <3>1. SUFFICES ASSUME c.callee \in Component', <<c, q>> \notin todo' PROVE FALSE BY <2>4, <2>5, Zenon DEF Passed
    <3>2. c \in CallsIn BY <2>2, <2>5, <3>1, SMT DEF CallsIn, Component
    <3> QED BY <1>7, <3>1, <3>2, Opened, Zenon
  <2> QED BY <1>s, <2>1, <2>2, <2>3, <2>4, <2>5, Zenon
<1>8. CASE Propagate("push")
  <2>1. Doing("push") /\ agenda' = agenda /\ edges' = edges /\ running BY <1>8, Zenon DEF Propagate
  <2>2. \A op, g : Over(op, g)' <=> Over(op, g) BY <1>p, <2>1, Stay, Zenon
  <2>3. PICK d \in prog.calls : \E r \in d.pairs :
           /\ <<d, r>> \in todo /\ todo' = todo \ {<<d, r>>}
           /\ d.callee \in Component
           /\ mark["shared"] \subseteq mark'["shared"]
           /\ Shared(Origin("push", r)) => Target("push", r) \in mark'["shared"]
           /\ \A v \in mark'["shared"] : v \in mark["shared"] \/ v = Target("push", r)
    BY <1>8, SharedPassed, Zenon
  <2>4. PICK r \in d.pairs :
           /\ <<d, r>> \in todo /\ todo' = todo \ {<<d, r>>}
           /\ d.callee \in Component
           /\ mark["shared"] \subseteq mark'["shared"]
           /\ Shared(r[1]) => r[2] \in mark'["shared"]
           /\ \A v \in mark'["shared"] : v \in mark["shared"] \/ v = r[2]
    BY <2>3, Zenon DEF Origin, Target
  <2>5. prog.owner[r[2]] = d.caller BY CallOwner, Zenon
  <2>6. ~Over("shared", d.caller) /\ ~Over("push", d.caller) /\ d.caller \notin Component
    BY <2>1, <2>4, OrderPush, Zenon
  <2>7. Sink' = Sink /\ Component' = Component
    <3>1. mark'["sink"] = mark["sink"] /\ mark'["ipc"] = mark["ipc"] BY <1>8, Zenon DEF Propagate, TypeOK, Kinds
    <3> QED BY <2>1, <3>1, Zenon DEF Sink, Component
  <2>8. \A v : Shared(v)' => Shared(v) \/ v = r[2] BY <2>4, <2>7, Zenon DEF Shared
  <2>9. \A ts, v, w : Edge(ts, v, w)' <=> Edge(ts, v, w) BY <2>1, EdgesSame, Zenon
  <2>10. ASSUME NEW v \in Vertices, NEW g, g = prog.owner[v], Over("shared", g)', Shared(v)'
         PROVE  /\ v \in mark'["shared"]
                /\ \A w \in Vertices : Edge(Types \ {"Control"}, v, w)' => w \in mark'["shared"]
    <3>1. v # r[2] BY <2>2, <2>5, <2>6, <2>10, SMTT(60)
    <3>2. Shared(v) /\ Over("shared", prog.owner[v]) BY <2>2, <2>8, <2>10, <3>1, Zenon
    <3> QED BY <1>i, <2>4, <2>9, <3>2, Zenon
  <2>11. ASSUME NEW c \in prog.calls, c.callee \notin prog.excluded, NEW q \in c.pairs, Passed("push", c, q)', Shared(q[1])'
         PROVE  q[2] \in mark'["shared"]
    <3>1. Over("push", c.callee) \/ c.callee \in Component BY <2>2, <2>7, <2>11, SMT DEF Passed
    <3>2. prog.owner[q[1]] = c.callee BY CallOwner, Zenon
    <3>3. q[1] # r[2] BY <2>5, <2>6, <3>1, <3>2, SMTT(60)
    <3>4. Shared(q[1]) BY <2>8, <2>11, <3>3, Zenon
    <3>5. Passed("push", c, q) \/ <<c, q>> = <<d, r>>
      <4>1. CASE Over("push", c.callee) BY <4>1, Zenon DEF Passed
      <4>2. CASE ~Over("push", c.callee)
        <5>1. <<c, q>> \notin todo' /\ c.callee \in Component BY <2>2, <2>11, <3>1, <4>2, Zenon DEF Passed
        <5>2. <<c, q>> \notin todo \/ <<c, q>> = <<d, r>> BY <2>4, <5>1, Zenon
        <5> QED BY <2>1, <5>1, <5>2, Zenon DEF Passed
      <4> QED BY <4>1, <4>2, Zenon
    <3>6. CASE Passed("push", c, q) BY <1>i, <2>4, <2>11, <3>4, <3>6, Zenon
    <3>7. CASE <<c, q>> = <<d, r>>
      <4>1. q = r BY <3>7, SMT
      <4> QED BY <2>4, <3>4, <4>1, SMT
    <3> QED BY <3>5, <3>6, <3>7, Zenon
  <2> QED BY <2>10, <2>11, Zenon
<1>9. CASE EndPropagation("push")
  <2>1. Doing("push") /\ edges' = edges /\ mark' = mark /\ running /\ running' = FALSE /\ todo = {}
    BY <1>9, Zenon DEF EndPropagation
  <2>2. agenda' = <<>> \o Tail(agenda) BY <1>9, Zenon DEF EndPropagation, AnyMarkPropagated
  <2>3. Tail(agenda) \in Seq(Jobs) BY <2>1, TailType, Zenon DEF Doing, TypeOK
  <2>4. agenda' = Tail(agenda) BY <2>2, <2>3
  <2>5. \A op \in Ops : \A g : Over(op, g)' => Over(op, g) \/ (op = "push" /\ g \in Component)
    BY <1>p, <2>1, <2>4, Advance, Zenon
  <2>6. Sink' = Sink BY <2>1, Zenon DEF Sink
  <2>7. \A c, q : Passed("push", c, q)' => Passed("push", c, q) BY <1>o, <2>1, <2>5, Zenon DEF Passed
  <2> QED BY <1>s, <1>o, <2>1, <2>5, <2>6, <2>7, Zenon
<1>10. ASSUME BeginPropagation("pull") \/ Propagate("pull") \/ EndPropagation("pull") PROVE FALSE
  <2>1. CASE BeginPropagation("pull") \/ Propagate("pull")
    <3>1. Doing("pull") /\ agenda' = agenda /\ running' = TRUE
      BY <2>1, Zenon DEF BeginPropagation, Propagate, TypeOK
    <3> QED BY <1>p, <3>1, Phases, Zenon
  <2>2. CASE EndPropagation("pull")
    <3>1. Doing("pull") /\ running /\ running' = FALSE BY <2>2, Zenon DEF EndPropagation
    <3>2. agenda' = <<>> \o Tail(agenda) BY <2>2, Zenon DEF EndPropagation, AnyMarkPropagated
    <3>3. Tail(agenda) \in Seq(Jobs) BY <3>1, TailType, Zenon DEF Doing, TypeOK
    <3>4. agenda' = Tail(agenda) BY <3>2, <3>3
    <3> QED BY <1>p, <3>1, <3>4, Phases, Zenon
  <2> QED BY <1>10, <2>1, <2>2, Zenon
<1> QED BY <1>1, <1>2, <1>3, <1>4, <1>5, <1>6, <1>7, <1>8, <1>9, <1>10, Zenon DEF Next
\* A step that does not pass marks down.
LEMMA PullOnly ==
  ASSUME TypeOK, SearchInv, IsLayered, AgendaInv, NodeInv, [Next]_vars
  PROVE  \/ UNCHANGED vars
         \/ /\ Rising /\ Rising' /\ (\A g : ~Over("pull", g) /\ ~Over("pull", g)')
            /\ ~(Doing("pull")' /\ running')
         \/ ~Rising' /\ BeginPropagation("pull")
         \/ ~Rising /\ ~Rising' /\ (Propagate("pull") \/ EndPropagation("pull"))
<1>1. SUFFICES ASSUME ~UNCHANGED vars
               PROVE  \/ /\ Rising /\ Rising' /\ (\A g : ~Over("pull", g) /\ ~Over("pull", g)')
                         /\ ~(Doing("pull")' /\ running')
                      \/ ~Rising' /\ BeginPropagation("pull")
                      \/ ~Rising /\ ~Rising' /\ (Propagate("pull") \/ EndPropagation("pull"))
  BY Zenon
<1>2. PICK o : /\ Doing(o)
               /\ \/ agenda' = agenda /\ running' = TRUE
                  \/ agenda' = Tail(agenda) /\ running' = FALSE /\ (running \/ o = "call")
  BY <1>1, JobStep, Zenon
<1>p. prog' = prog BY EdgeSteps, Zenon
<1>3. CASE o # "pull"
  <2>1. Rising /\ Rising' /\ \A g : ~Over("pull", g) /\ ~Over("pull", g)' BY <1>2, <1>3, <1>p, Phases, Zenon
  <2>2. ~(Doing("pull")' /\ running')
    <3>1. CASE agenda' = agenda BY <1>2, <1>3, <3>1, Zenon DEF Doing
    <3> QED BY <1>2, <3>1, Zenon
  <2> QED BY <2>1, <2>2, Zenon
<1>4. CASE o = "pull"
  <2>1. Doing("pull") BY <1>2, <1>4, Zenon
  <2>2. ~Rising' BY <1>2, <1>4, <1>p, Phases, Zenon
  <2>3. running => ~Rising BY <1>2, <1>4, <1>p, Phases, Zenon
  <2>4. \A k : Doing(k) => k = "pull" BY <2>1, Zenon DEF Doing
  <2>5. "pull" \notin Kinds /\ "pull" # "call" /\ "pull" # "summary" /\ "pull" # "push" BY Zenon DEF Kinds
  <2>6. ASSUME NEW k \in Kinds PROVE ~(BeginSearch(k) \/ Scan(k) \/ EndSearch(k))
    BY <2>4, <2>5, Zenon DEF BeginSearch, Scan, EndSearch
  <2>7. ~(HandleCalls \/ BeginSummary \/ StartNode \/ ScanNode \/ FinishNode \/ EndSummary)
    BY <2>4, <2>5, Zenon DEF HandleCalls, BeginSummary, StartNode, ScanNode, FinishNode, EndSummary, SearchInv
  <2>8. ~(BeginPropagation("push") \/ Propagate("push") \/ EndPropagation("push"))
    BY <2>4, <2>5, Zenon DEF BeginPropagation, Propagate, EndPropagation
  <2>9. BeginPropagation("pull") \/ Propagate("pull") \/ EndPropagation("pull")
    BY <1>1, <2>6, <2>7, <2>8, Zenon DEF Next
  <2>10. Propagate("pull") \/ EndPropagation("pull") => running BY Zenon DEF Propagate, EndPropagation
  <2> QED BY <2>2, <2>3, <2>9, <2>10, Zenon
<1> QED BY <1>3, <1>4, Zenon

\* When all has been passed up, the marks are closed.
LEMMA AllPassedUp ==
  ASSUME TypeOK, IsLayered, AgendaInv, FlowInv, WithinInv, InfluenceInv, Rising, Done >= 6 * N + 4
  PROVE  Up \subseteq mark["shared"]
<1>1. N \in Nat /\ DOMAIN prog.sccs = 1 .. N BY Numbered, Zenon
<1>2. ASSUME NEW v \in Vertices, prog.owner[v] # None PROVE Over("shared", prog.owner[v])
  <2>1. PICK i \in 1 .. N : prog.owner[v] \in prog.sccs[i] BY <1>1, <1>2, Zenon DEF IsLayered
  <2> QED BY <2>1, OrderAfter, Zenon
<1>3. ASSUME NEW c \in prog.calls PROVE Over("push", c.callee)
  <2>1. PICK i \in 1 .. N : c.callee \in prog.sccs[i] BY CallOrder, Zenon
  <2> QED BY <2>1, OrderAfter, Zenon
<1>4. \A v \in Vertices : Over("shared", prog.owner[v]) /\ Shared(v) =>
        /\ v \in mark["shared"]
        /\ \A w \in Vertices : Edge(Types \ {"Control"}, v, w) => w \in mark["shared"]
  BY Zenon DEF InfluenceInv
<1>5. Sink \subseteq Vertices /\ mark["shared"] \in SUBSET Vertices BY Zenon DEF TypeOK, Sink, Kinds
<1>6. Sink \subseteq mark["shared"] BY <1>2, <1>4, <1>5, Zenon DEF WithinInv, Shared
<1>7. ASSUME NEW v \in Vertices, NEW w \in Vertices, v \in mark["shared"], Edge(Types \ {"Control"}, v, w)
      PROVE  w \in mark["shared"]
  <2>1. Edge(Types, v, w) BY <1>7, Zenon DEF Edge
  <2>2. prog.owner[v] # None BY <2>1, Zenon DEF FlowInv
  <2> QED BY <1>2, <1>4, <1>7, <2>2, Zenon DEF Shared
<1>8. ASSUME NEW q \in Considered, q[1] \in mark["shared"] PROVE q[2] \in mark["shared"]
  <2>1. PICK c \in prog.calls : c.callee \notin prog.excluded /\ q \in c.pairs BY ConsideredIs, Zenon
  <2>2. Passed("push", c, q) /\ Shared(q[1]) BY <1>3, <1>8, Zenon DEF Passed, Shared
  <2> QED BY <2>1, <2>2, Zenon DEF InfluenceInv
<1>9. UpClosed(mark["shared"]) BY <1>6, <1>7, <1>8, Zenon DEF UpClosed
<1> QED BY <1>5, <1>9, UpHas, Zenon

\* Every step keeps the marks of influence complete, as far as the pass has come.
LEMMA InfluenceStep ==
  ASSUME TypeOK, SearchInv, IsLayered, AgendaInv, FlowInv, NodeInv, WithinInv, CallInv, InfluenceInv, [Next]_vars
  PROVE  InfluenceInv'
<1>p. prog' = prog BY EdgeSteps, Zenon
<1>o. "pull" \in Ops /\ "pull" # "push" BY Zenon DEF Ops
<1>1. \A op \in {"push", "pull"} : Doing(op)' /\ running' =>
        \A t \in todo' : t[1].callee \in Component' \ prog.excluded
  <2>1. SUFFICES ASSUME NEW op \in {"push", "pull"}, Doing(op)', running', NEW t \in todo'
                 PROVE  t[1].callee \in Component' /\ t[1].callee \notin prog.excluded
    BY Zenon
  <2>2. agenda' = agenda BY <2>1, JobStep, Zenon DEF vars
  <2>3. Doing(op) /\ Component' = Component BY <2>1, <2>2, Zenon DEF Doing, Component
  <2>4. CASE BeginPropagation(op)
    <3>1. PICK c \in CallsIn : t \in {<<c, q>> : q \in c.pairs} BY <2>1, <2>4, Zenon DEF BeginPropagation
    <3>2. t[1] = c BY <3>1, SMT
    <3>3. c.callee \in Component /\ c.callee \notin prog.excluded BY Zenon DEF CallsIn
    <3> QED BY <2>3, <3>2, <3>3, SMT
  <2>5. CASE running /\ todo' \subseteq todo BY <2>1, <2>3, <2>5, Zenon DEF InfluenceInv
  <2>6. UNCHANGED vars => running /\ todo' \subseteq todo BY <2>1, Zenon DEF vars
  <2>7. Propagate(op) => running /\ todo' \subseteq todo BY Zenon DEF Propagate
  <2>8. \A k : Doing(k) => k = op BY <2>3, Zenon DEF Doing
  <2>9. op \notin Kinds /\ op # "call" /\ op # "summary" BY Zenon DEF Kinds
  <2>10. ASSUME NEW k \in Kinds PROVE ~(BeginSearch(k) \/ Scan(k) \/ EndSearch(k))
    BY <2>8, <2>9, Zenon DEF BeginSearch, Scan, EndSearch
  <2>11. ~(HandleCalls \/ BeginSummary \/ StartNode \/ ScanNode \/ FinishNode \/ EndSummary)
    BY <2>8, <2>9, Zenon DEF HandleCalls, BeginSummary, StartNode, ScanNode, FinishNode, EndSummary, SearchInv
  <2>12. ASSUME NEW o \in {"push", "pull"}, BeginPropagation(o) \/ Propagate(o) PROVE o = op
    BY <2>8, <2>12, Zenon DEF BeginPropagation, Propagate
  <2>13. ASSUME NEW o \in {"push", "pull"} PROVE ~EndPropagation(o) BY <2>1, Zenon DEF EndPropagation
  <2> QED BY <2>4, <2>5, <2>6, <2>7, <2>10, <2>11, <2>12, <2>13, Zenon DEF Next
<1>2. Rising' => Rising BY PullOnly, Zenon DEF vars, Rising, Done, N
<1>3. Rising' =>
       /\ \A v \in Vertices : Over("shared", prog.owner[v])' /\ Shared(v)' =>
            /\ v \in mark'["shared"]
            /\ \A w \in Vertices : Edge(Types \ {"Control"}, v, w)' => w \in mark'["shared"]
       /\ \A c \in prog.calls : c.callee \notin prog.excluded => \A q \in c.pairs :
            Passed("push", c, q)' /\ Shared(q[1])' => q[2] \in mark'["shared"]
  <2>1. SUFFICES ASSUME Rising'
        PROVE
         /\ \A v \in Vertices : Over("shared", prog.owner[v])' /\ Shared(v)' =>
              /\ v \in mark'["shared"]
              /\ \A w \in Vertices : Edge(Types \ {"Control"}, v, w)' => w \in mark'["shared"]
         /\ \A c \in prog.calls : c.callee \notin prog.excluded => \A q \in c.pairs :
              Passed("push", c, q)' /\ Shared(q[1])' => q[2] \in mark'["shared"]
    BY Zenon
  <2>2. \A v \in Vertices : \A g : g = prog.owner[v] /\ Over("shared", g)' /\ Shared(v)' =>
          /\ v \in mark'["shared"]
          /\ \A w \in Vertices : Edge(Types \ {"Control"}, v, w)' => w \in mark'["shared"]
    BY <1>2, <2>1, RisingStep, Zenon
  <2>3. \A c \in prog.calls : c.callee \notin prog.excluded => \A q \in c.pairs :
          Passed("push", c, q)' /\ Shared(q[1])' => q[2] \in mark'["shared"]
    BY <1>2, <2>1, RisingStep, Zenon
  <2> QED BY <1>p, <2>2, <2>3, Zenon
<1>4. ~Rising' => Up' \subseteq mark'["shared"]
  <2>1. CASE UNCHANGED vars
    <3>1. edges' = edges /\ mark' = mark /\ agenda' = agenda /\ running' = running BY <2>1, Zenon DEF vars
    <3>2. Sink' = Sink /\ (Rising' <=> Rising) BY <1>p, <3>1, Zenon DEF Sink, Rising, Done, N
    <3>3. Up' = Up BY <1>p, <3>1, <3>2, UpSame, Zenon
    <3> QED BY <3>1, <3>2, <3>3, Zenon DEF InfluenceInv
  <2>2. CASE BeginPropagation("pull")
    <3>1. edges' = edges BY <2>2, JoinEdges, Zenon
    <3>2. mark' = mark /\ Doing("pull") BY <2>2, Zenon DEF BeginPropagation
    <3>3. Sink' = Sink BY <3>2, Zenon DEF Sink
    <3>4. Up' = Up BY <1>p, <3>1, <3>3, UpSame, Zenon
    <3>5. Done >= 6 * N + 4 BY <3>2, OrderPull, Zenon
    <3>6. Up \subseteq mark["shared"] BY <3>5, AllPassedUp, Zenon DEF InfluenceInv
    <3> QED BY <3>2, <3>4, <3>6, Zenon
  <2>3. CASE ~Rising /\ (Propagate("pull") \/ EndPropagation("pull"))
    <3>1. edges' = edges BY <2>3, Zenon DEF Propagate, EndPropagation
    <3>2. Sink' = Sink
      <4>1. mark'["sink"] = mark["sink"] /\ mark'["ipc"] = mark["ipc"]
        BY <2>3, Zenon DEF Propagate, EndPropagation, TypeOK, Kinds
      <4> QED BY <4>1, Zenon DEF Sink
    <3>3. Up' = Up BY <1>p, <3>1, <3>2, UpSame, Zenon
    <3>4. mark["shared"] \subseteq mark'["shared"]
      <4>1. CASE EndPropagation("pull") BY <4>1, Zenon DEF EndPropagation
      <4>2. CASE Propagate("pull") BY <4>2, SharedPassed, Zenon
      <4> QED BY <2>3, <4>1, <4>2, Zenon
    <3> QED BY <2>3, <3>3, <3>4, Zenon DEF InfluenceInv
  <2> QED BY PullOnly, <2>1, <2>2, <2>3, Zenon
<1>5. \A c \in prog.calls : c.callee \notin prog.excluded => \A q \in c.pairs :
        Passed("pull", c, q)' /\ Shared(q[2])' => q[1] \in mark'["shared"]
  <2>i. \A c \in prog.calls : c.callee \notin prog.excluded => \A q \in c.pairs :
          Passed("pull", c, q) /\ Shared(q[2]) => q[1] \in mark["shared"]
    BY Zenon DEF InfluenceInv
  <2>1. CASE UNCHANGED vars
    <3>1. agenda' = agenda /\ mark' = mark /\ running' = running /\ todo' = todo BY <2>1, Zenon DEF vars
    <3>2. \A op, g : Over(op, g)' <=> Over(op, g) BY <1>p, <3>1, Stay, Zenon
    <3>3. Component' = Component /\ (Doing("pull")' <=> Doing("pull")) BY <3>1, Zenon DEF Component, Doing
    <3>4. \A c, q : Passed("pull", c, q)' => Passed("pull", c, q) BY <3>1, <3>2, <3>3, Zenon DEF Passed
    <3>5. \A v : Shared(v)' => Shared(v) BY <3>1, Zenon DEF Shared, Sink
    <3> QED BY <2>i, <3>1, <3>4, <3>5, Zenon
  <2>2. CASE (\A g : ~Over("pull", g)') /\ ~(Doing("pull")' /\ running') BY <2>2, Zenon DEF Passed
  <2>3. CASE BeginPropagation("pull")
    <3>1. Doing("pull") /\ agenda' = agenda /\ mark' = mark BY <2>3, Zenon DEF BeginPropagation
    <3>2. \A op, g : Over(op, g)' <=> Over(op, g) BY <1>p, <3>1, Stay, Zenon
    <3>3. ASSUME NEW c \in prog.calls, c.callee \notin prog.excluded, NEW q \in c.pairs, Passed("pull", c, q)'
          PROVE  Passed("pull", c, q)
      <4>1. SUFFICES ASSUME c.callee \in Component', <<c, q>> \notin todo' PROVE FALSE BY <3>2, <3>3, Zenon DEF Passed
      <4>2. c \in CallsIn BY <3>1, <3>3, <4>1, SMT DEF CallsIn, Component
      <4> QED BY <2>3, <4>1, <4>2, Opened, Zenon
    <3>4. \A v : Shared(v)' => Shared(v) BY <3>1, Zenon DEF Shared, Sink
    <3> QED BY <2>i, <3>1, <3>3, <3>4, Zenon
  <2>4. CASE Propagate("pull")
    <3>1. Doing("pull") /\ agenda' = agenda /\ running BY <2>4, Zenon DEF Propagate
    <3>2. \A op, g : Over(op, g)' <=> Over(op, g) BY <1>p, <3>1, Stay, Zenon
    <3>3. PICK d \in prog.calls : \E r \in d.pairs :
             /\ <<d, r>> \in todo /\ todo' = todo \ {<<d, r>>}
             /\ d.callee \in Component
             /\ mark["shared"] \subseteq mark'["shared"]
             /\ Shared(Origin("pull", r)) => Target("pull", r) \in mark'["shared"]
             /\ \A v \in mark'["shared"] : v \in mark["shared"] \/ v = Target("pull", r)
      BY <2>4, SharedPassed, Zenon
    <3>4. PICK r \in d.pairs :
             /\ <<d, r>> \in todo /\ todo' = todo \ {<<d, r>>}
             /\ d.callee \in Component
             /\ mark["shared"] \subseteq mark'["shared"]
             /\ Shared(r[2]) => r[1] \in mark'["shared"]
             /\ \A v \in mark'["shared"] : v \in mark["shared"] \/ v = r[1]
      BY <1>o, <3>3, Zenon DEF Origin, Target
    <3>5. prog.owner[r[1]] = d.callee BY CallOwner, Zenon
    <3>7. Sink' = Sink /\ Component' = Component
      <4>1. mark'["sink"] = mark["sink"] /\ mark'["ipc"] = mark["ipc"] BY <2>4, Zenon DEF Propagate, TypeOK, Kinds
      <4> QED BY <3>1, <4>1, Zenon DEF Sink, Component
    <3>8. \A v : Shared(v)' => Shared(v) \/ v = r[1] BY <3>4, <3>7, Zenon DEF Shared
    <3>11. ASSUME NEW c \in prog.calls, c.callee \notin prog.excluded, NEW q \in c.pairs, Passed("pull", c, q)', Shared(q[2])'
           PROVE  q[1] \in mark'["shared"]
      <4>1. Over("pull", c.callee) \/ c.callee \in Component BY <3>2, <3>7, <3>11, SMT DEF Passed
      <4>2. prog.owner[q[2]] = c.caller BY CallOwner, Zenon
      <4>s. c.caller \notin Component BY <3>1, <4>1, OrderPull, Zenon
      <4>3. q[2] # r[1] BY <3>4, <3>5, <4>2, <4>s, SMTT(60)
      <4>4. Shared(q[2]) BY <3>8, <3>11, <4>3, Zenon
      <4>5. Passed("pull", c, q) \/ <<c, q>> = <<d, r>>
        <5>1. CASE Over("pull", c.callee) BY <5>1, Zenon DEF Passed
        <5>2. CASE ~Over("pull", c.callee)
          <6>1. <<c, q>> \notin todo' /\ c.callee \in Component BY <3>2, <3>11, <4>1, <5>2, Zenon DEF Passed
          <6>2. <<c, q>> \notin todo \/ <<c, q>> = <<d, r>> BY <3>4, <6>1, Zenon
          <6> QED BY <3>1, <6>1, <6>2, Zenon DEF Passed
        <5> QED BY <5>1, <5>2, Zenon
      <4>6. CASE Passed("pull", c, q) BY <2>i, <3>4, <3>11, <4>4, <4>6, Zenon
      <4>7. CASE <<c, q>> = <<d, r>>
        <5>1. q = r BY <4>7, SMT
        <5> QED BY <3>4, <4>4, <5>1, SMTT(60)
      <4> QED BY <4>5, <4>6, <4>7, Zenon
    <3> QED BY <3>11, Zenon
  <2>5. CASE EndPropagation("pull")
    <3>1. Doing("pull") /\ mark' = mark /\ running /\ running' = FALSE /\ todo = {} BY <2>5, Zenon DEF EndPropagation
    <3>2. agenda' = <<>> \o Tail(agenda) BY <2>5, Zenon DEF EndPropagation, AnyMarkPropagated
    <3>3. Tail(agenda) \in Seq(Jobs) BY <3>1, TailType, Zenon DEF Doing, TypeOK
    <3>4. agenda' = Tail(agenda) BY <3>2, <3>3
    <3>5. \A op \in Ops : \A g : Over(op, g)' => Over(op, g) \/ (op = "pull" /\ g \in Component)
      BY <1>p, <3>1, <3>4, Advance, Zenon
    <3>6. \A c, q : Passed("pull", c, q)' => Passed("pull", c, q) BY <1>o, <3>1, <3>5, Zenon DEF Passed
    <3>7. \A v : Shared(v)' => Shared(v) BY <3>1, Zenon DEF Shared, Sink
    <3> QED BY <2>i, <3>1, <3>6, <3>7, Zenon
  <2> QED BY PullOnly, <2>1, <2>2, <2>3, <2>4, <2>5, Zenon
<1> QED BY <1>p, <1>1, <1>3, <1>4, <1>5, Zenon DEF InfluenceInv
-----------------------------------------------------------------------------

\* SharedInv holds when the passes begin.
LEMMA InitShared == Init => SharedInv
<1> SUFFICES ASSUME Init, IsLayered PROVE InfluenceSound /\ InfluenceInv BY Zenon DEF SharedInv
<1>1. TypeOK BY InitInv, Zenon DEF ReachInv
<1>2. N \in Nat BY <1>1, Numbered, Zenon
<1>3. running = FALSE /\ todo = {} BY Zenon DEF Init
<1>4. mark["shared"] = {} BY Zenon DEF Init, Kinds
<1>5. Done = 0 BY NothingOver, Zenon
<1>6. Rising
  <2>1. Done < 6 * N + 4 BY <1>2, <1>5
  <2> QED BY <2>1, Zenon DEF Rising
<1>7. "shared" \in Ops /\ "push" \in Ops /\ "pull" \in Ops BY Zenon DEF Ops, Kinds
<1>8. \A op \in Ops : \A g : ~Over(op, g) BY NothingOver, Zenon
<1>9. InfluenceSound BY <1>4, Zenon DEF InfluenceSound
<1>10. InfluenceInv BY <1>3, <1>6, <1>7, <1>8, Zenon DEF InfluenceInv, Passed
<1> QED BY <1>9, <1>10, Zenon

\* Every step preserves SharedInv.
LEMMA SharedStep == ReachInv /\ ReachInv' /\ LayeredInv /\ SharedInv /\ [Next]_vars => SharedInv'
<1> SUFFICES ASSUME ReachInv, ReachInv', LayeredInv, SharedInv, [Next]_vars PROVE SharedInv' BY Zenon
<1>1. prog' = prog /\ TypeOK /\ TypeOK' /\ SearchInv BY EdgeSteps, Zenon DEF ReachInv
<1>2. SUFFICES ASSUME IsLayered' PROVE InfluenceSound' /\ InfluenceInv' BY Zenon DEF SharedInv
<1>3. IsLayered BY <1>1, <1>2, ProgSame, Zenon
<1>4. /\ AgendaInv /\ FlowInv /\ NodeInv /\ SummaryInv /\ CallInv /\ WithinInv /\ SinkInv
      /\ InfluenceSound /\ InfluenceInv
  BY <1>3, Zenon DEF LayeredInv, SharedInv
<1>5. InfluenceSound' BY <1>1, <1>3, <1>4, SoundStep, Zenon
<1>6. InfluenceInv' BY <1>1, <1>3, <1>4, InfluenceStep, Zenon
<1> QED BY <1>5, <1>6, Zenon

\* For every layered program: until the first mark is passed down, what is marked
\* is influenced by data that flows within functions and to callers, and all of
\* it is marked in the components whose turn has been; then it is all marked.
THEOREM SharedInvariant == Spec => []SharedInv
<1>1. SharedInv /\ LayeredInv /\ ReachInv /\ ReachInv' /\ [Next]_vars => SharedInv' BY SharedStep, Zenon
<1> QED BY InitShared, <1>1, Invariant, LayeredInvariant, PTL DEF Spec

\* For every layered program, after PDGSharedReachabilityPass the values marked as
\* influenced are those that data reaches within functions and on the way up to
\* callers, and those that are arguments for such values, down any depth of calls.
THEOREM SecondPass == Spec => []SecondPassExact
<1>1. ReachInv /\ LayeredInv /\ SharedInv => SecondPassExact
  <2>1. SUFFICES ASSUME ReachInv, LayeredInv, SharedInv, agenda = <<>>, IsLayered
                 PROVE  mark["shared"] =
                          Closure(Closure(Sink, Along(Types \ {"Control"}) \cup Considered), Reverse(Considered))
    BY Zenon DEF SecondPassExact
  <2>2. TypeOK BY <2>1, Zenon DEF ReachInv
  <2>3. AgendaInv /\ FlowInv /\ WithinInv /\ InfluenceSound /\ InfluenceInv BY <2>1, Zenon DEF LayeredInv, SharedInv
  <2>4. N \in Nat /\ DOMAIN prog.sccs = 1 .. N BY <2>2, Numbered, Zenon
  <2>l. Len(agenda) = 0 BY <2>1
  <2>5. Done >= 7 * N + 4 /\ Done >= 6 * N + 4 BY <2>4, <2>l DEF Done
  <2> DEFINE ts == Types \ {"Control"}
             Q == Along(ts) \cup Considered
  <2>6. ASSUME NEW T \in SUBSET Vertices
        PROVE  UpClosed(T) <=> Sink \subseteq T /\ \A x \in Q : x[1] \in T => x[2] \in T
    <3>1. ASSUME UpClosed(T), NEW x \in Q, x[1] \in T PROVE x[2] \in T
      <4>1. CASE x \in Considered BY <3>1, <4>1, Zenon DEF UpClosed
      <4>2. CASE x \in Along(ts)
        <5>1. PICK e \in edges : e[1] \in ts /\ x = <<e[2], e[3]>> BY <4>2, Zenon DEF Along
        <5>2. e = <<e[1], e[2], e[3]>> /\ e[2] \in Vertices /\ e[3] \in Vertices BY <2>2 DEF TypeOK
        <5>3. <<e[1], e[2], e[3]>> \in edges /\ x[1] = e[2] /\ x[2] = e[3] BY <5>1, <5>2, SMT
        <5>4. Edge(Types \ {"Control"}, e[2], e[3]) BY <5>1, <5>3, Zenon DEF Edge
        <5>5. e[2] \in T => e[3] \in T BY <3>1, <5>2, <5>4, Zenon DEF UpClosed
        <5> QED BY <3>1, <5>3, <5>5, SMT
      <4> QED BY <3>1, <4>1, <4>2, Zenon
    <3>2. ASSUME \A x \in Q : x[1] \in T => x[2] \in T, NEW v \in Vertices, NEW w \in Vertices, v \in T,
                 Edge(Types \ {"Control"}, v, w)
          PROVE  w \in T
      <4>1. PICK t \in Types \ {"Control"} : <<t, v, w>> \in edges BY <3>2, Zenon DEF Edge
      <4> DEFINE e == <<t, v, w>>
                 x == <<e[2], e[3]>>
      <4>2. e \in edges /\ e[1] \in ts /\ x[1] = v /\ x[2] = w BY <4>1
      <4>3. x \in Along(ts)
        <5> HIDE DEF e
        <5> QED BY <4>2, Zenon DEF Along
      <4>4. x[1] \in T => x[2] \in T BY <3>2, <4>3, Zenon
      <4> QED BY <3>2, <4>2, <4>4, SMT
    <3>3. UpClosed(T) => Sink \subseteq T BY Zenon DEF UpClosed
    <3>4. ASSUME Sink \subseteq T, \A x \in Q : x[1] \in T => x[2] \in T PROVE UpClosed(T)
      <4>1. \A q \in Considered : q[1] \in T => q[2] \in T BY <3>4, Zenon
      <4> QED BY <3>2, <3>4, <4>1, Zenon DEF UpClosed
    <3> QED BY <3>1, <3>3, <3>4, Zenon
  <2> HIDE DEF Q
  <2>7. Closure(Sink, Q) = Up BY <2>6, Zenon DEF Closure, Up
  <2>8. Up \subseteq mark["shared"]
    <3>1. CASE Rising BY <2>1, <2>2, <2>3, <2>5, <3>1, AllPassedUp, Zenon
    <3>2. CASE ~Rising BY <2>3, <3>2, Zenon DEF InfluenceInv
    <3> QED BY <3>1, <3>2, Zenon
  <2>9. ASSUME NEW q \in Considered, q[2] \in mark["shared"] PROVE q[1] \in mark["shared"]
    <3>1. PICK c \in prog.calls : c.callee \notin prog.excluded /\ q \in c.pairs BY <2>2, ConsideredIs, Zenon
    <3>2. PICK i \in 1 .. N : c.callee \in prog.sccs[i] BY <2>1, <2>2, CallOrder, Zenon
    <3>3. Over("pull", c.callee) BY <2>1, <2>2, <2>3, <2>5, <3>2, OrderAfter, Zenon
    <3>4. Passed("pull", c, q) /\ Shared(q[2]) BY <2>9, <3>3, Zenon DEF Passed, Shared
    <3> QED BY <2>3, <3>1, <3>4, Zenon DEF InfluenceInv
  <2> DEFINE D == Reverse(Considered)
  <2>10. ASSUME NEW T
         PROVE  (\A x \in D : x[1] \in T => x[2] \in T) <=> \A q \in Considered : q[2] \in T => q[1] \in T
    <3>1. \A x : x \in D <=> \E q \in Considered : x = <<q[2], q[1]>> BY Zenon DEF Reverse
    <3>2. ASSUME NEW x, NEW q, x = <<q[2], q[1]>> PROVE x[1] = q[2] /\ x[2] = q[1] BY <3>2, SMT
    <3>3. ASSUME \A x \in D : x[1] \in T => x[2] \in T, NEW q \in Considered, q[2] \in T PROVE q[1] \in T
      <4> DEFINE x == <<q[2], q[1]>>
      <4>1. x \in D BY <3>1, Zenon
      <4>2. x[1] = q[2] /\ x[2] = q[1] BY SMT
      <4>3. x[1] \in T => x[2] \in T BY <3>3, <4>1, Zenon
      <4> QED BY <3>3, <4>2, <4>3, SMT
    <3>4. ASSUME \A q \in Considered : q[2] \in T => q[1] \in T, NEW x \in D, x[1] \in T PROVE x[2] \in T
      <4>1. PICK q \in Considered : x = <<q[2], q[1]>> BY <3>1, Zenon
      <4>2. x[1] = q[2] /\ x[2] = q[1] BY <3>2, <4>1, Zenon
      <4> QED BY <3>4, <4>2, SMT
    <3> QED BY <3>3, <3>4, Zenon
  <2> HIDE DEF D
  <2>11. mark["shared"] \in SUBSET Vertices BY <2>2, Zenon DEF TypeOK, Kinds
  <2>12. \A x \in D : x[1] \in mark["shared"] => x[2] \in mark["shared"] BY <2>9, <2>10, Zenon
  <2>13. Closure(Up, D) \subseteq mark["shared"] BY <2>8, <2>11, <2>12, Zenon DEF Closure
  <2>14. \A T \in SUBSET Vertices : Up \subseteq T /\ (\A x \in D : x[1] \in T => x[2] \in T) => mark["shared"] \subseteq T
    BY <2>3, <2>10, Zenon DEF InfluenceSound
  <2>15. mark["shared"] \subseteq Closure(Up, D) BY <2>11, <2>14, Zenon DEF Closure
  <2>16. mark["shared"] = Closure(Up, D) BY <2>13, <2>15, Zenon
  <2> QED BY <2>7, <2>16, SMT DEF D, Q
<1> QED BY Invariant, LayeredInvariant, SharedInvariant, <1>1, PTL
=============================================================================
