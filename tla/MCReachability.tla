--------------------------- MODULE MCReachability ---------------------------
(***************************************************************************)
(* Instances of Reachability for TLC: h calls g, and h or g calls f.  A    *)
(* parameter and the result of f are f1, f2; g has g1, g2 and h has h1, h2.*)
(***************************************************************************)
EXTENDS Reachability

MCFunctions == {"f", "g", "h"}
MCVertices == {"f1", "f2", "g1", "g2", "h1", "h2", "x"}
MCOwner == [v \in MCVertices |->
  CASE v \in {"f1", "f2"} -> "f" [] v \in {"g1", "g2"} -> "g"
    [] v \in {"h1", "h2"} -> "h" [] OTHER -> None]

Call(to, from, pairs, joined) ==
  [callee |-> to, caller |-> from, considered |-> TRUE, pairs |-> pairs,
   returns |-> {"f2", "g2"}, united |-> {}, joined |-> joined]
Small(c) == [c EXCEPT !.considered = FALSE]   \* no argument can hold a pointer
Deep(c) == [c EXCEPT !.united = c.pairs]      \* memory behind pointers to pointers

GF == Call("f", "g", {<<"f1", "g1">>, <<"f2", "g2">>}, {})
HG == Call("g", "h", {<<"g1", "h1">>, <<"g2", "h2">>}, {})
HF == Call("f", "h", {<<"f1", "h2">>}, {<<"h2", "h1">>})
FG == Call("g", "f", {<<"g1", "f2">>}, {})

Flow == Data({<<"f1", "f2">>, <<"g1", "g2">>, <<"g2", "g1">>, <<"h1", "h2">>})
Other == {<<"Control", "f2", "f1">>, <<"Deref", "g1", "g2">>, <<"Part", "h2", "h1">>}
Across == Data({<<"f2", "x">>, <<"x", "g1">>, <<"x", "h1">>})

Program(edgeset, callset, sccs, ipc, excluded) ==
  [owner |-> MCOwner, edges |-> edgeset, calls |-> callset, sccs |-> sccs, ipc |-> ipc,
   signature |-> {"f1", "f2", "g1", "g2"}, constants |-> IF excluded = {} THEN {} ELSE {"h1"},
   fd |-> {"f2"}, integer |-> MCVertices \ {"g1"}, sums |-> {"h2"}, excluded |-> excluded]

Layers == <<{"f"}, {"g"}, {"h"}>>
Ipc == {{}, {"f1"}, {"f2"}, {"g2"}, {"h1"}}

Layered == {Program(e, c, Layers, i, IF HF \in c THEN {"g"} ELSE {}) :
              e \in SUBSET (Flow \cup Other), c \in {{GF, HG}, {HG, HF}}, i \in Ipc}
Lossy == {Program(e, c, Layers, i, {}) :
            e \in SUBSET (Flow \cup {<<"Part", "h2", "h1">>}),
            c \in {{Small(GF), HG}, {GF, Small(HG)}, {Small(GF), HG, HF}}, i \in {{"f2"}, {"h1"}, {"h2"}}}
OutOfOrder == {Program(e, {GF, Small(FG), HG}, Layers, i, {}) :
                 e \in SUBSET Flow, i \in {{"f2"}, {"g2"}}}
WithGlobal == {Program(e, {GF, HG}, Layers, i, {}) :
                 e \in SUBSET (Across \cup (Flow \ Data({<<"g2", "g1">>}))), i \in Ipc \cup {{"x"}}}
Recursive == {Program(e, {GF, Deep(FG), HG}, <<{"f", "g"}, {"h"}>>, i, {}) :
                e \in SUBSET (Flow \cup (Other \ {<<"Part", "h2", "h1">>})), i \in Ipc}

MCPrograms == Layered \cup Lossy \cup OutOfOrder \cup WithGlobal \cup Recursive
-----------------------------------------------------------------------------
\* The marks that the callees get from their callers are followed in the callees:
\* "@return true if any mark has been propagated" of
\* propagateInfluenceFromCallers(), whose caller then repeats the search.
MarksFollowed ==
  IsLayered /\ agenda = <<>> =>
    \A v \in mark["shared"] : Follow("shared", v) \subseteq mark["shared"]
=============================================================================
