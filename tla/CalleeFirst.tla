----------------------------- MODULE CalleeFirst -----------------------------
(***************************************************************************)
(* What the order of the functions promises to the passes that use it: the *)
(* functions come in groups that call each other in circles, and a group   *)
(* comes after all functions it calls.                                     *)
(***************************************************************************)
CONSTANT Nodes

VARIABLES calls,  \* pairs of a caller and a function it calls
          done    \* the functions that have been listed

Closed(S) == \A e \in calls : e[1] \in S => e[2] \in S
Reaches(a, b) == \A S \in SUBSET Nodes : a \in S /\ Closed(S) => b \in S
Circle(a, b) == Reaches(a, b) /\ Reaches(b, a)

Init == done = {}

List(f) ==
  LET group == {g \in Nodes : Circle(f, g)} IN
  /\ group \cap done = {}
  /\ \A e \in calls : e[1] \in group => e[2] \in group \cup done
  /\ done' = done \cup group
  /\ UNCHANGED calls

Next == \E f \in Nodes : List(f)
Spec == Init /\ [][Next]_<<calls, done>>
=============================================================================
