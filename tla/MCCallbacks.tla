----------------------------- MODULE MCCallbacks -----------------------------
(***************************************************************************)
(* Instances of Callbacks for TLC.  A page has room for two trampolines    *)
(* and a byte that fits none.                                              *)
(***************************************************************************)
EXTENDS Callbacks

MCFunctions == [s \in Sides |-> IF s = "program" THEN {10} ELSE {11}]
\* Two functions in each process, so that a wrong one can be called.
MCTwoFunctions == [s \in Sides |-> IF s = "program" THEN {10, 12} ELSE {11, 13}]
MCPages == {20, 27, 34}
=============================================================================
