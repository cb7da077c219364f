----------------------------- MODULE MCSccOrder -----------------------------
(***************************************************************************)
(* Instances of SccOrder for TLC: all call graphs of four functions        *)
(* without direct recursion, and all of three functions with it.           *)
(***************************************************************************)
EXTENDS SccOrder

MCNodes == 1 .. 4
MCGraphs ==
  SUBSET {e \in MCNodes \X MCNodes : e[1] # e[2]} \cup SUBSET ((1 .. 3) \X (1 .. 3))
=============================================================================
