---------------------- MODULE MCReachabilityInvariant ----------------------
(* For TLC: the inductive invariants of ReachabilityProofs on small programs. *)
EXTENDS MCReachability, SharedReachabilityProofs

\* With data flow in every function, and no edges that the passes do not follow.
Dense == {p \in Layered \cup Lossy : p.edges \subseteq Flow \cup {<<"Part", "h2", "h1">>} /\
            Data({<<"f1", "f2">>}) \subseteq p.edges /\ p.ipc # {} }
=============================================================================
