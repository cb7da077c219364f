---------------------------- MODULE MCStatusLock ----------------------------
(* Instances of StatusLock: the first process of the program and two more.  *)
EXTENDS StatusLock, TLC

CONSTANTS main, fork1, fork2

MCProcs == {main, fork1, fork2}
ForkSymmetry == Permutations({fork1, fork2})
=============================================================================
