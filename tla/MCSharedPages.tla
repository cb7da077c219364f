--------------------------- MODULE MCSharedPages ---------------------------
(* Instances of SharedPages: one thread in each of two processes, and two   *)
(* threads in one process.                                                  *)
EXTENDS SharedPages, TLC

CONSTANTS program, library, thread

Sides == {program, library}
SidesProc == [t \in Sides |-> t]
TwoThreads == {program, thread}
SlotSymmetry == Permutations(Slots)
TwoThreadsProc == [t \in TwoThreads |-> program]
=============================================================================
