------------------------- MODULE MCFileDescriptors -------------------------
(* Instances of FileDescriptors: one thread in each process, and two        *)
(* threads in the program.                                                  *)
EXTENDS FileDescriptors, TLC

CONSTANTS main, worker, handler, f1, f2, f3, f4

OneEach == {main, handler}
TwoThreads == {main, worker}
MCProcOf == [t \in Threads |-> IF t = handler THEN "library" ELSE "program"]
MCOpener == [f \in Files |-> IF f = f4 THEN "library" ELSE "program"]
FileSymmetry == Permutations(Files \ {f4})
=============================================================================
