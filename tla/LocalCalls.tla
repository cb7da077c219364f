----------------------------- MODULE LocalCalls -----------------------------
(***************************************************************************)
(* What the two processes pretend to be: one sequential program that links *)
(* the library.  Functions of the program and of the library call each     *)
(* other, and calls return in last-in first-out order.                     *)
(***************************************************************************)
EXTENDS Naturals, Sequences

CONSTANTS ProgramCodes, LibraryCodes

VARIABLE stack  \* codes of the active calls; odd positions run in the library

\* The calls the running function may make.
Callable == IF Len(stack) % 2 = 0 THEN ProgramCodes ELSE LibraryCodes

Init == stack = <<>>
Call(c) == stack' = Append(stack, c)
Return == stack # <<>> /\ stack' = SubSeq(stack, 1, Len(stack) - 1)
Next == Return \/ \E c \in Callable : Call(c)
Spec == Init /\ [][Next]_stack
=============================================================================
