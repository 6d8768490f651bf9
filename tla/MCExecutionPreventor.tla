------------------------ MODULE MCExecutionPreventor ------------------------
(* ExecutionPreventor on small instances.                                   *)
EXTENDS ExecutionPreventor, TLC

CONSTANTS c1, c2

MCCallbacks == {c1, c2}
Symmetry == Permutations(MCCallbacks)
=============================================================================
