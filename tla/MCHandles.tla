----------------------------- MODULE MCHandles -----------------------------
(* Handles with two variables of each type.                                 *)
EXTENDS Handles, TLC

CONSTANTS l1, l2, v1, v2, h1, h2, i1, i2, i3, i4, i5, i6, k1, k2

MCLocks == {l1, l2}
MCVnodes == {v1, v2}
MCHandlesOf == {h1, h2}
MCIds == {i1, i2, i3, i4, i5, i6}
MCKthreads == {k1, k2}
MCContextCode == <<[op |-> "adrp", immhi |-> 1, immlo |-> 3], [op |-> "add64", imm12 |-> 2]>>
Symmetry == Permutations(MCLocks) \cup Permutations(MCVnodes) \cup Permutations(MCHandlesOf)
                \cup Permutations(MCIds) \cup Permutations(MCKthreads)
=============================================================================
