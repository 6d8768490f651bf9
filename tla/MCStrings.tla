----------------------------- MODULE MCStrings -----------------------------
(* Strings with two threads and three names.                                *)
EXTENDS Strings, TLC

CONSTANTS t1, t2, n1, n2, n3, b1, b2, b3, b4

MCThreads == {t1, t2}
MCNames == {n1, n2, n3}
MCBlocks == {b1, b2, b3, b4}
Symmetry == Permutations(MCThreads) \cup Permutations(MCNames) \cup Permutations(MCBlocks)
=============================================================================
