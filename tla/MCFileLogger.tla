---------------------------- MODULE MCFileLogger ----------------------------
(* FileLogger on small instances: two threads and the flusher.              *)
EXTENDS FileLogger, TLC

CONSTANTS t1, t2

MCThreads == {t1, t2}
Symmetry == Permutations(MCThreads)
=============================================================================
