------------------------------ MODULE MCLocker ------------------------------
(* Locker with two threads.                                                 *)
EXTENDS Locker

CONSTANTS t1, t2

MCThreads == {t1, t2}
=============================================================================
