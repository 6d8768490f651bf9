------------------------------- MODULE MCMap -------------------------------
(* Map on small instances.                                                  *)
EXTENDS Map, TLC

CONSTANTS k1, k2, k3

\* All homes at the end of a table of four: probing wraps around.
Colliding == (k1 :> 3 @@ k2 :> 3 @@ k3 :> 0)
=============================================================================
