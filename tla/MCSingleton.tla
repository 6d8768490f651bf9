---------------------------- MODULE MCSingleton ----------------------------
(* Singleton on small instances.                                            *)
EXTENDS Singleton, TLC

CONSTANTS a, b, c

OneMaker  == {a}
TwoMakers == {a, b}
AllThree  == {a, b, c}
=============================================================================
