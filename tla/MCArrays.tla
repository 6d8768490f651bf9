------------------------------ MODULE MCArrays ------------------------------
(* Arrays on small instances: two at a time, and one buffer more to grow    *)
(* into.  As those are of one kind, both names of every kind are swapped.   *)
EXTENDS Arrays, TLC

CONSTANTS vec1, vec2, set1, set2, arr1, arr2, raw1, raw2, opt1, opt2, b1, b2, b3

MCVectors == {vec1, vec2}
MCSets == {set1, set2}
MCArraysOfTwo == {arr1, arr2}
MCRaws == {raw1, raw2}
MCOptionals == {opt1, opt2}
MCBuffers == {b1, b2, b3}
Names1 == <<vec1, set1, arr1, raw1, opt1>>
Names2 == <<vec2, set2, arr2, raw2, opt2>>
Swap == [n \in Range(Names1) \cup Range(Names2) |->
            LET i == CHOOSE i \in 1..5 : n \in {Names1[i], Names2[i]}
            IN  IF n = Names1[i] THEN Names2[i] ELSE Names1[i]]
Symmetry == Permutations(MCBuffers) \cup {Swap @@ f : f \in Permutations(MCBuffers)}
=============================================================================
