----------------------------- MODULE Dictionary -----------------------------
(***************************************************************************)
(* What dstd::Map promises: a finite function from keys to values.  res is *)
(* what the last call returned.                                            *)
(***************************************************************************)
CONSTANTS Keys, Values,
          None, \* the null pointer find() returns for a missing key
          Lost  \* the value of an entry that is no more

VARIABLES dict, res

vars == <<dict, res>>

Empty == [k \in {} |-> None]

With(d, k, v) == [j \in DOMAIN d \cup {k} |-> IF j = k THEN v ELSE d[j]]

Without(d, k) == [j \in DOMAIN d \ {k} |-> d[j]]

Init == dict = Empty /\ res = "ok"

Insert(k, v) == dict' = With(dict, k, v) /\ res' = "ok"

\* The value of an entry of the same dictionary is inserted, or what is left
\* of it.
InsertElement(k, j) == Insert(k, dict[j]) \/ Insert(k, Lost)

\* Want of memory: the call has no effect.
InsertFails == res' = "noSpace" /\ UNCHANGED dict

Find(k) == /\ res' = IF k \in DOMAIN dict THEN dict[k] ELSE None
           /\ UNCHANGED dict

Remove(k) == IF k \in DOMAIN dict
               THEN dict' = Without(dict, k) /\ res' = "ok"
               ELSE res' = "notFound" /\ UNCHANGED dict

\* clear(), a move out of the map, or a fresh map assigned to it.
Clear == dict' = Empty /\ res' = "ok"

Next == \/ \E k \in Keys : \/ Find(k) \/ Remove(k)
                           \/ \E v \in Values : Insert(k, v)
                           \/ \E j \in DOMAIN dict : InsertElement(k, j)
        \/ InsertFails
        \/ Clear

Spec == Init /\ [][Next]_vars
=============================================================================
